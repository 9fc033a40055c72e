------------------------------ MODULE EtaCache ------------------------------
(***************************************************************************)
(* The detail of one bus as passengers ask for it (bus_detail of           *)
(* app/api/public.py, assemble_bus_detail of search_service.py) with the   *)
(* cached arrival time in it (compute_eta of eta_service.py).  An arrival  *)
(* time is the route and the position it was computed from; RouteRegistry  *)
(* says how.  A task is a request suspended at an await.                   *)
(***************************************************************************)
EXTENDS Naturals

CONSTANTS
  Routes, Positions,
  None,     \* no route, no live position, nothing cached
  Tasks     \* bound: requests served at a time

VARIABLES
  route,   \* buses.route_id
  live,    \* bus:<id>:location, as TripTracking keeps it
  cached,  \* bus:<id>:eta
  task,
  detail   \* the last answer: [live, route, eta]

vars == <<route, live, cached, task, detail>>

NoTask    == [pc |-> "idle"]
Eta(r, x) == [route |-> r, at |-> x]
-----------------------------------------------------------------------------
(* Faulty variants, each a plausible slip; nothing in the model uses them. *)
NeverDue    == FALSE                                  \* set without ex
OnRoute(r)  == r # None                               \* asks without a position
-----------------------------------------------------------------------------
Init ==
  /\ route \in Routes \cup {None} /\ live = None /\ cached = None
  /\ task = [w \in Tasks |-> NoTask]
  /\ detail = [live |-> None, route |-> None, eta |-> None]

(* What drivers do: TripTracking, BusRegistry.                             *)
ShowFix(x)     == live' = x /\ UNCHANGED <<route, cached, task, detail>>
EndTrip        == live # None /\ live' = None /\ UNCHANGED <<route, cached, task, detail>>
AssignRoute(r) == route' = r /\ UNCHANGED <<live, cached, task, detail>>

(* bus_detail loads the bus with its route, then the live position.        *)
LoadBus(w) ==
  /\ task[w] = NoTask
  /\ task' = [task EXCEPT ![w] = [pc |-> "live", route |-> route]]
  /\ UNCHANGED <<route, live, cached, detail>>

Answer(w, x, r, eta) ==
  /\ detail' = [live |-> x, route |-> r, eta |-> eta]
  /\ task' = [task EXCEPT ![w] = NoTask]

Computes(r) == live # None /\ r # None

GetLive(w) ==
  /\ task[w].pc = "live"
  /\ LET r == task[w].route IN
       IF Computes(r)
       THEN /\ task' = [task EXCEPT ![w] = [pc |-> "cache", route |-> r, live |-> live]]
            /\ UNCHANGED detail
       ELSE Answer(w, live, r, None)
  /\ UNCHANGED <<route, live, cached>>

(* compute_eta: what is cached for the bus, whatever it was computed from. *)
GetCached(w) ==
  /\ task[w].pc = "cache"
  /\ LET t == task[w] IN
       IF cached # None
       THEN Answer(w, t.live, t.route, cached)
       ELSE task' = [task EXCEPT ![w].pc = "set"] /\ UNCHANGED detail
  /\ UNCHANGED <<route, live, cached>>

(* Projection, median speed and stops take awaits of their own.            *)
SetCached(w) ==
  /\ task[w].pc = "set"
  /\ LET t == task[w] IN
       /\ cached' = Eta(t.route, t.live)
       /\ Answer(w, t.live, t.route, cached')
  /\ UNCHANGED <<route, live>>

(* "ETA is best-effort."                                                   *)
EtaFails(w) ==
  /\ task[w].pc \in {"cache", "set"}
  /\ Answer(w, task[w].live, task[w].route, None)
  /\ UNCHANGED <<route, live, cached>>

(* set with ex = redis_eta_ttl_seconds                                     *)
Due == cached # None

ExpireEta ==
  /\ Due
  /\ cached' = None
  /\ UNCHANGED <<route, live, task, detail>>

Step(w) == GetLive(w) \/ GetCached(w) \/ SetCached(w) \/ EtaFails(w)

Next ==
  \/ \E x \in Positions : ShowFix(x)
  \/ EndTrip \/ ExpireEta
  \/ \E r \in Routes : AssignRoute(r)
  \/ \E w \in Tasks : LoadBus(w) \/ Step(w)

(* Requests that were made are served, and time passes.  Nothing obliges a *)
(* passenger to ask: the map screen does so once, when it opens.           *)
Fairness == WF_vars(ExpireEta) /\ \A w \in Tasks : WF_vars(Step(w))

FairSpec == Init /\ [][Next]_vars /\ Fairness
-----------------------------------------------------------------------------
TypeOK ==
  /\ route \in Routes \cup {None} /\ live \in Positions \cup {None}
  /\ {cached, detail.eta} \subseteq {None} \cup [route : Routes, at : Positions]
  /\ \A w \in Tasks : task[w].pc \in {"idle", "live", "cache", "set"}

(* An answer may hold an arrival time of the route before, of the trip     *)
(* before or of a request that was slow, and a slow request may cache it   *)
(* again when it had expired.  But once a bus keeps its route and stands   *)
(* still there is a last such answer: whoever asks later, or again, is     *)
(* told its own arrival time or none.                                      *)
OldEtaFades ==
  \A r \in Routes, x \in Positions :
    <>[](route = r /\ live = x) => <>[][detail'.eta \in {None, Eta(r, x)}]_detail

(* A bus without a trip is in the end reported without an arrival time,    *)
(* although nothing deletes what is cached.                                *)
EndedHasNoEta ==
  <>[](live = None) => <>[][detail'.live = None /\ detail'.eta = None]_detail

(* What is answered about a bus in the end, whatever was cached before.    *)
ArrivalTimesFade == OldEtaFades /\ EndedHasNoEta
=============================================================================
