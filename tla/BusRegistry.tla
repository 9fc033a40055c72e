----------------------------- MODULE BusRegistry -----------------------------
(***************************************************************************)
(* Buses as drivers register them (app/api/driver.py) and the              *)
(* administrator judges them (app/api/admin.py).  A task is a request      *)
(* suspended at an await.  TripTracking puts buses on routes and starts    *)
(* their trips: neither asks for the verdict.                              *)
(***************************************************************************)
EXTENDS BusPlates, Naturals, Sequences, SequencesExt

CONSTANTS
  MaxBuses, \* bound: rows of table buses
  Tasks     \* bound: requests served at a time

VARIABLES
  oneByOne, \* whether requests wait for one another
  buses,    \* table buses
  task

busVars == <<oneByOne, buses, task>>

NoTask == [pc |-> "idle"]
Rows   == 1..Len(buses)
-----------------------------------------------------------------------------
(* Faulty variants, each a plausible slip; nothing in the model uses them. *)
AsTyped(p)           == p
KeepsReason(verdict) == BOOLEAN               \* also when it approves
-----------------------------------------------------------------------------
BusInit ==
  /\ oneByOne \in BOOLEAN
  /\ buses = <<>>
  /\ task = [w \in Tasks |-> NoTask]

MayBegin(w) ==
  /\ task[w] = NoTask
  /\ oneByOne => \A v \in Tasks : task[v] = NoTask

(* register_bus compares with what was typed and stores the canonical      *)
(* form; (bus_number, rto_number) is unique, so a second row is an error.  *)
Stored(p) == Canonical[p]
Taken(p)  == \E b \in Rows : buses[b].plate = p

CheckPlate(w, p) ==
  /\ MayBegin(w)
  /\ ~Taken(p)
  /\ task' = [task EXCEPT ![w] = [pc |-> "register", plate |-> p]]
  /\ UNCHANGED <<oneByOne, buses>>

RegisterBus(w) ==
  /\ task[w].pc = "register"
  /\ LET p == Stored(task[w].plate) IN
       \/ Taken(p) /\ UNCHANGED buses
       \/ /\ ~Taken(p) /\ Len(buses) < MaxBuses
          /\ buses' = Append(buses, [plate |-> p, status |-> "pending",
                                     reason |-> FALSE])
  /\ task' = [task EXCEPT ![w] = NoTask]
  /\ UNCHANGED oneByOne

(* approve_bus and reject_bus load the row, then commit the columns whose  *)
(* new value is not the one they loaded.  A rejection takes its reason     *)
(* from the body of the request, which may say that it is null; if it says *)
(* nothing there is a default.                                             *)
Reasons(verdict) == IF verdict = "rejected" THEN BOOLEAN ELSE {FALSE}

Load(w, b, verdict) ==
  /\ MayBegin(w)
  /\ b \in Rows
  /\ \E given \in Reasons(verdict) :
       task' = [task EXCEPT ![w] = [pc |-> verdict, bus |-> b, status |-> buses[b].status,
                                    reason |-> buses[b].reason, given |-> given]]
  /\ UNCHANGED <<oneByOne, buses>>

Written(new, seen, now) == IF new = seen THEN now ELSE new

Judge(w) ==
  /\ task[w].pc \in {"approved", "rejected"}
  /\ LET t == task[w] IN
       buses' = [buses EXCEPT
         ![t.bus].status = Written(t.pc, t.status, @),
         ![t.bus].reason = Written(t.given, t.reason, @)]
  /\ task' = [task EXCEPT ![w] = NoTask]
  /\ UNCHANGED oneByOne

BusNext ==
  \E w \in Tasks :
    \/ \E p \in Plates : CheckPlate(w, p)
    \/ \E b \in 1..MaxBuses, verdict \in {"approved", "rejected"} : Load(w, b, verdict)
    \/ RegisterBus(w) \/ Judge(w)

BusSpec == BusInit /\ [][BusNext]_busVars
-----------------------------------------------------------------------------
BusTypeOK ==
  /\ oneByOne \in BOOLEAN
  /\ \A b \in Rows : buses[b] \in [plate : Range(Canonical), reason : BOOLEAN,
                                   status : {"pending", "approved", "rejected"}]

(* Whatever spaces and cases its number was typed in, and whoever raced, a *)
(* bus has one row.                                                        *)
OnePerPlate ==
  \A b, c \in Rows : Canonical[buses[b].plate] = Canonical[buses[c].plate] => b = c

(* A driver is shown a reason for a rejection only: none of an earlier one *)
(* stays with a bus that is approved, as long as two verdicts do not       *)
(* overlap.                                                                *)
ReasonFitsVerdict ==
  oneByOne => \A b \in Rows : buses[b].reason => buses[b].status = "rejected"

(* What drivers rely on: one row per bus, and no reason that its verdict   *)
(* contradicts.                                                            *)
BusesAreSound == OnePerPlate /\ ReasonFitsVerdict
=============================================================================
