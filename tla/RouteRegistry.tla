---------------------------- MODULE RouteRegistry ----------------------------
(***************************************************************************)
(* The routes of one district: how a driver's route is built               *)
(* (route_service.py behind build_route_endpoint of app/api/driver.py),    *)
(* verified (app/api/admin.py) and found by passengers (search_service.py, *)
(* find_routes of app/api/public.py).  A task is a request suspended at an *)
(* await; a stop keeps its progress as a distance along the polyline.      *)
(***************************************************************************)
EXTENDS RouteGeometry, FiniteSets

CONSTANTS
  Villages, Place,  \* Place[v]: where village v lies
  Requests,         \* bound: the <<from, to>> drivers ask for
  Detours,          \* bound: positions a road may pass by on its way
  Threshold,        \* settings.route_snap_threshold_m
  Servers,          \* how many OSRM servers are configured
  Grain,            \* compute_eta takes a stop within 1/Grain of the road for reached: 1000
  MaxRoutes,        \* bound: rows of table routes
  Builders          \* bound: requests served at a time

ASSUME RouteAssumption ==
  /\ IsFiniteSet(Villages) /\ IsFiniteSet(Builders)
  /\ Place \in [Villages -> [at : Int, off : Int]]
  /\ Requests \subseteq Villages \X Villages /\ Detours \subseteq Int
  /\ Servers \in Nat /\ Grain \in Nat \ {0}

VARIABLES
  osrm,       \* roads come from OSRM servers; FALSE: _osrm_fallback_mode
  buildsWait, \* whether requests to build wait for one another
  located,    \* villages with has_coords
  routes,     \* table routes, each row with its route_stops
  build

routeVars == <<osrm, buildsWait, located, routes, build>>

NoBuild   == [pc |-> "idle"]
At(v)     == Place[v].at
RouteRows == 1..Len(routes)

(* stops = {village_id: progress}: the last of a village wins.             *)
ProgressOf(r, v) ==
  LET at == {i \in 1..Len(r.stops) : r.stops[i].village = v}
  IN IF at = {} THEN {} ELSE {r.stops[Max(at)].progress}
-----------------------------------------------------------------------------
(* Faulty variants, each a plausible slip; nothing in the model uses them. *)
Unlocated(from, to)     == from # to
NoRow(from, to)         == {}
EndsToo(from, to, line) == {v \in located : Within(Place[v], line, Threshold)}
AnyStop(r, x)           == {i \in 1..Len(r.stops) : r.stops[i].progress >= Along(x, r.line)}
Backwards(r, u, v)      == \E d \in ProgressOf(r, u), e \in ProgressOf(r, v) : e < d
-----------------------------------------------------------------------------
RouteInit ==
  /\ osrm \in BOOLEAN /\ buildsWait \in BOOLEAN
  /\ located \in SUBSET Villages
  /\ routes = <<>>
  /\ build = [w \in Builders |-> NoBuild]

(* The ingest of villages gives one coordinates.                           *)
LocateVillage(v) ==
  /\ v \notin located
  /\ located' = located \cup {v}
  /\ UNCHANGED <<osrm, buildsWait, routes, build>>

(* build_route: both villages have coordinates and differ, and no row of   *)
(* the same pair can be reused.                                            *)
Buildable(from, to) == {from, to} \subseteq located /\ from # to

Existing(from, to) == {r \in RouteRows : routes[r].from = from /\ routes[r].to = to}

Build(w, from, to) ==
  /\ build[w] = NoBuild
  /\ buildsWait => \A v \in Builders : build[v] = NoBuild
  /\ Buildable(from, to) /\ Existing(from, to) = {}
  /\ build' = [build EXCEPT ![w] = [pc |-> "fetch", from |-> from, to |-> to, server |-> 1]]
  /\ UNCHANGED <<osrm, buildsWait, located, routes>>

(* fetch_driving_polyline: OSRM is asked for the road {end};{start}, the   *)
(* fallback draws a line from start to end.                                *)
Polyline(from, to, d) ==
  IF osrm THEN <<At(to), d, At(from)>> ELSE <<At(from), (At(from) + At(to)) \div 2, At(to)>>

Fetch(w, d) ==
  /\ build[w].pc = "fetch"
  /\ build' = [build EXCEPT ![w] = [pc |-> "insert", from |-> @.from, to |-> @.to,
                                  line |-> Polyline(@.from, @.to, d)]]
  /\ UNCHANGED <<osrm, buildsWait, located, routes>>

(* The next server is tried; after the last the request is refused.        *)
FetchFails(w) ==
  /\ osrm /\ build[w].pc = "fetch"
  /\ build' = IF build[w].server < Servers THEN [build EXCEPT ![w].server = @ + 1]
              ELSE [build EXCEPT ![w] = NoBuild]
  /\ UNCHANGED <<osrm, buildsWait, located, routes>>

(* Nearby villages become stops between the two ends, by their progress.   *)
Snapped(from, to, line) ==
  {v \in located \ {from, to} : Within(Place[v], line, Threshold)}

ByProgress(S, line) ==
  CHOOSE s \in [1..Cardinality(S) -> S] :
    \A i, j \in DOMAIN s : i < j => s[i] # s[j] /\ Along(At(s[i]), line) <= Along(At(s[j]), line)

Stop(v, d) == [village |-> v, progress |-> d]

Stops(from, to, line) ==
  LET near == ByProgress(Snapped(from, to, line), line)
  IN <<Stop(from, 0)>> \o [i \in 1..Len(near) |-> Stop(near[i], Along(At(near[i]), line))]
       \o <<Stop(to, Length(line))>>

Insert(w) ==
  /\ build[w].pc = "insert"
  /\ Len(routes) < MaxRoutes
  /\ LET t == build[w] IN
       routes' = Append(routes, [from |-> t.from, to |-> t.to, line |-> t.line,
                                 status |-> "unverified",
                                 stops |-> Stops(t.from, t.to, t.line)])
  /\ build' = [build EXCEPT ![w] = NoBuild]
  /\ UNCHANGED <<osrm, buildsWait, located>>

VerifyRoute(r) ==
  /\ r \in RouteRows
  /\ routes' = [routes EXCEPT ![r].status = "active"]
  /\ UNCHANGED <<osrm, buildsWait, located, build>>

RouteNext ==
  \/ \E v \in Villages : LocateVillage(v)
  \/ \E w \in Builders :
       \/ \E p \in Requests : Build(w, p[1], p[2])
       \/ \E d \in Detours : Fetch(w, d)
       \/ FetchFails(w) \/ Insert(w)
  \/ \E r \in 1..MaxRoutes : VerifyRoute(r)

RouteSpec == RouteInit /\ [][RouteNext]_routeVars
-----------------------------------------------------------------------------
(* find_routes_for_pair                                                    *)
Connects(r, u, v) ==
  /\ r.status \in {"active", "unverified"}
  /\ \E d \in ProgressOf(r, u), e \in ProgressOf(r, v) : e > d

(* compute_eta at position x: what is left of the route, and the stops     *)
(* still ahead, the first of which is the next stop.  A stop counts as     *)
(* ahead when its fraction of the road is larger by more than 0.001.       *)
DistanceLeft(r, x)  == Length(r.line) - Along(x, r.line)
StopsAhead(r, x) ==
  {i \in 1..Len(r.stops) : (r.stops[i].progress - Along(x, r.line)) * Grain > Length(r.line)}
NextStop(r, x)   == IF StopsAhead(r, x) = {} THEN {} ELSE {Min(StopsAhead(r, x))}
-----------------------------------------------------------------------------
RouteTypeOK ==
  /\ {osrm, buildsWait} \subseteq BOOLEAN
  /\ located \subseteq Villages
  /\ \A r \in RouteRows : /\ {routes[r].from, routes[r].to} \subseteq located
                     /\ routes[r].status \in {"unverified", "active"}
  /\ \A w \in Builders : build[w].pc \in {"idle", "fetch", "insert"}

(* The same pair reuses its route.  Only requests that overlap can add     *)
(* another one, each of them at most one.                                  *)
OneRoutePerPair ==
  \A r \in RouteRows :
    Cardinality({q \in RouteRows : routes[q].from = routes[r].from /\ routes[q].to = routes[r].to})
      <= IF buildsWait THEN 1 ELSE Cardinality(Builders)

(* By seq a route starts and ends where the driver said, its progress      *)
(* never goes back, and no village is on it twice (the search keeps one    *)
(* progress per village).                                                  *)
StopsInOrder ==
  \A r \in RouteRows : LET s == routes[r].stops IN
    /\ s[1].village = routes[r].from /\ s[Len(s)].village = routes[r].to
    /\ \A i, j \in 1..Len(s) :
         i < j => s[i].progress <= s[j].progress /\ s[i].village # s[j].village

(* The projection of a village and the walk of the demo bus along the same *)
(* polyline agree: a stop has the progress at which the polyline first     *)
(* comes nearest to it, also where the road turns back.                    *)
StopsAreWhereRoadPasses ==
  \A r \in RouteRows, v \in Villages : ProjectsToFirstPassing(At(v), routes[r].line)

(* What a route is: the one of its pair, with its stops where they lie.    *)
RoutesAreSound == OneRoutePerPair /\ StopsInOrder /\ StopsAreWhereRoadPasses

(* The search goes with the polyline: of two stops it finds the first      *)
(* before the second only if the polyline passes them in this order at     *)
(* some point, and always if it passes them in no other.  The ends count   *)
(* in fallback mode only: OSRM's polylines run from `to' to `from'.        *)
Passes(line, u, v) == \E d \in Passings(At(u), line), e \in Passings(At(v), line) : d < e

SearchFollowsPolyline ==
  \A r \in RouteRows :
    LET stop == routes[r].stops
        line == routes[r].line
        Seqs == IF osrm THEN 2..(Len(stop) - 1) ELSE 1..Len(stop)
    IN \A i, j \in Seqs :
         LET u == stop[i].village  v == stop[j].village IN
           /\ Connects(routes[r], u, v) => Passes(line, u, v)
           /\ Passes(line, u, v) /\ ~Passes(line, v, u) => Connects(routes[r], u, v)

(* In fallback mode a bus that drives on has ever less before it; its next *)
(* stop lies ahead, is never one before the last it was given, and passes  *)
(* over nothing but stops the bus has reached or is about to, by the grain *)
(* of compute_eta; and it arrives with no stop left.                       *)
ArrivalComesNearer ==
  ~osrm => \A r \in RouteRows :
    LET route == routes[r]
        end == Length(route.line)
        Coming(d) == NextStop(route, PointAt(route.line, d))
        Left(d) == DistanceLeft(route, PointAt(route.line, d))
        Done(j, d) == (route.stops[j].progress - d) * Grain <= end
    IN /\ \A d \in 0..(end - 1) :
            /\ Left(d + 1) = Left(d) - 1
            /\ \A i \in Coming(d) : /\ route.stops[i].progress > d
                                  /\ \A j \in 1..(i - 1) : Done(j, d)
                                  /\ \A k \in Coming(d + 1) : i <= k
            /\ Coming(d) = {} => \A j \in 1..Len(route.stops) : Done(j, d)
       /\ Coming(end) = {}

(* "A route is only returned when travel is possible in the correct        *)
(* direction": the bus that runs from the start village to the end village *)
(* passes the first village before the second.                             *)
Travelled(r) ==
  IF At(r.from) = r.line[1] THEN r.line ELSE Reverse(r.line)

FoundIsTravelled ==
  \A r \in RouteRows, u, v \in Villages :
    Connects(routes[r], u, v) => Passes(Travelled(routes[r]), u, v)
=============================================================================
