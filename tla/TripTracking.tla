---------------------------- MODULE TripTracking ----------------------------
(***************************************************************************)
(* The trip endpoints of the backend and the tracking service behind them: *)
(* start_trip, share_location and end_trip (app/api/trips.py), ingest,     *)
(* _publish_live and end_trip (app/services/tracking_service.py).          *)
(*                                                                         *)
(* Every request is served by an asyncio task that runs from one await to  *)
(* the next; h[w] is the task in slot w: where it is suspended and what it *)
(* has read so far.  Three stores outlive a task: the database (trips,     *)
(* recorded, busRoute), the key-value store (live) and the broker, of      *)
(* which feed keeps everything ever published.                             *)
(*                                                                         *)
(* Left out: coordinates and the anomaly flag (no step depends on them),   *)
(* timestamps, the counters of the rate limiter (its answer is a choice    *)
(* here) and the subscribers of the feed.                                  *)
(***************************************************************************)
EXTENDS Naturals, Sequences, FiniteSets, TripData

CONSTANTS
  Drivers, Buses, Routes,
  Owner,             \* Owner[b]: buses.driver_id, set once by register_bus
  TripIds,           \* bound: the ids that trips.id can take
  MaxPoints,         \* bound: no fix is sent once a trip has this many
  Handlers,          \* bound: requests the server works on at a time
  NoRoute,           \* buses.route_id IS NULL
  SharedStore,       \* TRUE: Redis; FALSE: MemoryStore and MemoryBroker
  OneRequestAtATime, \* the driver's phone waits for each answer
  MayFail            \* tasks may raise at an await, the server may restart

ASSUME TrackingAssumption ==
  /\ Owner \in [Buses -> Drivers]
  /\ IsFiniteSet(TripIds)
  /\ IsFiniteSet(Handlers)
  /\ MaxPoints \in Nat
  /\ NoRoute \notin Routes
  /\ {SharedStore, OneRequestAtATime, MayFail} \subseteq BOOLEAN

VARIABLES
  trips,      \* table trips: NoTrip or a row
  recorded,   \* table location_points: number of rows of each trip
  busRoute,   \* buses.route_id
  live,       \* key "bus:{id}:pos" of every bus
  feed,       \* everything published on channel "bus:{id}"
  h           \* the request handlers

vars == <<trips, recorded, busRoute, live, feed, h>>

Idle == [pc |-> "idle"]

StartTasks  == [pc : {"check_active", "insert_trip"}, bus : Buses, route : Routes]
ShareTasks  == [pc : {"insert_point"}, trip : TripIds, seen : Nat]
FanOutTasks == [pc : {"set_live", "publish_fix"}, trip : TripIds, point : Nat]
EndTasks    == [pc : {"commit_end", "delete_live", "publish_ended"}, trip : TripIds]
Tasks       == {Idle} \cup StartTasks \cup ShareTasks \cup FanOutTasks \cup EndTasks

TripRows == [status : {"active", "ended"}, bus : Buses, route : Routes, total : Nat]

Starting(w) == h[w].pc \in {"check_active", "insert_trip"}

(* The bus a task is about.                                                *)
TaskBus(w) == IF Starting(w) THEN h[w].bus ELSE trips[h[w].trip].bus

(* The phone of driver d sends a request: with OneRequestAtATime, only     *)
(* when none of d's requests is still being served.                        *)
MaySend(d) ==
  OneRequestAtATime => \A w \in Handlers : h[w] # Idle => Owner[TaskBus(w)] # d

-----------------------------------------------------------------------------
(* Faulty variants of the operators below, each a plausible slip in the    *)
(* code; nothing in the model uses them.  With one of them in place of the *)
(* operator it is named after, one of the properties must break.           *)
TripExists(t)              == trips[t] # NoTrip            \* status unchecked
CountedBack(t, seen)       == [trips[t] EXCEPT !.total = seen - 1]
CountedTwice(t, seen)      == [trips[t] EXCEPT !.total = seen + 2]
WholeRowWritten(t, seen)   == [trips[t] EXCEPT !.total = seen + 1, !.status = "active"]
ToShowFirst(t)             == [pc |-> "set_live", trip |-> t, point |-> recorded[t] + 1]
ToPublishBeforeCommit(t)   == [pc |-> "publish_ended", trip |-> t]
NotDropped(b)              == live                         \* no store.delete
AllDropped(b)              == [c \in Buses |-> NoPosition] \* wrong key deleted
BroadcastTwice(b, m)       == [feed EXCEPT ![b] = Append(Append(@, m), m)]
HasMovingTrip(d) ==                                        \* trips without a fix overlooked
  \E t \in TripIds :
    trips[t].status = "active" /\ Owner[trips[t].bus] = d /\ trips[t].total > 0
SetWithoutExpiry(b)        == FALSE                        \* no ex=

-----------------------------------------------------------------------------
(* The status checks of share_location and end_trip.                       *)
TripIsActive(t) == trips[t].status = "active"

(* trip.total_points += 1 on the value that was loaded with the trip.  The *)
(* UPDATE names only this column: a status changed meanwhile is kept.      *)
CountedTrip(t, seen) == [trips[t] EXCEPT !.total = seen + 1]

(* What a task has to do next, once it has read or committed the trip.     *)
ToInsertPoint(t)  == [pc |-> "insert_point", trip |-> t, seen |-> trips[t].total]
ToShowFix(t, n)   == [pc |-> "set_live", trip |-> t, point |-> n]
ToCommitEnd(t)    == [pc |-> "commit_end", trip |-> t]
ToPublishEnded(t) == [pc |-> "publish_ended", trip |-> t]

(* store.set, store.delete and broker.publish for bus b.                   *)
Shown(b, p)     == [live EXCEPT ![b] = p]
Dropped(b)      == [live EXCEPT ![b] = NoPosition]
Broadcast(b, m) == [feed EXCEPT ![b] = Append(@, m)]

Init ==
  /\ trips = [t \in TripIds |-> NoTrip]
  /\ recorded = [t \in TripIds |-> 0]
  /\ busRoute = [b \in Buses |-> NoRoute]
  /\ live = [b \in Buses |-> NoPosition]
  /\ feed = [b \in Buses |-> <<>>]
  /\ h = [w \in Handlers |-> Idle]

-----------------------------------------------------------------------------
(* assign_route: no look at the bus's trips or at its approval.            *)
AssignRoute(b, r) ==
  /\ busRoute' = [busRoute EXCEPT ![b] = r]
  /\ UNCHANGED <<trips, recorded, live, feed, h>>

-----------------------------------------------------------------------------
(* start_trip.  The bus is the driver's own and is assigned the requested  *)
(* route; any other request is refused without a trace.  The last conjunct *)
(* is the bound TripIds: an id is left for every task on its way.          *)
StartLoad(w, b, r) ==
  /\ h[w] = Idle
  /\ MaySend(Owner[b])
  /\ busRoute[b] = r
  /\ Cardinality({v \in Handlers : Starting(v)})
       < Cardinality({t \in TripIds : trips[t] = NoTrip})
  /\ h' = [h EXCEPT ![w] = [pc |-> "check_active", bus |-> b, route |-> r]]
  /\ UNCHANGED <<trips, recorded, busRoute, live, feed>>

HasActiveTrip(d) ==
  \E t \in TripIds : trips[t].status = "active" /\ Owner[trips[t].bus] = d

(* "An active trip is already running for this driver".                    *)
StartRefused(w) ==
  /\ h[w].pc = "check_active"
  /\ HasActiveTrip(Owner[h[w].bus])
  /\ h' = [h EXCEPT ![w] = Idle]
  /\ UNCHANGED <<trips, recorded, busRoute, live, feed>>

StartChecked(w) ==
  /\ h[w].pc = "check_active"
  /\ ~HasActiveTrip(Owner[h[w].bus])
  /\ h' = [h EXCEPT ![w].pc = "insert_trip"]
  /\ UNCHANGED <<trips, recorded, busRoute, live, feed>>

StartInsert(w) ==
  /\ h[w].pc = "insert_trip"
  /\ \E t \in TripIds :
       /\ trips[t] = NoTrip
       /\ trips' = [trips EXCEPT ![t] =
            [status |-> "active", bus |-> h[w].bus, route |-> h[w].route, total |-> 0]]
  /\ h' = [h EXCEPT ![w] = Idle]
  /\ UNCHANGED <<recorded, busRoute, live, feed>>

-----------------------------------------------------------------------------
(* share_location reads the trip, its status and its total_points, then    *)
(* asks the rate limiter and awaits the last position and the route.       *)
ShareLoad(w, t) ==
  /\ h[w] = Idle
  /\ TripIsActive(t)
  /\ MaySend(Owner[trips[t].bus])
  /\ recorded[t] < MaxPoints
  /\ h' = [h EXCEPT ![w] = ToInsertPoint(t)]
  /\ UNCHANGED <<trips, recorded, busRoute, live, feed>>

(* "Location updates too frequent" or "invalid_coordinates".               *)
ShareRefused(w) ==
  /\ h[w].pc = "insert_point"
  /\ h' = [h EXCEPT ![w] = Idle]
  /\ UNCHANGED <<trips, recorded, busRoute, live, feed>>

(* ingest commits the new fix and total_points in one transaction.         *)
InsertPoint(w) ==
  /\ h[w].pc = "insert_point"
  /\ LET t == h[w].trip IN
       /\ recorded' = [recorded EXCEPT ![t] = @ + 1]
       /\ trips' = [trips EXCEPT ![t] = CountedTrip(t, h[w].seen)]
       /\ h' = [h EXCEPT ![w] = ToShowFix(t, recorded[t] + 1)]
  /\ UNCHANGED <<busRoute, live, feed>>

(* _publish_live.  With Redis both calls suspend the task; the in-memory   *)
(* store and broker complete them without giving up the event loop.        *)
SetLive(w) ==
  /\ SharedStore
  /\ h[w].pc = "set_live"
  /\ live' = Shown(TaskBus(w), Fix(h[w].trip, h[w].point))
  /\ h' = [h EXCEPT ![w].pc = "publish_fix"]
  /\ UNCHANGED <<trips, recorded, busRoute, feed>>

PublishFix(w) ==
  /\ h[w].pc = "publish_fix"
  /\ feed' = Broadcast(TaskBus(w), Fix(h[w].trip, h[w].point))
  /\ h' = [h EXCEPT ![w] = Idle]
  /\ UNCHANGED <<trips, recorded, busRoute, live>>

ShowFix(w) ==
  /\ ~SharedStore
  /\ h[w].pc = "set_live"
  /\ live' = Shown(TaskBus(w), Fix(h[w].trip, h[w].point))
  /\ feed' = Broadcast(TaskBus(w), Fix(h[w].trip, h[w].point))
  /\ h' = [h EXCEPT ![w] = Idle]
  /\ UNCHANGED <<trips, recorded, busRoute>>

-----------------------------------------------------------------------------
(* end_trip: commit the status, drop the position, broadcast the end.      *)
EndLoad(w, t) ==
  /\ h[w] = Idle
  /\ TripIsActive(t)
  /\ MaySend(Owner[trips[t].bus])
  /\ h' = [h EXCEPT ![w] = ToCommitEnd(t)]
  /\ UNCHANGED <<trips, recorded, busRoute, live, feed>>

CommitEnd(w) ==
  /\ h[w].pc = "commit_end"
  /\ trips' = [trips EXCEPT ![h[w].trip].status = "ended"]
  /\ h' = [h EXCEPT ![w].pc = "delete_live"]
  /\ UNCHANGED <<recorded, busRoute, live, feed>>

DeleteLive(w) ==
  /\ SharedStore
  /\ h[w].pc = "delete_live"
  /\ live' = Dropped(TaskBus(w))
  /\ h' = [h EXCEPT ![w] = ToPublishEnded(h[w].trip)]
  /\ UNCHANGED <<trips, recorded, busRoute, feed>>

PublishEnded(w) ==
  /\ h[w].pc = "publish_ended"
  /\ feed' = Broadcast(TaskBus(w), Ended(h[w].trip))
  /\ h' = [h EXCEPT ![w] = Idle]
  /\ UNCHANGED <<trips, recorded, busRoute, live>>

ShowEnded(w) ==
  /\ ~SharedStore
  /\ h[w].pc = "delete_live"
  /\ live' = Dropped(TaskBus(w))
  /\ feed' = Broadcast(TaskBus(w), Ended(h[w].trip))
  /\ h' = [h EXCEPT ![w] = Idle]
  /\ UNCHANGED <<trips, recorded, busRoute>>

-----------------------------------------------------------------------------
(* The key of a position outlives its last SET by redis_location_ttl       *)
(* seconds; how long a task is suspended is unbounded, so it may expire    *)
(* between any two steps.                                                  *)
TimeIsUp(b) == live[b] # NoPosition

ExpireLive(b) ==
  /\ TimeIsUp(b)
  /\ live' = Dropped(b)
  /\ UNCHANGED <<trips, recorded, busRoute, feed, h>>

(* A database or Redis call raises: the request is answered with an error  *)
(* and nothing that was already committed, set or published is undone.     *)
TaskFails(w) ==
  /\ MayFail
  /\ h[w] # Idle
  /\ h' = [h EXCEPT ![w] = Idle]
  /\ UNCHANGED <<trips, recorded, busRoute, live, feed>>

(* All tasks are lost, and with the in-memory store the positions too.     *)
Restart ==
  /\ MayFail
  /\ h' = [w \in Handlers |-> Idle]
  /\ live' = IF SharedStore THEN live ELSE [b \in Buses |-> NoPosition]
  /\ UNCHANGED <<trips, recorded, busRoute, feed>>

-----------------------------------------------------------------------------
(* The steps of a task that has been accepted.                             *)
TaskStep(w) ==
  \/ StartRefused(w) \/ StartChecked(w) \/ StartInsert(w)
  \/ ShareRefused(w) \/ InsertPoint(w)
  \/ SetLive(w) \/ PublishFix(w) \/ ShowFix(w)
  \/ CommitEnd(w) \/ DeleteLive(w) \/ PublishEnded(w) \/ ShowEnded(w)

NewRequest(w) ==
  \/ \E b \in Buses, r \in Routes : StartLoad(w, b, r)
  \/ \E t \in TripIds : ShareLoad(w, t)
  \/ \E t \in TripIds : EndLoad(w, t)

Next ==
  \/ \E w \in Handlers : NewRequest(w) \/ TaskStep(w) \/ TaskFails(w)
  \/ \E b \in Buses, r \in Routes : AssignRoute(b, r)
  \/ \E b \in Buses : ExpireLive(b)
  \/ Restart

(* The event loop runs every task whose await has completed, and a key is  *)
(* removed once its time to live is over (MaxPoints bounds how often it    *)
(* can be renewed).  Nothing obliges a driver to send a request.           *)
Fairness ==
  /\ \A w \in Handlers : WF_vars(TaskStep(w))
  /\ \A b \in Buses : WF_vars(ExpireLive(b))

Spec == Init /\ [][Next]_vars

FairSpec == Spec /\ Fairness
-----------------------------------------------------------------------------
(* PROPERTIES OF EVERY RUN OF THE SERVER, failures and races included.     *)

Fixes    == [kind : {"fix"}, trip : TripIds, point : Nat]
Messages == Fixes \cup [kind : {"ended"}, trip : TripIds]

(* Every variable keeps its type; total_points and the number of stored    *)
(* fixes never leave the naturals.                                         *)
TypeOK ==
  /\ trips \in [TripIds -> {NoTrip} \cup TripRows]
  /\ recorded \in [TripIds -> Nat]
  /\ busRoute \in [Buses -> Routes \cup {NoRoute}]
  /\ live \in [Buses -> {NoPosition} \cup Fixes]
  /\ feed \in [Buses -> Seq(Messages)]
  /\ h \in [Handlers -> Tasks]

(* Fix p is in location_points, for a trip of bus b.                       *)
StoredFix(p, b) ==
  /\ p.kind = "fix"
  /\ trips[p.trip] # NoTrip
  /\ trips[p.trip].bus = b
  /\ p.point \in 1..recorded[p.trip]

(* What the public sees of a bus (the store's position, the snapshot of    *)
(* the WebSocket) is a fix of one of its own trips that the database has   *)
(* committed: ingest fans out only after db.commit().                      *)
LiveIsStored ==
  \A b \in Buses : live[b] # NoPosition => StoredFix(live[b], b)

(* Every broadcast is true of its bus when it is sent and ever after: a    *)
(* fix is stored, and a trip reported as ended is ended in the database    *)
(* even if the server dies before it does anything else.                   *)
IsTrueOf(m, b) ==
  \/ StoredFix(m, b)
  \/ m.kind = "ended" /\ trips[m.trip].status = "ended" /\ trips[m.trip].bus = b

FeedIsTrue ==
  \A b \in Buses : \A i \in 1..Len(feed[b]) : IsTrueOf(feed[b][i], b)

(* Whatever happened while a task was suspended, what it carries is still  *)
(* backed by the database when it resumes: its trip exists, it counted no  *)
(* fix that is not stored, it shows a stored fix, and it broadcasts the    *)
(* end of a trip that is over.                                             *)
TaskIsBacked(w) ==
  /\ h[w].pc = "insert_point" =>
       trips[h[w].trip] # NoTrip /\ h[w].seen <= recorded[h[w].trip]
  /\ h[w].pc \in {"set_live", "publish_fix"} =>
       trips[h[w].trip] # NoTrip /\ h[w].point \in 1..recorded[h[w].trip]
  /\ h[w].pc = "commit_end" => trips[h[w].trip] # NoTrip
  /\ h[w].pc \in {"delete_live", "publish_ended"} => trips[h[w].trip].status = "ended"

TasksAreBacked == \A w \in Handlers : TaskIsBacked(w)

(* total_points is read, incremented and written back by racing handlers   *)
(* of one trip: updates get lost, but the tally never exceeds the stored   *)
(* fixes.                                                                  *)
TallyNeverTooHigh ==
  \A t \in TripIds : trips[t] # NoTrip => trips[t].total <= recorded[t]

(* A handler that loaded an active trip and commits after the trip was     *)
(* ended must not bring it back: no step takes a trip out of "ended", nor  *)
(* gives an existing trip another bus or route.                            *)
EndedForGood ==
  [][\A t \in TripIds : trips[t] # NoTrip =>
       /\ trips'[t].status \in {trips[t].status, "ended"}
       /\ trips'[t].bus = trips[t].bus
       /\ trips'[t].route = trips[t].route]_trips

(* Seen from the database, the store and the broker alone, trip tracking   *)
(* behaves as TripLedger promises.                                         *)
LedgerRows ==
  [t \in TripIds |-> IF trips[t] = NoTrip THEN NoTrip
                     ELSE [status |-> trips[t].status, bus |-> trips[t].bus]]

Ledger == INSTANCE TripLedger WITH row <- LedgerRows

ImplementsLedger == Ledger!Spec

(* LIVENESS.  Even if a straggling handler puts the position of an ended   *)
(* trip back, or the server dies before it deletes it, the bus eventually  *)
(* leaves the map: the key expires.                                        *)
ShowsTrip(t) == \E b \in Buses : live[b] # NoPosition /\ live[b].trip = t

EndedTripLeavesMap ==
  \A t \in TripIds : <>(trips[t].status = "ended") => <>[]~ShowsTrip(t)

-----------------------------------------------------------------------------
(* PROPERTIES OF A DRIVER WHO WAITS FOR EVERY ANSWER (OneRequestAtATime).  *)
(* Failures are still allowed; the races of two requests are not.          *)

(* "An active trip is already running for this driver": the check of       *)
(* start_trip allows one active trip per driver, whatever the bus.         *)
OneActiveTripPerDriver ==
  \A s, t \in TripIds :
    (/\ TripIsActive(s) /\ TripIsActive(t)
     /\ Owner[trips[s].bus] = Owner[trips[t].bus]) => s = t

(* "A terminal message so watchers switch to trip ended": after it, the    *)
(* channel carries no fix of that trip.                                    *)
EndedIsTerminal ==
  \A b \in Buses : \A i, j \in 1..Len(feed[b]) :
    (/\ i < j
     /\ feed[b][i].kind = "ended"
     /\ feed[b][j].kind = "fix") => feed[b][i].trip # feed[b][j].trip

(* The fixes of a trip are broadcast in the order they were recorded and   *)
(* each at most once.                                                      *)
FixesInOrder ==
  \A b \in Buses : \A i, j \in 1..Len(feed[b]) :
    (/\ i < j
     /\ feed[b][i].kind = "fix" /\ feed[b][j].kind = "fix"
     /\ feed[b][i].trip = feed[b][j].trip) => feed[b][i].point < feed[b][j].point

(* What the channel carries of a trip: its fixes in order, then its end.   *)
FeedInOrder == EndedIsTerminal /\ FixesInOrder

(* Ending a trip never takes the position of a running trip off the map,   *)
(* neither that of the driver's next trip (two end requests for one trip   *)
(* could) nor that of another bus.                                         *)
EndHidesNoRunningTrip ==
  [][\A w \in Handlers, b \in Buses :
       (/\ h[w].pc = "delete_live" /\ h'[w].pc = "publish_ended"
        /\ live[b] # NoPosition /\ live'[b] = NoPosition)
         => ~TripIsActive(live[b].trip)]_vars

-----------------------------------------------------------------------------
(* PROPERTIES OF THE IN-MEMORY STORE AND BROKER (~SharedStore).            *)

(* Store and broker change within one turn of the event loop, so the       *)
(* position a watcher is given when it connects is the last broadcast of   *)
(* the bus: the snapshot never contradicts the stream.                     *)
LiveIsLastBroadcast ==
  \A b \in Buses :
    live[b] # NoPosition => feed[b] # <<>> /\ live[b] = feed[b][Len(feed[b])]
=============================================================================
