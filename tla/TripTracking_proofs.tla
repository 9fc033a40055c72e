------------------------ MODULE TripTracking_proofs ------------------------
(***************************************************************************)
(* Proofs about TripTracking, for every fleet, every number of trips and   *)
(* of concurrent requests, with Redis or the in-memory store, with or      *)
(* without failures.                                                       *)
(***************************************************************************)
EXTENDS TripTracking, TLAPS

(* The inductive invariant.  LiveIsStored and FeedIsTrue are about what    *)
(* left a task; they are kept because of what a suspended task carries     *)
(* (TasksAreBacked), and that is kept because trips only ever move from    *)
(* "active" to "ended" and recorded only ever grows.                       *)
IInv ==
  /\ TypeOK
  /\ TasksAreBacked
  /\ TallyNeverTooHigh
  /\ LiveIsStored
  /\ FeedIsTrue

(* Typed tasks, one fact per await.                                        *)
LEMMA TaskTypes ==
  ASSUME TypeOK, NEW w \in Handlers
  PROVE  /\ h[w] # Idle => h[w].pc # "idle"
         /\ Starting(w) => /\ h[w].bus \in Buses
                           /\ h[w].route \in Routes
                           /\ h[w] = [pc |-> h[w].pc, bus |-> h[w].bus, route |-> h[w].route]
         /\ h[w].pc = "insert_point" => /\ h[w].trip \in TripIds
                                        /\ h[w].seen \in Nat
         /\ h[w].pc \in {"set_live", "publish_fix"} =>
              /\ h[w].trip \in TripIds
              /\ h[w].point \in Nat
              /\ h[w] = [pc |-> h[w].pc, trip |-> h[w].trip, point |-> h[w].point]
         /\ h[w].pc \in {"commit_end", "delete_live", "publish_ended"} =>
              /\ h[w].trip \in TripIds
              /\ h[w] = [pc |-> h[w].pc, trip |-> h[w].trip]
<1>1. h[w] \in Tasks
  BY DEF TypeOK
<1>2. CASE h[w] = Idle
  BY <1>2 DEF Idle, Starting
<1>3. CASE h[w] \in StartTasks
  BY <1>3 DEF StartTasks, Starting
<1>4. CASE h[w] \in ShareTasks
  BY <1>4 DEF ShareTasks, Starting
<1>5. CASE h[w] \in FanOutTasks
  BY <1>5 DEF FanOutTasks, Starting
<1>6. CASE h[w] \in EndTasks
  BY <1>6 DEF EndTasks, Starting
<1> QED
  BY <1>1, <1>2, <1>3, <1>4, <1>5, <1>6 DEF Tasks

(* A row of trips is NoTrip or a complete row.                             *)
LEMMA RowTypes ==
  ASSUME TypeOK, NEW t \in TripIds
  PROVE  /\ trips[t] = NoTrip <=> trips[t].status = "none"
         /\ trips[t] # NoTrip =>
              /\ trips[t].status \in {"active", "ended"}
              /\ trips[t].bus \in Buses
              /\ trips[t].route \in Routes
              /\ trips[t].total \in Nat
         /\ recorded[t] \in Nat
  BY DEF TypeOK, TripRows, NoTrip

LEMMA InitIInv == Init => IInv
  BY DEF Init, IInv, TypeOK, TasksAreBacked, TaskIsBacked, TallyNeverTooHigh, LiveIsStored,
         FeedIsTrue, Tasks, Idle, NoTrip, NoPosition, Messages

-----------------------------------------------------------------------------
(* What the database tables do in one step.                                *)
Grows ==
  \A t \in TripIds :
    /\ recorded[t] <= recorded'[t]
    /\ trips[t] # NoTrip => /\ trips'[t] # NoTrip
                           /\ trips'[t].bus = trips[t].bus
                           /\ trips'[t].route = trips[t].route
                           /\ trips'[t].status \in {trips[t].status, "ended"}

(* Only the three commits write the tables.                                *)
LEMMA Writers ==
  [Next]_vars => \/ UNCHANGED <<trips, recorded>>
                 \/ \E w \in Handlers : StartInsert(w) \/ InsertPoint(w) \/ CommitEnd(w)
  BY DEF Next, vars, NewRequest, TaskStep, StartLoad, ShareLoad, EndLoad, StartRefused,
         StartChecked, ShareRefused, SetLive, PublishFix, ShowFix, DeleteLive, PublishEnded,
         ShowEnded, TaskFails, AssignRoute, ExpireLive, Restart

LEMMA StepGrows ==
  ASSUME TypeOK, TasksAreBacked, [Next]_vars
  PROVE  Grows
<1>1. CASE UNCHANGED <<trips, recorded>>
  BY <1>1, RowTypes DEF Grows
<1>2. ASSUME NEW w \in Handlers, StartInsert(w)
      PROVE  Grows
  BY <1>2, RowTypes DEF Grows, StartInsert, TypeOK, NoTrip
<1>3. ASSUME NEW w \in Handlers, InsertPoint(w)
      PROVE  Grows
  <2>1. /\ h[w].trip \in TripIds
        /\ trips[h[w].trip] # NoTrip
    BY <1>3, TaskTypes DEF InsertPoint, TasksAreBacked, TaskIsBacked
  <2>2. trips[h[w].trip] \in TripRows
    BY <2>1 DEF TypeOK
  <2> QED
    BY <1>3, <2>1, <2>2, RowTypes DEF Grows, InsertPoint, CountedTrip, TypeOK, TripRows, NoTrip
<1>4. ASSUME NEW w \in Handlers, CommitEnd(w)
      PROVE  Grows
  <2>1. /\ h[w].trip \in TripIds
        /\ trips[h[w].trip] # NoTrip
    BY <1>4, TaskTypes DEF CommitEnd, TasksAreBacked, TaskIsBacked
  <2>2. trips[h[w].trip] \in TripRows
    BY <2>1 DEF TypeOK
  <2> QED
    BY <1>4, <2>1, <2>2, RowTypes DEF Grows, CommitEnd, TypeOK, TripRows, NoTrip
<1> QED
  BY <1>1, <1>2, <1>3, <1>4, Writers

-----------------------------------------------------------------------------
(* TYPES.  TypeOK needs TasksAreBacked: EXCEPT on the fields of a trip     *)
(* gives a row only when the trip exists.                                  *)
LEMMA TypeStep ==
  ASSUME TypeOK, TasksAreBacked, [Next]_vars
  PROVE  TypeOK'
<1>. USE DEF TypeOK
<1>1. CASE UNCHANGED vars
  BY <1>1 DEF vars
<1>2. ASSUME NEW w \in Handlers, NEW b \in Buses, NEW r \in Routes, StartLoad(w, b, r)
      PROVE  TypeOK'
  BY <1>2 DEF StartLoad, Tasks, StartTasks
<1>3. ASSUME NEW w \in Handlers, NEW t \in TripIds, ShareLoad(w, t) \/ EndLoad(w, t)
      PROVE  TypeOK'
  <2>1. trips[t] # NoTrip /\ trips[t].total \in Nat
    BY <1>3, RowTypes DEF ShareLoad, EndLoad, TripIsActive
  <2>2. /\ ToInsertPoint(t) \in Tasks
        /\ ToCommitEnd(t) \in Tasks
    BY <2>1 DEF ToInsertPoint, ToCommitEnd, Tasks, ShareTasks, EndTasks
  <2> QED
    BY <1>3, <2>2 DEF ShareLoad, EndLoad
<1>4. ASSUME NEW w \in Handlers, StartRefused(w) \/ ShareRefused(w) \/ TaskFails(w)
      PROVE  TypeOK'
  BY <1>4 DEF StartRefused, ShareRefused, TaskFails, Tasks
<1>5. ASSUME NEW w \in Handlers, StartChecked(w)
      PROVE  TypeOK'
  <2>1. h[w] \in StartTasks
    BY <1>5, TaskTypes DEF StartChecked, Starting, StartTasks
  <2>2. [h[w] EXCEPT !.pc = "insert_trip"] \in StartTasks
    BY <2>1 DEF StartTasks
  <2> QED
    BY <1>5, <2>2 DEF StartChecked, Tasks
<1>6. ASSUME NEW w \in Handlers, StartInsert(w)
      PROVE  TypeOK'
  <2>1. h[w].bus \in Buses /\ h[w].route \in Routes
    BY <1>6, TaskTypes DEF StartInsert, Starting
  <2> QED
    BY <1>6, <2>1 DEF StartInsert, TripRows, Tasks
<1>7. ASSUME NEW w \in Handlers, InsertPoint(w)
      PROVE  TypeOK'
  <2>. DEFINE t == h[w].trip
  <2>1. /\ t \in TripIds
        /\ h[w].seen \in Nat
        /\ trips[t] \in TripRows
    BY <1>7, TaskTypes DEF InsertPoint, TasksAreBacked, TaskIsBacked
  <2>2. CountedTrip(t, h[w].seen) \in TripRows
    <3>1. h[w].seen + 1 \in Nat
      BY <2>1
    <3> QED
      BY <2>1, <3>1 DEF CountedTrip, TripRows
  <2>3. ToShowFix(t, recorded[t] + 1) \in Tasks
    <3>1. recorded[t] + 1 \in Nat
      BY <2>1
    <3> QED
      BY <2>1, <3>1 DEF ToShowFix, Tasks, FanOutTasks
  <2> QED
    BY <1>7, <2>1, <2>2, <2>3 DEF InsertPoint
<1>8. ASSUME NEW w \in Handlers, SetLive(w) \/ PublishFix(w) \/ ShowFix(w)
      PROVE  TypeOK'
  <2>1. /\ h[w].trip \in TripIds
        /\ h[w].point \in Nat
        /\ TaskBus(w) \in Buses
    BY <1>8, TaskTypes, RowTypes
       DEF SetLive, PublishFix, ShowFix, TasksAreBacked, TaskIsBacked, TaskBus, Starting
  <2>2. Fix(h[w].trip, h[w].point) \in Fixes
    BY <2>1 DEF Fix, Fixes
  <2>3. live' \in [Buses -> {NoPosition} \cup Fixes]
    BY <1>8, <2>1, <2>2 DEF SetLive, PublishFix, ShowFix, Shown
  <2>4. feed' \in [Buses -> Seq(Messages)]
    <3>1. Append(feed[TaskBus(w)], Fix(h[w].trip, h[w].point)) \in Seq(Messages)
      BY <2>1, <2>2 DEF Messages
    <3> QED
      BY <1>8, <2>1, <3>1 DEF SetLive, PublishFix, ShowFix, Broadcast
  <2>5. h' \in [Handlers -> Tasks]
    <3>1. CASE SetLive(w)
      <4>1. h[w] \in FanOutTasks
        BY <3>1, <2>1, TaskTypes DEF SetLive, FanOutTasks
      <4>2. [h[w] EXCEPT !.pc = "publish_fix"] \in FanOutTasks
        BY <4>1 DEF FanOutTasks
      <4> QED
        BY <3>1, <4>2 DEF SetLive, Tasks
    <3> QED
      BY <1>8, <3>1 DEF PublishFix, ShowFix, Tasks
  <2> QED
    BY <1>8, <2>3, <2>4, <2>5 DEF SetLive, PublishFix, ShowFix
<1>9. ASSUME NEW w \in Handlers, CommitEnd(w)
      PROVE  TypeOK'
  <2>1. /\ h[w].trip \in TripIds
        /\ trips[h[w].trip] \in TripRows
        /\ h[w] = [pc |-> h[w].pc, trip |-> h[w].trip]
    BY <1>9, TaskTypes DEF CommitEnd, TasksAreBacked, TaskIsBacked
  <2>2. [trips[h[w].trip] EXCEPT !.status = "ended"] \in TripRows
    BY <2>1 DEF TripRows
  <2>3. [h[w] EXCEPT !.pc = "delete_live"] \in EndTasks
    BY <2>1 DEF EndTasks
  <2> QED
    BY <1>9, <2>1, <2>2, <2>3 DEF CommitEnd, Tasks
<1>10. ASSUME NEW w \in Handlers, DeleteLive(w) \/ PublishEnded(w) \/ ShowEnded(w)
       PROVE  TypeOK'
  <2>1. /\ h[w].trip \in TripIds
        /\ TaskBus(w) \in Buses
    BY <1>10, TaskTypes, RowTypes
       DEF DeleteLive, PublishEnded, ShowEnded, TasksAreBacked, TaskIsBacked, TaskBus, Starting,
           NoTrip
  <2>2. Ended(h[w].trip) \in Messages
    BY <2>1 DEF Ended, Messages
  <2>3. live' \in [Buses -> {NoPosition} \cup Fixes]
    BY <1>10, <2>1 DEF DeleteLive, PublishEnded, ShowEnded, Dropped
  <2>4. feed' \in [Buses -> Seq(Messages)]
    <3>1. Append(feed[TaskBus(w)], Ended(h[w].trip)) \in Seq(Messages)
      BY <2>1, <2>2
    <3> QED
      BY <1>10, <2>1, <3>1 DEF DeleteLive, PublishEnded, ShowEnded, Broadcast
  <2>5. h' \in [Handlers -> Tasks]
    <3>1. ToPublishEnded(h[w].trip) \in Tasks
      BY <2>1 DEF ToPublishEnded, Tasks, EndTasks
    <3> QED
      BY <1>10, <3>1 DEF DeleteLive, PublishEnded, ShowEnded, Tasks
  <2> QED
    BY <1>10, <2>3, <2>4, <2>5 DEF DeleteLive, PublishEnded, ShowEnded
<1>11. ASSUME NEW b \in Buses, NEW r \in Routes, AssignRoute(b, r)
       PROVE  TypeOK'
  BY <1>11 DEF AssignRoute
<1>12. ASSUME NEW b \in Buses, ExpireLive(b)
       PROVE  TypeOK'
  BY <1>12 DEF ExpireLive, Dropped
<1>13. CASE Restart
  BY <1>13 DEF Restart, Tasks
<1> QED
  BY <1>1, <1>2, <1>3, <1>4, <1>5, <1>6, <1>7, <1>8, <1>9, <1>10, <1>11, <1>12, <1>13
     DEF Next, NewRequest, TaskStep

-----------------------------------------------------------------------------
(* TASKS.  A task that does not move stays backed while the tables grow.   *)
LEMMA OthersStayBacked ==
  ASSUME TypeOK, TypeOK', TasksAreBacked, Grows, NEW v \in Handlers, h'[v] = h[v]
  PROVE  TaskIsBacked(v)'
<1>1. CASE h[v].pc = "insert_point"
  BY <1>1, TaskTypes DEF TasksAreBacked, TaskIsBacked, Grows, TypeOK
<1>2. CASE h[v].pc \in {"set_live", "publish_fix"}
  BY <1>2, TaskTypes DEF TasksAreBacked, TaskIsBacked, Grows, TypeOK
<1>3. CASE h[v].pc \in {"commit_end", "delete_live", "publish_ended"}
  <2>1. h[v].trip \in TripIds /\ trips[h[v].trip] # NoTrip
    BY <1>3, TaskTypes, RowTypes DEF TasksAreBacked, TaskIsBacked, NoTrip
  <2> QED
    BY <1>3, <2>1 DEF TasksAreBacked, TaskIsBacked, Grows
<1> QED
  BY <1>1, <1>2, <1>3 DEF TaskIsBacked

(* A task that has finished carries nothing.                               *)
LEMMA IdleIsBacked ==
  ASSUME NEW v \in Handlers, h'[v] = Idle
  PROVE  TaskIsBacked(v)'
  BY DEF TaskIsBacked, Idle

(* A step moves at most one task; the others stay where they are, unless   *)
(* a restart loses them all.                                               *)
LEMMA OneTaskMoves ==
  ASSUME TypeOK, [Next]_vars, NEW v \in Handlers
  PROVE  h'[v] = h[v] \/ h'[v] = Idle \/ NewRequest(v) \/ TaskStep(v)
<1>1. CASE UNCHANGED vars
  BY <1>1 DEF vars
<1>2. ASSUME NEW w \in Handlers, NewRequest(w), w # v
      PROVE  h'[v] = h[v]
  BY <1>2 DEF NewRequest, StartLoad, ShareLoad, EndLoad, TypeOK
<1>3. ASSUME NEW w \in Handlers, TaskStep(w), w # v
      PROVE  h'[v] = h[v]
  BY <1>3 DEF TaskStep, StartRefused, StartChecked, StartInsert, ShareRefused, InsertPoint,
              SetLive, PublishFix, ShowFix, CommitEnd, DeleteLive, PublishEnded, ShowEnded,
              TypeOK
<1>4. ASSUME NEW w \in Handlers, TaskFails(w)
      PROVE  h'[v] = h[v] \/ h'[v] = Idle
  BY <1>4 DEF TaskFails, TypeOK
<1>5. ASSUME NEW b \in Buses, ExpireLive(b) \/ \E r \in Routes : AssignRoute(b, r)
      PROVE  h'[v] = h[v]
  BY <1>5 DEF AssignRoute, ExpireLive
<1>6. CASE Restart
  BY <1>6 DEF Restart
<1> QED
  BY <1>1, <1>2, <1>3, <1>4, <1>5, <1>6 DEF Next

LEMMA BackedStep ==
  ASSUME TypeOK, TypeOK', TasksAreBacked, TallyNeverTooHigh, [Next]_vars
  PROVE  TasksAreBacked'
<1>. SUFFICES ASSUME NEW v \in Handlers
              PROVE  TaskIsBacked(v)'
  BY DEF TasksAreBacked
<1>0. Grows
  BY StepGrows
<1>1. CASE h'[v] = h[v]
  BY <1>0, <1>1, OthersStayBacked
<1>2. CASE h'[v] = Idle
  BY <1>2, IdleIsBacked
<1>3. ASSUME NEW b \in Buses, NEW r \in Routes, StartLoad(v, b, r)
      PROVE  TaskIsBacked(v)'
  BY <1>3 DEF StartLoad, TaskIsBacked, TypeOK
<1>4. ASSUME NEW t \in TripIds, ShareLoad(v, t)
      PROVE  TaskIsBacked(v)'
  (* seen is trips[t].total, read in this very step.                       *)
  <2>1. trips[t] # NoTrip /\ trips[t].total \in Nat
    BY <1>4, RowTypes DEF ShareLoad, TripIsActive
  <2> QED
    BY <1>4, <2>1 DEF ShareLoad, ToInsertPoint, TaskIsBacked, TallyNeverTooHigh, TypeOK
<1>5. ASSUME NEW t \in TripIds, EndLoad(v, t)
      PROVE  TaskIsBacked(v)'
  BY <1>5 DEF EndLoad, ToCommitEnd, TripIsActive, NoTrip, TaskIsBacked, TypeOK
<1>6. CASE StartChecked(v)
  BY <1>6 DEF StartChecked, TaskIsBacked, TypeOK
<1>7. CASE InsertPoint(v)
  BY <1>0, <1>7, TaskTypes
     DEF InsertPoint, ToShowFix, TasksAreBacked, TaskIsBacked, TypeOK, Grows
<1>8. CASE SetLive(v)
  BY <1>8 DEF SetLive, TasksAreBacked, TaskIsBacked, TypeOK
<1>9. CASE CommitEnd(v)
  BY <1>9, TaskTypes, RowTypes DEF CommitEnd, TasksAreBacked, TaskIsBacked, TypeOK
<1>10. CASE DeleteLive(v)
  BY <1>10 DEF DeleteLive, ToPublishEnded, TasksAreBacked, TaskIsBacked, TypeOK
<1>11. CASE \/ StartRefused(v) \/ StartInsert(v) \/ ShareRefused(v) \/ PublishFix(v)
            \/ ShowFix(v) \/ PublishEnded(v) \/ ShowEnded(v)
  BY <1>2, <1>11 DEF StartRefused, StartInsert, ShareRefused, PublishFix, ShowFix, PublishEnded,
                     ShowEnded, TypeOK
<1> QED
  BY <1>1, <1>2, <1>3, <1>4, <1>5, <1>6, <1>7, <1>8, <1>9, <1>10, <1>11, OneTaskMoves
     DEF NewRequest, TaskStep

-----------------------------------------------------------------------------
(* THE TALLY.  seen + 1 is at most recorded + 1, whoever else has counted  *)
(* in between.                                                             *)
LEMMA TallyStep ==
  ASSUME TypeOK, TypeOK', TasksAreBacked, TallyNeverTooHigh, [Next]_vars
  PROVE  TallyNeverTooHigh'
<1>1. CASE UNCHANGED <<trips, recorded>>
  BY <1>1 DEF TallyNeverTooHigh
<1>2. ASSUME NEW w \in Handlers, StartInsert(w)
      PROVE  TallyNeverTooHigh'
  BY <1>2, RowTypes DEF StartInsert, TallyNeverTooHigh, TypeOK
<1>3. ASSUME NEW w \in Handlers, InsertPoint(w)
      PROVE  TallyNeverTooHigh'
  <2>1. /\ h[w].trip \in TripIds
        /\ h[w].seen \in Nat
        /\ trips[h[w].trip] \in TripRows
        /\ h[w].seen <= recorded[h[w].trip]
    BY <1>3, TaskTypes DEF InsertPoint, TasksAreBacked, TaskIsBacked, TypeOK
  <2>2. trips'[h[w].trip].total = h[w].seen + 1
    BY <1>3, <2>1 DEF InsertPoint, CountedTrip, TypeOK, TripRows
  <2> QED
    BY <1>3, <2>1, <2>2, RowTypes DEF InsertPoint, TallyNeverTooHigh, TypeOK
<1>4. ASSUME NEW w \in Handlers, CommitEnd(w)
      PROVE  TallyNeverTooHigh'
  <2>1. h[w].trip \in TripIds /\ trips[h[w].trip] \in TripRows
    BY <1>4, TaskTypes DEF CommitEnd, TasksAreBacked, TaskIsBacked, TypeOK
  <2>2. trips'[h[w].trip].total = trips[h[w].trip].total
    BY <1>4, <2>1 DEF CommitEnd, TypeOK, TripRows
  <2> QED
    BY <1>4, <2>1, <2>2 DEF CommitEnd, TallyNeverTooHigh, TypeOK, TripRows, NoTrip
<1> QED
  BY <1>1, <1>2, <1>3, <1>4, Writers

-----------------------------------------------------------------------------
(* POSITION AND FEED.  What is stored, or true, stays so as tables grow.   *)
LEMMA StoredStays ==
  ASSUME TypeOK, TypeOK', Grows, NEW p \in Fixes, NEW b \in Buses, StoredFix(p, b)
  PROVE  StoredFix(p, b)'
  BY DEF StoredFix, Fixes, Grows, TypeOK

LEMMA TrueStays ==
  ASSUME TypeOK, TypeOK', Grows, NEW m \in Messages, NEW b \in Buses, IsTrueOf(m, b)
  PROVE  IsTrueOf(m, b)'
<1>1. CASE StoredFix(m, b)
  <2>1. m \in Fixes
    BY <1>1 DEF StoredFix, Messages
  <2> QED
    BY <1>1, <2>1, StoredStays DEF IsTrueOf
<1>2. CASE m.kind = "ended" /\ trips[m.trip].status = "ended" /\ trips[m.trip].bus = b
  <2>1. m.trip \in TripIds
    BY <1>2 DEF Messages, Fixes
  <2>2. trips[m.trip] # NoTrip
    BY <1>2, <2>1, RowTypes
  <2> QED
    BY <1>2, <2>1, <2>2 DEF IsTrueOf, Grows
<1> QED
  BY <1>1, <1>2 DEF IsTrueOf

(* What a task is about to show or to broadcast is stored, or true, of its *)
(* own bus.                                                                *)
LEMMA TaskTellsTruth ==
  ASSUME TypeOK, TasksAreBacked, NEW w \in Handlers
  PROVE  /\ h[w].pc \in {"set_live", "publish_fix"} =>
              /\ TaskBus(w) \in Buses
              /\ Fix(h[w].trip, h[w].point) \in Fixes
              /\ StoredFix(Fix(h[w].trip, h[w].point), TaskBus(w))
         /\ h[w].pc \in {"delete_live", "publish_ended"} =>
              /\ TaskBus(w) \in Buses
              /\ Ended(h[w].trip) \in Messages
              /\ IsTrueOf(Ended(h[w].trip), TaskBus(w))
<1>1. CASE h[w].pc \in {"set_live", "publish_fix"}
  <2>1. /\ h[w].trip \in TripIds
        /\ h[w].point \in Nat
        /\ trips[h[w].trip] # NoTrip
        /\ h[w].point \in 1..recorded[h[w].trip]
    BY <1>1, TaskTypes DEF TasksAreBacked, TaskIsBacked
  <2>2. TaskBus(w) = trips[h[w].trip].bus
    BY <1>1 DEF TaskBus, Starting
  <2> QED
    BY <1>1, <2>1, <2>2, RowTypes DEF Fix, Fixes, StoredFix
<1>2. CASE h[w].pc \in {"delete_live", "publish_ended"}
  <2>1. /\ h[w].trip \in TripIds
        /\ trips[h[w].trip].status = "ended"
    BY <1>2, TaskTypes DEF TasksAreBacked, TaskIsBacked
  <2>2. TaskBus(w) = trips[h[w].trip].bus
    BY <1>2 DEF TaskBus, Starting
  <2> QED
    BY <1>2, <2>1, <2>2, RowTypes DEF Ended, Messages, IsTrueOf
<1> QED
  BY <1>1, <1>2

LEMMA LiveStep ==
  ASSUME TypeOK, TypeOK', TasksAreBacked, LiveIsStored, [Next]_vars
  PROVE  LiveIsStored'
<1>0. Grows
  BY StepGrows
<1>1. CASE UNCHANGED live
  BY <1>0, <1>1, StoredStays DEF LiveIsStored, TypeOK
<1>2. ASSUME NEW b \in Buses, live' = Dropped(b)
      PROVE  LiveIsStored'
  BY <1>0, <1>2, StoredStays DEF Dropped, LiveIsStored, TypeOK
<1>3. ASSUME NEW w \in Handlers, SetLive(w) \/ ShowFix(w)
      PROVE  LiveIsStored'
  <2>. DEFINE p == Fix(h[w].trip, h[w].point)
  <2>1. TaskBus(w) \in Buses /\ p \in Fixes /\ StoredFix(p, TaskBus(w))
    BY <1>3, TaskTellsTruth DEF SetLive, ShowFix
  <2>2. \A b \in Buses : live'[b] = IF b = TaskBus(w) THEN p ELSE live[b]
    BY <1>3, <2>1 DEF SetLive, ShowFix, Shown, TypeOK
  <2>3. UNCHANGED <<trips, recorded>>
    BY <1>3 DEF SetLive, ShowFix
  <2>. HIDE DEF p
  <2> QED
    BY <2>1, <2>2, <2>3 DEF LiveIsStored, StoredFix
<1>4. ASSUME NEW w \in Handlers, DeleteLive(w) \/ ShowEnded(w)
      PROVE  LiveIsStored'
  BY <1>2, <1>4, TaskTellsTruth DEF DeleteLive, ShowEnded
<1>5. CASE live' = [b \in Buses |-> NoPosition]
  BY <1>5 DEF LiveIsStored
<1> QED
  BY <1>1, <1>2, <1>3, <1>4, <1>5
     DEF Next, vars, NewRequest, TaskStep, StartLoad, ShareLoad, EndLoad, StartRefused,
         StartChecked, StartInsert, ShareRefused, InsertPoint, PublishFix, CommitEnd,
         PublishEnded, TaskFails, AssignRoute, ExpireLive, Restart

LEMMA FeedStep ==
  ASSUME TypeOK, TypeOK', TasksAreBacked, FeedIsTrue, [Next]_vars
  PROVE  FeedIsTrue'
<1>0. Grows
  BY StepGrows
<1>1. CASE UNCHANGED feed
  <2>. SUFFICES ASSUME NEW b \in Buses, NEW i \in 1..Len(feed[b])
                PROVE  IsTrueOf(feed[b][i], b)'
    BY <1>1 DEF FeedIsTrue
  <2>1. feed[b][i] \in Messages
    BY DEF TypeOK
  <2>2. \A m \in Messages : IsTrueOf(m, b) => IsTrueOf(m, b)'
    BY <1>0, TrueStays
  <2>3. IsTrueOf(feed[b][i], b)
    BY DEF FeedIsTrue
  <2> QED
    BY <1>1, <2>1, <2>2, <2>3 DEF IsTrueOf, StoredFix
<1>2. ASSUME NEW c \in Buses, NEW m \in Messages, IsTrueOf(m, c),
             feed' = Broadcast(c, m), UNCHANGED <<trips, recorded>>
      PROVE  FeedIsTrue'
  <2>. SUFFICES ASSUME NEW b \in Buses, NEW i \in 1..Len(feed'[b])
                PROVE  IsTrueOf(feed'[b][i], b)
    BY <1>2 DEF FeedIsTrue, IsTrueOf, StoredFix
  <2>1. CASE b # c
    BY <1>2, <2>1 DEF Broadcast, FeedIsTrue, TypeOK
  <2>2. CASE b = c
    <3>1. feed[c] \in Seq(Messages) /\ feed'[c] = Append(feed[c], m)
      BY <1>2 DEF Broadcast, TypeOK
    <3>2. CASE i = Len(feed[c]) + 1
      BY <1>2, <2>2, <3>1, <3>2
    <3>3. CASE i # Len(feed[c]) + 1
      BY <2>2, <3>1, <3>3 DEF FeedIsTrue
    <3> QED
      BY <3>2, <3>3
  <2> QED
    BY <2>1, <2>2
<1>3. ASSUME NEW w \in Handlers, PublishFix(w) \/ ShowFix(w)
      PROVE  FeedIsTrue'
  BY <1>2, <1>3, TaskTellsTruth DEF PublishFix, ShowFix, IsTrueOf, Messages
<1>4. ASSUME NEW w \in Handlers, PublishEnded(w) \/ ShowEnded(w)
      PROVE  FeedIsTrue'
  BY <1>2, <1>4, TaskTellsTruth DEF PublishEnded, ShowEnded
<1> QED
  BY <1>1, <1>3, <1>4
     DEF Next, vars, NewRequest, TaskStep, StartLoad, ShareLoad, EndLoad, StartRefused,
         StartChecked, StartInsert, ShareRefused, InsertPoint, SetLive, CommitEnd, DeleteLive,
         TaskFails, AssignRoute, ExpireLive, Restart

-----------------------------------------------------------------------------
(* THEOREMS                                                                *)

(* The invariant is inductive.                                             *)
LEMMA IInvStep == IInv /\ [Next]_vars => IInv'
<1>. SUFFICES ASSUME IInv, [Next]_vars
              PROVE  IInv'
  OBVIOUS
<1>1. /\ TypeOK /\ TasksAreBacked /\ TallyNeverTooHigh
      /\ LiveIsStored /\ FeedIsTrue
  BY DEF IInv
<1>2. TypeOK'
  BY <1>1, TypeStep
<1>3. TasksAreBacked'
  BY <1>1, <1>2, BackedStep
<1>4. TallyNeverTooHigh'
  BY <1>1, <1>2, TallyStep
<1>5. LiveIsStored'
  BY <1>1, <1>2, LiveStep
<1>6. FeedIsTrue'
  BY <1>1, <1>2, FeedStep
<1> QED
  BY <1>2, <1>3, <1>4, <1>5, <1>6 DEF IInv

LEMMA Invariance == Spec => []IInv
  BY InitIInv, IInvStep, PTL DEF Spec

(* Every variable keeps its type.                                          *)
THEOREM TypeCorrect == Spec => []TypeOK
<1>1. IInv => TypeOK
  BY DEF IInv
<1> QED
  BY <1>1, Invariance, PTL

(* A resumed task is still backed by the database.                         *)
THEOREM TasksAlwaysBacked == Spec => []TasksAreBacked
<1>1. IInv => TasksAreBacked
  BY DEF IInv
<1> QED
  BY <1>1, Invariance, PTL

(* The map and the snapshot only show committed fixes of the bus.          *)
THEOREM LiveAlwaysStored == Spec => []LiveIsStored
<1>1. IInv => LiveIsStored
  BY DEF IInv
<1> QED
  BY <1>1, Invariance, PTL

(* Nothing false is ever broadcast.                                        *)
THEOREM FeedAlwaysTrue == Spec => []FeedIsTrue
<1>1. IInv => FeedIsTrue
  BY DEF IInv
<1> QED
  BY <1>1, Invariance, PTL

(* Lost updates only ever make total_points too low.                       *)
THEOREM TallyNeverAhead == Spec => []TallyNeverTooHigh
<1>1. IInv => TallyNeverTooHigh
  BY DEF IInv
<1> QED
  BY <1>1, Invariance, PTL

(* An ended trip stays ended, on its bus and its route.                    *)
THEOREM TripsEndForGood == Spec => EndedForGood
<1>1. IInv /\ [Next]_vars =>
        [\A t \in TripIds : trips[t] # NoTrip =>
           /\ trips'[t].status \in {trips[t].status, "ended"}
           /\ trips'[t].bus = trips[t].bus
           /\ trips'[t].route = trips[t].route]_trips
  BY StepGrows DEF IInv, Grows
<1> QED
  BY <1>1, Invariance, PTL DEF Spec, EndedForGood

-----------------------------------------------------------------------------
(* IMPLEMENTATION.  The three commits are the ledger's Open, Record and    *)
(* Close; every visible effect of a task is a Tell; the rest is invisible. *)
(* The ledger writes the same payloads.                                    *)
LEMMA SamePayloads ==
  /\ Ledger!NoTrip = NoTrip
  /\ Ledger!NoPosition = NoPosition
  /\ \A t, n : Ledger!Fix(t, n) = Fix(t, n)
  /\ \A t : Ledger!Ended(t) = Ended(t)
  BY DEF Ledger!NoTrip, NoTrip, Ledger!NoPosition, NoPosition, Ledger!Fix, Fix,
         Ledger!Ended, Ended

LEMMA RowsUnchanged == UNCHANGED trips => LedgerRows' = LedgerRows
  BY DEF LedgerRows

(* The trips the ledger attributes to a bus are the stored ones.           *)
LEMMA BarTrips ==
  ASSUME TypeOK, NEW t \in TripIds, trips[t] # NoTrip
  PROVE  /\ LedgerRows[t] # NoTrip
         /\ LedgerRows[t].status = trips[t].status
         /\ LedgerRows[t].bus = trips[t].bus
         /\ t \in Ledger!TripsOf(trips[t].bus)
<1>1. trips[t].status # "none"
  BY RowTypes
<1>2. LedgerRows[t] = [status |-> trips[t].status, bus |-> trips[t].bus]
  BY DEF LedgerRows
<1>3. LedgerRows[t] # NoTrip
  BY <1>1, <1>2 DEF NoTrip
<1> QED
  BY <1>2, <1>3, SamePayloads DEF Ledger!TripsOf

LEMMA LedgerInit == Init => Ledger!Init
  BY SamePayloads DEF Init, Ledger!Init, LedgerRows

LEMMA LedgerStep == IInv /\ IInv' /\ [Next]_vars => [Ledger!Next]_(Ledger!ledgerVars)
<1>. SUFFICES ASSUME IInv, IInv', [Next]_vars
              PROVE  Ledger!Next \/ UNCHANGED <<LedgerRows, recorded, live, feed>>
  BY DEF Ledger!ledgerVars
<1>0. TypeOK /\ TypeOK' /\ TasksAreBacked
  BY DEF IInv
<1>1. CASE UNCHANGED <<trips, recorded, live, feed>>
  BY <1>1, RowsUnchanged
<1>2. ASSUME NEW w \in Handlers, StartInsert(w)
      PROVE  Ledger!Next
  <2>1. PICK t \in TripIds :
          /\ trips[t] = NoTrip
          /\ trips' = [trips EXCEPT ![t] =
               [status |-> "active", bus |-> h[w].bus, route |-> h[w].route, total |-> 0]]
    BY <1>2 DEF StartInsert
  <2>2. h[w].bus \in Buses
    BY <1>0, <1>2, TaskTypes DEF StartInsert, Starting
  <2>3. trips'[t] # NoTrip /\ trips'[t].status = "active" /\ trips'[t].bus = h[w].bus
    BY <1>0, <2>1 DEF TypeOK, NoTrip
  <2>4. LedgerRows' = [LedgerRows EXCEPT ![t] = [status |-> "active", bus |-> h[w].bus]]
    BY <1>0, <2>1, <2>3 DEF LedgerRows, TypeOK
  <2>5. LedgerRows[t] = NoTrip
    BY <2>1 DEF LedgerRows
  <2>6. Ledger!Open(t, h[w].bus)
    BY <1>2, <2>4, <2>5, SamePayloads DEF Ledger!Open, StartInsert
  <2> QED
    BY <2>2, <2>6 DEF Ledger!Next
<1>3. ASSUME NEW w \in Handlers, InsertPoint(w)
      PROVE  Ledger!Next
  <2>. DEFINE t == h[w].trip
  <2>1. t \in TripIds /\ trips[t] # NoTrip
    BY <1>0, <1>3, TaskTypes DEF InsertPoint, TasksAreBacked, TaskIsBacked
  <2>2. trips[t] \in TripRows
    BY <1>0, <2>1 DEF TypeOK
  <2>3. trips'[t] = CountedTrip(t, h[w].seen) /\ \A s \in TripIds \ {t} : trips'[s] = trips[s]
    BY <1>0, <1>3, <2>1 DEF InsertPoint, TypeOK
  <2>4. trips'[t].status = trips[t].status /\ trips'[t].bus = trips[t].bus
    BY <2>2, <2>3 DEF CountedTrip, TripRows
  <2>5. trips'[t] # NoTrip
    BY <1>0, <2>1, <2>4, RowTypes DEF NoTrip
  <2>7. LedgerRows' = LedgerRows
    BY <2>1, <2>3, <2>4, <2>5 DEF LedgerRows
  <2>8. Ledger!Record(t)
    BY <1>0, <1>3, <2>1, <2>7, BarTrips, SamePayloads DEF Ledger!Record, InsertPoint
  <2> QED
    BY <2>1, <2>8 DEF Ledger!Next
<1>4. ASSUME NEW w \in Handlers, CommitEnd(w)
      PROVE  Ledger!Next
  <2>. DEFINE t == h[w].trip
  <2>1. t \in TripIds /\ trips[t] # NoTrip
    BY <1>0, <1>4, TaskTypes DEF CommitEnd, TasksAreBacked, TaskIsBacked
  <2>2. trips[t] \in TripRows
    BY <1>0, <2>1 DEF TypeOK
  <2>3. /\ trips'[t] = [trips[t] EXCEPT !.status = "ended"]
        /\ \A s \in TripIds \ {t} : trips'[s] = trips[s]
    BY <1>0, <1>4, <2>1 DEF CommitEnd, TypeOK
  <2>4. trips'[t].status = "ended" /\ trips'[t].bus = trips[t].bus
    BY <2>2, <2>3 DEF TripRows
  <2>5. trips'[t] # NoTrip
    BY <2>4 DEF NoTrip
  <2>6. /\ LedgerRows[t] = [status |-> trips[t].status, bus |-> trips[t].bus]
        /\ LedgerRows'[t] = [status |-> "ended", bus |-> trips[t].bus]
        /\ \A s \in TripIds \ {t} : LedgerRows'[s] = LedgerRows[s]
    BY <2>1, <2>3, <2>4, <2>5 DEF LedgerRows
  <2>7. LedgerRows' = [LedgerRows EXCEPT ![t].status = "ended"]
    <3>1. LedgerRows'[t] = [LedgerRows[t] EXCEPT !.status = "ended"]
      BY <2>6
    <3>2. LedgerRows = [s \in TripIds |-> LedgerRows[s]]
      BY DEF LedgerRows
    <3>3. LedgerRows' = [s \in TripIds |-> LedgerRows'[s]]
      BY DEF LedgerRows
    <3> QED
      BY <2>1, <2>6, <3>1, <3>2, <3>3
  <2>8. Ledger!Close(t)
    BY <1>0, <1>4, <2>1, <2>7, BarTrips, SamePayloads DEF Ledger!Close, CommitEnd
  <2> QED
    BY <2>1, <2>8 DEF Ledger!Next
<1>5. ASSUME NEW w \in Handlers, SetLive(w) \/ PublishFix(w) \/ ShowFix(w)
      PROVE  Ledger!Next
  <2>. DEFINE t == h[w].trip
             n == h[w].point
             b == TaskBus(w)
  <2>1. /\ t \in TripIds /\ trips[t] # NoTrip
        /\ n \in 1..recorded[t]
        /\ b = trips[t].bus
        /\ b \in Buses
    BY <1>0, <1>5, TaskTypes, RowTypes
       DEF SetLive, PublishFix, ShowFix, TasksAreBacked, TaskIsBacked, TaskBus, Starting
  <2>2. t \in Ledger!TripsOf(b)
    BY <1>0, <2>1, BarTrips
  <2>3. UNCHANGED <<LedgerRows, recorded>>
    BY <1>5, RowsUnchanged DEF SetLive, PublishFix, ShowFix
  <2>4. Ledger!ShowSomethingTrue(b)
    BY <1>5, <2>1, <2>2, SamePayloads DEF Ledger!ShowSomethingTrue, SetLive, PublishFix, ShowFix, Shown
  <2>5. Ledger!BroadcastSomethingTrue(b)
    BY <1>5, <2>1, <2>2, SamePayloads
       DEF Ledger!BroadcastSomethingTrue, SetLive, PublishFix, ShowFix, Broadcast
  <2> QED
    BY <2>1, <2>3, <2>4, <2>5 DEF Ledger!Next, Ledger!Tell
<1>6. ASSUME NEW w \in Handlers, DeleteLive(w) \/ PublishEnded(w) \/ ShowEnded(w)
      PROVE  Ledger!Next
  <2>. DEFINE t == h[w].trip
             b == TaskBus(w)
  <2>1. /\ t \in TripIds /\ trips[t] # NoTrip
        /\ trips[t].status = "ended"
        /\ b = trips[t].bus
        /\ b \in Buses
    BY <1>0, <1>6, TaskTypes, RowTypes
       DEF DeleteLive, PublishEnded, ShowEnded, TasksAreBacked, TaskIsBacked, TaskBus, Starting
  <2>2. t \in Ledger!TripsOf(b) /\ LedgerRows[t].status = "ended"
    BY <1>0, <2>1, BarTrips
  <2>3. UNCHANGED <<LedgerRows, recorded>>
    BY <1>6, RowsUnchanged DEF DeleteLive, PublishEnded, ShowEnded
  <2>4. Ledger!ShowSomethingTrue(b)
    BY <1>6, SamePayloads DEF Ledger!ShowSomethingTrue, DeleteLive, PublishEnded, ShowEnded, Dropped
  <2>5. Ledger!BroadcastSomethingTrue(b)
    BY <1>6, <2>1, <2>2, SamePayloads
       DEF Ledger!BroadcastSomethingTrue, DeleteLive, PublishEnded, ShowEnded, Broadcast
  <2> QED
    BY <2>1, <2>3, <2>4, <2>5 DEF Ledger!Next, Ledger!Tell
<1>7. ASSUME NEW b \in Buses, ExpireLive(b)
      PROVE  Ledger!Next
  <2>1. Ledger!Tell(b)
    BY <1>7, RowsUnchanged, SamePayloads
       DEF ExpireLive, Dropped, Ledger!Tell, Ledger!ShowSomethingTrue,
           Ledger!BroadcastSomethingTrue
  <2> QED
    BY <2>1 DEF Ledger!Next
<1>8. CASE Restart
  BY <1>8, RowsUnchanged, SamePayloads DEF Restart, Ledger!Next, Ledger!Forget
<1> QED
  BY <1>1, <1>2, <1>3, <1>4, <1>5, <1>6, <1>7, <1>8
     DEF Next, vars, NewRequest, TaskStep, StartLoad, ShareLoad, EndLoad, StartRefused,
         StartChecked, ShareRefused, TaskFails, AssignRoute

(* Trip tracking implements the ledger.                                    *)
THEOREM TrackingImplementsLedger == Spec => ImplementsLedger
<1>1. Spec => []IInv
  BY Invariance
<1>2. Init => Ledger!Init
  BY LedgerInit
<1>3. IInv /\ IInv' /\ [Next]_vars => [Ledger!Next]_(Ledger!ledgerVars)
  BY LedgerStep
<1> QED
  BY <1>1, <1>2, <1>3, PTL DEF Spec, ImplementsLedger, Ledger!Spec
-----------------------------------------------------------------------------
(* WHAT HOLDS WITHOUT SOME OF THE RACES: for a driver who waits for each   *)
(* answer, and with the in-memory store and broker.  Each theorem names    *)
(* its setting as an assumption; the fleet, the number of trips and of     *)
(* concurrent requests and the failures stay arbitrary.                    *)

(* THE INDUCTIVE INVARIANT of a driver who waits.  A driver has one task   *)
(* at most, so nothing happens to its trips behind the back of that task:  *)
(* a trip that is being shared or ended is still active, and the driver of *)
(* a task that may start a trip, or has just ended one, has none.          *)
OneTaskPerDriver ==
  \A v, w \in Handlers :
    (/\ h[v] # Idle /\ h[w] # Idle
     /\ Owner[TaskBus(v)] = Owner[TaskBus(w)]) => v = w

TaskIsCurrent(w) ==
  /\ h[w].pc \in {"insert_point", "set_live", "publish_fix", "commit_end"} =>
       TripIsActive(h[w].trip)
  /\ h[w].pc \in {"insert_trip", "delete_live"} => ~HasActiveTrip(Owner[TaskBus(w)])

TasksAreCurrent == \A w \in Handlers : TaskIsCurrent(w)

(* A fix on its way to the broker is newer than all those of its trip that *)
(* were broadcast before.                                                  *)
FixIsNewer(w) ==
  h[w].pc \in {"set_live", "publish_fix"} =>
    \A b \in Buses : \A i \in 1..Len(feed[b]) :
      feed[b][i].kind = "fix" /\ feed[b][i].trip = h[w].trip
        => feed[b][i].point < h[w].point

FixesAreNewer == \A w \in Handlers : FixIsNewer(w)

PatientInv ==
  /\ OneTaskPerDriver
  /\ TasksAreCurrent
  /\ OneActiveTripPerDriver
  /\ FixesAreNewer
  /\ FeedInOrder

(* THE INDUCTIVE INVARIANT of the in-memory store: no task is ever between *)
(* the store and the broker.                                               *)
NoneInBetween == \A w \in Handlers : h[w].pc \notin {"publish_fix", "publish_ended"}

AtOnceInv == NoneInBetween /\ LiveIsLastBroadcast

-----------------------------------------------------------------------------
(* THE IN-MEMORY STORE AND BROKER                                          *)
LEMMA AtOnceInit == Init => AtOnceInv
  BY DEF Init, AtOnceInv, NoneInBetween, LiveIsLastBroadcast, Idle

LEMMA NoneInBetweenStep ==
  ASSUME ~SharedStore, TypeOK, NoneInBetween, [Next]_vars
  PROVE  NoneInBetween'
<1>. SUFFICES ASSUME NEW v \in Handlers
              PROVE  h'[v].pc \notin {"publish_fix", "publish_ended"}
  BY DEF NoneInBetween
<1>1. CASE h'[v] = h[v]
  BY <1>1 DEF NoneInBetween
<1>2. CASE h'[v] = Idle
  BY <1>2 DEF Idle
<1>3. ASSUME NEW b \in Buses, NEW r \in Routes, StartLoad(v, b, r)
      PROVE  h'[v].pc = "check_active"
  BY <1>3 DEF StartLoad, TypeOK
<1>4. ASSUME NEW t \in TripIds, ShareLoad(v, t) \/ EndLoad(v, t)
      PROVE  h'[v].pc \in {"insert_point", "commit_end"}
  BY <1>4 DEF ShareLoad, EndLoad, ToInsertPoint, ToCommitEnd, TypeOK
<1>5. CASE StartChecked(v)
  BY <1>5 DEF StartChecked, TypeOK
<1>6. CASE InsertPoint(v)
  BY <1>6 DEF InsertPoint, ToShowFix, TypeOK
<1>7. CASE CommitEnd(v)
  BY <1>7 DEF CommitEnd, TypeOK
<1>8. CASE \/ StartRefused(v) \/ StartInsert(v) \/ ShareRefused(v) \/ PublishFix(v)
           \/ ShowFix(v) \/ PublishEnded(v) \/ ShowEnded(v)
  BY <1>2, <1>8 DEF StartRefused, StartInsert, ShareRefused, PublishFix, ShowFix, PublishEnded,
                    ShowEnded, TypeOK
<1>9. ~SetLive(v) /\ ~DeleteLive(v)
  BY DEF SetLive, DeleteLive
<1> QED
  BY <1>1, <1>2, <1>3, <1>4, <1>5, <1>6, <1>7, <1>8, <1>9, OneTaskMoves DEF NewRequest, TaskStep

(* Positions that are dropped and positions that are broadcast as they are *)
(* set keep the agreement of store and broker.                             *)
LEMMA LastBroadcastStep ==
  ASSUME ~SharedStore, TypeOK, TasksAreBacked, AtOnceInv, [Next]_vars
  PROVE  LiveIsLastBroadcast'
<1>1. CASE UNCHANGED <<live, feed>>
  BY <1>1 DEF AtOnceInv, LiveIsLastBroadcast
<1>2. ASSUME NEW w \in Handlers, ShowFix(w)
      PROVE  LiveIsLastBroadcast'
  <2>. DEFINE p == Fix(h[w].trip, h[w].point)
              c == TaskBus(w)
  <2>1. c \in Buses /\ p \in Messages
    BY <1>2, TaskTellsTruth DEF ShowFix, Messages
  <2>2. /\ live' = [live EXCEPT ![c] = p]
        /\ feed' = [feed EXCEPT ![c] = Append(@, p)]
    BY <1>2 DEF ShowFix, Shown, Broadcast
  <2>. HIDE DEF p, c
  <2>3. feed'[c] = Append(feed[c], p) /\ feed[c] \in Seq(Messages) /\ live'[c] = p
    BY <2>1, <2>2 DEF TypeOK
  <2>4. feed'[c] # <<>> /\ feed'[c][Len(feed'[c])] = p
    BY <2>1, <2>3
  <2>5. \A b \in Buses \ {c} : live'[b] = live[b] /\ feed'[b] = feed[b]
    BY <2>1, <2>2 DEF TypeOK
  <2> QED
    BY <2>3, <2>4, <2>5 DEF AtOnceInv, LiveIsLastBroadcast
<1>3. ASSUME NEW w \in Handlers, ShowEnded(w)
      PROVE  LiveIsLastBroadcast'
  <2>. DEFINE c == TaskBus(w)
  <2>1. c \in Buses
    BY <1>3, TaskTellsTruth DEF ShowEnded
  <2>2. live'[c] = NoPosition /\ \A b \in Buses \ {c} : live'[b] = live[b] /\ feed'[b] = feed[b]
    BY <1>3, <2>1 DEF ShowEnded, Dropped, Broadcast, TypeOK
  <2> QED
    BY <2>1, <2>2 DEF AtOnceInv, LiveIsLastBroadcast
<1>4. ASSUME NEW b \in Buses, ExpireLive(b)
      PROVE  LiveIsLastBroadcast'
  BY <1>4 DEF ExpireLive, Dropped, AtOnceInv, LiveIsLastBroadcast, TypeOK
<1>5. CASE Restart
  BY <1>5 DEF Restart, LiveIsLastBroadcast
<1>6. \A w \in Handlers : ~PublishFix(w) /\ ~PublishEnded(w) /\ ~SetLive(w) /\ ~DeleteLive(w)
  BY DEF PublishFix, PublishEnded, SetLive, DeleteLive, AtOnceInv, NoneInBetween
<1> QED
  BY <1>1, <1>2, <1>3, <1>4, <1>5, <1>6
     DEF Next, vars, NewRequest, TaskStep, StartLoad, ShareLoad, EndLoad, StartRefused,
         StartChecked, StartInsert, ShareRefused, InsertPoint, CommitEnd, TaskFails, AssignRoute

(* With the in-memory store the position a watcher is given when it        *)
(* connects is the last broadcast of the bus.                              *)
THEOREM SnapshotAgreesWithStream ==
  ASSUME ~SharedStore
  PROVE  Spec => []LiveIsLastBroadcast
<1>1. Init => AtOnceInv
  BY AtOnceInit
<1>2. IInv /\ AtOnceInv /\ [Next]_vars => AtOnceInv'
  BY NoneInBetweenStep, LastBroadcastStep DEF IInv, AtOnceInv
<1>3. AtOnceInv => LiveIsLastBroadcast
  BY DEF AtOnceInv
<1> QED
  BY <1>1, <1>2, <1>3, Invariance, PTL DEF Spec

-----------------------------------------------------------------------------
(* A DRIVER WHO WAITS.  Who moves, and what happens to the trips.          *)

(* While a task runs, the others stay where they are.                      *)
LEMMA OthersWait ==
  ASSUME TypeOK, NEW v \in Handlers, NEW w \in Handlers, v # w, NewRequest(w) \/ TaskStep(w)
  PROVE  h'[v] = h[v]
<1>1. CASE NewRequest(w)
  BY <1>1 DEF NewRequest, StartLoad, ShareLoad, EndLoad, TypeOK
<1>2. CASE TaskStep(w)
  BY <1>2 DEF TaskStep, StartRefused, StartChecked, StartInsert, ShareRefused, InsertPoint,
              SetLive, PublishFix, ShowFix, CommitEnd, DeleteLive, PublishEnded, ShowEnded,
              TypeOK
<1> QED
  BY <1>1, <1>2

(* A task is about one bus as long as it runs.                             *)
LEMMA BusStays ==
  ASSUME TypeOK, TasksAreBacked, [Next]_vars, NEW v \in Handlers, h[v] # Idle, h'[v] # Idle
  PROVE  TaskBus(v)' = TaskBus(v)
<1>0. Grows
  BY StepGrows
<1>1. ASSUME ~Starting(v)
      PROVE  /\ h[v].trip \in TripIds
             /\ trips'[h[v].trip].bus = trips[h[v].trip].bus
             /\ TaskBus(v) = trips[h[v].trip].bus
  <2>1. h[v].pc \in {"insert_point", "set_live", "publish_fix", "commit_end", "delete_live",
                     "publish_ended"}
    BY <1>1 DEF Starting, TypeOK, Tasks, StartTasks, ShareTasks, FanOutTasks, EndTasks
  <2>2. h[v].trip \in TripIds /\ trips[h[v].trip] # NoTrip
    BY <2>1, TaskTypes, RowTypes DEF TasksAreBacked, TaskIsBacked, NoTrip
  <2> QED
    BY <1>0, <1>1, <2>2 DEF Grows, TaskBus
<1>2. CASE h'[v] = h[v]
  BY <1>1, <1>2 DEF TaskBus, Starting
<1>3. CASE StartChecked(v)
  <2>1. h'[v].pc = "insert_trip" /\ h'[v].bus = h[v].bus /\ h[v].pc = "check_active"
    BY <1>3, TaskTypes DEF StartChecked, Starting, TypeOK
  <2> QED
    BY <2>1 DEF TaskBus, Starting
<1>4. CASE InsertPoint(v) \/ SetLive(v) \/ CommitEnd(v) \/ DeleteLive(v)
  <2>1. ~Starting(v)
    BY <1>4 DEF InsertPoint, SetLive, CommitEnd, DeleteLive, Starting
  <2>2. h'[v].trip = h[v].trip /\ h'[v].pc \notin {"check_active", "insert_trip"}
    <3>1. CASE InsertPoint(v)
      BY <3>1 DEF InsertPoint, ToShowFix, TypeOK
    <3>2. CASE SetLive(v)
      BY <3>2, TaskTypes DEF SetLive, TypeOK
    <3>3. CASE CommitEnd(v)
      BY <3>3, TaskTypes DEF CommitEnd, TypeOK
    <3>4. CASE DeleteLive(v)
      BY <3>4 DEF DeleteLive, ToPublishEnded, TypeOK
    <3> QED
      BY <1>4, <3>1, <3>2, <3>3, <3>4
  <2> QED
    BY <1>1, <2>1, <2>2 DEF TaskBus, Starting
<1>5. ~NewRequest(v)
  BY DEF NewRequest, StartLoad, ShareLoad, EndLoad
<1>6. CASE \/ StartRefused(v) \/ StartInsert(v) \/ ShareRefused(v) \/ PublishFix(v)
           \/ ShowFix(v) \/ PublishEnded(v) \/ ShowEnded(v)
  BY <1>6 DEF StartRefused, StartInsert, ShareRefused, PublishFix, ShowFix, PublishEnded,
              ShowEnded, TypeOK
<1> QED
  BY <1>2, <1>3, <1>4, <1>5, <1>6, OneTaskMoves DEF TaskStep

(* A request is only sent when no other of its driver is being served.     *)
LEMMA RequestWaits ==
  ASSUME OneRequestAtATime, TypeOK, NEW v \in Handlers, NewRequest(v),
         NEW w \in Handlers, h[w] # Idle
  PROVE  Owner[TaskBus(w)] # Owner[TaskBus(v)']
<1>1. ASSUME NEW b \in Buses, NEW r \in Routes, StartLoad(v, b, r)
      PROVE  Owner[TaskBus(w)] # Owner[TaskBus(v)']
  <2>1. TaskBus(v)' = b
    BY <1>1 DEF StartLoad, TaskBus, Starting, TypeOK
  <2> QED
    BY <1>1, <2>1 DEF StartLoad, MaySend
<1>2. ASSUME NEW t \in TripIds, ShareLoad(v, t) \/ EndLoad(v, t)
      PROVE  Owner[TaskBus(w)] # Owner[TaskBus(v)']
  <2>1. TaskBus(v)' = trips[t].bus
    BY <1>2 DEF ShareLoad, EndLoad, ToInsertPoint, ToCommitEnd, TaskBus, Starting, TypeOK
  <2> QED
    BY <1>2, <2>1 DEF ShareLoad, EndLoad, MaySend
<1> QED
  BY <1>1, <1>2 DEF NewRequest

LEMMA OneTaskStep ==
  ASSUME OneRequestAtATime, TypeOK, TasksAreBacked, OneTaskPerDriver, [Next]_vars
  PROVE  OneTaskPerDriver'
<1>. SUFFICES ASSUME NEW v \in Handlers, NEW w \in Handlers, h'[v] # Idle, h'[w] # Idle,
                     Owner[TaskBus(v)'] = Owner[TaskBus(w)'], v # w
              PROVE  FALSE
  BY DEF OneTaskPerDriver
<1>1. CASE h[v] # Idle /\ h[w] # Idle
  BY <1>1, BusStays DEF OneTaskPerDriver
<1>2. ASSUME NEW x \in Handlers, NEW y \in Handlers, x # y, h[x] = Idle,
             h'[x] # Idle, h'[y] # Idle, Owner[TaskBus(x)'] = Owner[TaskBus(y)']
      PROVE  FALSE
  <2>0. h[x].pc = "idle" /\ ~TaskStep(x)
    <3>1. h[x].pc = "idle"
      BY <1>2 DEF Idle
    <3> QED
      BY <3>1
         DEF TaskStep, StartRefused, StartChecked, StartInsert, ShareRefused, InsertPoint,
             SetLive, PublishFix, ShowFix, CommitEnd, DeleteLive, PublishEnded, ShowEnded
  <2>1. NewRequest(x)
    BY <1>2, <2>0, OneTaskMoves
  <2>2. h[y] # Idle
    BY <1>2, <2>1, OthersWait
  <2> QED
    BY <1>2, <2>1, <2>2, BusStays, RequestWaits
<1> QED
  BY <1>1, <1>2

(* A trip is active in the next state because it is now, or was just       *)
(* inserted.                                                               *)
LEMMA NewlyActive ==
  ASSUME TypeOK, TasksAreBacked, [Next]_vars, NEW t \in TripIds, TripIsActive(t)'
  PROVE  \/ TripIsActive(t) /\ trips'[t].bus = trips[t].bus
         \/ \E w \in Handlers : /\ StartInsert(w)
                               /\ trips'[t].bus = h[w].bus
                               /\ \A s \in TripIds \ {t} : trips'[s] = trips[s]
<1>1. CASE trips[t] # NoTrip
  BY <1>1, StepGrows, RowTypes DEF Grows, TripIsActive
<1>2. CASE trips[t] = NoTrip
  <2>1. trips'[t] # trips[t]
    BY <1>2 DEF TripIsActive, NoTrip
  <2>2. ~\E w \in Handlers : InsertPoint(w) \/ CommitEnd(w)
    BY <1>2, <2>1, TaskTypes DEF InsertPoint, CommitEnd, TasksAreBacked, TaskIsBacked, TypeOK
  <2>3. PICK w \in Handlers : StartInsert(w)
    BY <2>1, <2>2, Writers
  <2>4. PICK u \in TripIds : trips' = [trips EXCEPT ![u] =
          [status |-> "active", bus |-> h[w].bus, route |-> h[w].route, total |-> 0]]
    BY <2>3 DEF StartInsert
  <2>5. u = t
    BY <2>1, <2>4 DEF TypeOK
  <2>6. trips'[t].bus = h[w].bus /\ \A s \in TripIds \ {t} : trips'[s] = trips[s]
    BY <2>4, <2>5 DEF TypeOK
  <2> QED
    BY <2>3, <2>6
<1> QED
  BY <1>1, <1>2

(* A trip stays active unless a task ends it.                              *)
LEMMA StillActive ==
  ASSUME TypeOK, TasksAreBacked, [Next]_vars, NEW t \in TripIds, TripIsActive(t),
         \A w \in Handlers : CommitEnd(w) => h[w].trip # t
  PROVE  TripIsActive(t)'
<1>1. CASE UNCHANGED <<trips, recorded>>
  BY <1>1 DEF TripIsActive
<1>2. ASSUME NEW w \in Handlers, StartInsert(w)
      PROVE  TripIsActive(t)'
  BY <1>2 DEF StartInsert, TripIsActive, TypeOK, NoTrip
<1>3. ASSUME NEW w \in Handlers, InsertPoint(w)
      PROVE  TripIsActive(t)'
  <2>1. h[w].trip \in TripIds /\ trips[h[w].trip] \in TripRows
    BY <1>3, TaskTypes DEF InsertPoint, TasksAreBacked, TaskIsBacked, TypeOK
  <2> QED
    BY <1>3, <2>1 DEF InsertPoint, CountedTrip, TripIsActive, TypeOK, TripRows
<1>4. ASSUME NEW w \in Handlers, CommitEnd(w)
      PROVE  TripIsActive(t)'
  BY <1>4, TaskTypes DEF CommitEnd, TripIsActive, TypeOK
<1> QED
  BY <1>1, <1>2, <1>3, <1>4, Writers

-----------------------------------------------------------------------------
(* ONE ACTIVE TRIP.  A trip is inserted by the only task of a driver who   *)
(* has none.                                                               *)
LEMMA InsertIsAllowed ==
  ASSUME TypeOK, TasksAreCurrent, NEW w \in Handlers, StartInsert(w), NEW s \in TripIds,
         TripIsActive(s)
  PROVE  Owner[trips[s].bus] # Owner[h[w].bus]
  BY DEF TasksAreCurrent, TaskIsCurrent, StartInsert, HasActiveTrip, TripIsActive, TaskBus,
         Starting

LEMMA OneActiveStep ==
  ASSUME TypeOK, TasksAreBacked, TasksAreCurrent, OneActiveTripPerDriver, [Next]_vars
  PROVE  OneActiveTripPerDriver'
<1>. SUFFICES ASSUME NEW s \in TripIds, NEW t \in TripIds, TripIsActive(s)', TripIsActive(t)',
                     Owner[trips'[s].bus] = Owner[trips'[t].bus], s # t
              PROVE  FALSE
  BY DEF OneActiveTripPerDriver
<1>1. ASSUME NEW x \in TripIds, NEW y \in TripIds, x # y, TripIsActive(x)', TripIsActive(y)',
             Owner[trips'[x].bus] = Owner[trips'[y].bus],
             NEW w \in Handlers, StartInsert(w), trips'[x].bus = h[w].bus,
             \A z \in TripIds \ {x} : trips'[z] = trips[z]
      PROVE  FALSE
  <2>1. TripIsActive(y) /\ trips'[y].bus = trips[y].bus
    BY <1>1 DEF TripIsActive
  <2> QED
    BY <1>1, <2>1, InsertIsAllowed
<1>2. CASE /\ TripIsActive(s) /\ trips'[s].bus = trips[s].bus
           /\ TripIsActive(t) /\ trips'[t].bus = trips[t].bus
  BY <1>2 DEF OneActiveTripPerDriver
<1> QED
  BY <1>1, <1>2, NewlyActive

-----------------------------------------------------------------------------
(* TASKS.  The trip of a sharing or ending task stays active until its own *)
(* commit, and no other task starts a trip for its driver.                 *)
LEMMA TaskTrip ==
  ASSUME TypeOK, TasksAreBacked, NEW v \in Handlers,
         h[v].pc \in {"insert_point", "set_live", "publish_fix", "commit_end", "delete_live",
                     "publish_ended"}
  PROVE  /\ h[v].trip \in TripIds
         /\ trips[h[v].trip] # NoTrip
         /\ TaskBus(v) = trips[h[v].trip].bus
         /\ h[v] # Idle
<1>1. h[v].trip \in TripIds /\ trips[h[v].trip] # NoTrip
  BY TaskTypes, RowTypes DEF TasksAreBacked, TaskIsBacked, NoTrip
<1> QED
  BY <1>1 DEF TaskBus, Starting, Idle

LEMMA SharingStaysCurrent ==
  ASSUME TypeOK, TasksAreBacked, OneTaskPerDriver, TasksAreCurrent, [Next]_vars,
         NEW v \in Handlers,
         h'[v].pc \in {"insert_point", "set_live", "publish_fix", "commit_end"}
  PROVE  TripIsActive(h[v].trip)'
<1>1. CASE h'[v] = h[v]
  <2>1. h[v].trip \in TripIds /\ TripIsActive(h[v].trip)
    BY <1>1, TaskTrip DEF TasksAreCurrent, TaskIsCurrent
  <2>2. ASSUME NEW w \in Handlers, CommitEnd(w), h[w].trip = h[v].trip
        PROVE  FALSE
    <3>1. h[w].pc = "commit_end"
      BY <2>2 DEF CommitEnd
    <3>2. v = w
      BY <1>1, <2>2, <3>1, TaskTrip DEF OneTaskPerDriver
    <3>3. h'[w].pc = "delete_live"
      BY <2>2, <3>1, TaskTypes DEF CommitEnd, TypeOK
    <3> QED
      BY <3>2, <3>3
  <2>3. trips'[h[v].trip].status = "active"
    BY <2>1, <2>2, StillActive DEF TripIsActive
  <2> QED
    BY <1>1, <2>3 DEF TripIsActive
<1>2. ASSUME NEW t \in TripIds, ShareLoad(v, t) \/ EndLoad(v, t)
      PROVE  TripIsActive(h[v].trip)'
  BY <1>2 DEF ShareLoad, EndLoad, ToInsertPoint, ToCommitEnd, TripIsActive, TypeOK
<1>3. CASE InsertPoint(v)
  <2>1. h[v].trip \in TripIds /\ TripIsActive(h[v].trip)
    BY <1>3, TaskTrip DEF InsertPoint, TasksAreCurrent, TaskIsCurrent
  <2>2. h'[v].trip = h[v].trip
    BY <1>3 DEF InsertPoint, ToShowFix, TypeOK
  <2>3. trips[h[v].trip] \in TripRows
    BY <2>1 DEF TypeOK, TripIsActive, NoTrip
  <2>4. trips'[h[v].trip].status = "active"
    BY <1>3, <2>1, <2>3 DEF InsertPoint, CountedTrip, TripIsActive, TypeOK, TripRows
  <2> QED
    BY <2>2, <2>4 DEF TripIsActive
<1>4. CASE SetLive(v)
  <2>1. h'[v].trip = h[v].trip /\ TripIsActive(h[v].trip)
    BY <1>4, TaskTypes DEF SetLive, TasksAreCurrent, TaskIsCurrent, TypeOK
  <2> QED
    BY <1>4, <2>1 DEF SetLive, TripIsActive
<1>5. ASSUME NEW b \in Buses, NEW r \in Routes, StartLoad(v, b, r)
      PROVE  h'[v].pc = "check_active"
  BY <1>5 DEF StartLoad, TypeOK
<1>6. CASE StartChecked(v) \/ CommitEnd(v) \/ DeleteLive(v)
  <2>1. h'[v].pc \in {"insert_trip", "delete_live", "publish_ended"}
    BY <1>6, TaskTypes
       DEF StartChecked, Starting, CommitEnd, DeleteLive, ToPublishEnded, TypeOK
  <2> QED
    BY <2>1
<1>7. CASE \/ StartRefused(v) \/ StartInsert(v) \/ ShareRefused(v) \/ PublishFix(v)
           \/ ShowFix(v) \/ PublishEnded(v) \/ ShowEnded(v)
  BY <1>7 DEF StartRefused, StartInsert, ShareRefused, PublishFix, ShowFix, PublishEnded,
              ShowEnded, TypeOK, Idle
<1>8. h'[v] # Idle
  BY DEF Idle
<1> QED
  BY <1>1, <1>2, <1>3, <1>4, <1>5, <1>6, <1>7, <1>8, OneTaskMoves DEF NewRequest, TaskStep

LEMMA NoTripForTask ==
  ASSUME TypeOK, TasksAreBacked, OneTaskPerDriver, TasksAreCurrent, OneActiveTripPerDriver,
         [Next]_vars, NEW v \in Handlers, h'[v].pc \in {"insert_trip", "delete_live"},
         NEW t \in TripIds, TripIsActive(t)'
  PROVE  Owner[trips'[t].bus] # Owner[TaskBus(v)']
<1>0. h'[v] # Idle
  BY DEF Idle
<1>1. CASE h'[v] = h[v]
  <2>1. h[v] # Idle /\ TaskBus(v)' = TaskBus(v)
    BY <1>0, <1>1, BusStays
  <2>2. CASE TripIsActive(t) /\ trips'[t].bus = trips[t].bus
    BY <1>1, <2>1, <2>2 DEF TasksAreCurrent, TaskIsCurrent, HasActiveTrip, TripIsActive
  <2>3. ASSUME NEW w \in Handlers, StartInsert(w), trips'[t].bus = h[w].bus,
               Owner[h[w].bus] = Owner[TaskBus(v)]
        PROVE  FALSE
    <3>1. h[w] # Idle /\ TaskBus(w) = h[w].bus
      BY <2>3 DEF StartInsert, Idle, TaskBus, Starting
    <3>2. v = w
      BY <2>1, <2>3, <3>1 DEF OneTaskPerDriver
    <3>3. h'[w] = Idle
      BY <2>3 DEF StartInsert, TypeOK
    <3> QED
      BY <1>0, <3>2, <3>3
  <2> QED
    BY <2>1, <2>2, <2>3, NewlyActive
<1>2. CASE StartChecked(v)
  <2>1. h'[v].pc = "insert_trip" /\ h'[v].bus = h[v].bus
    BY <1>2, TaskTypes DEF StartChecked, Starting, TypeOK
  <2>2. TaskBus(v)' = h[v].bus
    BY <2>1 DEF TaskBus, Starting
  <2> QED
    BY <1>2, <2>2 DEF StartChecked, HasActiveTrip, TripIsActive
<1>3. CASE CommitEnd(v)
  <2>. DEFINE u == h[v].trip
  <2>1. /\ u \in TripIds /\ TripIsActive(u) /\ trips[u] # NoTrip
        /\ h[v] # Idle /\ TaskBus(v) = trips[u].bus
    BY <1>3, TaskTrip DEF CommitEnd, TasksAreCurrent, TaskIsCurrent
  <2>2. trips[u] \in TripRows
    BY <2>1 DEF TypeOK
  <2>3. trips'[u].status = "ended" /\ \A s \in TripIds \ {u} : trips'[s] = trips[s]
    BY <1>3, <2>1, <2>2 DEF CommitEnd, TypeOK, TripRows
  <2>4. t # u /\ TripIsActive(t) /\ trips'[t].bus = trips[t].bus
    BY <2>3 DEF TripIsActive
  <2>5. TaskBus(v)' = TaskBus(v)
    BY <1>0, <2>1, BusStays
  <2> QED
    BY <2>1, <2>4, <2>5 DEF OneActiveTripPerDriver
<1>4. ASSUME NEW b \in Buses, NEW r \in Routes, StartLoad(v, b, r)
      PROVE  h'[v].pc = "check_active"
  BY <1>4 DEF StartLoad, TypeOK
<1>5. ASSUME NEW s \in TripIds, ShareLoad(v, s) \/ EndLoad(v, s)
      PROVE  h'[v].pc \in {"insert_point", "commit_end"}
  BY <1>5 DEF ShareLoad, EndLoad, ToInsertPoint, ToCommitEnd, TypeOK
<1>6. CASE InsertPoint(v) \/ SetLive(v) \/ DeleteLive(v)
  BY <1>6, TaskTypes DEF InsertPoint, ToShowFix, SetLive, DeleteLive, ToPublishEnded, TypeOK
<1>7. CASE \/ StartRefused(v) \/ StartInsert(v) \/ ShareRefused(v) \/ PublishFix(v)
           \/ ShowFix(v) \/ PublishEnded(v) \/ ShowEnded(v)
  BY <1>0, <1>7 DEF StartRefused, StartInsert, ShareRefused, PublishFix, ShowFix, PublishEnded,
                    ShowEnded, TypeOK
<1> QED
  BY <1>0, <1>1, <1>2, <1>3, <1>4, <1>5, <1>6, <1>7, OneTaskMoves DEF NewRequest, TaskStep

LEMMA CurrentStep ==
  ASSUME TypeOK, TasksAreBacked, OneTaskPerDriver, TasksAreCurrent, OneActiveTripPerDriver,
         [Next]_vars
  PROVE  TasksAreCurrent'
<1>. SUFFICES ASSUME NEW v \in Handlers
              PROVE  TaskIsCurrent(v)'
  BY DEF TasksAreCurrent
<1>1. h'[v].pc \in {"insert_point", "set_live", "publish_fix", "commit_end"} =>
        TripIsActive(h[v].trip)'
  BY SharingStaysCurrent
<1>2. h'[v].pc \in {"insert_trip", "delete_live"} => ~HasActiveTrip(Owner[TaskBus(v)])'
  <2>1. h'[v].pc \in {"insert_trip", "delete_live"} =>
          \A t \in TripIds : TripIsActive(t)' => Owner[trips'[t].bus] # Owner[TaskBus(v)']
    BY NoTripForTask
  <2> QED
    BY <2>1 DEF HasActiveTrip, TripIsActive
<1> QED
  BY <1>1, <1>2 DEF TaskIsCurrent

-----------------------------------------------------------------------------
(* THE FEED.  One broadcast adds one message at the end of one channel.    *)
LEMMA BroadcastAppends ==
  ASSUME TypeOK, NEW c \in Buses, NEW m \in Messages, feed' = Broadcast(c, m),
         NEW b \in Buses, NEW i \in 1..Len(feed'[b])
  PROVE  \/ i \in 1..Len(feed[b]) /\ feed'[b][i] = feed[b][i]
         \/ b = c /\ i = Len(feed[b]) + 1 /\ feed'[b][i] = m
<1>1. feed[c] \in Seq(Messages)
  BY DEF TypeOK
<1>2. CASE b = c
  <2>1. feed'[c] = Append(feed[c], m)
    BY DEF Broadcast, TypeOK
  <2> QED
    BY <1>1, <1>2, <2>1
<1>3. CASE b # c
  BY <1>3 DEF Broadcast, TypeOK
<1> QED
  BY <1>2, <1>3

LEMMA FeedWriters ==
  ASSUME TypeOK, TasksAreBacked, [Next]_vars
  PROVE  \/ UNCHANGED feed
         \/ \E w \in Handlers :
              /\ PublishFix(w) \/ ShowFix(w)
              /\ h[w].pc \in {"set_live", "publish_fix"}
              /\ TaskBus(w) \in Buses
              /\ Fix(h[w].trip, h[w].point) \in Messages
              /\ feed' = Broadcast(TaskBus(w), Fix(h[w].trip, h[w].point))
         \/ \E w \in Handlers :
              /\ TaskBus(w) \in Buses
              /\ Ended(h[w].trip) \in Messages
              /\ feed' = Broadcast(TaskBus(w), Ended(h[w].trip))
<1>1. ASSUME NEW w \in Handlers, PublishFix(w) \/ ShowFix(w)
      PROVE  /\ h[w].pc \in {"set_live", "publish_fix"}
             /\ TaskBus(w) \in Buses
             /\ Fix(h[w].trip, h[w].point) \in Messages
             /\ feed' = Broadcast(TaskBus(w), Fix(h[w].trip, h[w].point))
  BY <1>1, TaskTellsTruth DEF PublishFix, ShowFix, Messages
<1>2. ASSUME NEW w \in Handlers, PublishEnded(w) \/ ShowEnded(w)
      PROVE  /\ TaskBus(w) \in Buses
             /\ Ended(h[w].trip) \in Messages
             /\ feed' = Broadcast(TaskBus(w), Ended(h[w].trip))
  BY <1>2, TaskTellsTruth DEF PublishEnded, ShowEnded
<1>3. CASE ~\E w \in Handlers : PublishFix(w) \/ ShowFix(w) \/ PublishEnded(w) \/ ShowEnded(w)
  BY <1>3 DEF Next, vars, NewRequest, TaskStep, StartLoad, ShareLoad, EndLoad, StartRefused,
              StartChecked, StartInsert, ShareRefused, InsertPoint, SetLive, CommitEnd,
              DeleteLive, TaskFails, AssignRoute, ExpireLive, Restart
<1> QED
  BY <1>1, <1>2, <1>3

(* A fix is newer than the broadcast ones from the moment it is stored:    *)
(* those are stored too, and no other task broadcasts one of its trip.     *)
LEMMA NewerStep ==
  ASSUME TypeOK, TypeOK', TasksAreBacked, FeedIsTrue, OneTaskPerDriver, FixesAreNewer,
         [Next]_vars
  PROVE  FixesAreNewer'
<1>. SUFFICES ASSUME NEW v \in Handlers, h'[v].pc \in {"set_live", "publish_fix"},
                     NEW b \in Buses, NEW i \in 1..Len(feed'[b]),
                     feed'[b][i].kind = "fix", feed'[b][i].trip = h'[v].trip
              PROVE  feed'[b][i].point < h'[v].point
  BY DEF FixesAreNewer, FixIsNewer
<1>1. CASE h'[v] = h[v]
  <2>1. CASE UNCHANGED feed
    BY <1>1, <2>1 DEF FixesAreNewer, FixIsNewer
  <2>2. ASSUME NEW w \in Handlers, PublishFix(w) \/ ShowFix(w),
               h[w].pc \in {"set_live", "publish_fix"}, TaskBus(w) \in Buses,
               Fix(h[w].trip, h[w].point) \in Messages,
               feed' = Broadcast(TaskBus(w), Fix(h[w].trip, h[w].point))
        PROVE  feed'[b][i].point < h'[v].point
    <3>1. h'[w] = Idle
      BY <2>2 DEF PublishFix, ShowFix, TypeOK
    <3>2. w # v
      BY <3>1 DEF Idle
    <3>3. h[v].trip # h[w].trip
      BY <1>1, <2>2, <3>2, TaskTrip DEF OneTaskPerDriver
    <3>4. i \in 1..Len(feed[b]) /\ feed'[b][i] = feed[b][i]
      BY <1>1, <2>2, <3>3, BroadcastAppends DEF Fix
    <3> QED
      BY <1>1, <3>4 DEF FixesAreNewer, FixIsNewer
  <2>3. ASSUME NEW w \in Handlers, TaskBus(w) \in Buses, Ended(h[w].trip) \in Messages,
               feed' = Broadcast(TaskBus(w), Ended(h[w].trip))
        PROVE  feed'[b][i].point < h'[v].point
    <3>1. i \in 1..Len(feed[b]) /\ feed'[b][i] = feed[b][i]
      BY <2>3, BroadcastAppends DEF Ended
    <3> QED
      BY <1>1, <3>1 DEF FixesAreNewer, FixIsNewer
  <2> QED
    BY <2>1, <2>2, <2>3, FeedWriters
<1>2. CASE InsertPoint(v)
  <2>1. h'[v].trip = h[v].trip /\ h'[v].point = recorded[h[v].trip] + 1
    BY <1>2 DEF InsertPoint, ToShowFix, TypeOK
  <2>2. feed[b][i] \in Messages /\ IsTrueOf(feed[b][i], b) /\ feed'[b][i] = feed[b][i]
    BY <1>2 DEF InsertPoint, TypeOK, FeedIsTrue
  <2>3. feed[b][i].point \in 1..recorded[h[v].trip]
    BY <2>1, <2>2 DEF IsTrueOf, StoredFix
  <2>4. h[v].trip \in TripIds /\ recorded[h[v].trip] \in Nat
    BY <1>2, TaskTypes DEF InsertPoint, TypeOK
  <2> QED
    BY <2>1, <2>2, <2>3, <2>4
<1>3. CASE SetLive(v)
  <2>1. h'[v].trip = h[v].trip /\ h'[v].point = h[v].point /\ h[v].pc = "set_live"
    BY <1>3, TaskTypes DEF SetLive, TypeOK
  <2> QED
    BY <1>3, <2>1 DEF SetLive, FixesAreNewer, FixIsNewer
<1>4. ASSUME NEW c \in Buses, NEW r \in Routes, StartLoad(v, c, r)
      PROVE  h'[v].pc = "check_active"
  BY <1>4 DEF StartLoad, TypeOK
<1>5. ASSUME NEW s \in TripIds, ShareLoad(v, s) \/ EndLoad(v, s)
      PROVE  h'[v].pc \in {"insert_point", "commit_end"}
  BY <1>5 DEF ShareLoad, EndLoad, ToInsertPoint, ToCommitEnd, TypeOK
<1>6. CASE StartChecked(v) \/ CommitEnd(v) \/ DeleteLive(v)
  <2>1. h'[v].pc \in {"insert_trip", "delete_live", "publish_ended"}
    BY <1>6, TaskTypes
       DEF StartChecked, Starting, CommitEnd, DeleteLive, ToPublishEnded, TypeOK
  <2> QED
    BY <2>1
<1>7. CASE \/ StartRefused(v) \/ StartInsert(v) \/ ShareRefused(v) \/ PublishFix(v)
           \/ ShowFix(v) \/ PublishEnded(v) \/ ShowEnded(v)
  BY <1>7 DEF StartRefused, StartInsert, ShareRefused, PublishFix, ShowFix, PublishEnded,
              ShowEnded, TypeOK, Idle
<1>8. h'[v] # Idle
  BY DEF Idle
<1> QED
  BY <1>1, <1>2, <1>3, <1>4, <1>5, <1>6, <1>7, <1>8, OneTaskMoves DEF NewRequest, TaskStep

(* Whatever is broadcast comes after the fixes of its trip, and no fix     *)
(* after the end: its trip is still active.                                *)
LEMMA FeedOrderStep ==
  ASSUME TypeOK, TasksAreBacked, FeedIsTrue, TasksAreCurrent, FixesAreNewer, FeedInOrder,
         [Next]_vars
  PROVE  FeedInOrder'
<1>1. CASE UNCHANGED feed
  BY <1>1 DEF FeedInOrder, EndedIsTerminal, FixesInOrder
<1>2. ASSUME NEW c \in Buses, NEW m \in Messages, feed' = Broadcast(c, m),
             m.kind = "fix" =>
               \A i \in 1..Len(feed[c]) :
                 feed[c][i].trip = m.trip =>
                   feed[c][i].kind = "fix" /\ feed[c][i].point < m.point
      PROVE  FeedInOrder'
  <2>. SUFFICES ASSUME NEW b \in Buses, NEW i \in 1..Len(feed'[b]), NEW j \in 1..Len(feed'[b]),
                       i < j, feed'[b][j].kind = "fix", feed'[b][i].trip = feed'[b][j].trip
                PROVE  /\ feed'[b][i].kind # "ended"
                       /\ feed'[b][i].kind = "fix" => feed'[b][i].point < feed'[b][j].point
    BY DEF FeedInOrder, EndedIsTerminal, FixesInOrder
  <2>0. Len(feed[b]) \in Nat
    BY DEF TypeOK
  <2>1. i \in 1..Len(feed[b]) /\ feed'[b][i] = feed[b][i]
    <3>1. Len(feed'[b]) <= Len(feed[b]) + 1
      <4>1. CASE b = c
        <5>1. feed[c] \in Seq(Messages) /\ feed'[c] = Append(feed[c], m)
          BY <1>2 DEF Broadcast, TypeOK
        <5> QED
          BY <4>1, <5>1
      <4>2. CASE b # c
        BY <1>2, <2>0, <4>2 DEF Broadcast, TypeOK
      <4> QED
        BY <4>1, <4>2
    <3> QED
      BY <1>2, <2>0, <3>1, BroadcastAppends
  <2>2. CASE j \in 1..Len(feed[b]) /\ feed'[b][j] = feed[b][j]
    BY <2>1, <2>2 DEF FeedInOrder, EndedIsTerminal, FixesInOrder
  <2>3. CASE b = c /\ feed'[b][j] = m
    BY <1>2, <2>1, <2>3
  <2> QED
    BY <1>2, <2>2, <2>3, BroadcastAppends
<1>3. ASSUME NEW w \in Handlers, h[w].pc \in {"set_live", "publish_fix"},
             TaskBus(w) \in Buses, Fix(h[w].trip, h[w].point) \in Messages,
             feed' = Broadcast(TaskBus(w), Fix(h[w].trip, h[w].point))
      PROVE  FeedInOrder'
  <2>. DEFINE c == TaskBus(w)
  <2>1. ASSUME NEW i \in 1..Len(feed[c]), feed[c][i].trip = h[w].trip
        PROVE  feed[c][i].kind = "fix" /\ feed[c][i].point < h[w].point
    <3>1. TripIsActive(h[w].trip)
      BY <1>3 DEF TasksAreCurrent, TaskIsCurrent
    <3>2. IsTrueOf(feed[c][i], c)
      BY <1>3 DEF FeedIsTrue
    <3>3. feed[c][i].kind = "fix"
      BY <2>1, <3>1, <3>2 DEF IsTrueOf, StoredFix, TripIsActive
    <3> QED
      BY <1>3, <2>1, <3>3 DEF FixesAreNewer, FixIsNewer
  <2> QED
    BY <1>2, <1>3, <2>1 DEF Fix
<1>4. ASSUME NEW w \in Handlers, TaskBus(w) \in Buses, Ended(h[w].trip) \in Messages,
             feed' = Broadcast(TaskBus(w), Ended(h[w].trip))
      PROVE  FeedInOrder'
  BY <1>2, <1>4 DEF Ended
<1> QED
  BY <1>1, <1>3, <1>4, FeedWriters

-----------------------------------------------------------------------------
(* THEOREMS about a driver who waits for every answer                      *)
LEMMA PatientInit == Init => PatientInv
  BY DEF Init, PatientInv, OneTaskPerDriver, TasksAreCurrent, TaskIsCurrent,
         OneActiveTripPerDriver, TripIsActive, NoTrip, FixesAreNewer, FixIsNewer, FeedInOrder,
         EndedIsTerminal, FixesInOrder, Idle

LEMMA PatientStep ==
  ASSUME OneRequestAtATime, IInv, IInv', PatientInv, [Next]_vars
  PROVE  PatientInv'
<1>1. /\ TypeOK /\ TypeOK' /\ TasksAreBacked /\ FeedIsTrue
      /\ OneTaskPerDriver /\ TasksAreCurrent /\ OneActiveTripPerDriver
      /\ FixesAreNewer /\ FeedInOrder
  BY DEF IInv, PatientInv
<1>2. OneTaskPerDriver'
  BY <1>1, OneTaskStep
<1>3. TasksAreCurrent'
  BY <1>1, CurrentStep
<1>4. OneActiveTripPerDriver'
  BY <1>1, OneActiveStep
<1>5. FixesAreNewer'
  BY <1>1, NewerStep
<1>6. FeedInOrder'
  BY <1>1, FeedOrderStep
<1> QED
  BY <1>2, <1>3, <1>4, <1>5, <1>6 DEF PatientInv

LEMMA PatientInvariance ==
  ASSUME OneRequestAtATime
  PROVE  Spec => []PatientInv
<1>1. IInv /\ IInv' /\ PatientInv /\ [Next]_vars => PatientInv'
  BY PatientStep
<1> QED
  BY <1>1, PatientInit, Invariance, PTL DEF Spec

(* The check of start_trip allows one active trip per driver.              *)
THEOREM OneActiveTrip ==
  ASSUME OneRequestAtATime
  PROVE  Spec => []OneActiveTripPerDriver
<1>1. PatientInv => OneActiveTripPerDriver
  BY DEF PatientInv
<1> QED
  BY <1>1, PatientInvariance, PTL

(* A channel carries the fixes of a trip in order, each once, and nothing  *)
(* of the trip after its end.                                              *)
THEOREM FeedStaysInOrder ==
  ASSUME OneRequestAtATime
  PROVE  Spec => []FeedInOrder
<1>1. PatientInv => FeedInOrder
  BY DEF PatientInv
<1> QED
  BY <1>1, PatientInvariance, PTL

(* Ending a trip takes no running trip off the map: it only deletes the    *)
(* position of its own bus, which is that of a trip of this driver, who    *)
(* has none that runs.                                                     *)
THEOREM EndHidesNoTrip ==
  ASSUME OneRequestAtATime
  PROVE  Spec => EndHidesNoRunningTrip
<1>1. ASSUME IInv, PatientInv, [Next]_vars, NEW w \in Handlers, NEW b \in Buses,
             h[w].pc = "delete_live", h'[w].pc = "publish_ended",
             live[b] # NoPosition, live'[b] = NoPosition
      PROVE  ~TripIsActive(live[b].trip)
  <2>1. DeleteLive(w)
    <3>1. CASE NewRequest(w)
      BY <1>1, <3>1 DEF NewRequest, StartLoad, ShareLoad, EndLoad, Idle
    <3>2. h'[w] # h[w] /\ h'[w] # Idle
      BY <1>1 DEF Idle
    <3>3. CASE ShowEnded(w)
      BY <3>2, <3>3 DEF ShowEnded, IInv, TypeOK
    <3> QED
      BY <1>1, <3>1, <3>2, <3>3, OneTaskMoves
         DEF IInv, TaskStep, StartRefused, StartChecked, StartInsert, ShareRefused,
             InsertPoint, SetLive, PublishFix, ShowFix, CommitEnd, PublishEnded
  <2>2. TaskBus(w) = b
    BY <1>1, <2>1 DEF DeleteLive, Dropped, IInv, TypeOK
  <2>3. /\ live[b] \in Fixes
        /\ trips[live[b].trip].bus = b
    BY <1>1 DEF IInv, TypeOK, LiveIsStored, StoredFix
  <2>4. ~HasActiveTrip(Owner[b])
    BY <1>1, <2>2 DEF PatientInv, TasksAreCurrent, TaskIsCurrent
  <2> QED
    BY <2>3, <2>4 DEF HasActiveTrip, TripIsActive, Fixes
<1>2. IInv /\ PatientInv /\ [Next]_vars =>
        [\A w \in Handlers, b \in Buses :
           (/\ h[w].pc = "delete_live" /\ h'[w].pc = "publish_ended"
            /\ live[b] # NoPosition /\ live'[b] = NoPosition)
             => ~TripIsActive(live[b].trip)]_vars
  BY <1>1
<1> QED
  BY <1>2, Invariance, PatientInvariance, PTL DEF Spec, EndHidesNoRunningTrip
=============================================================================
