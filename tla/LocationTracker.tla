--------------------------- MODULE LocationTracker ---------------------------
(***************************************************************************)
(* The phone of a driver: the location tracker with its offline buffer     *)
(* (location_tracker.dart, app_storage.dart), the controller that starts   *)
(* and stops it (driver_controller.dart), and as much of the server as     *)
(* they see: which trip is active and which fixes are stored.              *)
(*                                                                         *)
(* Fixes are numbered as they are read.  A tick is one run of _tick, a     *)
(* call one run of loadActiveTrip, startTrip or endTrip; several of each   *)
(* may be suspended at once.  gone belongs to no part of the program: the  *)
(* fixes that died with the app or were pushed out of a full buffer.       *)
(***************************************************************************)
EXTENDS Naturals, Sequences, FiniteSets

CONSTANTS
  Ticks, Calls, \* bounds: ticks and calls in flight
  TripBound,    \* bound, by calm: trips ever started
  FixBound,     \* bound, by calm: fixes ever read
  FailureBound, \* bound, by calm: requests or answers lost, deaths of the app
  BufferCap,    \* OfflineBuffer keeps 500 fixes
  Moods         \* the values calm may have

ASSUME TrackerAssumption ==
  /\ Moods \subseteq BOOLEAN /\ BufferCap \in Nat \ {0}
  /\ {TripBound, FixBound, FailureBound} \subseteq [Moods -> Nat] /\ IsFiniteSet(Calls)

VARIABLES
  calm,       \* whether calls do not overlap, and the tracker is not
              \* restarted while a tick is in flight
  active,     \* server: the trip of this driver that is active, or 0
  created,    \* server: trips started so far
  lateStarts, \* how many requests to start a trip, and which to end
  lateEnds,   \* one, may still reach the server though the phone gave up
  stored,     \* server: how often fix n is stored
  fixes,      \* fixes[n]: the trip of the nth fix
  buffer,     \* OfflineBuffer, on the disk of the phone
  late,       \* fixes whose request may still reach the server likewise
  tracker,    \* _tripId (0: null) and whether _timer is set
  activeTrip, \* DriverController._activeTrip, 0: null
  tick, call, \* the ticks and the calls
  failures,
  gone

trips  == <<active, created>>
server == <<active, created, lateStarts, lateEnds>>
phone  == <<tracker, activeTrip>>
vars   == <<calm, server, stored, fixes, buffer, late, phone, tick, call, failures, gone>>

Trips       == UNION {1..TripBound[m] : m \in Moods}
MaxTrips    == TripBound[calm]
MaxFixes    == FixBound[calm]
MaxFailures == FailureBound[calm]
FixIds      == 1..MaxFixes

NoTick == [pc |-> "idle", trip |-> 0, fix |-> 0]
NoCall == [op |-> "none", pc |-> "idle", trip |-> 0, todo |-> <<>>, pending |-> <<>>]
NoTracker == [trip |-> 0, timer |-> FALSE]

TicksIdle == \A k \in Ticks : tick[k].pc = "idle"
CallsIdle == \A c \in Calls : call[c].pc = "idle"
-----------------------------------------------------------------------------
(* Faulty variants, each a plausible slip; nothing in the model uses them. *)
Uncapped(q)       == q
RearmedOnSuccess(k) == tick[k].pc = "accepted"     \* no rearming in the catch
ForgetsFailed(c)  == call[c].pending
SentIsKept(c)     == [call[c] EXCEPT !.pc = "flush", !.todo = Tail(@),
                                     !.pending = Append(@, Head(call[c].todo))]
KeepsTimer        == tracker                       \* endTrip forgets stop()
-----------------------------------------------------------------------------
(* OfflineBuffer.add                                                       *)
Capped(q) == IF Len(q) > BufferCap THEN SubSeq(q, Len(q) - BufferCap + 1, Len(q)) ELSE q

(* _tick ends with _scheduleNext whatever happened, even after stop().     *)
Rearmed(k) == TRUE

(* share_location: a fix is stored while its trip is active, each time it  *)
(* arrives.                                                                *)
Takes(n) == fixes[n] = active

Storing(n) == stored' = [stored EXCEPT ![n] = @ + 1]

(* A request fails: refused, or nothing heard of it for 15 seconds, when   *)
(* it may still arrive later.                                              *)
Fails(n) ==
  \/ ~Takes(n) /\ UNCHANGED <<failures, late>>
  \/ /\ failures < MaxFailures
     /\ failures' = failures + 1
     /\ late' \in {late, late \cup {n}}

AnswerIsLost ==
  /\ failures < MaxFailures
  /\ failures' = failures + 1

Init ==
  /\ calm \in Moods
  /\ active = 0 /\ created = 0 /\ lateStarts = 0 /\ lateEnds = {}
  /\ stored = [n \in FixIds |-> 0]
  /\ fixes = <<>> /\ buffer = <<>> /\ late = {}
  /\ tracker = NoTracker /\ activeTrip = 0
  /\ tick = [k \in Ticks |-> NoTick]
  /\ call = [c \in Calls |-> NoCall]
  /\ failures = 0 /\ gone = {}

LateArrives(n) ==
  /\ n \in late
  /\ late' = late \ {n}
  /\ IF Takes(n) THEN Storing(n) ELSE UNCHANGED stored
  /\ UNCHANGED <<calm, server, fixes, buffer, phone, tick, call, failures, gone>>
-----------------------------------------------------------------------------
(* _tick                                                                   *)
TimerFires(k) ==
  /\ tracker.timer /\ tick[k].pc = "idle"
  /\ tracker' = [tracker EXCEPT !.timer = FALSE]
  /\ tick' = IF tracker.trip = 0 THEN tick
             ELSE [tick EXCEPT ![k] = [@ EXCEPT !.pc = "gps", !.trip = tracker.trip]]
  /\ UNCHANGED <<calm, server, stored, fixes, buffer, late, activeTrip, call, failures, gone>>

EndsTick(k) ==
  /\ tick' = [tick EXCEPT ![k] = NoTick]
  /\ tracker' = [tracker EXCEPT !.timer = Rearmed(k)]

FixRead(k) ==
  /\ tick[k].pc = "gps" /\ Len(fixes) < MaxFixes
  /\ fixes' = Append(fixes, tick[k].trip)
  /\ tick' = [tick EXCEPT ![k] = [@ EXCEPT !.pc = "send", !.fix = Len(fixes) + 1]]
  /\ UNCHANGED <<calm, server, stored, buffer, late, phone, call, failures, gone>>

NoFix(k) ==
  /\ tick[k].pc = "gps"
  /\ EndsTick(k)
  /\ UNCHANGED <<calm, server, stored, fixes, buffer, late, activeTrip, call, failures, gone>>

SendStored(k) ==
  /\ tick[k].pc = "send" /\ Takes(tick[k].fix)
  /\ Storing(tick[k].fix)
  /\ tick' = [tick EXCEPT ![k].pc = "accepted"]
  /\ UNCHANGED <<calm, server, fixes, buffer, late, phone, call, failures, gone>>

SendFails(k) ==
  /\ tick[k].pc = "send" /\ Fails(tick[k].fix)
  /\ tick' = [tick EXCEPT ![k].pc = "add"]
  /\ UNCHANGED <<calm, server, stored, fixes, buffer, phone, call, gone>>

SendAccepted(k) ==
  /\ tick[k].pc = "accepted"
  /\ EndsTick(k)
  /\ UNCHANGED <<calm, server, stored, fixes, buffer, late, activeTrip, call, failures, gone>>

SendUnanswered(k) ==
  /\ tick[k].pc = "accepted" /\ AnswerIsLost
  /\ tick' = [tick EXCEPT ![k].pc = "add"]
  /\ UNCHANGED <<calm, server, stored, fixes, buffer, late, phone, call, gone>>

AddToBuffer(k) ==
  /\ tick[k].pc = "add"
  /\ buffer' = Capped(Append(buffer, tick[k].fix))
  /\ gone' = IF Len(buffer) = BufferCap THEN gone \cup {Head(buffer)} ELSE gone
  /\ EndsTick(k)
  /\ UNCHANGED <<calm, server, stored, fixes, late, activeTrip, call, failures>>
-----------------------------------------------------------------------------
(* The calls of the controller: ask the server, then act on its answer.    *)
Asks(c, op, t) ==
  /\ call[c].pc = "idle"
  /\ calm => CallsIdle
  /\ call' = [call EXCEPT ![c] = [NoCall EXCEPT !.op = op, !.pc = "request", !.trip = t]]
  /\ UNCHANGED <<calm, server, stored, fixes, buffer, late, activeTrip, tick, failures, gone>>

AskActive(c) == Asks(c, "load", 0) /\ UNCHANGED tracker
AskStart(c)  == Asks(c, "start", 0) /\ UNCHANGED tracker

Stopped == NoTracker

AskEnd(c) ==
  /\ activeTrip # 0
  /\ Asks(c, "end", activeTrip)
  /\ tracker' = Stopped

(* start_trip refuses a driver who has a trip; end_trip, one that is not   *)
(* active.                                                                 *)
MayStart == active = 0 /\ created < MaxTrips
Starts   == active' = created + 1 /\ created' = created + 1
Ends(t)  == active' = (IF active = t THEN 0 ELSE active) /\ created' = created

(* The answer to a load is 0 when there is no active trip.                 *)
Serve(c) ==
  /\ call[c].pc = "request"
  /\ \/ /\ call[c].op = "load"
        /\ call' = [call EXCEPT ![c].pc = "answered", ![c].trip = active]
        /\ UNCHANGED trips
     \/ /\ call[c].op = "start" /\ MayStart /\ Starts
        /\ call' = [call EXCEPT ![c].pc = "answered", ![c].trip = created + 1]
     \/ /\ call[c].op = "start" /\ ~MayStart
        /\ call' = [call EXCEPT ![c] = NoCall]
        /\ UNCHANGED trips
     \/ /\ call[c].op = "end" /\ Ends(call[c].trip)
        /\ call' = [call EXCEPT ![c].pc = "answered"]
  /\ UNCHANGED <<calm, lateStarts, lateEnds, stored, fixes, buffer, late, phone, tick, failures,
                 gone>>

(* Requests the server has not seen when the phone gives up on them.  The  *)
(* timeout does not take them back: any of them may arrive later.          *)
Unseen(C, op) == {c \in C : call[c].pc = "request" /\ call[c].op = op}

MayGoAstray(C) ==
  /\ \E S \in SUBSET Unseen(C, "start") : lateStarts' = lateStarts + Cardinality(S)
  /\ \E E \in SUBSET Unseen(C, "end") : lateEnds' = lateEnds \cup {call[c].trip : c \in E}

LateStart ==
  /\ lateStarts > 0 /\ lateStarts' = lateStarts - 1
  /\ IF MayStart THEN Starts ELSE UNCHANGED trips
  /\ UNCHANGED <<calm, lateEnds, stored, fixes, buffer, late, phone, tick, call, failures, gone>>

LateEnd(t) ==
  /\ t \in lateEnds /\ lateEnds' = lateEnds \ {t}
  /\ Ends(t)
  /\ UNCHANGED <<calm, lateStarts, stored, fixes, buffer, late, phone, tick, call, failures, gone>>

(* endTrip forgets the trip in a finally clause, the others catch.         *)
CallFails(c) ==
  /\ call[c].pc \in {"request", "answered"}
  /\ failures < MaxFailures /\ failures' = failures + 1
  /\ MayGoAstray({c})
  /\ call' = [call EXCEPT ![c] = NoCall]
  /\ activeTrip' = IF call[c].op = "end" THEN 0 ELSE activeTrip
  /\ UNCHANGED <<calm, trips, stored, fixes, buffer, late, tracker, tick, gone>>

EndAnswered(c) ==
  /\ call[c].pc = "answered" /\ (call[c].op = "end" \/ call[c].trip = 0)
  /\ activeTrip' = 0
  /\ call' = [call EXCEPT ![c] = NoCall]
  /\ UNCHANGED <<calm, server, stored, fixes, buffer, late, tracker, tick, failures, gone>>

(* tracker.start(): stop, take the trip, flush the buffer.                 *)
StartTracker(c) ==
  /\ call[c].pc = "answered" /\ call[c].op # "end" /\ call[c].trip # 0
  /\ calm => TicksIdle
  /\ activeTrip' = call[c].trip
  /\ tracker' = [trip |-> call[c].trip, timer |-> FALSE]
  /\ call' = [call EXCEPT ![c].pc = "read"]
  /\ UNCHANGED <<calm, server, stored, fixes, buffer, late, tick, failures, gone>>

EndsStart(c) ==
  /\ call' = [call EXCEPT ![c] = NoCall]
  /\ tracker' = [tracker EXCEPT !.timer = TRUE]

ReadBuffer(c) ==
  /\ call[c].pc = "read"
  /\ IF buffer = <<>> THEN EndsStart(c)
     ELSE /\ call' = [call EXCEPT ![c].pc = "flush", ![c].todo = buffer]
          /\ UNCHANGED tracker
  /\ UNCHANGED <<calm, server, stored, fixes, buffer, late, activeTrip, tick, failures, gone>>
-----------------------------------------------------------------------------
(* _flushBuffer: the fixes of other trips and those that fail are pending. *)
Flushing(c) == call[c].pc = "flush" /\ call[c].todo # <<>>
NextUp(c)    == Head(call[c].todo)

KeptFor(c) == Append(call[c].pending, NextUp(c))
Kept(c)    == [call[c] EXCEPT !.pc = "flush", !.todo = Tail(@), !.pending = KeptFor(c)]
Sent(c)    == [call[c] EXCEPT !.pc = "flush", !.todo = Tail(@)]

FlushSkips(c) ==
  /\ Flushing(c) /\ fixes[NextUp(c)] # call[c].trip
  /\ call' = [call EXCEPT ![c] = Kept(c)]
  /\ UNCHANGED <<calm, server, stored, fixes, buffer, late, phone, tick, failures, gone>>

FlushStored(c) ==
  /\ Flushing(c) /\ fixes[NextUp(c)] = call[c].trip /\ Takes(NextUp(c))
  /\ Storing(NextUp(c))
  /\ call' = [call EXCEPT ![c].pc = "accepted"]
  /\ UNCHANGED <<calm, server, fixes, buffer, late, phone, tick, failures, gone>>

FlushFails(c) ==
  /\ Flushing(c) /\ fixes[NextUp(c)] = call[c].trip
  /\ Fails(NextUp(c))
  /\ call' = [call EXCEPT ![c] = Kept(c)]
  /\ UNCHANGED <<calm, server, stored, fixes, buffer, phone, tick, gone>>

FlushAccepted(c) ==
  /\ call[c].pc = "accepted"
  /\ call' = [call EXCEPT ![c] = Sent(c)]
  /\ UNCHANGED <<calm, server, stored, fixes, buffer, late, phone, tick, failures, gone>>

FlushUnanswered(c) ==
  /\ call[c].pc = "accepted" /\ AnswerIsLost
  /\ call' = [call EXCEPT ![c] = Kept(c)]
  /\ UNCHANGED <<calm, server, stored, fixes, buffer, late, phone, tick, gone>>

Replace(c) ==
  /\ call[c].pc = "flush" /\ call[c].todo = <<>>
  /\ buffer' = call[c].pending
  /\ EndsStart(c)
  /\ UNCHANGED <<calm, server, stored, fixes, late, activeTrip, tick, failures, gone>>
-----------------------------------------------------------------------------
(* The app is killed: the buffer and the server's state survive, and what  *)
(* was on its way may arrive.                                              *)
Carried == {tick[k].fix : k \in Ticks} \ {0}

OnTheWay ==
  {tick[k].fix : k \in {l \in Ticks : tick[l].pc = "send"}}
    \cup {NextUp(c) : c \in {d \in Calls : Flushing(d) /\ fixes[NextUp(d)] = call[d].trip}}

AppDies ==
  /\ failures < MaxFailures
  /\ failures' = failures + 1
  /\ gone' = gone \cup Carried
  /\ \E F \in SUBSET OnTheWay : late' = late \cup F
  /\ MayGoAstray(Calls)
  /\ tracker' = NoTracker /\ activeTrip' = 0
  /\ tick' = [k \in Ticks |-> NoTick]
  /\ call' = [c \in Calls |-> NoCall]
  /\ UNCHANGED <<calm, trips, stored, fixes, buffer>>

TickStep(k) ==
  \/ FixRead(k) \/ NoFix(k)
  \/ SendStored(k) \/ SendFails(k) \/ SendAccepted(k) \/ SendUnanswered(k)
  \/ AddToBuffer(k)

CallStep(c) ==
  \/ Serve(c) \/ CallFails(c) \/ EndAnswered(c) \/ StartTracker(c) \/ ReadBuffer(c)
  \/ FlushSkips(c) \/ FlushStored(c) \/ FlushFails(c) \/ FlushAccepted(c)
  \/ FlushUnanswered(c) \/ Replace(c)

Next ==
  \/ \E k \in Ticks : TimerFires(k) \/ TickStep(k)
  \/ \E c \in Calls : AskActive(c) \/ AskStart(c) \/ AskEnd(c) \/ CallStep(c)
  \/ \E n \in FixIds : LateArrives(n)
  \/ LateStart \/ \E t \in Trips : LateEnd(t)
  \/ AppDies

(* Timers fire and requests end, by their answer or by the timeout of 15   *)
(* seconds.  The GPS need not answer: getCurrentPosition has no limit.     *)
Fairness ==
  /\ WF_vars(\E k \in Ticks : TimerFires(k))
  /\ \A k \in Ticks : WF_vars(tick[k].pc # "gps" /\ TickStep(k))
  /\ \A c \in Calls : WF_vars(CallStep(c))

Spec     == Init /\ [][Next]_vars
FairSpec == Spec /\ Fairness
-----------------------------------------------------------------------------
TypeOK ==
  /\ calm \in Moods
  /\ active \in {0} \cup Trips /\ created \in {0} \cup Trips
  /\ lateStarts \in Nat /\ lateEnds \subseteq Trips
  /\ stored \in [FixIds -> Nat]
  /\ fixes \in Seq(Trips) /\ Len(fixes) <= MaxFixes
  /\ buffer \in Seq(FixIds) /\ Len(buffer) <= BufferCap
  /\ late \subseteq FixIds /\ gone \subseteq FixIds
  /\ tracker \in [trip : {0} \cup Trips, timer : BOOLEAN]
  /\ activeTrip \in {0} \cup Trips
  /\ tick \in [Ticks -> [pc : {"idle", "gps", "send", "accepted", "add"},
                         trip : {0} \cup Trips, fix : {0} \cup FixIds]]
  /\ call \in [Calls -> [op : {"none", "load", "start", "end"},
                         pc : {"idle", "request", "answered", "read", "flush", "accepted"},
                         trip : {0} \cup Trips,
                         todo : Seq(FixIds), pending : Seq(FixIds)]]
  /\ failures \in 0..MaxFailures

(* "A dead spot never loses the trail": every fix that was read is stored, *)
(* buffered or on its way, unless it died with the app in the middle of a  *)
(* tick or was the oldest of a full buffer.                                *)
Buffered(n) == \E i \in 1..Len(buffer) : buffer[i] = n

TrailIsKept ==
  \A n \in 1..Len(fixes) :
    stored[n] > 0 \/ Buffered(n) \/ n \in Carried \/ n \in gone

(* That is so as long as calls overlap neither with each other nor with a  *)
(* tick: no failure, timeout, death of the app or full buffer breaks it,   *)
(* and the buffer keeps its bound (TypeOK).                                *)
CalmTrailIsKept == TypeOK /\ (calm => TrailIsKept)

(* Then, each time a fix is stored once more than it should, an answer was *)
(* lost, a request came late, or the app died in the middle of a flush.    *)
ExtraCopiesNeedFailures == calm => \A n \in FixIds : stored[n] <= 1 + failures

(* Then, too, the server takes positions from the phone only for the trip  *)
(* its driver sees and can end.  A trip that a late request has ended may  *)
(* be tracked with none shown: the server refuses its fixes, and the       *)
(* tracker stops only with the next trip.                                  *)
TrackedTripIsShown ==
  calm /\ tracker.trip # 0 /\ tracker.trip = active => activeTrip = tracker.trip

(* LIVENESS.  Once the driver leaves the phone alone with a trip being     *)
(* tracked, the GPS is asked again and again: no failure of a fix, a       *)
(* request or a flush stops the timer, and neither do ticks or starts that *)
(* overlapped before.                                                      *)
AsksGps == \E k \in Ticks : tick[k].pc = "gps"

KeepsTracking == <>[](CallsIdle /\ tracker.trip # 0) => []<>AsksGps
=============================================================================
