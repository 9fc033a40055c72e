----------------------- MODULE LocationTracker_proofs -----------------------
(***************************************************************************)
(* Proofs about LocationTracker, for any number of ticks and calls, of     *)
(* trips, fixes and failures, and for every capacity of the buffer.        *)
(***************************************************************************)
EXTENDS LocationTracker, FiniteSetTheorems, TLAPS

Holds(q, n)  == \E i \in 1..Len(q) : q[i] = n
NoRepeats(q) == \A i, j \in 1..Len(q) : q[i] = q[j] => i = j

(* What a call does between tracker.start() and the timer it sets.         *)
Flushes(c)  == call[c].pc \in {"flush", "accepted"}
Starting(c) == call[c].pc = "read" \/ Flushes(c)

TickRecord == [pc : {"idle", "gps", "send", "accepted", "add"},
               trip : {0} \cup Trips, fix : {0} \cup FixIds]
CallRecord == [op : {"none", "load", "start", "end"},
               pc : {"idle", "request", "answered", "read", "flush", "accepted"},
               trip : {0} \cup Trips, todo : Seq(FixIds), pending : Seq(FixIds)]

(* THE INDUCTIVE INVARIANT, part 1.  A tick has a trip, and from its       *)
(* answer on a fix; a flush has room in the buffer for all that it may     *)
(* have to keep; a call that starts or ends a trip has one.                *)
TicksAreKnown ==
  \A k \in Ticks :
    /\ tick[k].pc # "idle" => tick[k].trip # 0
    /\ IF tick[k].pc \in {"send", "accepted", "add"}
       THEN tick[k].fix \in 1..Len(fixes) ELSE tick[k].fix = 0

FlushesFit ==
  \A c \in Calls :
    /\ call[c].pc = "accepted" => call[c].todo # <<>>
    /\ ~Flushes(c) => call[c].todo = <<>> /\ call[c].pending = <<>>
    /\ Len(call[c].todo) + Len(call[c].pending) <= BufferCap
    /\ Starting(c) => call[c].op # "end" /\ call[c].trip # 0
    /\ call[c].op = "end" => call[c].trip # 0

BaseInv == TypeOK /\ TicksAreKnown /\ FlushesFit

(* Part 2, as long as calls wait for one another.  No tick runs and none   *)
(* can begin until the tracker has flushed the buffer, and the phone and   *)
(* the server agree about a trip that is tracked and active: the server    *)
(* gives each trip a new number, so one that a late request has ended is   *)
(* never active again, and an answer that there is none stays true of it.  *)
CallsWait ==
  \A c, d \in Calls : call[c].pc # "idle" /\ call[d].pc # "idle" => c = d

StartIsAlone == \A c \in Calls : Starting(c) => TicksIdle /\ ~tracker.timer

TrackedIsShown ==
  /\ active <= created /\ tracker.trip <= created
  /\ tracker.trip # 0 /\ tracker.trip = active => activeTrip = tracker.trip

AnswerStands(t) ==
  /\ t <= created
  /\ t = 0 => tracker.trip = 0 \/ tracker.trip # active

TripsAgree ==
  /\ TrackedIsShown
  /\ \A c \in Calls :
       /\ call[c].pc # "idle" /\ call[c].op = "end" => tracker.trip = 0
       /\ call[c].pc = "answered" /\ call[c].op # "end" => AnswerStands(call[c].trip)
       /\ Starting(c) => tracker.trip = call[c].trip

CalmInv == calm => CallsWait /\ StartIsAlone /\ TripsAgree

(* Part 3, with part 2.  What the server has accepted is stored, and a     *)
(* flush still has every fix of the buffer in its hands that is not.       *)
AcceptedIsStored ==
  /\ \A k \in Ticks : tick[k].pc = "accepted" => stored[tick[k].fix] > 0
  /\ \A c \in Calls : call[c].pc = "accepted" => stored[NextUp(c)] > 0

FlushCovers ==
  \A c \in Calls : Flushes(c) =>
    \A n \in FixIds : Buffered(n) =>
      stored[n] > 0 \/ Holds(call[c].todo, n) \/ Holds(call[c].pending, n)

TrailInv == calm => AcceptedIsStored /\ FlushCovers /\ TrailIsKept

(* Part 4, with part 2.  No fix is held twice: not by two ticks, not by a  *)
(* tick and the buffer, not at two places of the buffer or of a flush,     *)
(* which holds only what is in the buffer.                                 *)
CarriedOnce ==
  \A k \in Ticks : tick[k].fix # 0 =>
    /\ ~Holds(buffer, tick[k].fix)
    /\ \A l \in Ticks : tick[l].fix = tick[k].fix => l = k

BufferedOnce ==
  NoRepeats(buffer) /\ \A n \in FixIds : Holds(buffer, n) => n <= Len(fixes)

FlushedOnce ==
  \A c \in Calls :
    /\ NoRepeats(call[c].todo) /\ NoRepeats(call[c].pending)
    /\ \A n \in FixIds : /\ ~(Holds(call[c].todo, n) /\ Holds(call[c].pending, n))
                         /\ Holds(call[c].todo, n) => Holds(buffer, n)
                         /\ Holds(call[c].pending, n) => Holds(buffer, n)

NothingUnread == \A n \in FixIds : n > Len(fixes) => stored[n] = 0 /\ n \notin late

OnceInv == calm => CarriedOnce /\ BufferedOnce /\ FlushedOnce /\ NothingUnread

(* Part 5, with all of that.  The phone may still send fix n once, from a  *)
(* tick or from the buffer, unless a flush has sent it already; a late     *)
(* request may store it once.  Each failure pays for one copy.             *)
InFlight(n) == \E k \in Ticks : tick[k].pc \in {"send", "add"} /\ tick[k].fix = n

AtHand(c, n) ==
  /\ Holds(call[c].todo, n) \/ Holds(call[c].pending, n)
  /\ call[c].pc = "accepted" => n # NextUp(c)

Outstanding(n) ==
  InFlight(n) \/ (Holds(buffer, n) /\ \A c \in Calls : Flushes(c) => AtHand(c, n))

Copies(n) ==
  stored[n] + (IF n \in late THEN 1 ELSE 0) + (IF Outstanding(n) THEN 1 ELSE 0)

CopiesArePaid == \A n \in FixIds : Copies(n) <= 1 + failures

CopyInv == calm => CopiesArePaid

-----------------------------------------------------------------------------
LEMMA Bounds ==
  /\ BufferCap \in Nat \ {0} /\ IsFiniteSet(Calls)
  /\ Trips \subseteq Nat \ {0}
  /\ calm \in Moods => /\ MaxTrips \in Nat /\ MaxFixes \in Nat /\ MaxFailures \in Nat
                      /\ \A n \in Nat : n < MaxTrips => n + 1 \in Trips
<1>1. /\ BufferCap \in Nat \ {0} /\ IsFiniteSet(Calls)
      /\ TripBound \in [Moods -> Nat]
      /\ calm \in Moods => MaxTrips \in Nat /\ MaxFixes \in Nat /\ MaxFailures \in Nat
  BY TrackerAssumption DEF MaxTrips, MaxFixes, MaxFailures
<1>2. Trips \subseteq Nat \ {0}
  BY <1>1 DEF Trips
<1>3. ASSUME calm \in Moods, NEW n \in Nat, n < MaxTrips
      PROVE  n + 1 \in Trips
  <2>1. n + 1 \in 1..TripBound[calm]
    BY <1>1, <1>3 DEF MaxTrips
  <2> QED
    BY <1>3, <2>1 DEF Trips
<1> QED
  BY <1>1, <1>2, <1>3

(* No step changes calm, or takes a fix away from the server.              *)
LEMMA StepsStore == [Next]_vars => calm' = calm /\ (stored' = stored \/ \E n : Storing(n))
<1>. SUFFICES ASSUME [Next]_vars
              PROVE  calm' = calm /\ (stored' = stored \/ \E n : Storing(n))
  OBVIOUS
<1>1. ASSUME NEW k \in Ticks, TimerFires(k) \/ TickStep(k)
      PROVE  calm' = calm /\ (stored' = stored \/ \E n : Storing(n))
  BY <1>1 DEF TimerFires, TickStep, FixRead, NoFix, SendStored, SendFails, SendAccepted,
              SendUnanswered, AddToBuffer
<1>2. ASSUME NEW c \in Calls, AskActive(c) \/ AskStart(c) \/ AskEnd(c)
      PROVE  calm' = calm /\ stored' = stored
  BY <1>2 DEF AskActive, AskStart, AskEnd, Asks
<1>3. ASSUME NEW c \in Calls, CallStep(c)
      PROVE  calm' = calm /\ (stored' = stored \/ \E n : Storing(n))
  BY <1>3 DEF CallStep, Serve, CallFails, EndAnswered, StartTracker, ReadBuffer, FlushSkips,
              FlushStored, FlushFails, FlushAccepted, FlushUnanswered, Replace
<1>4. ASSUME NEW n \in FixIds, LateArrives(n)
      PROVE  calm' = calm /\ (stored' = stored \/ Storing(n))
  BY <1>4 DEF LateArrives
<1>7. ASSUME LateStart \/ \E t \in Trips : LateEnd(t)
      PROVE  calm' = calm /\ stored' = stored
  BY <1>7 DEF LateStart, LateEnd
<1>5. AppDies => calm' = calm /\ stored' = stored
  BY DEF AppDies
<1>6. UNCHANGED vars => calm' = calm /\ stored' = stored
  BY DEF vars
<1> QED
  BY <1>1, <1>2, <1>3, <1>4, <1>5, <1>6, <1>7 DEF Next

LEMMA MoodStays ==
  ASSUME [Next]_vars
  PROVE  /\ calm' = calm /\ FixIds' = FixIds
         /\ MaxFixes' = MaxFixes /\ MaxFailures' = MaxFailures
<1>1. calm' = calm
  BY StepsStore
<1> QED
  BY <1>1 DEF FixIds, MaxFixes, MaxFailures

LEMMA StoredGrows ==
  ASSUME TypeOK, [Next]_vars
  PROVE  \A n \in FixIds : stored[n] > 0 => stored'[n] > 0
<1>1. stored \in [FixIds -> Nat]
  BY DEF TypeOK
<1>2. ASSUME NEW m, Storing(m), NEW n \in FixIds, stored[n] > 0
      PROVE  stored'[n] > 0
  <2>1. stored[n] \in Nat /\ stored'[n] = IF n = m THEN stored[n] + 1 ELSE stored[n]
    BY <1>1, <1>2 DEF Storing
  <2> QED
    BY <1>2, <2>1
<1> QED
  BY <1>2, StepsStore

(* Sequences: what Append, Tail and Capped do to the members.              *)
LEMMA AppendHolds ==
  ASSUME NEW S, NEW q \in Seq(S), NEW x \in S
  PROVE  /\ Append(q, x) \in Seq(S) /\ Len(Append(q, x)) = Len(q) + 1
         /\ \A n : Holds(Append(q, x), n) <=> Holds(q, n) \/ n = x
         /\ NoRepeats(q) /\ ~Holds(q, x) => NoRepeats(Append(q, x))
  BY DEF Holds, NoRepeats

LEMMA TailHolds ==
  ASSUME NEW S, NEW q \in Seq(S), q # <<>>
  PROVE  /\ Head(q) \in S /\ Tail(q) \in Seq(S) /\ Len(Tail(q)) + 1 = Len(q)
         /\ \A n : Holds(q, n) <=> Holds(Tail(q), n) \/ n = Head(q)
         /\ NoRepeats(q) => NoRepeats(Tail(q)) /\ ~Holds(Tail(q), Head(q))
<1>1. /\ Head(q) = q[1] /\ Head(q) \in S /\ Tail(q) \in Seq(S) /\ Len(q) \in Nat \ {0}
      /\ Len(Tail(q)) = Len(q) - 1 /\ \A i \in 1..(Len(q) - 1) : Tail(q)[i] = q[i + 1]
  OBVIOUS
<1>2. ASSUME NEW n
      PROVE  Holds(q, n) <=> Holds(Tail(q), n) \/ n = Head(q)
  <2>1. ASSUME NEW i \in 1..Len(q), q[i] = n, n # Head(q)
        PROVE  Holds(Tail(q), n)
    <3>1. i - 1 \in 1..(Len(q) - 1) /\ Tail(q)[i - 1] = q[(i - 1) + 1]
      BY <1>1, <2>1
    <3>2. (i - 1) + 1 = i
      OBVIOUS
    <3> QED
      BY <1>1, <2>1, <3>1, <3>2 DEF Holds
  <2>2. ASSUME NEW i \in 1..Len(Tail(q)), Tail(q)[i] = n
        PROVE  Holds(q, n)
    BY <1>1, <2>2 DEF Holds
  <2>3. n = Head(q) => Holds(q, n)
    BY <1>1 DEF Holds
  <2> QED
    BY <2>1, <2>2, <2>3 DEF Holds
<1>3. NoRepeats(q) => NoRepeats(Tail(q)) /\ ~Holds(Tail(q), Head(q))
  BY <1>1 DEF NoRepeats, Holds
<1> QED
  BY <1>1, <1>2, <1>3

(* OfflineBuffer.add drops the oldest fix of a full buffer, and no other.  *)
LEMMA CappedAppend ==
  ASSUME NEW S, NEW q \in Seq(S), NEW x \in S, Len(q) <= BufferCap
  PROVE  Capped(Append(q, x)) =
           IF Len(q) = BufferCap THEN Append(Tail(q), x) ELSE Append(q, x)
<1>. DEFINE p == Append(q, x)
<1>1. /\ p \in Seq(S) /\ Len(p) = Len(q) + 1 /\ Len(q) \in Nat
      /\ BufferCap \in Nat \ {0} /\ p[Len(q) + 1] = x /\ \A i \in 1..Len(q) : p[i] = q[i]
  BY Bounds
<1>2. CASE Len(q) = BufferCap
  <2>1. Capped(p) = SubSeq(p, 2, Len(p))
    BY <1>1, <1>2 DEF Capped
  <2>2. SubSeq(p, 2, Len(p)) = Append(Tail(q), x)
    BY <1>1, <1>2
  <2> QED
    BY <1>2, <2>1, <2>2
<1>3. CASE Len(q) # BufferCap
  BY <1>1, <1>3 DEF Capped
<1> QED
  BY <1>2, <1>3
LEMMA CappedHolds ==
  ASSUME NEW S, NEW q \in Seq(S), NEW x \in S, Len(q) <= BufferCap,
         NEW r, r = Capped(Append(q, x))
  PROVE  /\ r \in Seq(S) /\ Len(r) <= BufferCap
         /\ Holds(r, x) /\ \A n : Holds(r, n) => Holds(q, n) \/ n = x
         /\ \A n : Holds(q, n) => Holds(r, n) \/ (Len(q) = BufferCap /\ n = Head(q))
         /\ NoRepeats(q) /\ ~Holds(q, x) => NoRepeats(r)
<1>1. CASE Len(q) = BufferCap
  <2>1. q # <<>>
    BY <1>1, Bounds
  <2>2. PICK p \in Seq(S) : p = Tail(q)
    BY <2>1, TailHolds
  <2>3. /\ Len(p) + 1 = BufferCap
        /\ \A n : Holds(q, n) <=> Holds(p, n) \/ n = Head(q)
        /\ NoRepeats(q) => NoRepeats(p)
    BY <1>1, <2>1, <2>2, TailHolds
  <2>4. r = Append(p, x)
    BY <1>1, <2>2, CappedAppend
  <2>5. /\ r \in Seq(S) /\ Len(r) = Len(p) + 1
        /\ \A n : Holds(r, n) <=> Holds(p, n) \/ n = x
        /\ NoRepeats(p) /\ ~Holds(p, x) => NoRepeats(r)
    BY <2>4, AppendHolds
  <2> QED
    BY <1>1, <2>3, <2>5, Bounds
<1>2. CASE Len(q) # BufferCap
  <2>1. r = Append(q, x)
    BY <1>2, CappedAppend
  <2>2. /\ r \in Seq(S) /\ Len(r) = Len(q) + 1
        /\ \A n : Holds(r, n) <=> Holds(q, n) \/ n = x
        /\ NoRepeats(q) /\ ~Holds(q, x) => NoRepeats(r)
    BY <2>1, AppendHolds
  <2>3. Len(q) + 1 <= BufferCap
    BY <1>2, Bounds
  <2> QED
    BY <2>2, <2>3
<1> QED
  BY <1>1, <1>2

-----------------------------------------------------------------------------
LEMMA BaseInit == Init => BaseInv
<1>. SUFFICES ASSUME Init
              PROVE  BaseInv
  OBVIOUS
<1>0. BufferCap \in Nat /\ MaxFixes \in Nat /\ MaxFailures \in Nat
  BY Bounds DEF Init
<1>1. TypeOK
  BY <1>0 DEF Init, TypeOK, NoTracker, NoTick, NoCall, Trips, FixIds
<1>2. TicksAreKnown /\ FlushesFit
  BY <1>0 DEF Init, TicksAreKnown, FlushesFit, NoTick, NoCall, Flushes, Starting
<1> QED
  BY <1>1, <1>2 DEF BaseInv

(* What the steps of a tick and of a call do to their records.             *)
TickGoes(k, p, t, f) ==
  tick' = [tick EXCEPT ![k] = [pc |-> p, trip |-> t, fix |-> f]]

CallGoes(c, o, p, t, td, pd) ==
  call' = [call EXCEPT ![c] = [op |-> o, pc |-> p, trip |-> t, todo |-> td, pending |-> pd]]

DataOK ==
  /\ calm \in Moods
  /\ active \in {0} \cup Trips /\ created \in {0} \cup Trips
  /\ lateStarts \in Nat /\ lateEnds \subseteq Trips
  /\ stored \in [FixIds -> Nat]
  /\ fixes \in Seq(Trips) /\ Len(fixes) <= MaxFixes
  /\ buffer \in Seq(FixIds) /\ Len(buffer) <= BufferCap
  /\ late \subseteq FixIds /\ gone \subseteq FixIds
  /\ tracker \in [trip : {0} \cup Trips, timer : BOOLEAN]
  /\ activeTrip \in {0} \cup Trips
  /\ failures \in 0..MaxFailures

LEMMA TypeParts ==
  TypeOK <=> DataOK /\ tick \in [Ticks -> TickRecord] /\ call \in [Calls -> CallRecord]
  BY DEF TypeOK, DataOK, TickRecord, CallRecord

LEMMA TickMoves ==
  ASSUME TypeOK, NEW k \in Ticks
  PROVE  /\ TimerFires(k) =>
              \/ tick' = tick
              \/ TickGoes(k, "gps", tracker.trip, tick[k].fix) /\ tracker.trip # 0
         /\ FixRead(k) => TickGoes(k, "send", tick[k].trip, Len(fixes) + 1)
         /\ SendStored(k) => TickGoes(k, "accepted", tick[k].trip, tick[k].fix)
         /\ SendFails(k) \/ SendUnanswered(k) => TickGoes(k, "add", tick[k].trip, tick[k].fix)
         /\ EndsTick(k) => TickGoes(k, "idle", 0, 0)
<1>. tick \in [Ticks -> TickRecord]
  BY TypeParts
<1>1. TimerFires(k) =>
        \/ tick' = tick
        \/ TickGoes(k, "gps", tracker.trip, tick[k].fix) /\ tracker.trip # 0
  <2>. SUFFICES ASSUME TimerFires(k), tick' # tick
                PROVE  TickGoes(k, "gps", tracker.trip, tick[k].fix) /\ tracker.trip # 0
    OBVIOUS
  <2>1. /\ tracker.trip # 0
        /\ tick' = [tick EXCEPT ![k] = [@ EXCEPT !.pc = "gps", !.trip = tracker.trip]]
    BY DEF TimerFires
  <2>2. [tick[k] EXCEPT !.pc = "gps", !.trip = tracker.trip] =
          [pc |-> "gps", trip |-> tracker.trip, fix |-> tick[k].fix]
    <3>1. [tick[k] EXCEPT !.pc = "gps"] =
            [pc |-> "gps", trip |-> tick[k].trip, fix |-> tick[k].fix]
      BY DEF TickRecord
    <3>2. [tick[k] EXCEPT !.pc = "gps", !.trip = tracker.trip] =
            [[tick[k] EXCEPT !.pc = "gps"] EXCEPT !.trip = tracker.trip]
      OBVIOUS
    <3>3. [[pc |-> "gps", trip |-> tick[k].trip, fix |-> tick[k].fix]
             EXCEPT !.trip = tracker.trip] =
            [pc |-> "gps", trip |-> tracker.trip, fix |-> tick[k].fix]
      OBVIOUS
    <3> QED
      BY <3>1, <3>2, <3>3
  <2> QED
    BY <2>1, <2>2 DEF TickGoes
<1>2. FixRead(k) => TickGoes(k, "send", tick[k].trip, Len(fixes) + 1)
  BY DEF FixRead, TickGoes, TickRecord
<1>3. SendStored(k) => TickGoes(k, "accepted", tick[k].trip, tick[k].fix)
  BY DEF SendStored, TickGoes, TickRecord
<1>4. SendFails(k) \/ SendUnanswered(k) => TickGoes(k, "add", tick[k].trip, tick[k].fix)
  BY DEF SendFails, SendUnanswered, TickGoes, TickRecord
<1>5. EndsTick(k) => TickGoes(k, "idle", 0, 0)
  BY DEF EndsTick, TickGoes, NoTick
<1> QED
  BY <1>1, <1>2, <1>3, <1>4, <1>5

LEMMA TickFields ==
  ASSUME TypeOK, NEW k \in Ticks, NEW p, NEW t, NEW f, TickGoes(k, p, t, f)
  PROVE  /\ tick'[k].pc = p /\ tick'[k].trip = t /\ tick'[k].fix = f
         /\ \A l \in Ticks : l # k => tick'[l] = tick[l]
  BY TypeParts DEF TickGoes

LEMMA TickTyped ==
  ASSUME TypeOK, NEW k \in Ticks, NEW p, NEW t, NEW f, TickGoes(k, p, t, f),
         [pc |-> p, trip |-> t, fix |-> f] \in TickRecord
  PROVE  tick' \in [Ticks -> TickRecord]
  BY TypeParts DEF TickGoes

LEMMA CallMoves ==
  ASSUME TypeOK, NEW c \in Calls
  PROVE  /\ \A o, t : Asks(c, o, t) => CallGoes(c, o, "request", t, <<>>, <<>>)
         /\ CallFails(c) \/ EndAnswered(c) \/ EndsStart(c) =>
              CallGoes(c, "none", "idle", 0, <<>>, <<>>)
         /\ StartTracker(c) =>
              CallGoes(c, call[c].op, "read", call[c].trip, call[c].todo, call[c].pending)
         /\ ReadBuffer(c) =>
              \/ EndsStart(c)
              \/ /\ CallGoes(c, call[c].op, "flush", call[c].trip, buffer, call[c].pending)
                 /\ UNCHANGED tracker
         /\ FlushSkips(c) \/ FlushFails(c) \/ FlushUnanswered(c) =>
              CallGoes(c, call[c].op, "flush", call[c].trip, Tail(call[c].todo), KeptFor(c))
         /\ FlushStored(c) =>
              CallGoes(c, call[c].op, "accepted", call[c].trip, call[c].todo, call[c].pending)
         /\ FlushAccepted(c) =>
              CallGoes(c, call[c].op, "flush", call[c].trip, Tail(call[c].todo),
                       call[c].pending)
<1>. call[c] \in CallRecord
  BY TypeParts
<1>1. \A o, t : Asks(c, o, t) => CallGoes(c, o, "request", t, <<>>, <<>>)
  BY DEF Asks, NoCall, CallGoes
<1>2. CallFails(c) \/ EndAnswered(c) \/ EndsStart(c) =>
        CallGoes(c, "none", "idle", 0, <<>>, <<>>)
  BY DEF CallFails, EndAnswered, EndsStart, NoCall, CallGoes
<1>3. StartTracker(c) =>
        CallGoes(c, call[c].op, "read", call[c].trip, call[c].todo, call[c].pending)
  BY DEF StartTracker, CallGoes, CallRecord
<1>4. ReadBuffer(c) =>
        \/ EndsStart(c)
        \/ /\ CallGoes(c, call[c].op, "flush", call[c].trip, buffer, call[c].pending)
           /\ UNCHANGED tracker
  BY DEF ReadBuffer, CallGoes, CallRecord
<1>5. FlushSkips(c) \/ FlushFails(c) \/ FlushUnanswered(c) =>
        CallGoes(c, call[c].op, "flush", call[c].trip, Tail(call[c].todo), KeptFor(c))
  BY DEF FlushSkips, FlushFails, FlushUnanswered, Kept, CallGoes, CallRecord
<1>6. FlushStored(c) =>
        CallGoes(c, call[c].op, "accepted", call[c].trip, call[c].todo, call[c].pending)
  BY DEF FlushStored, CallGoes, CallRecord
<1>7. FlushAccepted(c) =>
        CallGoes(c, call[c].op, "flush", call[c].trip, Tail(call[c].todo), call[c].pending)
  BY DEF FlushAccepted, Sent, CallGoes, CallRecord
<1> QED
  BY <1>1, <1>2, <1>3, <1>4, <1>5, <1>6, <1>7

LEMMA ServeMoves ==
  ASSUME TypeOK, NEW c \in Calls, Serve(c)
  PROVE  \/ /\ call[c].op = "load" /\ UNCHANGED trips
            /\ CallGoes(c, "load", "answered", active, call[c].todo, call[c].pending)
         \/ /\ call[c].op = "start" /\ active = 0 /\ created < MaxTrips
            /\ active' = created + 1 /\ created' = created + 1
            /\ CallGoes(c, "start", "answered", created + 1, call[c].todo, call[c].pending)
         \/ UNCHANGED trips /\ CallGoes(c, "none", "idle", 0, <<>>, <<>>)
         \/ /\ call[c].op = "end" /\ active' \in {active, 0} /\ created' = created
            /\ CallGoes(c, "end", "answered", call[c].trip, call[c].todo, call[c].pending)
<1>. call[c] \in CallRecord
  BY TypeParts
<1>a. ASSUME NEW t
      PROVE  [call[c] EXCEPT !.pc = "answered", !.trip = t] =
               [op |-> call[c].op, pc |-> "answered", trip |-> t, todo |-> call[c].todo,
                pending |-> call[c].pending]
  <2>1. [call[c] EXCEPT !.pc = "answered"] =
          [op |-> call[c].op, pc |-> "answered", trip |-> call[c].trip, todo |-> call[c].todo,
           pending |-> call[c].pending]
    BY DEF CallRecord
  <2>2. [call[c] EXCEPT !.pc = "answered", !.trip = t] =
          [[call[c] EXCEPT !.pc = "answered"] EXCEPT !.trip = t]
    OBVIOUS
  <2>3. [[op |-> call[c].op, pc |-> "answered", trip |-> call[c].trip, todo |-> call[c].todo,
          pending |-> call[c].pending] EXCEPT !.trip = t] =
          [op |-> call[c].op, pc |-> "answered", trip |-> t, todo |-> call[c].todo,
           pending |-> call[c].pending]
    OBVIOUS
  <2> QED
    BY <2>1, <2>2, <2>3
<1>1. CASE /\ call[c].op = "load" /\ UNCHANGED trips
           /\ call' = [call EXCEPT ![c].pc = "answered", ![c].trip = active]
  <2>1. [call[c] EXCEPT !.pc = "answered", !.trip = active] =
          [op |-> "load", pc |-> "answered", trip |-> active, todo |-> call[c].todo,
           pending |-> call[c].pending]
    BY <1>1, <1>a
  <2> QED
    BY <1>1, <2>1 DEF CallGoes
<1>2. CASE /\ call[c].op = "start" /\ active = 0 /\ created < MaxTrips
           /\ active' = created + 1 /\ created' = created + 1
           /\ call' = [call EXCEPT ![c].pc = "answered", ![c].trip = created + 1]
  <2>1. [call[c] EXCEPT !.pc = "answered", !.trip = created + 1] =
          [op |-> "start", pc |-> "answered", trip |-> created + 1, todo |-> call[c].todo,
           pending |-> call[c].pending]
    BY <1>2, <1>a
  <2> QED
    BY <1>2, <2>1 DEF CallGoes
<1>3. CASE UNCHANGED trips /\ call' = [call EXCEPT ![c] = NoCall]
  BY <1>3 DEF CallGoes, NoCall
<1>4. CASE /\ call[c].op = "end" /\ active' \in {active, 0} /\ created' = created
           /\ call' = [call EXCEPT ![c].pc = "answered"]
  <2>1. [call[c] EXCEPT !.pc = "answered"] =
          [op |-> "end", pc |-> "answered", trip |-> call[c].trip, todo |-> call[c].todo,
           pending |-> call[c].pending]
    BY <1>4 DEF CallRecord
  <2> QED
    BY <1>4, <2>1 DEF CallGoes
<1> QED
  BY <1>1, <1>2, <1>3, <1>4 DEF Serve, MayStart, Starts, Ends

LEMMA CallFields ==
  ASSUME TypeOK, NEW c \in Calls, NEW o, NEW p, NEW t, NEW td, NEW pd,
         CallGoes(c, o, p, t, td, pd)
  PROVE  /\ call'[c].op = o /\ call'[c].pc = p /\ call'[c].trip = t
         /\ call'[c].todo = td /\ call'[c].pending = pd
         /\ \A d \in Calls : d # c => call'[d] = call[d]
  BY TypeParts DEF CallGoes

LEMMA CallFits ==
  ASSUME BaseInv, NEW c \in Calls, NEW o, NEW p, NEW t, NEW td, NEW pd,
         CallGoes(c, o, p, t, td, pd),
         [op |-> o, pc |-> p, trip |-> t, todo |-> td, pending |-> pd] \in CallRecord,
         p = "accepted" => td # <<>>,
         p \notin {"flush", "accepted"} => td = <<>> /\ pd = <<>>,
         Len(td) + Len(pd) <= BufferCap,
         p \in {"read", "flush", "accepted"} => o # "end" /\ t # 0,
         o = "end" => t # 0
  PROVE  call' \in [Calls -> CallRecord] /\ FlushesFit'
<1>1. /\ call'[c].op = o /\ call'[c].pc = p /\ call'[c].trip = t
      /\ call'[c].todo = td /\ call'[c].pending = pd
      /\ \A d \in Calls : d # c => call'[d] = call[d]
  BY CallFields DEF BaseInv
<1>2. FlushesFit'
  BY <1>1 DEF BaseInv, FlushesFit, Flushes, Starting
<1>3. call' \in [Calls -> CallRecord]
  BY TypeParts DEF BaseInv, CallGoes
<1> QED
  BY <1>2, <1>3

LEMMA CallFitsEmpty ==
  ASSUME BaseInv, NEW c \in Calls, NEW o \in {"none", "load", "start", "end"},
         NEW p \in {"idle", "request", "answered", "read"}, NEW t \in {0} \cup Trips,
         CallGoes(c, o, p, t, <<>>, <<>>),
         p = "read" => o # "end" /\ t # 0,
         o = "end" => t # 0
  PROVE  call' \in [Calls -> CallRecord] /\ FlushesFit'
<1>1. [op |-> o, pc |-> p, trip |-> t, todo |-> <<>>, pending |-> <<>>] \in CallRecord
  BY DEF CallRecord
<1>2. Len(<<>>) + Len(<<>>) <= BufferCap
  BY Bounds
<1> QED
  BY <1>1, <1>2, CallFits

(* What is on its way to the server was read.                              *)
LEMMA OnTheWayIsKnown ==
  ASSUME BaseInv
  PROVE  /\ OnTheWay \subseteq FixIds
         /\ \A n \in OnTheWay :
              \/ \E k \in Ticks : tick[k].pc = "send" /\ tick[k].fix = n
              \/ \E c \in Calls : Flushing(c) /\ NextUp(c) = n
<1>1. ASSUME NEW k \in Ticks, tick[k].pc = "send"
      PROVE  tick[k].fix \in FixIds
  BY <1>1, TypeParts, Bounds DEF BaseInv, TicksAreKnown, DataOK, FixIds
<1>2. ASSUME NEW c \in Calls, Flushing(c)
      PROVE  NextUp(c) \in FixIds
  BY <1>2, TypeParts, TailHolds DEF BaseInv, CallRecord, Flushing, NextUp
<1> QED
  BY <1>1, <1>2 DEF OnTheWay

LEMMA BaseStep == BaseInv /\ [Next]_vars => BaseInv'
<1>. SUFFICES ASSUME BaseInv, [Next]_vars
              PROVE  BaseInv'
  OBVIOUS
<1>. BaseInv /\ TypeOK /\ TicksAreKnown /\ FlushesFit
  BY DEF BaseInv
<1>0. /\ BufferCap \in Nat \ {0} /\ MaxFixes \in Nat /\ MaxFailures \in Nat
      /\ calm' = calm /\ FixIds' = FixIds /\ MaxFixes' = MaxFixes /\ MaxFailures' = MaxFailures
  BY Bounds, MoodStays DEF TypeOK
<1>. USE <1>0
<1>. DataOK /\ tick \in [Ticks -> TickRecord] /\ call \in [Calls -> CallRecord]
  BY TypeParts
<1>. TickRecord' = TickRecord /\ CallRecord' = CallRecord
  BY DEF TickRecord, CallRecord
<1>a. ASSUME DataOK', tick' \in [Ticks -> TickRecord], call' \in [Calls -> CallRecord]
      PROVE  TypeOK'
  BY <1>a, TypeParts DEF TypeOK, DataOK, TickRecord, CallRecord
<1>b. ASSUME NEW C \in SUBSET Calls, MayGoAstray(C)
      PROVE  lateStarts' \in Nat /\ lateEnds' \subseteq Trips
  <2>1. PICK S \in SUBSET Unseen(C, "start") : lateStarts' = lateStarts + Cardinality(S)
    BY <1>b DEF MayGoAstray
  <2>2. S \subseteq Calls
    BY DEF Unseen
  <2>3. Cardinality(S) \in Nat
    BY <2>2, Bounds, FS_Subset, FS_CardinalityType
  <2>4. PICK E \in SUBSET Unseen(C, "end") :
          lateEnds' = lateEnds \cup {call[c].trip : c \in E}
    BY <1>b DEF MayGoAstray
  <2>5. \A c \in E : call[c].trip \in Trips
    BY DEF Unseen, FlushesFit, CallRecord
  <2> QED
    BY <2>1, <2>3, <2>4, <2>5 DEF DataOK
<1>1. ASSUME UNCHANGED vars
      PROVE  TypeOK' /\ TicksAreKnown' /\ FlushesFit'
  BY <1>1 DEF vars, server, phone, TypeOK, TicksAreKnown, FlushesFit, Flushes, Starting
<1>2. ASSUME NEW k \in Ticks, TimerFires(k)
      PROVE  TypeOK' /\ TicksAreKnown' /\ FlushesFit'
  <2>1. call' = call /\ fixes' = fixes /\ tracker.trip \in {0} \cup Trips /\ DataOK'
    BY <1>2 DEF TimerFires, server, DataOK
  <2>2. tick[k].pc = "idle" /\ tick[k].fix = 0
    BY <1>2 DEF TimerFires, TicksAreKnown
  <2>3. CASE tick' = tick
    BY <1>a, <2>1, <2>3 DEF TicksAreKnown, FlushesFit, Flushes, Starting
  <2>4. CASE TickGoes(k, "gps", tracker.trip, tick[k].fix) /\ tracker.trip # 0
    <3>1. tick' \in [Ticks -> TickRecord]
      BY <2>1, <2>2, <2>4, TickTyped DEF TickRecord
    <3>2. /\ tick'[k].pc = "gps" /\ tick'[k].trip # 0 /\ tick'[k].fix = 0
          /\ \A l \in Ticks : l # k => tick'[l] = tick[l]
      BY <2>2, <2>4, TickFields
    <3>3. TicksAreKnown'
      BY <2>1, <3>2 DEF TicksAreKnown
    <3> QED
      BY <1>a, <2>1, <3>1, <3>3 DEF FlushesFit, Flushes, Starting
  <2> QED
    BY <1>2, <2>3, <2>4, TickMoves
<1>3. ASSUME NEW k \in Ticks, FixRead(k)
      PROVE  TypeOK' /\ TicksAreKnown' /\ FlushesFit'
  <2>1. call' = call /\ fixes' = Append(fixes, tick[k].trip) /\ Len(fixes) < MaxFixes
    BY <1>3 DEF FixRead
  <2>2. tick[k].trip \in Trips /\ Len(fixes) + 1 \in FixIds
    BY <1>3, <2>1 DEF FixRead, TicksAreKnown, TickRecord, DataOK, FixIds
  <2>3. fixes' \in Seq(Trips) /\ Len(fixes') = Len(fixes) + 1
    BY <2>1, <2>2 DEF DataOK
  <2>4. DataOK'
    BY <1>3, <2>1, <2>3 DEF FixRead, server, phone, DataOK
  <2>. PICK n \in FixIds : n = Len(fixes) + 1
    BY <2>2
  <2>5. TickGoes(k, "send", tick[k].trip, n)
    BY <1>3, TickMoves
  <2>6. [pc |-> "send", trip |-> tick[k].trip, fix |-> n] \in TickRecord
    BY <2>2 DEF TickRecord
  <2>7. tick' \in [Ticks -> TickRecord]
    BY <2>5, <2>6, TickTyped
  <2>8. Len(fixes) \in Nat /\ 0 \notin Trips
    BY Bounds DEF DataOK
  <2>9. TicksAreKnown'
    <3>1. /\ tick'[k].pc = "send" /\ tick'[k].trip # 0 /\ tick'[k].fix \in 1..Len(fixes')
          /\ \A l \in Ticks : l # k => tick'[l] = tick[l]
      <4>1. n \in 1..Len(fixes') /\ tick[k].trip # 0
        BY <2>2, <2>3, <2>8
      <4>2. /\ tick'[k].pc = "send" /\ tick'[k].trip = tick[k].trip /\ tick'[k].fix = n
            /\ \A l \in Ticks : l # k => tick'[l] = tick[l]
        BY <2>5, TickFields
      <4> QED
        BY <4>1, <4>2
    <3>2. \A m \in 1..Len(fixes) : m \in 1..Len(fixes')
      BY <2>3, <2>8
    <3> QED
      BY <3>1, <3>2 DEF TicksAreKnown
  <2> QED
    BY <1>a, <2>1, <2>4, <2>7, <2>9 DEF FlushesFit, Flushes, Starting
<1>4. ASSUME NEW k \in Ticks, NoFix(k) \/ SendAccepted(k) \/ AddToBuffer(k)
      PROVE  TypeOK' /\ TicksAreKnown' /\ FlushesFit'
  <2>1. call' = call /\ fixes' = fixes /\ EndsTick(k)
    BY <1>4 DEF NoFix, SendAccepted, AddToBuffer
  <2>2. tick' \in [Ticks -> TickRecord] /\ TicksAreKnown'
    BY <2>1, TickMoves, TickFields, TickTyped DEF TicksAreKnown, TickRecord
  <2>3. tracker' \in [trip : {0} \cup Trips, timer : BOOLEAN]
    BY <2>1 DEF EndsTick, Rearmed, DataOK
  <2>4. CASE NoFix(k) \/ SendAccepted(k)
    <3>1. DataOK'
      BY <2>3, <2>4 DEF NoFix, SendAccepted, server, DataOK
    <3> QED
      BY <1>a, <2>1, <2>2, <3>1 DEF FlushesFit, Flushes, Starting
  <2>5. CASE AddToBuffer(k)
    <3>1. tick[k].fix \in FixIds
      BY <2>5 DEF AddToBuffer, TicksAreKnown, DataOK, FixIds
    <3>2. buffer \in Seq(FixIds) /\ Len(buffer) <= BufferCap /\ gone \subseteq FixIds
      BY DEF DataOK
    <3>3. buffer' \in Seq(FixIds) /\ Len(buffer') <= BufferCap
      BY <2>5, <3>1, <3>2, CappedHolds DEF AddToBuffer
    <3>4. gone' \subseteq FixIds
      <4>1. Len(buffer) = BufferCap => Head(buffer) \in FixIds
        BY <3>2
      <4> QED
        BY <2>5, <3>2, <4>1 DEF AddToBuffer
    <3>5. DataOK'
      BY <2>3, <2>5, <3>3, <3>4 DEF AddToBuffer, server, DataOK
    <3> QED
      BY <1>a, <2>1, <2>2, <3>5 DEF FlushesFit, Flushes, Starting
  <2> QED
    BY <1>4, <2>4, <2>5
<1>5. ASSUME NEW k \in Ticks, SendStored(k) \/ SendFails(k) \/ SendUnanswered(k)
      PROVE  TypeOK' /\ TicksAreKnown' /\ FlushesFit'
  <2>1. call' = call /\ fixes' = fixes /\ tick[k] \in TickRecord
    BY <1>5 DEF SendStored, SendFails, SendUnanswered
  <2>2. tick[k].pc \in {"send", "accepted"} /\ tick[k].fix \in FixIds
    BY <1>5 DEF SendStored, SendFails, SendUnanswered, TicksAreKnown, DataOK, FixIds
  <2>3. tick' \in [Ticks -> TickRecord] /\ TicksAreKnown'
    <3>1. tick[k].trip \in {0} \cup Trips
      BY <2>1 DEF TickRecord
    <3>2. CASE TickGoes(k, "accepted", tick[k].trip, tick[k].fix)
      BY <2>1, <2>2, <3>1, <3>2, TickFields, TickTyped DEF TicksAreKnown, TickRecord
    <3>3. CASE TickGoes(k, "add", tick[k].trip, tick[k].fix)
      BY <2>1, <2>2, <3>1, <3>3, TickFields, TickTyped DEF TicksAreKnown, TickRecord
    <3> QED
      BY <1>5, <3>2, <3>3, TickMoves
  <2>4. stored' \in [FixIds -> Nat] /\ failures' \in 0..MaxFailures /\ late' \subseteq FixIds
    <3>1. CASE SendStored(k)
      BY <2>2, <3>1 DEF SendStored, Storing, DataOK
    <3>2. CASE SendFails(k) \/ SendUnanswered(k)
      BY <2>2, <3>2 DEF SendFails, SendUnanswered, Fails, AnswerIsLost, DataOK
    <3> QED
      BY <1>5, <3>1, <3>2
  <2>5. DataOK'
    BY <1>5, <2>4 DEF SendStored, SendFails, SendUnanswered, server, phone, DataOK
  <2> QED
    BY <1>a, <2>1, <2>3, <2>5 DEF FlushesFit, Flushes, Starting
<1>6. ASSUME NEW c \in Calls, NEW o \in {"load", "start", "end"}, NEW t \in {0} \cup Trips,
             Asks(c, o, t), tracker' \in {tracker, Stopped}, o = "end" => t # 0
      PROVE  TypeOK' /\ TicksAreKnown' /\ FlushesFit'
  <2>1. tick' = tick /\ fixes' = fixes
    BY <1>6 DEF Asks
  <2>2. tracker' \in [trip : {0} \cup Trips, timer : BOOLEAN]
    <3>1. Stopped \in [trip : {0} \cup Trips, timer : BOOLEAN]
      BY DEF Stopped, NoTracker
    <3> QED
      BY <1>6, <3>1 DEF DataOK
  <2>3. DataOK'
    BY <1>6, <2>2 DEF Asks, server, DataOK
  <2>4. call' \in [Calls -> CallRecord] /\ FlushesFit'
    <3>1. CallGoes(c, o, "request", t, <<>>, <<>>)
      BY <1>6, CallMoves
    <3> QED
      BY <1>6, <3>1, CallFitsEmpty
  <2> QED
    BY <1>a, <2>1, <2>3, <2>4 DEF TicksAreKnown
<1>7. ASSUME NEW c \in Calls, AskActive(c) \/ AskStart(c) \/ AskEnd(c)
      PROVE  TypeOK' /\ TicksAreKnown' /\ FlushesFit'
  <2>1. activeTrip \in {0} \cup Trips /\ 0 \in {0} \cup Trips
    BY DEF DataOK
  <2> QED
    BY <1>6, <1>7, <2>1 DEF AskActive, AskStart, AskEnd
<1>8. ASSUME NEW c \in Calls, Serve(c)
      PROVE  TypeOK' /\ TicksAreKnown' /\ FlushesFit'
  <2>1. /\ tick' = tick /\ fixes' = fixes
        /\ UNCHANGED <<lateStarts, lateEnds, stored, buffer, late, tracker, activeTrip, failures,
                       gone>>
    BY <1>8 DEF Serve, phone
  <2>2. call[c].pc = "request" /\ call[c].trip \in {0} \cup Trips
    BY <1>8 DEF Serve, CallRecord
  <2>3. call[c].todo = <<>> /\ call[c].pending = <<>>
    BY <2>2 DEF FlushesFit, Flushes
  <2>4. active \in {0} \cup Trips /\ created \in {0} \cup Trips
    BY DEF DataOK
  <2>5. /\ active' \in {0} \cup Trips /\ created' \in {0} \cup Trips
        /\ call' \in [Calls -> CallRecord] /\ FlushesFit'
    <3>1. CASE /\ UNCHANGED trips
               /\ CallGoes(c, "load", "answered", active, <<>>, <<>>)
      BY <2>4, <3>1, CallFitsEmpty DEF trips
    <3>2. CASE /\ created < MaxTrips /\ active' = created + 1 /\ created' = created + 1
               /\ CallGoes(c, "start", "answered", created + 1, <<>>, <<>>)
      <4>1. created \in Nat /\ calm \in Moods
        BY <2>4, Bounds DEF DataOK
      <4>2. created + 1 \in Trips
        BY <3>2, <4>1, Bounds
      <4> QED
        BY <3>2, <4>2, CallFitsEmpty
    <3>3. CASE UNCHANGED trips /\ CallGoes(c, "none", "idle", 0, <<>>, <<>>)
      BY <2>4, <3>3, CallFitsEmpty DEF trips
    <3>4. CASE /\ call[c].op = "end" /\ active' \in {active, 0} /\ created' = created
               /\ CallGoes(c, "end", "answered", call[c].trip, <<>>, <<>>)
      <4>1. call[c].trip # 0
        BY <3>4 DEF FlushesFit
      <4> QED
        BY <2>2, <2>4, <3>4, <4>1, CallFitsEmpty
    <3> QED
      BY <1>8, <2>3, <3>1, <3>2, <3>3, <3>4, ServeMoves
  <2>6. DataOK'
    BY <2>1, <2>5 DEF DataOK
  <2> QED
    BY <1>a, <2>1, <2>5, <2>6 DEF TicksAreKnown
<1>9. ASSUME NEW c \in Calls, CallFails(c) \/ EndAnswered(c)
      PROVE  TypeOK' /\ TicksAreKnown' /\ FlushesFit'
  <2>1. tick' = tick /\ fixes' = fixes
    BY <1>9 DEF CallFails, EndAnswered
  <2>2. failures' \in 0..MaxFailures /\ activeTrip' \in {0} \cup Trips
    BY <1>9 DEF CallFails, EndAnswered, DataOK
  <2>3. DataOK'
    <3>1. CASE CallFails(c)
      <4>1. lateStarts' \in Nat /\ lateEnds' \subseteq Trips
        BY <1>b, <3>1 DEF CallFails
      <4> QED
        BY <2>2, <3>1, <4>1 DEF CallFails, trips, DataOK
    <3>2. CASE EndAnswered(c)
      BY <2>2, <3>2 DEF EndAnswered, server, DataOK
    <3> QED
      BY <1>9, <3>1, <3>2
  <2>4. CallGoes(c, "none", "idle", 0, <<>>, <<>>)
    BY <1>9, CallMoves
  <2> QED
    BY <1>a, <2>1, <2>3, <2>4, CallFitsEmpty DEF TicksAreKnown
<1>10. ASSUME NEW c \in Calls, StartTracker(c)
       PROVE  TypeOK' /\ TicksAreKnown' /\ FlushesFit'
  <2>1. tick' = tick /\ fixes' = fixes
    BY <1>10 DEF StartTracker
  <2>2. /\ call[c].trip \in {0} \cup Trips /\ call[c].op \in {"none", "load", "start", "end"}
        /\ call[c].trip # 0 /\ call[c].op # "end" /\ call[c].pc = "answered"
    BY <1>10 DEF StartTracker, CallRecord
  <2>3. DataOK'
    BY <1>10, <2>2 DEF StartTracker, server, DataOK
  <2>4. call[c].todo = <<>> /\ call[c].pending = <<>>
    BY <2>2 DEF FlushesFit, Flushes
  <2>5. CallGoes(c, call[c].op, "read", call[c].trip, <<>>, <<>>)
    BY <1>10, <2>4, CallMoves
  <2> QED
    BY <1>a, <2>1, <2>2, <2>3, <2>5, CallFitsEmpty DEF TicksAreKnown
<1>11. ASSUME NEW c \in Calls, Starting(c), EndsStart(c),
              buffer' \in Seq(FixIds), Len(buffer') <= BufferCap,
              UNCHANGED <<calm, server, stored, fixes, late, activeTrip, tick, failures, gone>>
       PROVE  TypeOK' /\ TicksAreKnown' /\ FlushesFit'
  <2>1. tracker' \in [trip : {0} \cup Trips, timer : BOOLEAN]
    BY <1>11 DEF EndsStart, DataOK
  <2>2. DataOK'
    BY <1>11, <2>1 DEF server, DataOK
  <2>3. CallGoes(c, "none", "idle", 0, <<>>, <<>>)
    BY <1>11, CallMoves
  <2> QED
    BY <1>a, <1>11, <2>2, <2>3, CallFitsEmpty DEF TicksAreKnown
<1>12. ASSUME NEW c \in Calls, ReadBuffer(c)
       PROVE  TypeOK' /\ TicksAreKnown' /\ FlushesFit'
  <2>1. buffer \in Seq(FixIds) /\ Len(buffer) <= BufferCap /\ call[c] \in CallRecord
    BY DEF DataOK
  <2>2. call[c].pc = "read" /\ UNCHANGED <<calm, server, stored, fixes, buffer, late,
                                           activeTrip, tick, failures, gone>>
    BY <1>12 DEF ReadBuffer
  <2>3. CASE EndsStart(c)
    BY <1>11, <2>1, <2>2, <2>3 DEF Starting
  <2>4. CASE /\ CallGoes(c, call[c].op, "flush", call[c].trip, buffer, call[c].pending)
             /\ UNCHANGED tracker
    <3>1. call[c].pending = <<>> /\ call[c].op # "end" /\ call[c].trip # 0
      BY <2>2 DEF FlushesFit, Flushes, Starting
    <3>2. call[c].op \in {"none", "load", "start", "end"} /\ call[c].trip \in {0} \cup Trips
      BY <2>1 DEF CallRecord
    <3>3. /\ [op |-> call[c].op, pc |-> "flush", trip |-> call[c].trip, todo |-> buffer,
               pending |-> call[c].pending] \in CallRecord
          /\ Len(buffer) + Len(call[c].pending) <= BufferCap
      BY <2>1, <3>1, <3>2 DEF CallRecord
    <3>4. call' \in [Calls -> CallRecord] /\ FlushesFit'
      BY <2>4, <3>1, <3>3, CallFits
    <3>5. DataOK'
      BY <2>2, <2>4 DEF server, DataOK
    <3> QED
      BY <1>a, <2>2, <3>4, <3>5 DEF TicksAreKnown
  <2> QED
    BY <1>12, <2>3, <2>4, CallMoves
<1>13. ASSUME NEW c \in Calls, Flushes(c), call[c].todo # <<>>, NEW td, NEW pd, NEW p,
              \/ p = "accepted" /\ td = call[c].todo /\ pd = call[c].pending
              \/ p = "flush" /\ td = Tail(call[c].todo) /\ pd \in {call[c].pending, KeptFor(c)},
              CallGoes(c, call[c].op, p, call[c].trip, td, pd)
       PROVE  call' \in [Calls -> CallRecord] /\ FlushesFit'
  <2>1. /\ call[c].op \in {"none", "load", "start", "end"} /\ call[c].trip \in {0} \cup Trips
        /\ call[c].todo \in Seq(FixIds) /\ call[c].pending \in Seq(FixIds)
    BY DEF CallRecord
  <2>2. /\ call[c].op # "end" /\ call[c].trip # 0
        /\ Len(call[c].todo) + Len(call[c].pending) <= BufferCap
    BY <1>13 DEF FlushesFit, Starting
  <2>3. /\ NextUp(c) \in FixIds /\ Tail(call[c].todo) \in Seq(FixIds)
        /\ Len(Tail(call[c].todo)) + 1 = Len(call[c].todo)
    BY <1>13, <2>1, TailHolds DEF NextUp
  <2>4. KeptFor(c) \in Seq(FixIds) /\ Len(KeptFor(c)) = Len(call[c].pending) + 1
    BY <2>1, <2>3 DEF KeptFor
  <2>5. /\ Len(call[c].todo) \in Nat /\ Len(call[c].pending) \in Nat
        /\ Len(Tail(call[c].todo)) \in Nat
    BY <2>1, <2>3
  <2>a. \A x, y, z \in Nat :
          x + 1 = z /\ z + y <= BufferCap => x + y <= BufferCap /\ x + (y + 1) <= BufferCap
    OBVIOUS
  <2>6. CASE p = "accepted" /\ td = call[c].todo /\ pd = call[c].pending
    <3>1. [op |-> call[c].op, pc |-> p, trip |-> call[c].trip, todo |-> td, pending |-> pd]
            \in CallRecord
      BY <2>1, <2>6 DEF CallRecord
    <3>2. td # <<>> /\ Len(td) + Len(pd) <= BufferCap
      BY <1>13, <2>2, <2>6
    <3>3. p \notin {"flush", "accepted"} => td = <<>> /\ pd = <<>>
      BY <2>6
    <3>4. p \in {"read", "flush", "accepted"} => call[c].op # "end" /\ call[c].trip # 0
      BY <2>2
    <3> QED
      BY <1>13, <3>1, <3>2, <3>3, <3>4, CallFits
  <2>7. CASE p = "flush" /\ td = Tail(call[c].todo) /\ pd \in {call[c].pending, KeptFor(c)}
    <3>1. [op |-> call[c].op, pc |-> p, trip |-> call[c].trip, todo |-> td, pending |-> pd]
            \in CallRecord
      BY <2>1, <2>3, <2>4, <2>7 DEF CallRecord
    <3>2. Len(td) + Len(pd) <= BufferCap
      <4>1. CASE pd = call[c].pending
        <5>1. Len(td) + 1 = Len(call[c].todo) /\ Len(pd) = Len(call[c].pending)
          BY <2>3, <2>7, <4>1
        <5>2. Len(td) \in Nat
          BY <2>5, <2>7
        <5> QED
          BY <2>2, <2>5, <2>a, <5>1, <5>2
      <4>2. CASE pd = KeptFor(c)
        <5>1. Len(td) + 1 = Len(call[c].todo) /\ Len(pd) = Len(call[c].pending) + 1
          BY <2>3, <2>4, <2>7, <4>2
        <5>2. Len(td) \in Nat
          BY <2>5, <2>7
        <5> QED
          BY <2>2, <2>5, <2>a, <5>1, <5>2
      <4> QED
        BY <2>7, <4>1, <4>2
    <3> QED
      BY <1>13, <2>2, <2>7, <3>1, <3>2, CallFits
  <2> QED
    BY <1>13, <2>6, <2>7
<1>14. ASSUME NEW c \in Calls, FlushSkips(c) \/ FlushFails(c) \/ FlushUnanswered(c)
       PROVE  TypeOK' /\ TicksAreKnown' /\ FlushesFit'
  <2>1. tick' = tick /\ fixes' = fixes
    BY <1>14 DEF FlushSkips, FlushFails, FlushUnanswered
  <2>2. Flushes(c) /\ call[c].todo # <<>>
    BY <1>14 DEF FlushSkips, FlushFails, FlushUnanswered, Flushing, Flushes, FlushesFit
  <2>3. call' \in [Calls -> CallRecord] /\ FlushesFit'
    BY <1>13, <1>14, <2>2, CallMoves
  <2>4. NextUp(c) \in FixIds
    BY <2>2, TailHolds DEF NextUp, CallRecord
  <2>5. failures' \in 0..MaxFailures
    BY <1>14 DEF FlushSkips, FlushFails, FlushUnanswered, Fails, AnswerIsLost, DataOK
  <2>6. late' \in {late, late \cup {NextUp(c)}} /\ late \subseteq FixIds
    BY <1>14 DEF FlushSkips, FlushFails, FlushUnanswered, Fails, DataOK
  <2>7. DataOK'
    BY <1>14, <2>4, <2>5, <2>6 DEF FlushSkips, FlushFails, FlushUnanswered, server, phone, DataOK
  <2> QED
    BY <1>a, <2>1, <2>3, <2>7 DEF TicksAreKnown
<1>15. ASSUME NEW c \in Calls, FlushStored(c) \/ FlushAccepted(c)
       PROVE  TypeOK' /\ TicksAreKnown' /\ FlushesFit'
  <2>1. tick' = tick /\ fixes' = fixes
    BY <1>15 DEF FlushStored, FlushAccepted
  <2>2. Flushes(c) /\ call[c].todo # <<>>
    BY <1>15 DEF FlushStored, FlushAccepted, Flushing, Flushes, FlushesFit
  <2>3. call' \in [Calls -> CallRecord] /\ FlushesFit'
    BY <1>13, <1>15, <2>2, CallMoves
  <2>4. stored' \in [FixIds -> Nat]
    <3>1. CASE FlushStored(c)
      <4>1. NextUp(c) \in FixIds
        BY <2>2, TailHolds DEF NextUp, CallRecord
      <4>2. stored' = [stored EXCEPT ![NextUp(c)] = @ + 1] /\ stored \in [FixIds -> Nat]
        BY <3>1 DEF FlushStored, Storing, DataOK
      <4> QED
        BY <4>1, <4>2
    <3>2. CASE FlushAccepted(c)
      BY <3>2 DEF FlushAccepted, DataOK
    <3> QED
      BY <1>15, <3>1, <3>2
  <2>5. DataOK'
    BY <1>15, <2>4 DEF FlushStored, FlushAccepted, server, phone, DataOK
  <2> QED
    BY <1>a, <2>1, <2>3, <2>5 DEF TicksAreKnown
<1>16. ASSUME NEW c \in Calls, Replace(c)
       PROVE  TypeOK' /\ TicksAreKnown' /\ FlushesFit'
  <2>1. call[c].pending \in Seq(FixIds) /\ call[c].todo = <<>> /\ Starting(c)
    BY <1>16 DEF Replace, CallRecord, Starting, Flushes
  <2>2. Len(call[c].pending) <= BufferCap
    <3>1. Len(<<>>) = 0 /\ Len(call[c].pending) \in Nat
      BY <2>1
    <3>2. Len(call[c].pending) <= BufferCap
      <4>1. Len(call[c].todo) + Len(call[c].pending) <= BufferCap
        BY DEF FlushesFit
      <4> QED
        BY <2>1, <3>1, <4>1
    <3> QED
      BY <3>2
  <2> QED
    BY <1>11, <1>16, <2>1, <2>2 DEF Replace
<1>17. ASSUME NEW n \in FixIds, LateArrives(n)
       PROVE  TypeOK' /\ TicksAreKnown' /\ FlushesFit'
  <2>1. tick' = tick /\ fixes' = fixes /\ call' = call
    BY <1>17 DEF LateArrives
  <2>2. stored' \in [FixIds -> Nat] /\ late' \subseteq FixIds
    BY <1>17 DEF LateArrives, Storing, DataOK
  <2>3. DataOK'
    BY <1>17, <2>2 DEF LateArrives, server, phone, DataOK
  <2> QED
    BY <1>a, <2>1, <2>3 DEF TicksAreKnown, FlushesFit, Flushes, Starting
<1>18. ASSUME AppDies
       PROVE  TypeOK' /\ TicksAreKnown' /\ FlushesFit'
  <2>1. Carried \subseteq FixIds
    BY DEF Carried, TickRecord
  <2>2. failures' \in 0..MaxFailures /\ gone' \subseteq FixIds
    BY <1>18, <2>1 DEF AppDies, DataOK
  <2>6. late' \subseteq FixIds
    BY <1>18, OnTheWayIsKnown DEF AppDies, DataOK
  <2>7. lateStarts' \in Nat /\ lateEnds' \subseteq Trips
    BY <1>18, <1>b DEF AppDies
  <2>3. DataOK'
    BY <1>18, <2>2, <2>6, <2>7 DEF AppDies, NoTracker, trips, DataOK
  <2>4. tick' \in [Ticks -> TickRecord] /\ TicksAreKnown'
    BY <1>18 DEF AppDies, NoTick, TickRecord, TicksAreKnown
  <2>5. call' \in [Calls -> CallRecord] /\ FlushesFit'
    BY <1>18 DEF AppDies, NoCall, CallRecord, FlushesFit, Flushes, Starting
  <2> QED
    BY <1>a, <2>3, <2>4, <2>5
<1>19. ASSUME LateStart \/ \E t \in Trips : LateEnd(t)
       PROVE  TypeOK' /\ TicksAreKnown' /\ FlushesFit'
  <2>1. /\ UNCHANGED <<calm, stored, fixes, buffer, late, tracker, activeTrip, tick, call,
                       failures, gone>>
    BY <1>19 DEF LateStart, LateEnd, phone
  <2>2. active' \in {0} \cup Trips /\ created' \in {0} \cup Trips
    <3>1. created \in Nat /\ created \in {0} \cup Trips /\ calm \in Moods /\ active \in {0} \cup Trips
      BY Bounds DEF DataOK
    <3>2. created < MaxTrips => created + 1 \in Trips
      BY <3>1, Bounds
    <3> QED
      BY <1>19, <3>1, <3>2 DEF LateStart, LateEnd, MayStart, Starts, Ends, trips
  <2>3. lateStarts' \in Nat /\ lateEnds' \subseteq Trips
    BY <1>19 DEF LateStart, LateEnd, DataOK
  <2>4. DataOK'
    BY <2>1, <2>2, <2>3 DEF DataOK
  <2> QED
    BY <1>a, <2>1, <2>4 DEF TicksAreKnown, FlushesFit, Flushes, Starting
<1> QED
  BY <1>1, <1>2, <1>3, <1>4, <1>5, <1>7, <1>8, <1>9, <1>10, <1>12, <1>14, <1>15, <1>16, <1>17,
     <1>18, <1>19 DEF Next, TickStep, CallStep, BaseInv

LEMMA BaseInvariance == Spec => []BaseInv
  BY BaseInit, BaseStep, PTL DEF Spec

-----------------------------------------------------------------------------
LEMMA CalmInit == Init => CalmInv
  BY DEF Init, CalmInv, CallsWait, StartIsAlone, TripsAgree, TrackedIsShown, NoCall, NoTracker,
         Starting, Flushes

LEMMA CalmStep == BaseInv /\ CalmInv /\ [Next]_vars => CalmInv'
<1>. SUFFICES ASSUME BaseInv, CalmInv, [Next]_vars, calm
              PROVE  CallsWait' /\ StartIsAlone' /\ TripsAgree'
  BY MoodStays DEF CalmInv
<1>. TypeOK /\ CallsWait /\ StartIsAlone /\ TripsAgree
  BY DEF BaseInv, CalmInv
<1>0. DataOK /\ tick \in [Ticks -> TickRecord] /\ call \in [Calls -> CallRecord]
  BY TypeParts
<1>a. /\ active \in Nat /\ created \in Nat /\ tracker.trip \in Nat
      /\ \A c \in Calls : call[c].trip \in Nat
      /\ TrackedIsShown
  <2>1. {0} \cup Trips \subseteq Nat
    BY Bounds
  <2>2. active \in Nat /\ created \in Nat /\ tracker.trip \in Nat
    BY <1>0, <2>1 DEF DataOK
  <2>3. \A c \in Calls : call[c].trip \in Nat
    BY <1>0, <2>1 DEF CallRecord
  <2> QED
    BY <2>2, <2>3 DEF TripsAgree
<1>1. ASSUME call' = call, UNCHANGED trips, activeTrip' = activeTrip, tracker' = tracker,
             tick' = tick
      PROVE  CallsWait' /\ StartIsAlone' /\ TripsAgree'
  BY <1>1 DEF CallsWait, StartIsAlone, TripsAgree, TrackedIsShown, AnswerStands, Starting,
              Flushes, TicksIdle, trips
<1>2. ASSUME NEW k \in Ticks, TimerFires(k) \/ TickStep(k)
      PROVE  CallsWait' /\ StartIsAlone' /\ TripsAgree'
  <2>1. call' = call /\ UNCHANGED <<active, created>> /\ activeTrip' = activeTrip
    BY <1>2 DEF TickStep, TimerFires, FixRead, NoFix, SendStored, SendFails, SendAccepted,
                SendUnanswered, AddToBuffer, server, phone
  <2>2. tracker.timer \/ tick[k].pc # "idle"
    BY <1>2 DEF TickStep, TimerFires, FixRead, NoFix, SendStored, SendFails, SendAccepted,
                SendUnanswered, AddToBuffer
  <2>3. \A c \in Calls : ~Starting(c)
    BY <2>2 DEF StartIsAlone, TicksIdle
  <2>4. tracker'.trip = tracker.trip
    <3>1. TimerFires(k) => tracker'.trip = tracker.trip
      BY <1>0 DEF TimerFires, DataOK
    <3>2. EndsTick(k) => tracker'.trip = tracker.trip
      BY <1>0 DEF EndsTick, DataOK
    <3>3. TickStep(k) => EndsTick(k) \/ tracker' = tracker
      BY DEF TickStep, FixRead, NoFix, SendStored, SendFails, SendAccepted, SendUnanswered,
             AddToBuffer, phone
    <3> QED
      BY <1>2, <3>1, <3>2, <3>3
  <2>5. \A c \in Calls : ~Starting(c)'
    BY <2>1, <2>3 DEF Starting, Flushes
  <2> QED
    BY <2>1, <2>4, <2>5 DEF CallsWait, StartIsAlone, TripsAgree, TrackedIsShown, AnswerStands
<1>3. ASSUME NEW c \in Calls, \A d \in Calls : d # c => call'[d].pc = "idle",
             Starting(c)' => TicksIdle' /\ ~tracker'.timer,
             TrackedIsShown',
             call'[c].pc # "idle" /\ call'[c].op = "end" => tracker'.trip = 0,
             call'[c].pc = "answered" /\ call'[c].op # "end" => AnswerStands(call[c].trip)',
             Starting(c)' => tracker'.trip = call'[c].trip
      PROVE  CallsWait' /\ StartIsAlone' /\ TripsAgree'
  BY <1>3 DEF CallsWait, StartIsAlone, TripsAgree, TrackedIsShown, AnswerStands, Starting, Flushes
<1>4. ASSUME NEW c \in Calls, call[c].pc # "idle" \/ CallsIdle, NEW o, NEW p, NEW t, NEW td, NEW pd,
             CallGoes(c, o, p, t, td, pd)
      PROVE  /\ call'[c].op = o /\ call'[c].pc = p /\ call'[c].trip = t
             /\ \A d \in Calls : d # c => call'[d].pc = "idle"
             /\ (Starting(c)' <=> p \in {"read", "flush", "accepted"})
  <2>1. /\ call'[c].op = o /\ call'[c].pc = p /\ call'[c].trip = t
        /\ \A d \in Calls : d # c => call'[d] = call[d]
    BY <1>4, CallFields
  <2>2. \A d \in Calls : d # c => call[d].pc = "idle"
    BY <1>4 DEF CallsIdle, CallsWait
  <2> QED
    BY <2>1, <2>2 DEF Starting, Flushes
<1>5. ASSUME NEW c \in Calls, AskActive(c) \/ AskStart(c) \/ AskEnd(c)
      PROVE  CallsWait' /\ StartIsAlone' /\ TripsAgree'
  <2>1. PICK o \in {"load", "start", "end"}, t \in {0, activeTrip} :
          Asks(c, o, t) /\ tracker' = IF o = "end" THEN Stopped ELSE tracker
    BY <1>5 DEF AskActive, AskStart, AskEnd
  <2>2. CallsIdle /\ UNCHANGED <<active, created>> /\ activeTrip' = activeTrip
    BY <2>1 DEF Asks, server
  <2>3. CallGoes(c, o, "request", t, <<>>, <<>>)
    BY <2>1, CallMoves
  <2>4. /\ call'[c].op = o /\ call'[c].pc = "request"
        /\ \A d \in Calls : d # c => call'[d].pc = "idle"
        /\ ~Starting(c)'
    BY <1>4, <2>2, <2>3
  <2>5. tracker'.trip = IF o = "end" THEN 0 ELSE tracker.trip
    BY <2>1 DEF Stopped, NoTracker
  <2>6. TrackedIsShown'
    BY <1>a, <2>2, <2>5 DEF TrackedIsShown
  <2> QED
    BY <1>3, <2>4, <2>5, <2>6
<1>6. ASSUME NEW c \in Calls, Serve(c)
      PROVE  CallsWait' /\ StartIsAlone' /\ TripsAgree'
  <2>1. call[c].pc = "request" /\ tracker' = tracker /\ activeTrip' = activeTrip
    BY <1>6 DEF Serve, phone
  <2>2. UNCHANGED trips => TrackedIsShown'
    BY <1>a, <2>1 DEF TrackedIsShown, trips
  <2>3. call[c].op = "end" => tracker.trip = 0
    BY <2>1 DEF TripsAgree
  <2>4. CASE /\ UNCHANGED trips
             /\ CallGoes(c, "load", "answered", active, call[c].todo, call[c].pending)
    <3>1. /\ call'[c].op = "load" /\ call'[c].pc = "answered" /\ call'[c].trip = active
          /\ \A d \in Calls : d # c => call'[d].pc = "idle"
          /\ ~Starting(c)'
      BY <1>4, <2>1, <2>4
    <3>2. AnswerStands(call[c].trip)'
      BY <1>a, <2>1, <2>4, <3>1 DEF AnswerStands, TrackedIsShown, trips
    <3> QED
      BY <1>3, <2>1, <2>2, <2>4, <3>1, <3>2
  <2>5. CASE /\ active = 0 /\ active' = created + 1 /\ created' = created + 1
             /\ CallGoes(c, "start", "answered", created + 1, call[c].todo, call[c].pending)
    <3>. PICK t \in Nat : t = created + 1
      BY <1>a
    <3>1. CallGoes(c, "start", "answered", t, call[c].todo, call[c].pending)
      BY <2>5
    <3>2. /\ call'[c].op = "start" /\ call'[c].pc = "answered" /\ call'[c].trip = t
          /\ \A d \in Calls : d # c => call'[d].pc = "idle"
          /\ ~Starting(c)'
      BY <1>4, <2>1, <3>1
    <3>3. TrackedIsShown' /\ AnswerStands(call[c].trip)'
      BY <1>a, <2>1, <2>5, <3>2 DEF TrackedIsShown, AnswerStands
    <3> QED
      BY <1>3, <2>1, <3>2, <3>3
  <2>6. CASE UNCHANGED trips /\ CallGoes(c, "none", "idle", 0, <<>>, <<>>)
    <3>1. /\ call'[c].pc = "idle" /\ ~Starting(c)'
          /\ \A d \in Calls : d # c => call'[d].pc = "idle"
      BY <1>4, <2>1, <2>6
    <3> QED
      BY <1>3, <2>1, <2>2, <2>6, <3>1
  <2>7. CASE /\ call[c].op = "end" /\ active' \in {active, 0} /\ created' = created
             /\ CallGoes(c, "end", "answered", call[c].trip, call[c].todo, call[c].pending)
    <3>1. /\ call'[c].op = "end" /\ call'[c].pc = "answered" /\ ~Starting(c)'
          /\ \A d \in Calls : d # c => call'[d].pc = "idle"
      BY <1>4, <2>1, <2>7
    <3>2. TrackedIsShown'
      BY <1>a, <2>1, <2>3, <2>7 DEF TrackedIsShown
    <3> QED
      BY <1>3, <2>1, <2>3, <2>7, <3>1, <3>2
  <2> QED
    BY <1>6, <2>4, <2>5, <2>6, <2>7, ServeMoves
<1>7. ASSUME NEW c \in Calls, CallFails(c) \/ EndAnswered(c)
      PROVE  CallsWait' /\ StartIsAlone' /\ TripsAgree'
  <2>1. /\ call[c].pc \in {"request", "answered"} /\ tracker' = tracker
        /\ UNCHANGED <<active, created>> /\ CallGoes(c, "none", "idle", 0, <<>>, <<>>)
    BY <1>7, CallMoves DEF CallFails, EndAnswered, server, trips
  <2>2. /\ call'[c].pc = "idle" /\ ~Starting(c)'
        /\ \A d \in Calls : d # c => call'[d].pc = "idle"
    BY <1>4, <2>1
  <2>4. activeTrip' = activeTrip \/ tracker.trip = 0 \/ tracker.trip # active
    <3>1. CallFails(c) => activeTrip' = activeTrip \/ call[c].op = "end"
      BY DEF CallFails
    <3>2. call[c].op = "end" => tracker.trip = 0
      BY <2>1 DEF TripsAgree
    <3>3. EndAnswered(c) => \/ call[c].op = "end"
                            \/ call[c].pc = "answered" /\ call[c].op # "end" /\ call[c].trip = 0
      BY DEF EndAnswered
    <3>4. call[c].pc = "answered" /\ call[c].op # "end" => AnswerStands(call[c].trip)
      BY DEF TripsAgree
    <3> QED
      BY <1>7, <3>1, <3>2, <3>3, <3>4 DEF AnswerStands
  <2>5. TrackedIsShown'
    BY <1>a, <2>1, <2>4 DEF TrackedIsShown
  <2> QED
    BY <1>3, <2>1, <2>2, <2>5
<1>8. ASSUME NEW c \in Calls, StartTracker(c)
      PROVE  CallsWait' /\ StartIsAlone' /\ TripsAgree'
  <2>1. /\ call[c].pc = "answered" /\ call[c].op # "end" /\ UNCHANGED <<active, created>>
        /\ tick' = tick /\ TicksIdle /\ activeTrip' = call[c].trip
        /\ tracker'.trip = call[c].trip /\ ~tracker'.timer
        /\ CallGoes(c, call[c].op, "read", call[c].trip, call[c].todo, call[c].pending)
    BY <1>8, CallMoves DEF StartTracker, server
  <2>2. /\ call'[c].op = call[c].op /\ call'[c].pc = "read" /\ call'[c].trip = call[c].trip
        /\ \A d \in Calls : d # c => call'[d].pc = "idle"
    BY <1>4, <2>1
  <2>3. TrackedIsShown'
    <3>1. call[c].trip <= created
      BY <2>1 DEF TripsAgree, AnswerStands
    <3> QED
      BY <1>a, <2>1, <3>1 DEF TrackedIsShown
  <2>4. TicksIdle'
    BY <2>1 DEF TicksIdle
  <2> QED
    BY <1>3, <2>1, <2>2, <2>3, <2>4
<1>9. ASSUME NEW c \in Calls, Starting(c), EndsStart(c),
             UNCHANGED <<active, created>>, activeTrip' = activeTrip
      PROVE  CallsWait' /\ StartIsAlone' /\ TripsAgree'
  <2>1. call[c].pc # "idle" /\ CallGoes(c, "none", "idle", 0, <<>>, <<>>)
    BY <1>9, CallMoves DEF Starting, Flushes
  <2>2. /\ call'[c].pc = "idle" /\ ~Starting(c)'
        /\ \A d \in Calls : d # c => call'[d].pc = "idle"
    BY <1>4, <2>1
  <2>3. tracker'.trip = tracker.trip
    BY <1>0, <1>9 DEF EndsStart, DataOK
  <2>4. TrackedIsShown'
    BY <1>a, <1>9, <2>3 DEF TrackedIsShown
  <2> QED
    BY <1>3, <1>9, <2>2, <2>3, <2>4
<1>10. ASSUME NEW c \in Calls, Starting(c), NEW p \in {"flush", "accepted"}, NEW td, NEW pd,
              CallGoes(c, call[c].op, p, call[c].trip, td, pd),
              UNCHANGED <<active, created>>, activeTrip' = activeTrip, tracker' = tracker,
              tick' = tick
       PROVE  CallsWait' /\ StartIsAlone' /\ TripsAgree'
  <2>1. call[c].pc # "idle" /\ call[c].op # "end"
    BY <1>10 DEF Starting, Flushes, BaseInv, FlushesFit
  <2>2. /\ call'[c].op = call[c].op /\ call'[c].pc = p /\ call'[c].trip = call[c].trip
        /\ \A d \in Calls : d # c => call'[d].pc = "idle"
    BY <1>4, <1>10, <2>1
  <2>3. TrackedIsShown' /\ tracker.trip = call[c].trip
    BY <1>a, <1>10 DEF TripsAgree, TrackedIsShown
  <2>4. TicksIdle' /\ ~tracker'.timer
    BY <1>10 DEF StartIsAlone, TicksIdle
  <2> QED
    BY <1>3, <1>10, <2>1, <2>2, <2>3, <2>4
<1>11. ASSUME NEW c \in Calls, ReadBuffer(c)
       PROVE  CallsWait' /\ StartIsAlone' /\ TripsAgree'
  <2>1. /\ Starting(c) /\ UNCHANGED <<active, created>> /\ activeTrip' = activeTrip
        /\ tick' = tick
    BY <1>11 DEF ReadBuffer, Starting, server
  <2> QED
    BY <1>9, <1>10, <1>11, <2>1, CallMoves
<1>12. ASSUME NEW c \in Calls, \/ FlushSkips(c) \/ FlushStored(c) \/ FlushFails(c)
                               \/ FlushAccepted(c) \/ FlushUnanswered(c)
       PROVE  CallsWait' /\ StartIsAlone' /\ TripsAgree'
  <2>1. /\ Starting(c) /\ UNCHANGED <<active, created>> /\ activeTrip' = activeTrip
        /\ tick' = tick
        /\ tracker' = tracker
    BY <1>12 DEF FlushSkips, FlushStored, FlushFails, FlushAccepted, FlushUnanswered, Flushing,
                 Starting, Flushes, server, phone
  <2>2. PICK p \in {"flush", "accepted"}, td \in {call[c].todo, Tail(call[c].todo)},
             pd \in {call[c].pending, KeptFor(c)} :
          CallGoes(c, call[c].op, p, call[c].trip, td, pd)
    BY <1>12, CallMoves
  <2> QED
    BY <1>10, <2>1, <2>2
<1>13. ASSUME NEW c \in Calls, Replace(c)
       PROVE  CallsWait' /\ StartIsAlone' /\ TripsAgree'
  BY <1>9, <1>13 DEF Replace, Starting, Flushes, server
<1>14. ASSUME AppDies
       PROVE  CallsWait' /\ StartIsAlone' /\ TripsAgree'
  <2>1. /\ tracker'.trip = 0 /\ \A c \in Calls : call'[c].pc = "idle"
        /\ UNCHANGED <<active, created>>
    BY <1>14 DEF AppDies, NoTracker, NoCall, trips
  <2>2. TrackedIsShown'
    BY <1>a, <2>1 DEF TrackedIsShown
  <2> QED
    BY <2>1, <2>2 DEF CallsWait, StartIsAlone, TripsAgree, Starting, Flushes
(* A trip that a late request starts is new; one that it ends has ended.   *)
<1>17. ASSUME LateStart \/ \E t \in Trips : LateEnd(t)
       PROVE  CallsWait' /\ StartIsAlone' /\ TripsAgree'
  <2>1. UNCHANGED <<tracker, activeTrip, tick, call>>
    BY <1>17 DEF LateStart, LateEnd, phone
  <2>2. \/ created' = created /\ (active' = active \/ active' = 0)
        \/ created' = created + 1 /\ active' = created + 1
    <3>1. CASE LateStart
      <4>1. Starts \/ UNCHANGED trips
        BY <3>1 DEF LateStart
      <4>2. CASE Starts
        BY <4>2 DEF Starts
      <4>3. CASE UNCHANGED trips
        BY <4>3 DEF trips
      <4> QED
        BY <4>1, <4>2, <4>3
    <3>2. ASSUME NEW t \in Trips, LateEnd(t)
          PROVE  created' = created /\ (active' = active \/ active' = 0)
      BY <3>2 DEF LateEnd, Ends
    <3> QED
      BY <1>17, <3>1, <3>2
  <2>3. TrackedIsShown'
    BY <1>a, <2>1, <2>2 DEF TrackedIsShown
  <2>4. ASSUME NEW c \in Calls, AnswerStands(call[c].trip)
        PROVE  AnswerStands(call[c].trip)'
    BY <1>a, <2>1, <2>2, <2>4 DEF AnswerStands, TrackedIsShown
  <2> QED
    BY <2>1, <2>3, <2>4 DEF CallsWait, StartIsAlone, TripsAgree, Starting, Flushes, TicksIdle
<1>15. ASSUME NEW n \in FixIds, LateArrives(n)
       PROVE  CallsWait' /\ StartIsAlone' /\ TripsAgree'
  BY <1>1, <1>15 DEF LateArrives, server, trips, phone
<1>16. ASSUME UNCHANGED vars
       PROVE  CallsWait' /\ StartIsAlone' /\ TripsAgree'
  BY <1>1, <1>16 DEF vars, server, trips, phone
<1> QED
  BY <1>2, <1>5, <1>6, <1>7, <1>8, <1>11, <1>12, <1>13, <1>14, <1>15, <1>16, <1>17
     DEF Next, CallStep

LEMMA CalmInvariance == Spec => [](BaseInv /\ CalmInv)
  BY BaseInit, BaseStep, CalmInit, CalmStep, PTL DEF Spec

(* The server takes positions from the phone only for the trip its driver  *)
(* sees and can end, whatever fails or comes late, as long as calls wait   *)
(* for one another.                                                        *)
THEOREM TheTrackedTripIsShown == Spec => []TrackedTripIsShown
<1>1. CalmInv => TrackedTripIsShown
  BY DEF CalmInv, TripsAgree, TrackedIsShown, TrackedTripIsShown
<1> QED
  BY <1>1, CalmInvariance, PTL

-----------------------------------------------------------------------------
LEMMA TrailInit == Init => TrailInv
  BY DEF Init, TrailInv, AcceptedIsStored, FlushCovers, TrailIsKept, NoTick, NoCall, Flushes

LEMMA TrailStep == BaseInv /\ BaseInv' /\ CalmInv /\ TrailInv /\ [Next]_vars => TrailInv'
<1>. SUFFICES ASSUME BaseInv, BaseInv', CalmInv, TrailInv, [Next]_vars, calm
              PROVE  AcceptedIsStored' /\ FlushCovers' /\ TrailIsKept'
  BY MoodStays DEF TrailInv
<1>. /\ TypeOK /\ TicksAreKnown /\ FlushesFit /\ CallsWait /\ StartIsAlone
     /\ AcceptedIsStored /\ FlushCovers /\ TrailIsKept
  BY DEF BaseInv, CalmInv, TrailInv
<1>0. DataOK /\ tick \in [Ticks -> TickRecord] /\ call \in [Calls -> CallRecord]
  BY TypeParts
<1>. FixIds' = FixIds /\ \A n \in FixIds : stored[n] > 0 => stored'[n] > 0
  BY MoodStays, StoredGrows
<1>a. \A n \in 1..Len(fixes) : n \in FixIds /\ n # 0
  BY <1>0, Bounds DEF DataOK, FixIds
<1>1. ASSUME call' = call, tick' = tick, UNCHANGED <<fixes, buffer, gone>>
      PROVE  AcceptedIsStored' /\ FlushCovers' /\ TrailIsKept'
  <2>1. \A k \in Ticks : tick[k].pc = "accepted" => tick[k].fix \in FixIds
    BY <1>a DEF TicksAreKnown
  <2>2. \A c \in Calls : call[c].pc = "accepted" => NextUp(c) \in FixIds
    BY <1>0, TailHolds DEF FlushesFit, CallRecord, NextUp
  <2> QED
    BY <1>1, <1>a, <2>1, <2>2
       DEF AcceptedIsStored, FlushCovers, TrailIsKept, Buffered, Carried, Flushes, NextUp
(* While a tick is on its way no call flushes.                             *)
<1>2. ASSUME NEW k \in Ticks, tracker.timer \/ tick[k].pc # "idle", call' = call,
             \A l \in Ticks : l # k => tick'[l] = tick[l],
             tick'[k].pc = "accepted" => stored'[tick'[k].fix] > 0
      PROVE  AcceptedIsStored' /\ FlushCovers'
  <2>1. \A c \in Calls : call[c].pc # "accepted" /\ ~Flushes(c)
    BY <1>2 DEF StartIsAlone, TicksIdle, Starting, Flushes
  <2>2. \A l \in Ticks : tick[l].pc = "accepted" =>
                           tick[l].fix \in FixIds /\ stored[tick[l].fix] > 0
    BY <1>a DEF TicksAreKnown, AcceptedIsStored
  <2> QED
    BY <1>2, <2>1, <2>2 DEF AcceptedIsStored, FlushCovers, Flushes
<1>3. ASSUME NEW k \in Ticks, TimerFires(k) \/ SendStored(k) \/ SendFails(k) \/ SendUnanswered(k)
      PROVE  AcceptedIsStored' /\ FlushCovers' /\ TrailIsKept'
  <2>1. /\ call' = call /\ fixes' = fixes /\ buffer' = buffer /\ gone' = gone
        /\ tracker.timer \/ tick[k].pc # "idle"
    BY <1>3 DEF TimerFires, SendStored, SendFails, SendUnanswered
  <2>2. /\ \A l \in Ticks : l # k => tick'[l] = tick[l]
        /\ tick'[k].fix = tick[k].fix
    <3>1. CASE tick' = tick
      BY <3>1
    <3>2. ASSUME NEW p, NEW t, TickGoes(k, p, t, tick[k].fix)
          PROVE  /\ \A l \in Ticks : l # k => tick'[l] = tick[l]
                 /\ tick'[k].fix = tick[k].fix
      BY <3>2, TickFields
    <3> QED
      BY <1>3, <3>1, <3>2, TickMoves
  <2>3. tick'[k].pc = "accepted" => stored'[tick'[k].fix] > 0
    <3>1. CASE TimerFires(k)
      <4>1. tick[k].pc = "idle"
        BY <3>1 DEF TimerFires
      <4> QED
        BY <3>1, <4>1, TickMoves, TickFields
    <3>2. CASE SendStored(k)
      <4>1. tick[k].fix \in FixIds
        BY <1>a, <3>2 DEF SendStored, TicksAreKnown
      <4>2. Storing(tick[k].fix) /\ stored \in [FixIds -> Nat]
        BY <1>0, <3>2 DEF SendStored, DataOK
      <4> QED
        BY <2>2, <4>1, <4>2 DEF Storing
    <3>3. CASE SendFails(k) \/ SendUnanswered(k)
      BY <3>3, TickMoves, TickFields
    <3> QED
      BY <1>3, <3>1, <3>2, <3>3
  <2>4. TrailIsKept'
    <3>1. Carried' = Carried
      BY <2>2 DEF Carried
    <3> QED
      BY <1>a, <2>1, <3>1 DEF TrailIsKept, Buffered
  <2> QED
    BY <1>2, <2>1, <2>2, <2>3, <2>4
<1>4. ASSUME NEW k \in Ticks, FixRead(k)
      PROVE  AcceptedIsStored' /\ FlushCovers' /\ TrailIsKept'
  <2>1. /\ call' = call /\ buffer' = buffer /\ gone' = gone /\ tick[k].pc = "gps"
        /\ fixes' = Append(fixes, tick[k].trip)
    BY <1>4 DEF FixRead
  <2>2. tick[k].fix = 0 /\ tick[k].trip \in Trips
    BY <1>0, <2>1 DEF TicksAreKnown, TickRecord
  <2>. PICK m : m = Len(fixes) + 1
    OBVIOUS
  <2>3. TickGoes(k, "send", tick[k].trip, m)
    BY <1>4, TickMoves
  <2>4. /\ \A l \in Ticks : l # k => tick'[l] = tick[l]
        /\ tick'[k].pc = "send" /\ tick'[k].fix = m
    BY <2>3, TickFields
  <2>5. \A n \in 1..Len(fixes') : n = m \/ n \in 1..Len(fixes)
    BY <1>0, <2>1, <2>2 DEF DataOK
  <2>6. m \in Carried' /\ \A n \in Carried : n \in Carried'
    <3>1. m # 0
      BY <1>0 DEF DataOK
    <3> QED
      BY <2>2, <2>4, <3>1 DEF Carried
  <2>7. TrailIsKept'
    BY <1>a, <2>1, <2>5, <2>6 DEF TrailIsKept, Buffered
  <2> QED
    BY <1>2, <2>1, <2>4, <2>7
<1>5. ASSUME NEW k \in Ticks, NoFix(k) \/ SendAccepted(k) \/ AddToBuffer(k)
      PROVE  AcceptedIsStored' /\ FlushCovers' /\ TrailIsKept'
  <2>1. call' = call /\ fixes' = fixes /\ tick[k].pc # "idle" /\ EndsTick(k)
    BY <1>5 DEF NoFix, SendAccepted, AddToBuffer
  <2>2. /\ \A l \in Ticks : l # k => tick'[l] = tick[l]
        /\ tick'[k].pc = "idle"
    BY <2>1, TickMoves, TickFields
  <2>3. \A n \in Carried : n \in Carried' \/ n = tick[k].fix
    BY <2>2 DEF Carried
  <2>4. TrailIsKept'
    <3>1. CASE NoFix(k)
      <4>1. tick[k].fix = 0 /\ buffer' = buffer /\ gone' = gone
        BY <3>1 DEF NoFix, TicksAreKnown
      <4> QED
        BY <1>a, <2>1, <2>3, <4>1 DEF TrailIsKept, Buffered
    <3>2. CASE SendAccepted(k)
      <4>1. stored[tick[k].fix] > 0 /\ buffer' = buffer /\ gone' = gone
        BY <3>2 DEF SendAccepted, AcceptedIsStored
      <4> QED
        BY <1>a, <2>1, <2>3, <4>1 DEF TrailIsKept, Buffered
    <3>3. CASE AddToBuffer(k)
      <4>. PICK f \in FixIds : f = tick[k].fix
        BY <1>a, <3>3 DEF AddToBuffer, TicksAreKnown
      <4>1. buffer \in Seq(FixIds) /\ Len(buffer) <= BufferCap
        BY <1>0 DEF DataOK
      <4>2. buffer' = Capped(Append(buffer, f))
        BY <3>3 DEF AddToBuffer
      <4>3. /\ Holds(buffer', f)
            /\ \A n : Holds(buffer, n) =>
                        Holds(buffer', n) \/ (Len(buffer) = BufferCap /\ n = Head(buffer))
        BY <4>1, <4>2, CappedHolds
      <4>4. gone' = IF Len(buffer) = BufferCap THEN gone \cup {Head(buffer)} ELSE gone
        BY <3>3 DEF AddToBuffer
      <4>5. \A n : (Buffered(n) <=> Holds(buffer, n)) /\ (Buffered(n)' <=> Holds(buffer', n))
        BY DEF Buffered, Holds
      <4>6. \A n \in 1..Len(fixes') : \/ stored[n] > 0 \/ Buffered(n) \/ n \in gone
                                      \/ n \in Carried' \/ n = f
        BY <2>1, <2>3 DEF TrailIsKept
      <4> QED
        BY <1>a, <2>1, <4>3, <4>4, <4>5, <4>6 DEF TrailIsKept
    <3> QED
      BY <1>5, <3>1, <3>2, <3>3
  <2> QED
    BY <1>2, <2>1, <2>2, <2>4
(* The steps of a call.                                                    *)
<1>6. ASSUME NEW c \in Calls, tick' = tick,
             UNCHANGED <<fixes, buffer, gone>>,
             \A d \in Calls : d # c => call'[d] = call[d],
             call'[c].pc = "accepted" => stored'[Head(call'[c].todo)] > 0,
             Flushes(c)' => \A n \in FixIds : Buffered(n) =>
               stored'[n] > 0 \/ Holds(call'[c].todo, n) \/ Holds(call'[c].pending, n)
      PROVE  AcceptedIsStored' /\ FlushCovers' /\ TrailIsKept'
  <2>1. \A k \in Ticks : tick[k].pc = "accepted" => tick[k].fix \in FixIds
    BY <1>a DEF TicksAreKnown
  <2>2. \A d \in Calls : call[d].pc = "accepted" => Head(call[d].todo) \in FixIds
    BY <1>0, TailHolds DEF FlushesFit, CallRecord
  <2>3. AcceptedIsStored'
    BY <1>6, <2>1, <2>2 DEF AcceptedIsStored, NextUp
  <2>4. TrailIsKept'
    BY <1>6, <1>a DEF TrailIsKept, Buffered, Carried
  <2>5. FlushCovers'
    BY <1>6 DEF FlushCovers, Flushes, Buffered
  <2> QED
    BY <2>3, <2>4, <2>5
<1>7. ASSUME NEW c \in Calls, tick' = tick, UNCHANGED <<fixes, buffer, gone>>,
             call'[c].pc \notin {"flush", "accepted"},
             \A d \in Calls : d # c => call'[d] = call[d]
      PROVE  AcceptedIsStored' /\ FlushCovers' /\ TrailIsKept'
  BY <1>6, <1>7 DEF Flushes
<1>b. ASSUME NEW c \in Calls, NEW o, NEW p, NEW t, NEW td, NEW pd,
             CallGoes(c, o, p, t, td, pd)
      PROVE  /\ call'[c].pc = p /\ call'[c].todo = td /\ call'[c].pending = pd
             /\ \A d \in Calls : d # c => call'[d] = call[d]
  BY <1>b, CallFields
<1>8. ASSUME NEW c \in Calls, AskActive(c) \/ AskStart(c) \/ AskEnd(c)
      PROVE  AcceptedIsStored' /\ FlushCovers' /\ TrailIsKept'
  <2>1. PICK o, t : Asks(c, o, t)
    BY <1>8 DEF AskActive, AskStart, AskEnd
  <2>2. CallGoes(c, o, "request", t, <<>>, <<>>)
    BY <2>1, CallMoves
  <2>3. call'[c].pc = "request" /\ \A d \in Calls : d # c => call'[d] = call[d]
    BY <1>b, <2>2
  <2> QED
    BY <1>7, <2>1, <2>3 DEF Asks
<1>9. ASSUME NEW c \in Calls, Serve(c)
      PROVE  AcceptedIsStored' /\ FlushCovers' /\ TrailIsKept'
  <2>1. /\ call'[c].pc \in {"answered", "idle"}
        /\ \A d \in Calls : d # c => call'[d] = call[d]
    <3>1. CASE call' = [call EXCEPT ![c].pc = "answered", ![c].trip = active]
      BY <1>0, <3>1 DEF CallRecord
    <3>2. CASE call' = [call EXCEPT ![c].pc = "answered", ![c].trip = created + 1]
      BY <1>0, <3>2 DEF CallRecord
    <3>3. CASE call' = [call EXCEPT ![c] = NoCall]
      BY <1>0, <3>3 DEF NoCall
    <3>4. CASE call' = [call EXCEPT ![c].pc = "answered"]
      BY <1>0, <3>4 DEF CallRecord
    <3> QED
      BY <1>9, <3>1, <3>2, <3>3, <3>4 DEF Serve
  <2> QED
    BY <1>7, <1>9, <2>1 DEF Serve
<1>10. ASSUME NEW c \in Calls, CallFails(c) \/ EndAnswered(c) \/ StartTracker(c)
       PROVE  AcceptedIsStored' /\ FlushCovers' /\ TrailIsKept'
  <2>1. /\ call'[c].pc \in {"idle", "read"}
        /\ \A d \in Calls : d # c => call'[d] = call[d]
    <3>1. CASE CallFails(c) \/ EndAnswered(c)
      BY <1>b, <3>1, CallMoves
    <3>2. CASE StartTracker(c)
      BY <1>b, <3>2, CallMoves
    <3> QED
      BY <1>10, <3>1, <3>2
  <2>2. tick' = tick /\ UNCHANGED <<fixes, buffer, gone>>
    BY <1>10 DEF CallFails, EndAnswered, StartTracker
  <2> QED
    BY <1>7, <2>1, <2>2
<1>11. ASSUME NEW c \in Calls, ReadBuffer(c)
       PROVE  AcceptedIsStored' /\ FlushCovers' /\ TrailIsKept'
  <2>1. tick' = tick /\ UNCHANGED <<fixes, buffer, gone>>
    BY <1>11 DEF ReadBuffer
  <2>2. CASE EndsStart(c)
    <3>1. call'[c].pc = "idle" /\ \A d \in Calls : d # c => call'[d] = call[d]
      BY <1>b, <2>2, CallMoves
    <3> QED
      BY <1>7, <2>1, <3>1
  <2>3. CASE CallGoes(c, call[c].op, "flush", call[c].trip, buffer, call[c].pending)
    <3>1. /\ call'[c].pc = "flush" /\ call'[c].todo = buffer
          /\ \A d \in Calls : d # c => call'[d] = call[d]
      BY <1>b, <2>3
    <3> QED
      BY <1>6, <2>1, <3>1 DEF Holds, Buffered
  <2> QED
    BY <1>11, <2>2, <2>3, CallMoves
<1>12. ASSUME NEW c \in Calls, \/ FlushSkips(c) \/ FlushStored(c) \/ FlushFails(c)
                               \/ FlushAccepted(c) \/ FlushUnanswered(c)
       PROVE  AcceptedIsStored' /\ FlushCovers' /\ TrailIsKept'
  <2>1. /\ Flushes(c) /\ call[c].todo # <<>> /\ tick' = tick
        /\ UNCHANGED <<fixes, buffer, gone>>
    BY <1>12 DEF FlushSkips, FlushStored, FlushFails, FlushAccepted, FlushUnanswered, Flushing,
                 Flushes, FlushesFit
  <2>2. \A n \in FixIds : Buffered(n) =>
          stored[n] > 0 \/ Holds(call[c].todo, n) \/ Holds(call[c].pending, n)
    BY <2>1 DEF FlushCovers
  <2>3. /\ call[c].todo \in Seq(FixIds) /\ call[c].pending \in Seq(FixIds)
    BY <1>0 DEF CallRecord
  <2>4. /\ NextUp(c) \in FixIds
        /\ \A n : Holds(call[c].todo, n) <=> Holds(Tail(call[c].todo), n) \/ n = NextUp(c)
    BY <2>1, <2>3, TailHolds DEF NextUp
  <2>5. \A n : Holds(KeptFor(c), n) <=> Holds(call[c].pending, n) \/ n = NextUp(c)
    BY <2>3, <2>4, AppendHolds DEF KeptFor
  <2>6. CASE CallGoes(c, call[c].op, "flush", call[c].trip, Tail(call[c].todo), KeptFor(c))
    <3>1. /\ call'[c].pc = "flush" /\ call'[c].todo = Tail(call[c].todo)
          /\ call'[c].pending = KeptFor(c)
          /\ \A d \in Calls : d # c => call'[d] = call[d]
      BY <1>b, <2>6
    <3> QED
      BY <1>6, <2>1, <2>2, <2>4, <2>5, <3>1
  <2>7. CASE FlushStored(c)
    <3>1. /\ call'[c].pc = "accepted" /\ call'[c].todo = call[c].todo
          /\ call'[c].pending = call[c].pending
          /\ \A d \in Calls : d # c => call'[d] = call[d]
      BY <1>b, <2>7, CallMoves
    <3>2. stored'[NextUp(c)] > 0
      <4>1. Storing(NextUp(c)) /\ stored \in [FixIds -> Nat]
        BY <1>0, <2>7 DEF FlushStored, DataOK
      <4> QED
        BY <2>4, <4>1 DEF Storing
    <3> QED
      BY <1>6, <2>1, <2>2, <3>1, <3>2 DEF NextUp
  <2>8. CASE FlushAccepted(c)
    <3>1. /\ call'[c].pc = "flush" /\ call'[c].todo = Tail(call[c].todo)
          /\ call'[c].pending = call[c].pending
          /\ \A d \in Calls : d # c => call'[d] = call[d]
      BY <1>b, <2>8, CallMoves
    <3>2. stored[NextUp(c)] > 0
      BY <2>8 DEF FlushAccepted, AcceptedIsStored
    <3> QED
      BY <1>6, <2>1, <2>2, <2>4, <3>1, <3>2
  <2> QED
    BY <1>12, <2>6, <2>7, <2>8, CallMoves
<1>13. ASSUME NEW c \in Calls, Replace(c)
       PROVE  AcceptedIsStored' /\ FlushCovers' /\ TrailIsKept'
  <2>1. /\ Flushes(c) /\ call[c].pc # "idle" /\ call[c].todo = <<>>
        /\ buffer' = call[c].pending /\ tick' = tick /\ UNCHANGED <<stored, fixes, gone>>
    BY <1>13 DEF Replace, Flushes
  <2>2. /\ call'[c].pc = "idle"
        /\ \A d \in Calls : d # c => call'[d] = call[d]
    BY <1>b, <1>13, CallMoves DEF Replace
  <2>3. \A d \in Calls : call'[d].pc = "idle"
    BY <2>1, <2>2 DEF CallsWait
  <2>4. \A n : ~Holds(call[c].todo, n)
    BY <2>1 DEF Holds
  <2>5. \A n \in FixIds : Buffered(n) => stored[n] > 0 \/ Buffered(n)'
    BY <2>1, <2>4 DEF FlushCovers, Holds, Buffered
  <2>6. TrailIsKept'
    BY <1>a, <2>1, <2>5 DEF TrailIsKept, Carried
  <2> QED
    BY <2>1, <2>3, <2>6 DEF AcceptedIsStored, FlushCovers, Flushes
<1>14. ASSUME AppDies
       PROVE  AcceptedIsStored' /\ FlushCovers' /\ TrailIsKept'
  <2>1. /\ \A k \in Ticks : tick'[k].pc = "idle"
        /\ \A c \in Calls : call'[c].pc = "idle"
    BY <1>14 DEF AppDies, NoTick, NoCall
  <2>2. TrailIsKept'
    BY <1>14 DEF AppDies, TrailIsKept, Buffered
  <2> QED
    BY <2>1, <2>2 DEF AcceptedIsStored, FlushCovers, Flushes
<1>15. ASSUME NEW n \in FixIds, LateArrives(n)
       PROVE  AcceptedIsStored' /\ FlushCovers' /\ TrailIsKept'
  BY <1>1, <1>15 DEF LateArrives
<1>16. ASSUME UNCHANGED vars
       PROVE  AcceptedIsStored' /\ FlushCovers' /\ TrailIsKept'
  BY <1>1, <1>16 DEF vars
<1>17. ASSUME LateStart \/ \E t \in Trips : LateEnd(t)
       PROVE  AcceptedIsStored' /\ FlushCovers' /\ TrailIsKept'
  BY <1>1, <1>17 DEF LateStart, LateEnd
<1> QED
  BY <1>3, <1>4, <1>5, <1>8, <1>9, <1>10, <1>11, <1>12, <1>13, <1>14, <1>15, <1>16, <1>17
     DEF Next, TickStep, CallStep

LEMMA TrailInvariance == Spec => [](BaseInv /\ CalmInv /\ TrailInv)
<1>1. BaseInv /\ CalmInv /\ TrailInv /\ [Next]_vars => (BaseInv /\ CalmInv /\ TrailInv)'
  BY BaseStep, CalmStep, TrailStep
<1> QED
  BY <1>1, BaseInit, CalmInit, TrailInit, PTL DEF Spec

(* A dead spot never loses the trail as long as calls wait for one another *)
(* and no tick is in flight when the tracker starts: whatever is lost or   *)
(* dies, every fix is stored, buffered or on its way, or it died with the  *)
(* app or fell out of a full buffer, and the buffer keeps its bound.       *)
THEOREM TheCalmTrailIsKept == Spec => []CalmTrailIsKept
<1>1. BaseInv /\ TrailInv => CalmTrailIsKept
  BY DEF BaseInv, TrailInv, CalmTrailIsKept
<1> QED
  BY <1>1, TrailInvariance, PTL

-----------------------------------------------------------------------------
LEMMA OnceInit == Init => OnceInv
  BY DEF Init, OnceInv, CarriedOnce, BufferedOnce, FlushedOnce, NothingUnread, NoTick, NoCall,
         NoRepeats, Holds

LEMMA OnceStep == BaseInv /\ BaseInv' /\ CalmInv /\ OnceInv /\ [Next]_vars => OnceInv'
<1>. SUFFICES ASSUME BaseInv, BaseInv', CalmInv, OnceInv, [Next]_vars, calm
              PROVE  CarriedOnce' /\ BufferedOnce' /\ FlushedOnce' /\ NothingUnread'
  BY MoodStays DEF OnceInv
<1>. /\ TypeOK /\ TicksAreKnown /\ FlushesFit /\ CallsWait /\ StartIsAlone
     /\ CarriedOnce /\ BufferedOnce /\ FlushedOnce /\ NothingUnread
  BY DEF BaseInv, CalmInv, OnceInv
<1>0. DataOK /\ tick \in [Ticks -> TickRecord] /\ call \in [Calls -> CallRecord]
  BY TypeParts
<1>. FixIds' = FixIds
  BY MoodStays
<1>a. /\ Len(fixes) \in Nat /\ buffer \in Seq(FixIds) /\ Len(buffer) <= BufferCap
      /\ \A n \in 1..Len(fixes) : n \in FixIds
      /\ \A n \in FixIds : n \in Nat /\ n # 0
  BY <1>0, Bounds DEF DataOK, FixIds
<1>b. ASSUME NEW c \in Calls, NEW o, NEW p, NEW t, NEW td, NEW pd,
             CallGoes(c, o, p, t, td, pd)
      PROVE  /\ call'[c].pc = p /\ call'[c].todo = td /\ call'[c].pending = pd
             /\ \A d \in Calls : d # c => call'[d] = call[d]
  BY <1>b, CallFields
<1>c. NoRepeats(<<>>) /\ \A n : ~Holds(<<>>, n)
  BY DEF NoRepeats, Holds
(* Only a fix that was read is stored or late.                             *)
<1>d. ASSUME fixes' = fixes,
             \/ stored' = stored
             \/ \E n \in 1..Len(fixes) : Storing(n),
             late' \subseteq late \cup 1..Len(fixes)
      PROVE  NothingUnread'
  <2>1. \A n \in FixIds : n > Len(fixes) => stored'[n] = 0
    BY <1>0, <1>a, <1>d DEF NothingUnread, Storing, DataOK
  <2>2. \A n \in FixIds : n > Len(fixes) => n \notin late'
    BY <1>a, <1>d DEF NothingUnread
  <2> QED
    BY <1>d, <2>1, <2>2 DEF NothingUnread
<1>1. ASSUME UNCHANGED <<fixes, buffer, call>>,
             \A l \in Ticks : tick'[l].fix \in {0, tick[l].fix}
      PROVE  CarriedOnce' /\ BufferedOnce' /\ FlushedOnce'
  BY <1>1 DEF CarriedOnce, BufferedOnce, FlushedOnce
<1>2. ASSUME NEW k \in Ticks, \/ TimerFires(k) \/ NoFix(k) \/ SendStored(k) \/ SendFails(k)
                              \/ SendAccepted(k) \/ SendUnanswered(k)
      PROVE  CarriedOnce' /\ BufferedOnce' /\ FlushedOnce' /\ NothingUnread'
  <2>1. UNCHANGED <<fixes, buffer, call>>
    BY <1>2 DEF TimerFires, NoFix, SendStored, SendFails, SendAccepted, SendUnanswered
  <2>2. ASSUME NEW p, NEW t, NEW f \in {0, tick[k].fix}, TickGoes(k, p, t, f)
        PROVE  \A l \in Ticks : tick'[l].fix \in {0, tick[l].fix}
    BY <2>2, TickFields
  <2>3. \A l \in Ticks : tick'[l].fix \in {0, tick[l].fix}
    <3>1. NoFix(k) \/ SendAccepted(k) => EndsTick(k)
      BY DEF NoFix, SendAccepted
    <3> QED
      BY <1>2, <2>2, <3>1, TickMoves
  <2>4. \/ stored' = stored
        \/ \E n \in 1..Len(fixes) : Storing(n)
    <3>1. SendStored(k) => tick[k].fix \in 1..Len(fixes) /\ Storing(tick[k].fix)
      BY DEF SendStored, TicksAreKnown
    <3> QED
      BY <1>2, <3>1 DEF TimerFires, NoFix, SendFails, SendAccepted, SendUnanswered
  <2>5. late' \subseteq late \cup 1..Len(fixes)
    <3>1. SendFails(k) => tick[k].fix \in 1..Len(fixes) /\ late' \subseteq late \cup {tick[k].fix}
      BY DEF SendFails, TicksAreKnown, Fails
    <3> QED
      BY <1>2, <3>1 DEF TimerFires, NoFix, SendStored, SendAccepted, SendUnanswered
  <2> QED
    BY <1>1, <1>d, <2>1, <2>3, <2>4, <2>5
<1>3. ASSUME NEW k \in Ticks, FixRead(k)
      PROVE  CarriedOnce' /\ BufferedOnce' /\ FlushedOnce' /\ NothingUnread'
  <2>1. /\ UNCHANGED <<stored, buffer, late, call>> /\ tick[k].pc = "gps"
        /\ fixes' = Append(fixes, tick[k].trip) /\ Len(fixes) < MaxFixes
    BY <1>3 DEF FixRead
  <2>2. tick[k].trip \in Trips
    BY <1>0, <2>1 DEF TicksAreKnown, TickRecord
  <2>. PICK m \in FixIds : m = Len(fixes) + 1
    BY <1>0, <2>1, Bounds DEF DataOK, FixIds
  <2>3. Len(fixes') = m
    BY <1>0, <2>1, <2>2 DEF DataOK
  <2>4. TickGoes(k, "send", tick[k].trip, m)
    BY <1>3, TickMoves
  <2>5. /\ \A l \in Ticks : l # k => tick'[l] = tick[l]
        /\ tick'[k].fix = m
    BY <2>4, TickFields
  <2>6. ~Holds(buffer, m) /\ \A l \in Ticks : tick[l].fix # m
    BY <1>a DEF BufferedOnce, TicksAreKnown
  <2>7. CarriedOnce'
    BY <2>1, <2>5, <2>6 DEF CarriedOnce
  <2>8. BufferedOnce' /\ FlushedOnce'
    BY <1>a, <2>1, <2>3 DEF BufferedOnce, FlushedOnce
  <2>9. NothingUnread'
    BY <1>a, <2>1, <2>3 DEF NothingUnread
  <2> QED
    BY <2>7, <2>8, <2>9
<1>4. ASSUME NEW k \in Ticks, AddToBuffer(k)
      PROVE  CarriedOnce' /\ BufferedOnce' /\ FlushedOnce' /\ NothingUnread'
  <2>1. /\ UNCHANGED <<stored, fixes, late, call>> /\ tick[k].pc = "add"
        /\ tick[k].fix \in 1..Len(fixes)
    BY <1>4 DEF AddToBuffer, TicksAreKnown
  <2>. PICK f \in FixIds : f = tick[k].fix
    BY <1>a, <2>1
  <2>2. ~Holds(buffer, f) /\ f <= Len(fixes)
    BY <1>a, <2>1 DEF CarriedOnce
  <2>3. buffer' = Capped(Append(buffer, f))
    BY <1>4 DEF AddToBuffer
  <2>4. /\ NoRepeats(buffer')
        /\ \A n : Holds(buffer', n) => Holds(buffer, n) \/ n = f
    BY <1>a, <2>2, <2>3, CappedHolds DEF BufferedOnce
  <2>5. /\ \A l \in Ticks : l # k => tick'[l] = tick[l]
        /\ tick'[k].fix = 0
    BY <1>4, TickMoves, TickFields DEF AddToBuffer
  <2>6. \A l \in Ticks : l # k => tick[l].fix # f
    BY <1>a, <2>1 DEF CarriedOnce
  <2>7. CarriedOnce'
    BY <2>4, <2>5, <2>6 DEF CarriedOnce
  <2>8. BufferedOnce'
    BY <2>1, <2>2, <2>4 DEF BufferedOnce
  <2>9. \A c \in Calls : call'[c].todo = <<>> /\ call'[c].pending = <<>>
    BY <2>1 DEF StartIsAlone, TicksIdle, Starting, FlushesFit
  <2>10. FlushedOnce'
    BY <1>c, <2>9 DEF FlushedOnce
  <2> QED
    BY <1>d, <2>1, <2>7, <2>8, <2>10
(* The steps of a call.                                                    *)
<1>5. ASSUME NEW c \in Calls, UNCHANGED <<fixes, buffer, tick>>,
             \A d \in Calls : d # c => call'[d] = call[d],
             NoRepeats(call'[c].todo), NoRepeats(call'[c].pending),
             \A n \in FixIds : /\ ~(Holds(call'[c].todo, n) /\ Holds(call'[c].pending, n))
                               /\ Holds(call'[c].todo, n) => Holds(buffer, n)
                               /\ Holds(call'[c].pending, n) => Holds(buffer, n)
      PROVE  CarriedOnce' /\ BufferedOnce' /\ FlushedOnce'
  BY <1>5 DEF CarriedOnce, BufferedOnce, FlushedOnce
<1>6. ASSUME NEW c \in Calls, UNCHANGED <<stored, late, fixes, buffer, tick>>,
             call'[c].todo = <<>>, call'[c].pending = <<>>,
             \A d \in Calls : d # c => call'[d] = call[d]
      PROVE  CarriedOnce' /\ BufferedOnce' /\ FlushedOnce' /\ NothingUnread'
  BY <1>5, <1>6, <1>c, <1>d
<1>7. ASSUME NEW c \in Calls, AskActive(c) \/ AskStart(c) \/ AskEnd(c)
      PROVE  CarriedOnce' /\ BufferedOnce' /\ FlushedOnce' /\ NothingUnread'
  <2>1. PICK o, t : Asks(c, o, t)
    BY <1>7 DEF AskActive, AskStart, AskEnd
  <2>2. CallGoes(c, o, "request", t, <<>>, <<>>)
    BY <2>1, CallMoves
  <2>3. /\ call'[c].todo = <<>> /\ call'[c].pending = <<>>
        /\ \A d \in Calls : d # c => call'[d] = call[d]
    BY <1>b, <2>2
  <2> QED
    BY <1>6, <2>1, <2>3 DEF Asks
<1>8. ASSUME NEW c \in Calls, Serve(c)
      PROVE  CarriedOnce' /\ BufferedOnce' /\ FlushedOnce' /\ NothingUnread'
  <2>1. UNCHANGED <<stored, late, fixes, buffer, tick>> /\ call[c].pc = "request"
    BY <1>8 DEF Serve
  <2>2. \A d \in Calls : d # c => call'[d] = call[d]
    BY <1>0, <1>8 DEF Serve
  <2>3. call[c].todo = <<>> /\ call[c].pending = <<>>
    BY <2>1 DEF FlushesFit, Flushes
  <2>4. call'[c].pc \in {"answered", "idle"}
    <3>1. CASE call' = [call EXCEPT ![c].pc = "answered", ![c].trip = active]
      BY <1>0, <3>1 DEF CallRecord
    <3>2. CASE call' = [call EXCEPT ![c].pc = "answered", ![c].trip = created + 1]
      BY <1>0, <3>2 DEF CallRecord
    <3>3. CASE call' = [call EXCEPT ![c] = NoCall]
      BY <1>0, <3>3 DEF NoCall
    <3>4. CASE call' = [call EXCEPT ![c].pc = "answered"]
      BY <1>0, <3>4 DEF CallRecord
    <3> QED
      BY <1>8, <3>1, <3>2, <3>3, <3>4 DEF Serve
  <2>5. call'[c].todo = <<>> /\ call'[c].pending = <<>>
    BY <2>4 DEF BaseInv, FlushesFit, Flushes
  <2> QED
    BY <1>6, <2>1, <2>2, <2>5
<1>9. ASSUME NEW c \in Calls, CallFails(c) \/ EndAnswered(c) \/ StartTracker(c)
      PROVE  CarriedOnce' /\ BufferedOnce' /\ FlushedOnce' /\ NothingUnread'
  <2>1. UNCHANGED <<stored, late, fixes, buffer, tick>>
    BY <1>9 DEF CallFails, EndAnswered, StartTracker
  <2>2. /\ call'[c].todo = <<>> /\ call'[c].pending = <<>>
        /\ \A d \in Calls : d # c => call'[d] = call[d]
    <3>1. CASE CallFails(c) \/ EndAnswered(c)
      BY <1>b, <3>1, CallMoves
    <3>2. CASE StartTracker(c)
      <4>1. call[c].todo = <<>> /\ call[c].pending = <<>>
        BY <3>2 DEF StartTracker, FlushesFit, Flushes
      <4> QED
        BY <1>b, <3>2, <4>1, CallMoves
    <3> QED
      BY <1>9, <3>1, <3>2
  <2> QED
    BY <1>6, <2>1, <2>2
<1>10. ASSUME NEW c \in Calls, ReadBuffer(c)
       PROVE  CarriedOnce' /\ BufferedOnce' /\ FlushedOnce' /\ NothingUnread'
  <2>1. UNCHANGED <<stored, late, fixes, buffer, tick>> /\ call[c].pc = "read"
    BY <1>10 DEF ReadBuffer
  <2>2. CASE EndsStart(c)
    <3>1. /\ call'[c].todo = <<>> /\ call'[c].pending = <<>>
          /\ \A d \in Calls : d # c => call'[d] = call[d]
      BY <1>b, <2>2, CallMoves
    <3> QED
      BY <1>6, <2>1, <3>1
  <2>3. CASE CallGoes(c, call[c].op, "flush", call[c].trip, buffer, call[c].pending)
    <3>1. /\ call'[c].todo = buffer /\ call'[c].pending = call[c].pending
          /\ \A d \in Calls : d # c => call'[d] = call[d]
      BY <1>b, <2>3
    <3>2. call[c].pending = <<>>
      BY <2>1 DEF FlushesFit, Flushes
    <3>3. NoRepeats(buffer)
      BY DEF BufferedOnce
    <3> QED
      BY <1>5, <1>c, <1>d, <2>1, <3>1, <3>2, <3>3
  <2> QED
    BY <1>10, <2>2, <2>3, CallMoves
<1>11. ASSUME NEW c \in Calls, \/ FlushSkips(c) \/ FlushStored(c) \/ FlushFails(c)
                               \/ FlushAccepted(c) \/ FlushUnanswered(c)
       PROVE  CarriedOnce' /\ BufferedOnce' /\ FlushedOnce' /\ NothingUnread'
  <2>1. /\ Flushes(c) /\ call[c].todo # <<>> /\ UNCHANGED <<fixes, buffer, tick>>
    BY <1>11 DEF FlushSkips, FlushStored, FlushFails, FlushAccepted, FlushUnanswered, Flushing,
                 Flushes, FlushesFit
  <2>2. /\ call[c].todo \in Seq(FixIds) /\ call[c].pending \in Seq(FixIds)
        /\ NoRepeats(call[c].todo) /\ NoRepeats(call[c].pending)
        /\ \A n \in FixIds : /\ ~(Holds(call[c].todo, n) /\ Holds(call[c].pending, n))
                             /\ Holds(call[c].todo, n) => Holds(buffer, n)
                             /\ Holds(call[c].pending, n) => Holds(buffer, n)
    BY <1>0 DEF CallRecord, FlushedOnce
  <2>3. /\ NextUp(c) \in FixIds /\ NoRepeats(Tail(call[c].todo))
        /\ \A n : Holds(call[c].todo, n) <=> Holds(Tail(call[c].todo), n) \/ n = NextUp(c)
        /\ ~Holds(Tail(call[c].todo), NextUp(c))
    BY <2>1, <2>2, TailHolds DEF NextUp
  <2>4. /\ \A n : Holds(KeptFor(c), n) <=> Holds(call[c].pending, n) \/ n = NextUp(c)
        /\ NoRepeats(KeptFor(c))
    BY <2>2, <2>3, AppendHolds DEF KeptFor
  <2>5. NextUp(c) \in 1..Len(fixes)
    BY <1>a, <2>2, <2>3 DEF BufferedOnce
  <2>6. CarriedOnce' /\ BufferedOnce' /\ FlushedOnce'
    <3>1. CASE CallGoes(c, call[c].op, "flush", call[c].trip, Tail(call[c].todo), KeptFor(c))
      <4>1. /\ call'[c].todo = Tail(call[c].todo) /\ call'[c].pending = KeptFor(c)
            /\ \A d \in Calls : d # c => call'[d] = call[d]
        BY <1>b, <3>1
      <4> QED
        BY <1>5, <2>1, <2>2, <2>3, <2>4, <4>1
    <3>2. CASE FlushStored(c)
      <4>1. /\ call'[c].todo = call[c].todo /\ call'[c].pending = call[c].pending
            /\ \A d \in Calls : d # c => call'[d] = call[d]
        BY <1>b, <3>2, CallMoves
      <4> QED
        BY <1>5, <2>1, <2>2, <4>1
    <3>3. CASE FlushAccepted(c)
      <4>1. /\ call'[c].todo = Tail(call[c].todo) /\ call'[c].pending = call[c].pending
            /\ \A d \in Calls : d # c => call'[d] = call[d]
        BY <1>b, <3>3, CallMoves
      <4> QED
        BY <1>5, <2>1, <2>2, <2>3, <4>1
    <3> QED
      BY <1>11, <3>1, <3>2, <3>3, CallMoves
  <2>7. stored' = stored \/ Storing(NextUp(c))
    BY <1>11 DEF FlushSkips, FlushStored, FlushFails, FlushAccepted, FlushUnanswered
  <2>8. late' \subseteq late \cup {NextUp(c)}
    BY <1>11 DEF FlushSkips, FlushStored, FlushFails, FlushAccepted, FlushUnanswered, Fails
  <2> QED
    BY <1>d, <2>1, <2>5, <2>6, <2>7, <2>8
<1>12. ASSUME NEW c \in Calls, Replace(c)
       PROVE  CarriedOnce' /\ BufferedOnce' /\ FlushedOnce' /\ NothingUnread'
  <2>1. /\ call[c].pc # "idle" /\ UNCHANGED <<stored, late, fixes, tick>>
        /\ buffer' = call[c].pending
    BY <1>12 DEF Replace
  <2>2. /\ call'[c].pc = "idle"
        /\ \A d \in Calls : d # c => call'[d] = call[d]
    BY <1>b, <1>12, CallMoves DEF Replace
  <2>3. \A d \in Calls : call'[d].pc = "idle"
    BY <2>1, <2>2 DEF CallsWait
  <2>4. \A d \in Calls : call'[d].todo = <<>> /\ call'[d].pending = <<>>
    BY <2>3 DEF BaseInv, FlushesFit, Flushes
  <2>5. /\ NoRepeats(buffer')
        /\ \A n \in FixIds : Holds(buffer', n) => Holds(buffer, n)
    BY <2>1 DEF FlushedOnce
  <2>6. CarriedOnce'
    BY <1>0, <2>1, <2>5 DEF CarriedOnce, TickRecord
  <2>7. BufferedOnce'
    BY <2>1, <2>5 DEF BufferedOnce
  <2>8. FlushedOnce'
    BY <1>c, <2>4 DEF FlushedOnce
  <2> QED
    BY <1>d, <2>1, <2>6, <2>7, <2>8
<1>13. ASSUME AppDies
       PROVE  CarriedOnce' /\ BufferedOnce' /\ FlushedOnce' /\ NothingUnread'
  <2>1. /\ UNCHANGED <<stored, fixes, buffer>>
        /\ \A k \in Ticks : tick'[k].fix = 0
        /\ \A c \in Calls : call'[c].todo = <<>> /\ call'[c].pending = <<>>
    BY <1>13 DEF AppDies, NoTick, NoCall
  <2>2. \A n \in OnTheWay : n <= Len(fixes)
    <3>1. \A k \in Ticks : tick[k].pc = "send" => tick[k].fix <= Len(fixes)
      BY <1>a DEF TicksAreKnown
    <3>2. \A c \in Calls : Flushing(c) => NextUp(c) \in FixIds /\ Holds(call[c].todo, NextUp(c))
      BY <1>0, TailHolds DEF CallRecord, Flushing, NextUp
    <3>3. \A c \in Calls : Flushing(c) => NextUp(c) <= Len(fixes)
      BY <3>2 DEF FlushedOnce, BufferedOnce
    <3> QED
      BY <3>1, <3>3, OnTheWayIsKnown
  <2>3. \A n \in FixIds : n \in late' => n \in late \/ n <= Len(fixes)
    BY <1>13, <2>2 DEF AppDies
  <2>4. NothingUnread'
    BY <1>a, <2>1, <2>3 DEF NothingUnread
  <2> QED
    BY <1>c, <2>1, <2>4 DEF CarriedOnce, BufferedOnce, FlushedOnce
<1>14. ASSUME NEW n \in FixIds, LateArrives(n)
       PROVE  CarriedOnce' /\ BufferedOnce' /\ FlushedOnce' /\ NothingUnread'
  <2>1. UNCHANGED <<fixes, buffer, call, tick>> /\ late' \subseteq late /\ n \in late
    BY <1>14 DEF LateArrives
  <2>2. n \in 1..Len(fixes)
    BY <1>a, <2>1 DEF NothingUnread
  <2>3. stored' = stored \/ Storing(n)
    BY <1>14 DEF LateArrives
  <2> QED
    BY <1>1, <1>d, <2>1, <2>2, <2>3
<1>15. ASSUME UNCHANGED vars
       PROVE  CarriedOnce' /\ BufferedOnce' /\ FlushedOnce' /\ NothingUnread'
  BY <1>1, <1>15, <1>d DEF vars
<1>16. ASSUME LateStart \/ \E t \in Trips : LateEnd(t)
       PROVE  CarriedOnce' /\ BufferedOnce' /\ FlushedOnce' /\ NothingUnread'
  BY <1>1, <1>16, <1>d DEF LateStart, LateEnd
<1> QED
  BY <1>2, <1>3, <1>4, <1>7, <1>8, <1>9, <1>10, <1>11, <1>12, <1>13, <1>14, <1>15, <1>16
     DEF Next, TickStep, CallStep

-----------------------------------------------------------------------------
LEMMA CopyInit == Init => CopyInv
<1>. SUFFICES ASSUME Init, NEW n \in FixIds
              PROVE  Copies(n) <= 1 + failures
  BY DEF CopyInv, CopiesArePaid
<1>1. ~Outstanding(n)
  BY DEF Init, Outstanding, InFlight, Holds, NoTick
<1> QED
  BY <1>1 DEF Init, Copies

LEMMA CopyStep ==
  BaseInv /\ BaseInv' /\ CalmInv /\ OnceInv /\ CopyInv /\ [Next]_vars => CopyInv'
<1>. SUFFICES ASSUME BaseInv, BaseInv', CalmInv, OnceInv, CopyInv, [Next]_vars, calm
              PROVE  CopiesArePaid'
  BY MoodStays DEF CopyInv
<1>. /\ TypeOK /\ TicksAreKnown /\ FlushesFit /\ CallsWait /\ StartIsAlone
     /\ CarriedOnce /\ BufferedOnce /\ FlushedOnce /\ NothingUnread /\ CopiesArePaid
  BY DEF BaseInv, CalmInv, OnceInv, CopyInv
<1>0. DataOK /\ tick \in [Ticks -> TickRecord] /\ call \in [Calls -> CallRecord]
  BY TypeParts
<1>. FixIds' = FixIds
  BY MoodStays
<1>a. /\ Len(fixes) \in Nat /\ buffer \in Seq(FixIds) /\ Len(buffer) <= BufferCap
      /\ \A n \in 1..Len(fixes) : n \in FixIds
      /\ \A n \in FixIds : n \in Nat /\ n # 0
  BY <1>0, Bounds DEF DataOK, FixIds
<1>c. failures \in Nat /\ \A n \in FixIds : stored[n] \in Nat
  BY <1>0, Bounds DEF DataOK
<1>d. \A n \in FixIds : stored[n] + (IF n \in late THEN 1 ELSE 0)
                          + (IF Outstanding(n) THEN 1 ELSE 0) <= 1 + failures
  BY DEF CopiesArePaid, Copies
<1>b. ASSUME NEW c \in Calls, NEW o, NEW p, NEW t, NEW td, NEW pd,
             CallGoes(c, o, p, t, td, pd)
      PROVE  /\ call'[c].pc = p /\ call'[c].todo = td /\ call'[c].pending = pd
             /\ \A d \in Calls : d # c => call'[d] = call[d]
  BY <1>b, CallFields
(* The four ways in which a step changes the account of fix n.             *)
<1>1. ASSUME stored' = stored, late' = late, failures' = failures,
             \A n \in FixIds : Outstanding(n)' => Outstanding(n)
      PROVE  CopiesArePaid'
  BY <1>1, <1>c DEF CopiesArePaid, Copies
<1>2. ASSUME stored' = stored, late' = late, failures' = failures + 1
      PROVE  CopiesArePaid'
  BY <1>2, <1>c DEF CopiesArePaid, Copies
<1>3. ASSUME NEW m \in FixIds, Fails(m), stored' = stored,
             \A n \in FixIds : Outstanding(n)' => Outstanding(n)
      PROVE  CopiesArePaid'
  <2>1. CASE UNCHANGED <<failures, late>>
    BY <1>1, <1>3, <2>1
  <2>2. CASE failures' = failures + 1 /\ late' \in {late, late \cup {m}}
    BY <1>3, <1>c, <2>2 DEF CopiesArePaid, Copies
  <2> QED
    BY <1>3, <2>1, <2>2 DEF Fails
<1>4. ASSUME NEW m \in FixIds, Storing(m), late' = late, failures' = failures,
             Outstanding(m), ~Outstanding(m)',
             \A n \in FixIds : Outstanding(n)' => Outstanding(n)
      PROVE  CopiesArePaid'
  <2>1. \A n \in FixIds : stored'[n] = IF n = m THEN stored[n] + 1 ELSE stored[n]
    BY <1>0, <1>4 DEF Storing, DataOK
  <2> QED
    <3>. SUFFICES ASSUME NEW n \in FixIds
                  PROVE  stored'[n] + (IF n \in late THEN 1 ELSE 0)
                           + (IF Outstanding(n)' THEN 1 ELSE 0) <= 1 + failures
      BY <1>4 DEF CopiesArePaid, Copies
    <3>1. CASE n = m
      BY <1>4, <1>c, <1>d, <2>1, <3>1
    <3>2. CASE n # m
      BY <1>4, <1>c, <1>d, <2>1, <3>2
    <3> QED
      BY <3>1, <3>2
(* While a tick is on its way no call flushes.                             *)
<1>5. ASSUME NEW k \in Ticks, tick[k].pc # "idle" \/ tracker.timer
      PROVE  \A c \in Calls : ~Flushes(c)
  BY <1>5 DEF StartIsAlone, TicksIdle, Starting
<1>6. ASSUME NEW k \in Ticks, tick[k].pc # "idle" \/ tracker.timer, call' = call,
             \A l \in Ticks : l # k => tick'[l] = tick[l]
      PROVE  \A n \in FixIds : Outstanding(n)' =>
               \/ Outstanding(n)
               \/ Holds(buffer', n) /\ ~Holds(buffer, n)
               \/ tick'[k].pc \in {"send", "add"} /\ tick'[k].fix = n
  BY <1>5, <1>6 DEF Outstanding, InFlight, Flushes
<1>7. ASSUME NEW k \in Ticks, TimerFires(k) \/ NoFix(k) \/ SendAccepted(k)
      PROVE  CopiesArePaid'
  <2>1. /\ tick[k].pc # "idle" \/ tracker.timer
        /\ UNCHANGED <<stored, late, failures, call, buffer>>
    BY <1>7 DEF TimerFires, NoFix, SendAccepted
  <2>2. NoFix(k) \/ SendAccepted(k) => EndsTick(k)
    BY DEF NoFix, SendAccepted
  <2>3. CASE tick' = tick
    BY <1>1, <2>1, <2>3 DEF Outstanding, InFlight, Flushes, AtHand, NextUp
  <2>4. ASSUME NEW p \in {"gps", "idle"}, NEW t, NEW f, TickGoes(k, p, t, f)
        PROVE  CopiesArePaid'
    <3>1. /\ \A l \in Ticks : l # k => tick'[l] = tick[l]
          /\ tick'[k].pc \notin {"send", "add"}
      BY <2>4, TickFields
    <3>2. \A n \in FixIds : Outstanding(n)' => Outstanding(n)
      BY <1>6, <2>1, <3>1
    <3> QED
      BY <1>1, <2>1, <3>2
  <2> QED
    BY <1>7, <2>2, <2>3, <2>4, TickMoves
<1>8. ASSUME NEW k \in Ticks, FixRead(k)
      PROVE  CopiesArePaid'
  <2>1. /\ tick[k].pc = "gps" /\ UNCHANGED <<stored, late, failures, call, buffer>>
        /\ Len(fixes) < MaxFixes
    BY <1>8 DEF FixRead
  <2>. PICK m \in FixIds : m = Len(fixes) + 1
    BY <1>a, <2>1, Bounds DEF FixIds, DataOK, BaseInv, TypeOK
  <2>2. TickGoes(k, "send", tick[k].trip, m)
    BY <1>8, TickMoves
  <2>3. /\ \A l \in Ticks : l # k => tick'[l] = tick[l]
        /\ tick'[k].fix = m
    BY <2>2, TickFields
  <2>4. \A n \in FixIds : Outstanding(n)' => Outstanding(n) \/ n = m
    BY <1>6, <2>1, <2>3
  <2>5. stored[m] = 0 /\ m \notin late
    BY <1>a DEF NothingUnread
  <2> QED
    <3>. SUFFICES ASSUME NEW n \in FixIds
                  PROVE  stored[n] + (IF n \in late THEN 1 ELSE 0)
                           + (IF Outstanding(n)' THEN 1 ELSE 0) <= 1 + failures
      BY <2>1 DEF CopiesArePaid, Copies
    <3>1. CASE n = m
      <4>1. (IF Outstanding(n)' THEN 1 ELSE 0) \in {0, 1}
        OBVIOUS
      <4>2. stored[n] = 0 /\ (IF n \in late THEN 1 ELSE 0) = 0
        BY <2>5, <3>1
      <4> QED
        BY <1>c, <4>1, <4>2
    <3>2. CASE n # m
      BY <1>c, <1>d, <2>4, <3>2
    <3> QED
      BY <3>1, <3>2
<1>9. ASSUME NEW k \in Ticks, SendStored(k)
      PROVE  CopiesArePaid'
  <2>1. /\ tick[k].pc = "send" /\ Storing(tick[k].fix)
        /\ UNCHANGED <<late, failures, call, buffer>>
    BY <1>9 DEF SendStored
  <2>. PICK m \in FixIds : m = tick[k].fix
    BY <1>a, <2>1 DEF TicksAreKnown
  <2>2. /\ \A l \in Ticks : l # k => tick'[l] = tick[l]
        /\ tick'[k].pc = "accepted"
    <3>1. TickGoes(k, "accepted", tick[k].trip, tick[k].fix)
      BY <1>9, TickMoves
    <3> QED
      BY <3>1, TickFields
  <2>3. \A n \in FixIds : Outstanding(n)' => Outstanding(n)
    BY <1>6, <2>1, <2>2
  <2>4. Outstanding(m)
    BY <2>1 DEF Outstanding, InFlight
  <2>5. ~Holds(buffer, m) /\ \A l \in Ticks : tick[l].fix = m => l = k
    BY <1>a DEF CarriedOnce
  <2>6. ~Outstanding(m)'
    BY <2>1, <2>2, <2>5 DEF Outstanding, InFlight
  <2> QED
    BY <1>4, <2>1, <2>3, <2>4, <2>6
<1>10. ASSUME NEW k \in Ticks, SendFails(k)
       PROVE  CopiesArePaid'
  <2>1. /\ tick[k].pc = "send" /\ Fails(tick[k].fix)
        /\ UNCHANGED <<stored, call, buffer>>
    BY <1>10 DEF SendFails
  <2>. PICK m \in FixIds : m = tick[k].fix
    BY <1>a, <2>1 DEF TicksAreKnown
  <2>2. /\ \A l \in Ticks : l # k => tick'[l] = tick[l]
        /\ tick'[k].fix = m
    <3>1. TickGoes(k, "add", tick[k].trip, tick[k].fix)
      BY <1>10, TickMoves
    <3> QED
      BY <3>1, TickFields
  <2>3. Outstanding(m)
    BY <2>1 DEF Outstanding, InFlight
  <2>4. \A n \in FixIds : Outstanding(n)' => Outstanding(n)
    BY <1>6, <2>1, <2>2, <2>3
  <2> QED
    BY <1>3, <2>1, <2>4
<1>11. ASSUME NEW k \in Ticks, AddToBuffer(k)
       PROVE  CopiesArePaid'
  <2>1. /\ tick[k].pc = "add" /\ UNCHANGED <<stored, late, failures, call>>
    BY <1>11 DEF AddToBuffer
  <2>. PICK m \in FixIds : m = tick[k].fix
    BY <1>a, <2>1 DEF TicksAreKnown
  <2>2. /\ \A l \in Ticks : l # k => tick'[l] = tick[l]
        /\ tick'[k].pc = "idle"
    BY <1>11, TickMoves, TickFields DEF AddToBuffer
  <2>3. buffer' = Capped(Append(buffer, m))
    BY <1>11 DEF AddToBuffer
  <2>4. \A n : Holds(buffer', n) => Holds(buffer, n) \/ n = m
    BY <1>a, <2>3, CappedHolds
  <2>5. Outstanding(m)
    BY <2>1 DEF Outstanding, InFlight
  <2>6. \A n \in FixIds : Outstanding(n)' => Outstanding(n)
    BY <1>6, <2>1, <2>2, <2>4, <2>5
  <2> QED
    BY <1>1, <2>1, <2>6
<1>12. ASSUME NEW m \in FixIds, LateArrives(m)
       PROVE  CopiesArePaid'
  <2>1. /\ m \in late /\ late' = late \ {m} /\ (stored' = stored \/ Storing(m))
        /\ UNCHANGED <<failures, call, buffer, tick>>
    BY <1>12 DEF LateArrives
  <2>2. \A n \in FixIds : Outstanding(n)' <=> Outstanding(n)
    BY <2>1 DEF Outstanding, InFlight, Flushes, AtHand, NextUp
  <2>3. ASSUME NEW n \in FixIds
        PROVE  /\ stored'[n] \in Nat /\ stored'[n] <= stored[n] + 1
               /\ n # m => stored'[n] = stored[n]
    BY <1>0, <1>c, <2>1 DEF Storing, DataOK
  <2>. SUFFICES ASSUME NEW n \in FixIds
                PROVE  stored'[n] + (IF n \in late' THEN 1 ELSE 0)
                         + (IF Outstanding(n) THEN 1 ELSE 0) <= 1 + failures
    BY <2>1, <2>2 DEF CopiesArePaid, Copies
  <2>. PICK x \in {0, 1} : x = IF Outstanding(n) THEN 1 ELSE 0
    OBVIOUS
  <2>a. stored[n] + (IF n \in late THEN 1 ELSE 0) + x <= 1 + failures /\ stored[n] \in Nat
    BY <1>c, <1>d
  <2>4. CASE n = m
    <3>1. stored[n] + 1 + x <= 1 + failures
      BY <2>1, <2>4, <2>a
    <3>2. stored'[n] + 0 + x <= 1 + failures
      BY <1>c, <2>3, <2>a, <3>1
    <3> QED
      BY <2>1, <2>4, <3>2
  <2>5. CASE n # m
    <3>1. (n \in late' <=> n \in late) /\ stored'[n] = stored[n]
      BY <2>1, <2>3, <2>5
    <3> QED
      BY <2>a, <3>1
  <2> QED
    BY <2>4, <2>5
(* The steps of a call; the others do not flush.                           *)
<1>13. ASSUME NEW c \in Calls, UNCHANGED <<buffer, tick>>, ~Flushes(c),
              \A d \in Calls : d # c => call'[d] = call[d]
       PROVE  \A n \in FixIds : Outstanding(n)' => Outstanding(n)
  BY <1>13 DEF Outstanding, InFlight, Flushes, AtHand, NextUp
<1>14. ASSUME NEW c \in Calls, AskActive(c) \/ AskStart(c) \/ AskEnd(c)
       PROVE  CopiesArePaid'
  <2>1. PICK o, t : Asks(c, o, t)
    BY <1>14 DEF AskActive, AskStart, AskEnd
  <2>2. CallGoes(c, o, "request", t, <<>>, <<>>)
    BY <2>1, CallMoves
  <2>3. \A d \in Calls : d # c => call'[d] = call[d]
    BY <1>b, <2>2
  <2> QED
    BY <1>1, <1>13, <2>1, <2>3 DEF Asks, Flushes
<1>15. ASSUME NEW c \in Calls, Serve(c)
       PROVE  CopiesArePaid'
  <2>1. \A d \in Calls : d # c => call'[d] = call[d]
    BY <1>0, <1>15 DEF Serve
  <2> QED
    BY <1>1, <1>13, <1>15, <2>1 DEF Serve, Flushes
<1>16. ASSUME NEW c \in Calls, EndAnswered(c) \/ StartTracker(c)
       PROVE  CopiesArePaid'
  <2>1. \A d \in Calls : d # c => call'[d] = call[d]
    <3>1. CASE EndAnswered(c)
      BY <1>b, <3>1, CallMoves
    <3>2. CASE StartTracker(c)
      BY <1>b, <3>2, CallMoves
    <3> QED
      BY <1>16, <3>1, <3>2
  <2> QED
    BY <1>1, <1>13, <1>16, <2>1 DEF EndAnswered, StartTracker, Flushes
<1>17. ASSUME NEW c \in Calls, ReadBuffer(c)
       PROVE  CopiesArePaid'
  <2>1. call[c].pc = "read" /\ UNCHANGED <<stored, late, failures, buffer, tick>>
    BY <1>17 DEF ReadBuffer
  <2>2. \A d \in Calls : d # c => call'[d] = call[d]
    <3>1. CASE EndsStart(c)
      BY <1>b, <3>1, CallMoves
    <3>2. CASE CallGoes(c, call[c].op, "flush", call[c].trip, buffer, call[c].pending)
      BY <1>b, <3>2
    <3> QED
      BY <1>17, <3>1, <3>2, CallMoves
  <2> QED
    BY <1>1, <1>13, <2>1, <2>2 DEF Flushes
<1>18. ASSUME NEW c \in Calls, UNCHANGED <<buffer, tick>>, Flushes(c), Flushes(c)',
              \A d \in Calls : d # c => call'[d] = call[d]
       PROVE  /\ TicksIdle
              /\ \A n \in FixIds :
                   /\ Outstanding(n) <=> Holds(buffer, n) /\ AtHand(c, n)
                   /\ Outstanding(n)' <=> Holds(buffer, n) /\ AtHand(c, n)'
  <2>1. TicksIdle /\ \A d \in Calls : d # c => ~Flushes(d)
    BY <1>18 DEF StartIsAlone, Starting, Flushes, CallsWait
  <2>2. \A n : ~InFlight(n) /\ ~InFlight(n)'
    BY <1>18, <2>1 DEF InFlight, TicksIdle
  <2>3. \A d \in Calls : d # c => ~Flushes(d)'
    BY <1>18, <2>1 DEF Flushes
  <2> QED
    BY <1>18, <2>1, <2>2, <2>3 DEF Outstanding
<1>19. ASSUME NEW c \in Calls, \/ FlushSkips(c) \/ FlushStored(c) \/ FlushFails(c)
                               \/ FlushAccepted(c)
       PROVE  CopiesArePaid'
  <2>1. /\ Flushes(c) /\ call[c].todo # <<>> /\ UNCHANGED <<buffer, tick>>
    BY <1>19 DEF FlushSkips, FlushStored, FlushFails, FlushAccepted, Flushing, Flushes, FlushesFit
  <2>2. /\ call[c].todo \in Seq(FixIds) /\ call[c].pending \in Seq(FixIds)
        /\ NoRepeats(call[c].todo)
        /\ \A n \in FixIds : /\ ~(Holds(call[c].todo, n) /\ Holds(call[c].pending, n))
                             /\ Holds(call[c].todo, n) => Holds(buffer, n)
    BY <1>0 DEF CallRecord, FlushedOnce
  <2>3. /\ NextUp(c) \in FixIds
        /\ \A n : Holds(call[c].todo, n) <=> Holds(Tail(call[c].todo), n) \/ n = NextUp(c)
        /\ ~Holds(Tail(call[c].todo), NextUp(c))
    BY <2>1, <2>2, TailHolds DEF NextUp
  <2>4. \A n : Holds(KeptFor(c), n) <=> Holds(call[c].pending, n) \/ n = NextUp(c)
    BY <2>2, <2>3, AppendHolds DEF KeptFor
  <2>5. CASE FlushSkips(c) \/ FlushFails(c)
    <3>1. /\ call'[c].pc = "flush" /\ call'[c].todo = Tail(call[c].todo)
          /\ call'[c].pending = KeptFor(c)
          /\ \A d \in Calls : d # c => call'[d] = call[d]
      BY <1>b, <2>5, CallMoves
    <3>2. call[c].pc = "flush"
      BY <2>5 DEF FlushSkips, FlushFails, Flushing
    <3>3. \A n \in FixIds : Outstanding(n)' => Outstanding(n)
      <4>1. \A n \in FixIds : AtHand(c, n)' => AtHand(c, n)
        BY <2>3, <2>4, <3>1, <3>2 DEF AtHand
      <4> QED
        BY <1>18, <2>1, <3>1, <4>1 DEF Flushes
    <3>4. FlushSkips(c) => UNCHANGED <<stored, late, failures>>
      BY DEF FlushSkips
    <3>5. FlushFails(c) => Fails(NextUp(c)) /\ stored' = stored
      BY DEF FlushFails
    <3> QED
      BY <1>1, <1>3, <2>3, <2>5, <3>3, <3>4, <3>5
  <2>6. CASE FlushStored(c)
    <3>1. /\ call'[c].pc = "accepted" /\ call'[c].todo = call[c].todo
          /\ call'[c].pending = call[c].pending
          /\ \A d \in Calls : d # c => call'[d] = call[d]
      BY <1>b, <2>6, CallMoves
    <3>2. /\ call[c].pc = "flush" /\ Storing(NextUp(c)) /\ UNCHANGED <<late, failures>>
      BY <2>6 DEF FlushStored, Flushing
    <3>3. \A n \in FixIds : /\ AtHand(c, n)' => AtHand(c, n) /\ n # NextUp(c)
                            /\ n = NextUp(c) => AtHand(c, n) /\ Holds(buffer, n)
      BY <2>2, <2>3, <3>1, <3>2 DEF AtHand, NextUp
    <3>4. Flushes(c)'
      BY <3>1 DEF Flushes
    <3>5. \A n \in FixIds : /\ Outstanding(n)' => Outstanding(n) /\ n # NextUp(c)
                            /\ n = NextUp(c) => Outstanding(n)
      BY <1>18, <2>1, <3>1, <3>3, <3>4
    <3>6. PICK m \in FixIds : m = NextUp(c)
      BY <2>3
    <3>7. Outstanding(m) /\ ~Outstanding(m)'
      BY <3>5, <3>6
    <3> QED
      BY <1>4, <3>2, <3>5, <3>6, <3>7
  <2>7. CASE FlushAccepted(c)
    <3>1. /\ call'[c].pc = "flush" /\ call'[c].todo = Tail(call[c].todo)
          /\ call'[c].pending = call[c].pending
          /\ \A d \in Calls : d # c => call'[d] = call[d]
      BY <1>b, <2>7, CallMoves
    <3>2. call[c].pc = "accepted" /\ UNCHANGED <<stored, late, failures>>
      BY <2>7 DEF FlushAccepted
    <3>3. \A n \in FixIds : AtHand(c, n)' => AtHand(c, n)
      BY <2>2, <2>3, <3>1, <3>2 DEF AtHand
    <3>4. \A n \in FixIds : Outstanding(n)' => Outstanding(n)
      BY <1>18, <2>1, <3>1, <3>3 DEF Flushes
    <3> QED
      BY <1>1, <3>2, <3>4
  <2> QED
    BY <1>19, <2>5, <2>6, <2>7
<1>20. ASSUME NEW c \in Calls, Replace(c)
       PROVE  CopiesArePaid'
  <2>1. /\ call[c].pc = "flush" /\ UNCHANGED <<stored, late, failures, tick>>
        /\ buffer' = call[c].pending
    BY <1>20 DEF Replace
  <2>2. \A d \in Calls : d # c => call[d].pc = "idle"
    BY <2>1 DEF CallsWait
  <2>3. \A n \in FixIds : Holds(buffer', n) =>
          Holds(buffer, n) /\ \A d \in Calls : Flushes(d) => AtHand(d, n)
    BY <2>1, <2>2 DEF FlushedOnce, AtHand, Flushes
  <2>4. \A n \in FixIds : Outstanding(n)' => Outstanding(n)
    BY <2>1, <2>3 DEF Outstanding, InFlight
  <2> QED
    BY <1>1, <2>1, <2>4
(* These steps are failures.                                               *)
<1>21. ASSUME NEW k \in Ticks, SendUnanswered(k)
       PROVE  CopiesArePaid'
  BY <1>2, <1>21 DEF SendUnanswered, AnswerIsLost
<1>22. ASSUME NEW c \in Calls, CallFails(c) \/ FlushUnanswered(c)
       PROVE  CopiesArePaid'
  BY <1>2, <1>22 DEF CallFails, FlushUnanswered, AnswerIsLost
(* A fix whose request may still arrive was outstanding before.            *)
<1>23. ASSUME AppDies
       PROVE  CopiesArePaid'
  <2>1. /\ stored' = stored /\ failures' = failures + 1
        /\ \A n \in late' : n \in late \/ n \in OnTheWay
    BY <1>23 DEF AppDies
  <2>2. ASSUME NEW n \in FixIds, n \in OnTheWay
        PROVE  Outstanding(n)
    <3>1. CASE \E k \in Ticks : tick[k].pc = "send" /\ tick[k].fix = n
      BY <3>1 DEF Outstanding, InFlight
    <3>2. ASSUME NEW c \in Calls, Flushing(c), NextUp(c) = n
          PROVE  Outstanding(n)
      <4>1. Holds(call[c].todo, n) /\ call[c].pc = "flush"
        BY <1>0, <3>2, TailHolds DEF CallRecord, Flushing, NextUp
      <4>2. \A d \in Calls : d # c => ~Flushes(d)
        BY <4>1 DEF CallsWait, Flushes
      <4> QED
        BY <4>1, <4>2 DEF Outstanding, AtHand, FlushedOnce
    <3> QED
      BY <2>2, <3>1, <3>2, OnTheWayIsKnown
  <2>. SUFFICES ASSUME NEW n \in FixIds
                PROVE  stored[n] + (IF n \in late' THEN 1 ELSE 0)
                         + (IF Outstanding(n)' THEN 1 ELSE 0) <= 1 + (failures + 1)
    BY <2>1 DEF CopiesArePaid, Copies
  <2>3. n \in late' => n \in late \/ Outstanding(n)
    BY <2>1, <2>2
  <2> QED
    BY <1>c, <1>d, <2>3
<1>25. ASSUME LateStart \/ \E t \in Trips : LateEnd(t)
       PROVE  CopiesArePaid'
  <2>1. UNCHANGED <<stored, late, failures, call, buffer, tick>>
    BY <1>25 DEF LateStart, LateEnd
  <2> QED
    BY <1>1, <2>1 DEF Outstanding, InFlight, Flushes, AtHand, NextUp
<1>24. ASSUME UNCHANGED vars
       PROVE  CopiesArePaid'
  BY <1>1, <1>24 DEF vars, Outstanding, InFlight, Flushes, AtHand, NextUp
<1> QED
  BY <1>7, <1>8, <1>9, <1>10, <1>11, <1>12, <1>14, <1>15, <1>16, <1>17, <1>19, <1>20, <1>21,
     <1>22, <1>23, <1>24, <1>25 DEF Next, TickStep, CallStep

LEMMA CopyInvariance == Spec => [](BaseInv /\ CalmInv /\ OnceInv /\ CopyInv)
<1>1. /\ BaseInv /\ CalmInv /\ OnceInv /\ CopyInv /\ [Next]_vars
      => (BaseInv /\ CalmInv /\ OnceInv /\ CopyInv)'
  BY BaseStep, CalmStep, OnceStep, CopyStep
<1> QED
  BY <1>1, BaseInit, CalmInit, OnceInit, CopyInit, PTL DEF Spec

(* A fix is stored once and, for each answer or death of the app that lost *)
(* its acknowledgement or request that came late, at most once more, as    *)
(* long as calls wait for one another.                                     *)
THEOREM CopiesNeedFailures == Spec => []ExtraCopiesNeedFailures
<1>1. ASSUME BaseInv, CopyInv, calm, NEW n \in FixIds
      PROVE  stored[n] <= 1 + failures
  <2>1. Copies(n) <= 1 + failures /\ stored[n] \in Nat /\ failures \in Nat
    BY <1>1, Bounds DEF CopyInv, CopiesArePaid, BaseInv, TypeOK
  <2> QED
    BY <2>1 DEF Copies
<1>2. BaseInv /\ CopyInv => ExtraCopiesNeedFailures
  BY <1>1 DEF ExtraCopiesNeedFailures
<1> QED
  BY <1>2, CopyInvariance, PTL
=============================================================================
