-------------------------- MODULE WatchFeed_proofs --------------------------
(***************************************************************************)
(* Proofs about WatchFeed, for every number of messages, of handlers and   *)
(* of places in a queue, with either store and every failure.              *)
(***************************************************************************)
EXTENDS WatchFeed, TLAPS

Ordered(q)    == \A i, j \in 1..Len(q) : i < j => q[i] <= q[j]
AtLeast(q, n) == \A i \in 1..Len(q) : n <= q[i]
AtMost(q, n)  == \A i \in 1..Len(q) : q[i] <= n

(* THE INDUCTIVE INVARIANT.  The store and the task between store and      *)
(* broker hold the last message made or none, and nobody holds one that    *)
(* was not made yet.                                                       *)
StoreIsLatest ==
  /\ pending \in {0, Len(kind)} /\ live \in {0, Len(kind)}
  /\ newest <= Len(kind)
  /\ \A c \in Conns : /\ conn[c].snap <= Len(kind)
                      /\ conn[c].last <= Len(kind)
                      /\ AtMost(conn[c].queue, Len(kind))

(* Only a subscriber is sent messages, and it has them in their order.     *)
QueuesAreOrdered ==
  \A c \in Conns : /\ conn[c].pc # "stream" => conn[c].queue = <<>>
                   /\ Ordered(conn[c].queue)

(* Whatever the handler of the phone's connection has still to send is not *)
(* older than anything that any handler has sent before.                   *)
LinkIsAhead ==
  \A c, d \in Conns : link = c =>
    /\ AtLeast(conn[c].queue, conn[d].last)
    /\ conn[c].pc = "send" => conn[d].last <= conn[c].snap

FeedInv == NewestIsNeverDropped /\ StoreIsLatest /\ QueuesAreOrdered /\ LinkIsAhead

-----------------------------------------------------------------------------
(* SEQUENCES AND RECORDS                                                   *)
Connection == [pc : {"closed", "read", "send", "subscribe", "stream"},
               snap : Ids, queue : Seq(Ids), from : Ids, last : Ids]

LEMMA ConnTypes ==
  ASSUME TypeOK, NEW c \in Conns
  PROVE  /\ conn[c] \in Connection
         /\ conn[c].pc \in {"closed", "read", "send", "subscribe", "stream"}
         /\ conn[c].queue \in Seq(Ids)
         /\ {conn[c].snap, conn[c].from, conn[c].last} \subseteq Ids
  BY DEF TypeOK, Connection

LEMMA Numbers ==
  ASSUME TypeOK
  PROVE  /\ MaxMessages \in Nat /\ Ids \subseteq Nat /\ 0 \in Ids
         /\ Len(kind) \in Nat /\ Len(kind) <= MaxMessages /\ Len(kind) \in Ids
         /\ {pending, newest, live} \subseteq Ids
<1>1. MaxMessages \in Nat
  BY WatchFeedAssumption
<1>2. Len(kind) \in Nat
  BY DEF TypeOK
<1> QED
  BY <1>1, <1>2 DEF TypeOK, Ids

LEMMA QueuedNumbers ==
  ASSUME NEW q \in Seq(Ids), Ids \subseteq Nat
  PROVE  Len(q) \in Nat /\ \A i \in 1..Len(q) : q[i] \in Ids /\ q[i] \in Nat
<1>1. Len(q) \in Nat
  OBVIOUS
<1>2. ASSUME NEW i \in 1..Len(q)
      PROVE  q[i] \in Ids
  OBVIOUS
<1> QED
  BY <1>1, <1>2

(* A queue that takes a message ends with it; before it stand the messages *)
(* it held, without the oldest if the queue was full.                      *)
LEMMA EnqueuedShape ==
  ASSUME NEW q \in Seq(Ids), NEW m \in Ids
  PROVE  /\ Enqueued(q, m) \in Seq(Ids)
         /\ Enqueued(q, m) # <<>>
         /\ Enqueued(q, m)[Len(Enqueued(q, m))] = m
         /\ ~SharedStore /\ Len(q) <= QueueSize => Len(Enqueued(q, m)) <= QueueSize
         /\ \E k \in {0, 1} :
              /\ Len(Enqueued(q, m)) = Len(q) - k + 1
              /\ \A i \in 1..Len(q) - k : i + k \in 1..Len(q) /\ Enqueued(q, m)[i] = q[i + k]
<1>0. QueueSize \in Nat \ {0} /\ Len(q) \in Nat
  BY WatchFeedAssumption
<1>1. CASE ~SharedStore /\ Len(q) = QueueSize
  <2>1. q # <<>>
    BY <1>0, <1>1
  <2>2. /\ Tail(q) \in Seq(Ids)
        /\ Len(Tail(q)) = Len(q) - 1
        /\ \A i \in 1..Len(q) - 1 : Tail(q)[i] = q[i + 1]
    BY <2>1
  <2>3. Enqueued(q, m) = Append(Tail(q), m)
    BY <1>1 DEF Enqueued
  <2>4. /\ Append(Tail(q), m) \in Seq(Ids)
        /\ Len(Append(Tail(q), m)) = Len(q)
        /\ Append(Tail(q), m)[Len(q)] = m
        /\ \A i \in 1..Len(q) - 1 : Append(Tail(q), m)[i] = q[i + 1]
    BY <1>0, <2>2
  <2> QED
    BY <1>0, <1>1, <2>1, <2>3, <2>4
<1>2. CASE ~(~SharedStore /\ Len(q) = QueueSize)
  <2>1. Enqueued(q, m) = Append(q, m)
    BY <1>2 DEF Enqueued
  <2>2. /\ Append(q, m) \in Seq(Ids)
        /\ Len(Append(q, m)) = Len(q) + 1
        /\ Append(q, m)[Len(q) + 1] = m
        /\ \A i \in 1..Len(q) : Append(q, m)[i] = q[i]
    BY <1>0
  <2> QED
    BY <1>0, <1>2, <2>1, <2>2
<1> QED
  BY <1>1, <1>2

(* Hence it stays in order, and within bounds.                             *)
LEMMA EnqueuedInOrder ==
  ASSUME NEW q \in Seq(Ids), NEW m \in Ids, Ids \subseteq Nat, AtMost(q, m)
  PROVE  /\ Ordered(q) => Ordered(Enqueued(q, m))
         /\ AtMost(Enqueued(q, m), m)
         /\ \A n \in Ids : AtLeast(q, n) /\ n <= m => AtLeast(Enqueued(q, m), n)
<1>. DEFINE e == Enqueued(q, m)
<1>1. Len(q) \in Nat /\ \A i \in 1..Len(q) : q[i] \in Nat
  BY QueuedNumbers
<1>2. PICK k \in {0, 1} :
        /\ Len(e) = Len(q) - k + 1
        /\ e[Len(e)] = m
        /\ \A i \in 1..Len(q) - k : i + k \in 1..Len(q) /\ e[i] = q[i + k]
  BY EnqueuedShape
<1>. HIDE DEF e
<1>3. \A i \in 1..Len(e) : i \in 1..Len(q) - k \/ i = Len(e)
  BY <1>1, <1>2
<1>4. Ordered(q) => Ordered(e)
  <2>. SUFFICES ASSUME Ordered(q), NEW i \in 1..Len(e), NEW j \in 1..Len(e), i < j
                PROVE  e[i] <= e[j]
    BY DEF Ordered
  <2>1. i \in 1..Len(q) - k /\ i + k \in 1..Len(q) /\ e[i] = q[i + k]
    BY <1>1, <1>2, <1>3
  <2>2. CASE j = Len(e)
    BY <1>2, <2>1, <2>2 DEF AtMost
  <2>3. CASE j \in 1..Len(q) - k
    <3>1. j + k \in 1..Len(q) /\ e[j] = q[j + k] /\ i + k < j + k
      BY <1>1, <1>2, <2>3
    <3> QED
      BY <2>1, <3>1 DEF Ordered
  <2> QED
    BY <1>3, <2>2, <2>3
<1>5. AtMost(e, m)
  BY <1>1, <1>2, <1>3 DEF AtMost
<1>6. ASSUME NEW n \in Ids, AtLeast(q, n), n <= m
      PROVE  AtLeast(e, n)
  BY <1>1, <1>2, <1>3, <1>6 DEF AtLeast
<1> QED
  BY <1>4, <1>5, <1>6 DEF e

(* What is left once the head has been sent.                               *)
LEMMA TailInOrder ==
  ASSUME NEW q \in Seq(Ids), q # <<>>, Ids \subseteq Nat
  PROVE  /\ Tail(q) \in Seq(Ids) /\ Len(Tail(q)) = Len(q) - 1
         /\ Head(q) \in Ids /\ Head(q) = q[1] /\ 1 \in 1..Len(q)
         /\ Tail(q) # <<>> => Tail(q)[Len(Tail(q))] = q[Len(q)]
         /\ Tail(q) = <<>> => Head(q) = q[Len(q)]
         /\ Ordered(q) => Ordered(Tail(q)) /\ AtLeast(Tail(q), Head(q))
         /\ \A n \in Ids : AtMost(q, n) => AtMost(Tail(q), n)
         /\ \A n \in Ids : AtLeast(q, n) => AtLeast(Tail(q), n)
<1>1. /\ Tail(q) \in Seq(Ids) /\ Len(Tail(q)) = Len(q) - 1 /\ Len(q) \in Nat \ {0}
      /\ Head(q) = q[1] /\ 1 \in 1..Len(q)
      /\ \A i \in 1..Len(q) - 1 : Tail(q)[i] = q[i + 1] /\ i + 1 \in 1..Len(q)
  OBVIOUS
<1>2. Tail(q) # <<>> <=> Len(q) - 1 >= 1
  <2>1. Tail(q) # <<>> <=> Len(Tail(q)) >= 1
    BY <1>1
  <2> QED
    BY <1>1, <2>1
<1>3. \A i \in 1..Len(q) : q[i] \in Nat /\ q[i] \in Ids
  BY QueuedNumbers
<1>4. Tail(q) # <<>> => Tail(q)[Len(Tail(q))] = q[Len(q)]
  <2>1. Tail(q) # <<>> => Len(q) - 1 \in 1..Len(q) - 1
    BY <1>1, <1>2
  <2> QED
    BY <1>1, <2>1
<1>5. Tail(q) = <<>> => Len(q) = 1
  BY <1>1, <1>2
<1>6. Ordered(q) => Ordered(Tail(q)) /\ AtLeast(Tail(q), Head(q))
  BY <1>1, <1>3 DEF Ordered, AtLeast
<1>7. \A n \in Ids : AtMost(q, n) => AtMost(Tail(q), n)
  BY <1>1, <1>3 DEF AtMost
<1>8. \A n \in Ids : AtLeast(q, n) => AtLeast(Tail(q), n)
  BY <1>1, <1>3 DEF AtLeast
<1> QED
  BY <1>1, <1>3, <1>4, <1>5, <1>6, <1>7, <1>8

-----------------------------------------------------------------------------
(* STEPS.  What a broadcast leaves of the handlers.                        *)
LEMMA DeliveredShape ==
  ASSUME TypeOK, NEW m \in Ids
  PROVE  /\ Delivered(m) \in [Conns -> Connection]
         /\ \A c \in Conns :
              /\ Delivered(m)[c].pc = conn[c].pc
              /\ Delivered(m)[c].snap = conn[c].snap
              /\ Delivered(m)[c].from = conn[c].from
              /\ Delivered(m)[c].last = conn[c].last
              /\ Delivered(m)[c].queue = IF conn[c].pc = "stream" THEN Enqueued(conn[c].queue, m)
                                         ELSE conn[c].queue
<1>. SUFFICES ASSUME NEW c \in Conns
              PROVE  /\ Delivered(m)[c] \in Connection
                     /\ Delivered(m)[c].pc = conn[c].pc
                     /\ Delivered(m)[c].snap = conn[c].snap
                     /\ Delivered(m)[c].from = conn[c].from
                     /\ Delivered(m)[c].last = conn[c].last
                     /\ Delivered(m)[c].queue = IF conn[c].pc = "stream"
                                                THEN Enqueued(conn[c].queue, m)
                                                ELSE conn[c].queue
  BY DEF Delivered
<1>1. conn[c] \in Connection /\ Enqueued(conn[c].queue, m) \in Seq(Ids)
  BY ConnTypes, EnqueuedShape
<1>2. CASE conn[c].pc = "stream"
  <2>1. Delivered(m)[c] = [conn[c] EXCEPT !.queue = Enqueued(conn[c].queue, m)]
    BY <1>2 DEF Delivered
  <2> QED
    BY <1>1, <1>2, <2>1 DEF Connection
<1>3. CASE conn[c].pc # "stream"
  BY <1>1, <1>3 DEF Delivered
<1> QED
  BY <1>2, <1>3

(* A step broadcasts the last message made, moves one handler, or leaves   *)
(* the handlers alone.                                                     *)
Broadcasts ==
  /\ newest' = Len(kind') /\ newest' # 0
  /\ conn' = Delivered(newest')
  /\ Len(kind) <= newest'
  /\ store' = store /\ link' = link

MovesOne ==
  /\ UNCHANGED <<store, kind, pending, newest, live>>
  /\ \E c \in Conns : HandlerStep(c) \/ HandlerFails(c) \/ Connect(c)

LeavesHandlers ==
  /\ UNCHANGED <<store, newest, conn>>
  /\ Len(kind) <= Len(kind')
  /\ link' \in {link, None}

LEMMA Steps ==
  ASSUME TypeOK, StoreIsLatest, [Next]_vars
  PROVE  Broadcasts \/ MovesOne \/ LeavesHandlers
<1>0. Len(kind) \in Nat
  BY Numbers
<1>1. ASSUME NEW k \in Kinds, Report(k)
      PROVE  Broadcasts \/ LeavesHandlers
  <2>1. Len(kind') = Len(kind) + 1
    BY <1>1 DEF Report, TypeOK
  <2>2. CASE SharedStore
    BY <1>0, <1>1, <2>1, <2>2 DEF Report, LeavesHandlers
  <2>3. CASE ~SharedStore
    BY <1>0, <1>1, <2>1, <2>3 DEF Report, Broadcasts
  <2> QED
    BY <2>2, <2>3
<1>2. CASE Publish
  <2>1. newest' = pending /\ pending # 0 /\ kind' = kind
    BY <1>2 DEF Publish
  <2>2. pending \in {0, Len(kind)}
    BY DEF StoreIsLatest
  <2>3. newest' = Len(kind')
    BY <2>1, <2>2
  <2>4. store' = store /\ link' = link
    BY <1>2 DEF Publish
  <2>5. conn' = Delivered(newest')
    <3>1. conn' = Delivered(pending) /\ newest' = pending
      BY <1>2 DEF Publish
    <3> QED
      BY ONLY <3>1
  <2>6. newest' # 0 /\ Len(kind) <= newest'
    BY <1>0, <2>1, <2>2
  <2>7. Broadcasts
    BY ONLY <2>3, <2>4, <2>5, <2>6, Zenon DEF Broadcasts
  <2> QED
    BY <2>7
<1>3. ASSUME NEW c \in Conns, HandlerStep(c) \/ HandlerFails(c) \/ Connect(c)
      PROVE  MovesOne
  BY <1>3 DEF MovesOne, HandlerStep, ReadSnapshot, SendSnapshot, Subscribe, Forward, Disconnected,
              HandlerFails, Connect
<1>4. CASE \/ PublishFails \/ ExpireLive \/ LinkBreaks \/ Dispose \/ Open
           \/ ReadDetail \/ ShowDetail \/ DetailFails \/ UNCHANGED vars
  BY <1>0, <1>4 DEF PublishFails, ExpireLive, LinkBreaks, Dispose, Open, ReadDetail, ShowDetail,
              DetailFails, vars, LeavesHandlers
<1> QED
  BY <1>1, <1>2, <1>3, <1>4 DEF Next

LEMMA ClosedShape ==
  ASSUME 0 \in Ids
  PROVE  /\ Closed \in Connection
         /\ Closed.pc = "closed" /\ Closed.queue = <<>> /\ Closed.snap = 0 /\ Closed.last = 0
  BY DEF Closed, Connection

LEMMA SubscribedShape ==
  ASSUME TypeOK, NEW c \in Conns
  PROVE  /\ Subscribed(c) \in Connection
         /\ Subscribed(c).pc \in {"subscribe", "stream"}
         /\ Subscribed(c).from = newest
         /\ Subscribed(c).queue = conn[c].queue
         /\ Subscribed(c).snap = conn[c].snap
         /\ Subscribed(c).last = conn[c].last
<1>1. conn[c] \in Connection /\ newest \in Ids
  BY ConnTypes, Numbers
<1> QED
  BY <1>1 DEF Subscribed, Connection

(* What the steps of one handler do to it: it forwards the head of its     *)
(* queue, or it is left with nothing to forward, having sent nothing, its  *)
(* snapshot, or everything it ever will.                                   *)
Forwards(c) ==
  /\ conn[c].pc = "stream" /\ conn[c].queue # <<>> /\ link = c /\ link' = link
  /\ conn'[c].pc = "stream" /\ conn'[c].from = conn[c].from
  /\ conn'[c].queue = Tail(conn[c].queue)
  /\ conn'[c].last = Head(conn[c].queue) /\ conn'[c].snap = conn[c].snap

SendsSnap(c) ==
  /\ conn[c].pc = "send" /\ link = c /\ link' = link
  /\ conn'[c].pc # "send" /\ conn'[c].from = newest
  /\ conn'[c].last = conn[c].snap /\ conn'[c].snap = conn[c].snap

TakesSnap(c) ==
  /\ link' = link /\ live # 0
  /\ conn'[c].pc = "send" /\ conn'[c].snap = live /\ conn'[c].last = conn[c].last

SendsNothing(c) ==
  /\ (link' = link \/ (conn'[c].pc = "read" /\ link' = c))
  /\ conn'[c].pc # "send" /\ (conn'[c].pc = "stream" => conn'[c].from = newest)
  /\ conn'[c].last = conn[c].last /\ conn'[c].snap = conn[c].snap

Closes(c) ==
  /\ link' \in {link, None}
  /\ conn'[c].pc = "closed" /\ conn'[c].last = 0 /\ conn'[c].snap = 0

HandlerMoves(c) ==
  \/ Forwards(c)
  \/ /\ conn'[c].queue = <<>>
     /\ SendsSnap(c) \/ TakesSnap(c) \/ SendsNothing(c) \/ Closes(c)

LEMMA OneMoves ==
  ASSUME TypeOK, QueuesAreOrdered, MovesOne
  PROVE  \E c \in Conns : /\ HandlerMoves(c) /\ conn'[c] \in Connection
                         /\ conn' = [conn EXCEPT ![c] = conn'[c]]
                         /\ \A d \in Conns \ {c} : conn'[d] = conn[d]
<1>1. PICK c \in Conns : HandlerStep(c) \/ HandlerFails(c) \/ Connect(c)
  BY DEF MovesOne
<1>2. \A d \in Conns \ {c} : conn'[d] = conn[d]
  BY <1>1 DEF HandlerStep, ReadSnapshot, SendSnapshot, Subscribe, Forward, Disconnected,
              HandlerFails, Connect, TypeOK
<1>3. conn' = [conn EXCEPT ![c] = conn'[c]]
  BY <1>1 DEF HandlerStep, ReadSnapshot, SendSnapshot, Subscribe, Forward, Disconnected,
              HandlerFails, Connect, TypeOK
<1>0. /\ conn[c] \in Connection /\ conn[c].queue \in Seq(Ids)
      /\ conn[c].pc # "stream" => conn[c].queue = <<>>
      /\ {newest, live, 0} \subseteq Ids
  BY ConnTypes, Numbers DEF QueuesAreOrdered
<1>4. CASE ReadSnapshot(c) /\ live = 0
  <2>1. conn'[c] = Subscribed(c) /\ conn[c].pc = "read" /\ link' = link
    BY <1>4 DEF ReadSnapshot, TypeOK
  <2>2. /\ conn'[c] \in Connection
        /\ conn'[c].pc # "send" /\ conn'[c].from = newest /\ conn'[c].queue = <<>>
        /\ conn'[c].last = conn[c].last /\ conn'[c].snap = conn[c].snap
    BY <1>0, <2>1, SubscribedShape
  <2>3. SendsNothing(c)
    BY <2>1, <2>2 DEF SendsNothing
  <2>4. HandlerMoves(c)
    BY <2>2, <2>3 DEF HandlerMoves
  <2> QED
    BY <1>2, <1>3, <2>2, <2>4
<1>5. CASE ReadSnapshot(c) /\ live # 0
  <2>1. conn'[c] = [conn[c] EXCEPT !.pc = "send", !.snap = live] /\ conn[c].pc = "read"
    BY <1>5 DEF ReadSnapshot, TypeOK
  <2>2. /\ conn'[c] \in Connection
        /\ conn'[c].pc = "send" /\ conn'[c].snap = live
        /\ conn'[c].queue = <<>> /\ conn'[c].last = conn[c].last
    BY <1>0, <2>1 DEF Connection
  <2>3. HandlerMoves(c)
    BY <1>5, <2>2 DEF ReadSnapshot, HandlerMoves, TakesSnap
  <2> QED
    BY <1>2, <1>3, <2>2, <2>3
<1>6. CASE SendSnapshot(c)
  <2>1. conn'[c] = [Subscribed(c) EXCEPT !.last = conn[c].snap]
    BY <1>6 DEF SendSnapshot, TypeOK
  <2>2. conn[c].snap \in Ids /\ Subscribed(c) \in Connection
    BY ConnTypes, SubscribedShape
  <2>3. /\ conn'[c] \in Connection
        /\ conn'[c].pc = Subscribed(c).pc /\ conn'[c].from = Subscribed(c).from
        /\ conn'[c].queue = Subscribed(c).queue /\ conn'[c].snap = Subscribed(c).snap
        /\ conn'[c].last = conn[c].snap
    BY <2>1, <2>2 DEF Connection
  <2>4. HandlerMoves(c)
    BY <1>0, <1>6, <2>3, SubscribedShape DEF SendSnapshot, HandlerMoves, SendsSnap
  <2> QED
    BY <1>2, <1>3, <2>3, <2>4
<1>7. CASE Subscribe(c)
  <2>1. /\ conn'[c] = [conn[c] EXCEPT !.pc = "stream", !.from = newest]
        /\ conn[c].pc = "subscribe" /\ link' = link
    BY <1>7 DEF Subscribe, TypeOK
  <2>2. /\ conn'[c] \in Connection
        /\ conn'[c].pc = "stream" /\ conn'[c].from = newest /\ conn'[c].queue = <<>>
        /\ conn'[c].last = conn[c].last /\ conn'[c].snap = conn[c].snap
    BY <1>0, <2>1 DEF Connection
  <2>3. SendsNothing(c)
    BY <2>1, <2>2 DEF SendsNothing
  <2>4. HandlerMoves(c)
    BY <2>2, <2>3 DEF HandlerMoves
  <2> QED
    BY <1>2, <1>3, <2>2, <2>4
<1>8. CASE Forward(c)
  <2>1. conn'[c] = [conn[c] EXCEPT !.queue = Tail(conn[c].queue), !.last = Head(conn[c].queue)]
    BY <1>8 DEF Forward, Remaining, TypeOK
  <2>2. Tail(conn[c].queue) \in Seq(Ids) /\ Head(conn[c].queue) \in Ids
    BY <1>0, <1>8, Numbers, TailInOrder DEF Forward
  <2>3. /\ conn'[c] \in Connection
        /\ conn'[c].pc = conn[c].pc /\ conn'[c].from = conn[c].from
        /\ conn'[c].queue = Tail(conn[c].queue) /\ conn'[c].snap = conn[c].snap
        /\ conn'[c].last = Head(conn[c].queue)
    BY <1>0, <2>1, <2>2 DEF Connection
  <2>4. HandlerMoves(c)
    BY <1>8, <2>3 DEF Forward, HandlerMoves, Forwards
  <2> QED
    BY <1>2, <1>3, <2>3, <2>4
<1>9. CASE Disconnected(c) \/ HandlerFails(c)
  <2>1. conn'[c] = Closed /\ link' \in {link, None}
    BY <1>9 DEF Disconnected, HandlerFails, TypeOK
  <2> QED
    BY <1>0, <1>2, <1>3, <2>1, ClosedShape DEF HandlerMoves, Closes
<1>10. CASE Connect(c)
  <2>1. conn'[c] = [conn[c] EXCEPT !.pc = "read"] /\ conn[c].pc = "closed" /\ link' = c
    BY <1>10 DEF Connect, TypeOK
  <2>2. HandlerMoves(c) /\ conn'[c] \in Connection
    BY <1>0, <2>1 DEF HandlerMoves, SendsNothing, Connection
  <2> QED
    BY <1>2, <1>3, <2>2
<1> QED
  BY <1>1, <1>4, <1>5, <1>6, <1>7, <1>8, <1>9, <1>10 DEF HandlerStep

-----------------------------------------------------------------------------
(* THE INVARIANT, part by part.                                            *)
LEMMA TypeStep ==
  ASSUME TypeOK, StoreIsLatest, QueuesAreOrdered, [Next]_vars
  PROVE  TypeOK'
<1>1. /\ store' \in Stores
      /\ kind' \in Seq(Kinds) /\ Len(kind') <= MaxMessages
      /\ {pending', newest', live', screen'} \subseteq Ids
      /\ link' \in Conns \cup {None} /\ watching' \in BOOLEAN
      /\ detail' \in [pc : {"asked", "answered", "done"}, live : Ids]
  <2>0. /\ Len(kind) \in Nat /\ MaxMessages \in Nat /\ 0 \in Ids /\ live \in Ids
        /\ \A m \in Nat : m <= MaxMessages => m \in Ids
    BY Numbers DEF Ids
  <2>1. ASSUME NEW k \in Kinds, Report(k)
        PROVE  <1>1!:
    <3>1. kind' \in Seq(Kinds) /\ Len(kind') = Len(kind) + 1
      BY <2>1 DEF Report, TypeOK
    <3>2. Len(kind) + 1 <= MaxMessages /\ Len(kind) + 1 \in Ids
      BY <2>0, <2>1 DEF Report
    <3> QED
      BY <2>0, <2>1, <3>1, <3>2 DEF Report, TypeOK
  <2>2. CASE Publish \/ PublishFails \/ ExpireLive \/ LinkBreaks \/ UNCHANGED vars
    BY <2>0, <2>2 DEF Publish, PublishFails, ExpireLive, LinkBreaks, vars, TypeOK
  <2>3. ASSUME NEW c \in Conns, HandlerStep(c) \/ HandlerFails(c) \/ Connect(c)
        PROVE  <1>1!:
    <3>1. {screen, conn[c].snap} \subseteq Ids
      BY ConnTypes DEF TypeOK
    <3>2. conn[c].queue # <<>> => Head(conn[c].queue) \in Ids
      BY ConnTypes, Numbers, TailInOrder
    <3> QED
      BY <2>3, <3>1, <3>2
         DEF HandlerStep, ReadSnapshot, SendSnapshot, Subscribe, Forward, Disconnected,
             HandlerFails, Connect, TypeOK
  <2>4. CASE Dispose \/ ReadDetail \/ ShowDetail \/ DetailFails
    <3>1. detail' \in [pc : {"asked", "answered", "done"}, live : Ids]
      BY <2>0, <2>4 DEF Dispose, ReadDetail, ShowDetail, DetailFails
    <3>2. detail.live \in Ids
      BY DEF TypeOK
    <3>3. UNCHANGED <<store, kind, pending, newest, live>>
      BY <2>4 DEF Dispose, ReadDetail, ShowDetail, DetailFails
    <3>4. screen' \in Ids /\ link' \in Conns \cup {None} /\ watching' \in BOOLEAN
      BY <2>0, <2>4, <3>2 DEF Dispose, ReadDetail, ShowDetail, DetailFails, TypeOK
    <3> QED
      BY <3>1, <3>3, <3>4 DEF TypeOK
  <2>5. CASE Open
    <3>1. Fixes \subseteq Ids
      BY <2>0, Numbers DEF Fixes, Ids
    <3> QED
      BY <2>0, <2>5, <3>1 DEF Open, TypeOK
  <2> QED
    BY <2>1, <2>2, <2>3, <2>4, <2>5 DEF Next
<1>2. conn' \in [Conns -> Connection] /\ (~SharedStore' => \A c \in Conns : Len(conn'[c].queue) <= QueueSize)
  <2>1. CASE Broadcasts
    <3>1. newest' \in Ids
      BY <1>1
    <3>2. ASSUME ~SharedStore', NEW c \in Conns
          PROVE  Len(conn'[c].queue) <= QueueSize
      <4>1. Len(conn[c].queue) <= QueueSize /\ conn[c].queue \in Seq(Ids) /\ ~SharedStore
        BY <2>1, <3>2, ConnTypes DEF Broadcasts, SharedStore, TypeOK
      <4> QED
        <5>1. conn'[c].queue = conn[c].queue \/ conn'[c].queue = Enqueued(conn[c].queue, newest')
          BY <2>1, <3>1, DeliveredShape DEF Broadcasts
        <5>2. Len(Enqueued(conn[c].queue, newest')) <= QueueSize
          BY <3>1, <4>1, EnqueuedShape
        <5> QED
          BY <4>1, <5>1, <5>2
    <3> QED
      BY <2>1, <3>1, <3>2, DeliveredShape DEF Broadcasts
  <2>2. CASE MovesOne
    <3>1. PICK c \in Conns : /\ HandlerMoves(c) /\ conn'[c] \in Connection
                             /\ conn' = [conn EXCEPT ![c] = conn'[c]]
                             /\ \A d \in Conns \ {c} : conn'[d] = conn[d]
      BY <2>2, OneMoves
    <3>2. conn' \in [Conns -> Connection]
      BY <3>1 DEF TypeOK, Connection
    <3>3. QueueSize \in Nat \ {0}
      BY WatchFeedAssumption
    <3>4. conn[c].queue \in Seq(Ids) /\ (conn[c].queue # <<>> =>
            /\ Len(Tail(conn[c].queue)) = Len(conn[c].queue) - 1 /\ Len(conn[c].queue) \in Nat)
      BY ConnTypes, Numbers, TailInOrder
    <3>5. ASSUME ~SharedStore
          PROVE  Len(conn'[c].queue) <= QueueSize
      <4>1. Len(conn[c].queue) <= QueueSize
        BY <3>5 DEF TypeOK
      <4>2. CASE Forwards(c)
        BY <3>3, <3>4, <4>1, <4>2 DEF Forwards
      <4>3. CASE conn'[c].queue = <<>>
        BY <3>3, <4>3
      <4> QED
        BY <3>1, <4>2, <4>3 DEF HandlerMoves
    <3> QED
      BY <2>2, <3>1, <3>2, <3>5 DEF MovesOne, SharedStore, TypeOK
  <2>3. CASE LeavesHandlers
    BY <2>3 DEF LeavesHandlers, SharedStore, TypeOK, Connection
  <2> QED
    BY <2>1, <2>2, <2>3, Steps
<1> QED
  BY <1>1, <1>2 DEF TypeOK, Connection

LEMMA AtMostGrows ==
  ASSUME NEW q \in Seq(Ids), Ids \subseteq Nat, NEW m \in Nat, NEW n \in Nat, m <= n, AtMost(q, m)
  PROVE  AtMost(q, n)
<1>1. \A i \in 1..Len(q) : q[i] \in Nat
  BY QueuedNumbers
<1> QED
  BY <1>1 DEF AtMost

LEMMA EmptyQueue == /\ Ordered(<<>>)
                    /\ \A n : AtLeast(<<>>, n) /\ AtMost(<<>>, n)
  BY DEF Ordered, AtLeast, AtMost

(* The one handler that moves, and the others.                             *)
LEMMA LatestStep ==
  ASSUME TypeOK, TypeOK', StoreIsLatest, QueuesAreOrdered, [Next]_vars
  PROVE  StoreIsLatest'
<1>0. /\ Len(kind) \in Nat /\ Len(kind') \in Nat /\ Len(kind) \in Ids /\ Ids \subseteq Nat
      /\ live \in Nat /\ newest \in Nat
  <2>1. Len(kind') \in Nat
    BY DEF TypeOK
  <2> QED
    BY <2>1, Numbers
<1>1. pending' \in {0, Len(kind')} /\ live' \in {0, Len(kind')} /\ newest' <= Len(kind')
  <2>1. ASSUME NEW k \in Kinds, Report(k)
        PROVE  <1>1!:
    <3>1. Len(kind') = Len(kind) + 1
      BY <2>1 DEF Report, TypeOK
    <3> QED
      BY <1>0, <2>1, <3>1 DEF Report, StoreIsLatest
  <2>2. CASE \/ Publish \/ PublishFails \/ ExpireLive \/ LinkBreaks \/ Dispose \/ Open
             \/ ReadDetail \/ ShowDetail \/ DetailFails \/ UNCHANGED vars
    BY <1>0, <2>2 DEF Publish, PublishFails, ExpireLive, LinkBreaks, Dispose, Open, ReadDetail,
                      ShowDetail, DetailFails, vars, StoreIsLatest
  <2>3. ASSUME NEW c \in Conns, HandlerStep(c) \/ HandlerFails(c) \/ Connect(c)
        PROVE  <1>1!:
    BY <2>3 DEF HandlerStep, ReadSnapshot, SendSnapshot, Subscribe, Forward, Disconnected,
                HandlerFails, Connect, StoreIsLatest
  <2> QED
    BY <2>1, <2>2, <2>3 DEF Next
<1>2. ASSUME NEW c \in Conns
      PROVE  /\ conn'[c].snap <= Len(kind') /\ conn'[c].last <= Len(kind')
             /\ AtMost(conn'[c].queue, Len(kind'))
  <2>0. /\ conn[c].queue \in Seq(Ids) /\ {conn[c].snap, conn[c].last} \subseteq Nat
        /\ conn[c].snap <= Len(kind) /\ conn[c].last <= Len(kind)
        /\ AtMost(conn[c].queue, Len(kind))
    BY <1>0, ConnTypes DEF StoreIsLatest
  <2>1. Len(kind) <= Len(kind') => /\ conn[c].snap <= Len(kind') /\ conn[c].last <= Len(kind')
                                   /\ AtMost(conn[c].queue, Len(kind'))
    BY <1>0, <2>0, AtMostGrows
  <2>2. CASE Broadcasts
    <3>1. newest' \in Ids /\ Len(kind) <= Len(kind') /\ newest' = Len(kind')
      BY <2>2 DEF Broadcasts, TypeOK
    <3>2. AtMost(Enqueued(conn[c].queue, newest'), newest')
      BY <1>0, <2>0, <2>1, <3>1, EnqueuedInOrder
    <3> QED
      BY <2>1, <2>2, <3>1, <3>2, DeliveredShape DEF Broadcasts
  <2>3. CASE MovesOne
    <3>0. UNCHANGED kind
      BY <2>3 DEF MovesOne
    <3>1. CASE conn'[c] = conn[c]
      BY <2>0, <3>0, <3>1
    <3>2. CASE Forwards(c)
      <4>1. Head(conn[c].queue) <= Len(kind)
        BY <1>0, <2>0, <3>2, TailInOrder DEF Forwards, AtMost
      <4>2. AtMost(Tail(conn[c].queue), Len(kind))
        BY <1>0, <2>0, <3>2, TailInOrder DEF Forwards
      <4> QED
        BY <2>0, <3>0, <3>2, <4>1, <4>2 DEF Forwards
    <3>3. CASE conn'[c].queue = <<>> /\ (SendsSnap(c) \/ TakesSnap(c) \/ SendsNothing(c) \/ Closes(c))
      <4>1. live <= Len(kind)
        BY <1>0 DEF StoreIsLatest
      <4>2. conn'[c].snap <= Len(kind) /\ conn'[c].last <= Len(kind)
        BY <1>0, <2>0, <3>3, <4>1 DEF SendsSnap, TakesSnap, SendsNothing, Closes
      <4> QED
        BY <3>0, <3>3, <4>2, EmptyQueue
    <3> QED
      BY <2>3, <3>1, <3>2, <3>3, OneMoves DEF HandlerMoves
  <2>4. CASE LeavesHandlers
    BY <2>1, <2>4 DEF LeavesHandlers
  <2> QED
    BY <2>2, <2>3, <2>4, Steps
<1> QED
  BY <1>1, <1>2 DEF StoreIsLatest

LEMMA OrderedStep ==
  ASSUME TypeOK, TypeOK', StoreIsLatest, QueuesAreOrdered, [Next]_vars
  PROVE  QueuesAreOrdered'
<1>. SUFFICES ASSUME NEW c \in Conns
              PROVE  /\ conn'[c].pc # "stream" => conn'[c].queue = <<>>
                     /\ Ordered(conn'[c].queue)
  BY DEF QueuesAreOrdered
<1>0. /\ conn[c].queue \in Seq(Ids) /\ Ids \subseteq Nat /\ Len(kind) \in Nat
      /\ conn[c].pc # "stream" => conn[c].queue = <<>>
      /\ Ordered(conn[c].queue) /\ AtMost(conn[c].queue, Len(kind))
  BY ConnTypes, Numbers DEF QueuesAreOrdered, StoreIsLatest
<1>1. CASE Broadcasts
  <2>1. newest' \in Ids /\ Len(kind) <= newest'
    BY <1>1 DEF Broadcasts, TypeOK
  <2>2. Ordered(Enqueued(conn[c].queue, newest'))
    BY <1>0, <2>1, AtMostGrows, EnqueuedInOrder
  <2> QED
    BY <1>0, <1>1, <2>1, <2>2, DeliveredShape DEF Broadcasts
<1>2. CASE MovesOne
  <2>1. CASE Forwards(c)
    BY <1>0, <2>1, TailInOrder DEF Forwards
  <2> QED
    BY <1>0, <1>2, <2>1, OneMoves, EmptyQueue DEF HandlerMoves
<1>3. CASE LeavesHandlers
  BY <1>0, <1>3 DEF LeavesHandlers
<1> QED
  BY <1>1, <1>2, <1>3, Steps

(* The newest message is put at the end of every queue, and leaves it only *)
(* by being sent.                                                          *)
LEMMA HeldStep ==
  ASSUME TypeOK, TypeOK', StoreIsLatest, QueuesAreOrdered, NewestIsNeverDropped, [Next]_vars
  PROVE  NewestIsNeverDropped'
<1>. SUFFICES ASSUME NEW c \in Conns, conn'[c].pc = "stream", newest' > conn'[c].from
              PROVE  IF conn'[c].queue = <<>> THEN conn'[c].last = newest'
                     ELSE conn'[c].queue[Len(conn'[c].queue)] = newest'
  BY DEF NewestIsNeverDropped, LastHeldBy
<1>0. /\ conn[c].queue \in Seq(Ids) /\ Ids \subseteq Nat
      /\ {newest, newest', conn[c].from} \subseteq Nat
  BY ConnTypes, Numbers DEF TypeOK
<1>1. CASE Broadcasts
  <2>1. newest' \in Ids
    BY DEF TypeOK
  <2>2. conn'[c] = Delivered(newest')[c]
    BY <1>1 DEF Broadcasts
  <2>3. conn'[c].queue = Enqueued(conn[c].queue, newest')
    BY <2>1, <2>2, DeliveredShape
  <2>. DEFINE e == Enqueued(conn[c].queue, newest')
  <2>4. e # <<>> /\ e[Len(e)] = newest'
    BY <1>0, <2>1, EnqueuedShape
  <2>. HIDE DEF e
  <2> QED
    BY <2>3, <2>4 DEF e
<1>2. CASE conn'[c] = conn[c] /\ newest' = newest
  BY <1>2 DEF NewestIsNeverDropped, LastHeldBy
<1>3. CASE MovesOne
  <2>1. newest' = newest
    BY <1>3 DEF MovesOne
  <2>2. CASE Forwards(c)
    <3>1. conn[c].queue[Len(conn[c].queue)] = newest
      BY <2>1, <2>2 DEF Forwards, NewestIsNeverDropped, LastHeldBy
    <3> QED
      BY <1>0, <2>1, <2>2, <3>1, TailInOrder DEF Forwards
  <2>3. CASE conn'[c].queue = <<>> /\ (SendsSnap(c) \/ TakesSnap(c) \/ SendsNothing(c) \/ Closes(c))
    BY <1>0, <2>1, <2>3 DEF SendsSnap, TakesSnap, SendsNothing, Closes
  <2> QED
    BY <1>2, <1>3, <2>1, <2>2, <2>3, OneMoves DEF HandlerMoves
<1>4. CASE LeavesHandlers
  BY <1>2, <1>4 DEF LeavesHandlers
<1> QED
  BY <1>1, <1>3, <1>4, Steps

(* A message is made after everything that was sent before it, a snapshot  *)
(* is the last one made, and what the link sends comes off its own queue.  *)
LEMMA AheadStep ==
  ASSUME TypeOK, TypeOK', StoreIsLatest, QueuesAreOrdered, LinkIsAhead, [Next]_vars
  PROVE  LinkIsAhead'
<1>. SUFFICES ASSUME NEW c \in Conns, NEW d \in Conns, link' = c
              PROVE  /\ AtLeast(conn'[c].queue, conn'[d].last)
                     /\ conn'[c].pc = "send" => conn'[d].last <= conn'[c].snap
  BY DEF LinkIsAhead
<1>0. /\ conn[c].queue \in Seq(Ids) /\ Ids \subseteq Nat /\ Len(kind) \in Nat
      /\ conn[d].last \in Ids /\ conn[d].last \in Nat /\ conn[d].last <= Len(kind)
      /\ conn[c].pc # "stream" => conn[c].queue = <<>>
      /\ Ordered(conn[c].queue) /\ AtMost(conn[c].queue, Len(kind))
      /\ live \in {0, Len(kind)}
      /\ None \notin Conns
  <2>1. conn[d].last \in Ids /\ Ids \subseteq Nat
    BY ConnTypes, Numbers
  <2> QED
    BY <2>1, ConnTypes, Numbers, WatchFeedAssumption DEF QueuesAreOrdered, StoreIsLatest
<1>1. CASE Broadcasts
  <2>1. newest' \in Ids /\ Len(kind) <= newest' /\ link = c
    BY <1>1 DEF Broadcasts, TypeOK
  <2>2. /\ AtLeast(conn[c].queue, conn[d].last)
        /\ conn[c].pc = "send" => conn[d].last <= conn[c].snap
    BY <2>1 DEF LinkIsAhead
  <2>3. AtMost(conn[c].queue, newest') /\ conn[d].last <= newest'
    BY <1>0, <2>1, AtMostGrows
  <2>4. AtLeast(Enqueued(conn[c].queue, newest'), conn[d].last)
    BY <1>0, <2>1, <2>2, <2>3, EnqueuedInOrder
  <2>5. conn'[c] = Delivered(newest')[c] /\ conn'[d] = Delivered(newest')[d]
    BY <1>1 DEF Broadcasts
  <2> QED
    BY <2>1, <2>2, <2>4, <2>5, DeliveredShape
<1>2. CASE MovesOne
  <2>1. PICK x \in Conns : HandlerMoves(x) /\ \A y \in Conns \ {x} : conn'[y] = conn[y]
    BY <1>2, OneMoves
  <2>2. CASE Forwards(x)
    <3>1. link = x /\ x = c
      BY <2>2 DEF Forwards
    <3>2. conn[c].queue # <<>> /\ AtLeast(conn[c].queue, conn[d].last)
      BY <2>2, <3>1 DEF Forwards, LinkIsAhead
    <3>3. /\ AtLeast(Tail(conn[c].queue), Head(conn[c].queue))
          /\ AtLeast(Tail(conn[c].queue), conn[d].last)
      BY <1>0, <3>2, TailInOrder
    <3> QED
      BY <2>1, <2>2, <3>1, <3>3 DEF Forwards
  <2>3. CASE x = c /\ conn'[x].queue = <<>>
    <3>1. AtLeast(conn'[c].queue, conn'[d].last)
      BY <2>3, EmptyQueue
    <3>2. CASE conn'[c].pc = "send"
      <4>1. TakesSnap(c)
        BY <2>1, <2>3, <3>2 DEF HandlerMoves, Forwards, SendsSnap, SendsNothing, Closes
      <4>2. conn'[d].last = conn[d].last
        BY <2>1, <2>3, <4>1 DEF TakesSnap
      <4> QED
        BY <1>0, <3>1, <4>1, <4>2 DEF TakesSnap
    <3> QED
      BY <3>1, <3>2
  <2>4. CASE x # c /\ conn'[x].queue = <<>>
    <3>1. ~SendsSnap(x)
      BY <2>4 DEF SendsSnap
    <3>2. link = c
      BY <1>0, <2>1, <2>4, <3>1 DEF HandlerMoves, Forwards, TakesSnap, SendsNothing, Closes
    <3>3. /\ AtLeast(conn[c].queue, conn[d].last)
          /\ conn[c].pc = "send" => conn[d].last <= conn[c].snap
      BY <3>2 DEF LinkIsAhead
    <3>4. conn'[c] = conn[c] /\ (d # x => conn'[d] = conn[d])
      BY <2>1, <2>4
    <3>5. CASE conn'[d].last = conn[d].last
      BY <3>3, <3>4, <3>5
    <3>6. CASE d = x /\ conn'[d].last = 0
      <4>1. AtLeast(conn[c].queue, 0)
        BY <1>0, QueuedNumbers DEF AtLeast
      <4>2. conn[c].snap \in Nat
        BY <1>0, ConnTypes
      <4> QED
        BY <3>4, <3>6, <4>1, <4>2
    <3> QED
      BY <2>1, <2>2, <3>1, <3>4, <3>5, <3>6 DEF HandlerMoves, Forwards, TakesSnap, SendsNothing, Closes
  <2> QED
    BY <2>1, <2>2, <2>3, <2>4 DEF HandlerMoves
<1>3. CASE LeavesHandlers
  <2>1. link = c
    BY <1>0, <1>3 DEF LeavesHandlers
  <2> QED
    BY <1>3, <2>1 DEF LeavesHandlers, LinkIsAhead
<1> QED
  BY <1>1, <1>2, <1>3, Steps

-----------------------------------------------------------------------------
(* THEOREMS                                                                *)
LEMMA FeedInit == Init => FeedInv
<1>. SUFFICES ASSUME Init
              PROVE  FeedInv
  OBVIOUS
<1>1. 0 \in Ids /\ QueueSize \in Nat
  BY WatchFeedAssumption DEF Ids
<1>2. TypeOK
  BY <1>1, ClosedShape, WatchFeedAssumption DEF Init, TypeOK, Connection, Kinds
<1>3. \A c \in Conns : /\ conn[c].pc = "closed" /\ conn[c].queue = <<>>
                       /\ conn[c].snap = 0 /\ conn[c].last = 0
  BY <1>1, ClosedShape DEF Init
<1>4. kind = <<>> /\ pending = 0 /\ live = 0 /\ newest = 0 /\ link \notin Conns
  BY WatchFeedAssumption DEF Init
<1> QED
  BY <1>2, <1>3, <1>4, EmptyQueue
     DEF FeedInv, NewestIsNeverDropped, StoreIsLatest, QueuesAreOrdered, LinkIsAhead

LEMMA FeedStep == FeedInv /\ [Next]_vars => FeedInv'
<1>. SUFFICES ASSUME FeedInv, [Next]_vars
              PROVE  FeedInv'
  OBVIOUS
<1>1. /\ TypeOK /\ NewestIsNeverDropped /\ StoreIsLatest /\ QueuesAreOrdered /\ LinkIsAhead
  BY DEF FeedInv, NewestIsNeverDropped
<1>2. TypeOK'
  BY <1>1, TypeStep
<1> QED
  BY <1>1, <1>2, HeldStep, LatestStep, OrderedStep, AheadStep DEF FeedInv

LEMMA FeedInvariance == Spec => []FeedInv
  BY FeedInit, FeedStep, PTL DEF Spec

(* A full queue loses old positions only: what was broadcast last since a  *)
(* handler subscribed is still in its queue or was the last it sent, and   *)
(* no queue of the in-memory broker outgrows its size.                     *)
THEOREM NewestIsKept == Spec => []NewestIsNeverDropped
<1>1. FeedInv => NewestIsNeverDropped
  BY DEF FeedInv
<1> QED
  BY <1>1, FeedInvariance, PTL

(* Of two messages sent over the phone's connections, the later one is     *)
(* never the older one.                                                    *)
THEOREM FeedGoesForward == Spec => FeedNeverGoesBack
<1>1. ASSUME FeedInv, [Next]_vars, NEW c \in Conns, NEW d \in Conns,
             conn'[c].last # conn[c].last, conn'[c].last # 0
      PROVE  conn[d].last <= conn'[c].last
  <2>0. /\ TypeOK /\ StoreIsLatest /\ QueuesAreOrdered /\ LinkIsAhead
    BY <1>1 DEF FeedInv, NewestIsNeverDropped
  <2>1. CASE Broadcasts
    <3>1. FeedInv'
      BY <1>1, FeedStep
    <3>2. newest' \in Ids /\ conn'[c] = Delivered(newest')[c]
      BY <2>1, <3>1 DEF Broadcasts, FeedInv, NewestIsNeverDropped, TypeOK
    <3> QED
      BY <1>1, <2>0, <3>2, DeliveredShape
  <2>2. CASE MovesOne
    <3>1. PICK x \in Conns : HandlerMoves(x) /\ \A y \in Conns \ {x} : conn'[y] = conn[y]
      BY <2>0, <2>2, OneMoves
    <3>2. x = c
      BY <1>1, <3>1
    <3>3. CASE Forwards(c)
      <4>1. AtLeast(conn[c].queue, conn[d].last) /\ conn[c].queue # <<>>
        BY <2>0, <3>3 DEF Forwards, LinkIsAhead
      <4>2. Head(conn[c].queue) = conn[c].queue[1] /\ 1 \in 1..Len(conn[c].queue)
        BY <2>0, <4>1, ConnTypes, Numbers, TailInOrder
      <4> QED
        BY <3>3, <4>1, <4>2 DEF Forwards, AtLeast
    <3>4. CASE SendsSnap(c)
      BY <2>0, <3>4 DEF SendsSnap, LinkIsAhead
    <3> QED
      BY <1>1, <3>1, <3>2, <3>3, <3>4 DEF HandlerMoves, TakesSnap, SendsNothing, Closes
  <2>3. CASE LeavesHandlers
    BY <1>1, <2>3 DEF LeavesHandlers
  <2> QED
    BY <1>1, <2>0, <2>1, <2>2, <2>3, Steps
<1>2. FeedInv /\ [Next]_vars =>
        [\A c, d \in Conns :
           conn'[c].last # conn[c].last /\ conn'[c].last # 0 /\ conn[d].last # 0
             => conn[d].last <= conn'[c].last]_vars
  BY <1>1
<1> QED
  BY <1>2, FeedInvariance, PTL DEF Spec, FeedNeverGoesBack
=============================================================================
