------------------------------ MODULE WatchFeed ------------------------------
(***************************************************************************)
(* One bus, followed by one passenger: the broadcasts of the bus, the      *)
(* WebSocket handler (app/api/ws.py) and its subscription at the broker    *)
(* (app/core/pubsub.py), and the map screen of the passenger's phone with  *)
(* its feed client (bus_map_screen.dart, bus_ws_client.dart).              *)
(*                                                                         *)
(* A message is the number under which it was made, and kind says whether  *)
(* it is a fix or the end of a trip.  The driver waits for each answer, so *)
(* messages are made and broadcast in order (TripTracking: FeedInOrder).   *)
(* A handler of a lost connection lives on until it next tries to send.    *)
(***************************************************************************)
EXTENDS Naturals, Sequences

CONSTANTS
  Conns,        \* bound: WebSocket handlers the server keeps
  MaxMessages,  \* bound: messages the bus ever makes
  QueueSize,    \* asyncio.Queue(maxsize=100)
  Stores,       \* what get_store() may choose: "redis", "memory"
  MayFail,      \* connections may be lost, handlers and requests may fail
  None

ASSUME WatchFeedAssumption ==
  /\ MaxMessages \in Nat /\ QueueSize \in Nat \ {0}
  /\ Stores \subseteq {"redis", "memory"} /\ MayFail \in BOOLEAN
  /\ None \notin Conns

VARIABLES
  store,    \* what get_store() has chosen, and get_broker() with it
  kind,     \* kind[n]: what message n is
  pending,  \* the message that is in the store and not yet published, or 0
  newest,   \* the last message published, or 0
  live,     \* key "bus:{id}:pos": a message, or 0
  conn,     \* the WebSocket handlers
  link,     \* the connection of the phone, or None
  watching, \* the map screen is open
  screen,   \* BusDetail.live on the screen: a message, or 0
  detail    \* the one request of _loadDetail: where it is, what it read

vars == <<store, kind, pending, newest, live, conn, link, watching, screen, detail>>

SharedStore == store = "redis"

Closed == [pc |-> "closed", snap |-> 0, queue |-> <<>>, from |-> 0, last |-> 0]

Ids   == 0..MaxMessages
Kinds == {"fix", "ended"}
-----------------------------------------------------------------------------
(* Faulty variants, each a plausible slip; nothing in the model uses them. *)
Newer(q, m)        == <<m>> \o q                        \* a LifoQueue
DropNewest(q, m)   == IF Len(q) = QueueSize THEN q ELSE Append(q, m)
NeverDrops(q, m)   == Append(q, m)                      \* no maxsize
Reread(c)          == conn[c].queue                     \* peeks, never gets

(* MemoryBroker.publish drops the oldest message of a full queue; Redis    *)
(* keeps them all.                                                         *)
Enqueued(q, m) ==
  IF ~SharedStore /\ Len(q) = QueueSize THEN Append(Tail(q), m) ELSE Append(q, m)

Remaining(c) == Tail(conn[c].queue)

(* What every subscriber's queue becomes when m is published.              *)
Delivered(m) ==
  [c \in Conns |-> IF conn[c].pc = "stream"
                   THEN [conn[c] EXCEPT !.queue = Enqueued(@, m)] ELSE conn[c]]

Init ==
  /\ store \in Stores
  /\ kind = <<>> /\ pending = 0 /\ newest = 0 /\ live = 0
  /\ conn = [c \in Conns |-> Closed]
  /\ link = None /\ watching = TRUE
  /\ screen = 0
  /\ detail = [pc |-> "asked", live |-> 0]
-----------------------------------------------------------------------------
(* _publish_live and end_trip: set or delete the position, then publish.   *)
(* With Redis the task is suspended in between.                            *)
Report(k) ==
  /\ pending = 0
  /\ Len(kind) < MaxMessages
  /\ LET m == Len(kind) + 1 IN
       /\ kind' = Append(kind, k)
       /\ live' = IF k = "fix" THEN m ELSE 0
       /\ IF SharedStore
          THEN pending' = m /\ UNCHANGED <<newest, conn>>
          ELSE newest' = m /\ conn' = Delivered(m) /\ UNCHANGED pending
  /\ UNCHANGED <<store, link, watching, screen, detail>>

Publish ==
  /\ pending # 0
  /\ newest' = pending
  /\ conn' = Delivered(pending)
  /\ pending' = 0
  /\ UNCHANGED <<store, kind, live, link, watching, screen, detail>>

(* The task dies between the store and the broker.                         *)
PublishFails ==
  /\ MayFail
  /\ pending # 0
  /\ pending' = 0
  /\ UNCHANGED <<store, kind, newest, live, conn, link, watching, screen, detail>>

ExpireLive ==
  /\ live # 0
  /\ live' = 0
  /\ UNCHANGED <<store, kind, pending, newest, conn, link, watching, screen, detail>>
-----------------------------------------------------------------------------
(* ws_bus_stream: read the position, send it, subscribe, forward.  Nothing *)
(* suspends the handler between its send and the in-memory broker's queue. *)
Subscribed(c) ==
  [conn[c] EXCEPT !.pc = IF SharedStore THEN "subscribe" ELSE "stream", !.from = newest]

ReadSnapshot(c) ==
  /\ conn[c].pc = "read"
  /\ conn' = [conn EXCEPT ![c] =
       IF live = 0 THEN Subscribed(c) ELSE [@ EXCEPT !.pc = "send", !.snap = live]]
  /\ UNCHANGED <<store, kind, pending, newest, live, link, watching, screen, detail>>

SendSnapshot(c) ==
  /\ conn[c].pc = "send" /\ link = c
  /\ screen' = conn[c].snap
  /\ conn' = [conn EXCEPT ![c] = [Subscribed(c) EXCEPT !.last = conn[c].snap]]
  /\ UNCHANGED <<store, kind, pending, newest, live, link, watching, detail>>

Subscribe(c) ==
  /\ conn[c].pc = "subscribe"
  /\ conn' = [conn EXCEPT ![c].pc = "stream", ![c].from = newest]
  /\ UNCHANGED <<store, kind, pending, newest, live, link, watching, screen, detail>>

(* send_text, and _onLive on the phone.                                    *)
Forward(c) ==
  /\ conn[c].pc = "stream" /\ conn[c].queue # <<>> /\ link = c
  /\ screen' = Head(conn[c].queue)
  /\ conn' = [conn EXCEPT ![c].queue = Remaining(c), ![c].last = Head(conn[c].queue)]
  /\ UNCHANGED <<store, kind, pending, newest, live, link, watching, detail>>

(* send_text raises WebSocketDisconnect: the queue is discarded.           *)
MustSend(c) ==
  \/ conn[c].pc = "send"
  \/ conn[c].pc = "stream" /\ conn[c].queue # <<>>

SendRaises(c) == link # c /\ MustSend(c)

Disconnected(c) ==
  /\ SendRaises(c)
  /\ conn' = [conn EXCEPT ![c] = Closed]
  /\ UNCHANGED <<store, kind, pending, newest, live, link, watching, screen, detail>>

(* Any other exception of the handler: the phone sees the stream close.    *)
HandlerFails(c) ==
  /\ MayFail
  /\ conn[c].pc # "closed"
  /\ conn' = [conn EXCEPT ![c] = Closed]
  /\ link' = IF link = c THEN None ELSE link
  /\ UNCHANGED <<store, kind, pending, newest, live, watching, screen, detail>>
-----------------------------------------------------------------------------
(* _connect, on opening the screen and four seconds after every close.     *)
Connect(c) ==
  /\ watching /\ link = None
  /\ conn[c].pc = "closed"
  /\ link' = c
  /\ conn' = [conn EXCEPT ![c].pc = "read"]
  /\ UNCHANGED <<store, kind, pending, newest, live, watching, screen, detail>>

(* The phone loses the connection; the server does not notice.             *)
LinkBreaks ==
  /\ MayFail
  /\ link # None
  /\ link' = None
  /\ UNCHANGED <<store, kind, pending, newest, live, conn, watching, screen, detail>>

Dispose ==
  /\ watching
  /\ watching' = FALSE /\ link' = None
  /\ screen' = 0 /\ detail' = [pc |-> "done", live |-> 0]
  /\ UNCHANGED <<store, kind, pending, newest, live, conn>>

(* The screen is opened from a search result, which may be of any age.     *)
Fixes == {m \in 1..Len(kind) : kind[m] = "fix"}

Open ==
  /\ ~watching
  /\ watching' = TRUE
  /\ screen' \in {0} \cup Fixes
  /\ detail' = [pc |-> "asked", live |-> 0]
  /\ UNCHANGED <<store, kind, pending, newest, live, conn, link>>

(* _loadDetail: the server reads the position, and when its answer arrives *)
(* the screen takes the whole of it, live position included.               *)
ReadDetail ==
  /\ detail.pc = "asked"
  /\ detail' = [pc |-> "answered", live |-> live]
  /\ UNCHANGED <<store, kind, pending, newest, live, conn, link, watching, screen>>

ShowDetail ==
  /\ detail.pc = "answered"
  /\ detail' = [pc |-> "done", live |-> 0]
  /\ screen' = detail.live
  /\ UNCHANGED <<store, kind, pending, newest, live, conn, link, watching>>

DetailFails ==
  /\ MayFail
  /\ detail.pc \in {"asked", "answered"}
  /\ detail' = [pc |-> "done", live |-> 0]
  /\ UNCHANGED <<store, kind, pending, newest, live, conn, link, watching, screen>>
-----------------------------------------------------------------------------
HandlerStep(c) ==
  ReadSnapshot(c) \/ SendSnapshot(c) \/ Subscribe(c) \/ Forward(c) \/ Disconnected(c)

Next ==
  \/ \E k \in Kinds : Report(k)
  \/ Publish \/ PublishFails \/ ExpireLive
  \/ \E c \in Conns : HandlerStep(c) \/ HandlerFails(c) \/ Connect(c)
  \/ LinkBreaks \/ Dispose \/ Open
  \/ ReadDetail \/ ShowDetail \/ DetailFails

(* The event loop runs every handler that can move, keys expire and the    *)
(* reconnection timer fires.  Nothing obliges the bus to report.           *)
Fairness ==
  /\ WF_vars(Publish) /\ WF_vars(ExpireLive)
  /\ \A c \in Conns : WF_vars(HandlerStep(c))
  /\ WF_vars(\E c \in Conns : Connect(c))
  /\ WF_vars(ReadDetail \/ ShowDetail)

Spec     == Init /\ [][Next]_vars
FairSpec == Spec /\ Fairness
-----------------------------------------------------------------------------
(* Types; no subscriber of the in-memory broker holds more than QueueSize. *)
TypeOK ==
  /\ store \in Stores
  /\ kind \in Seq(Kinds) /\ Len(kind) <= MaxMessages
  /\ {pending, newest, live, screen} \subseteq Ids
  /\ conn \in [Conns -> [pc : {"closed", "read", "send", "subscribe", "stream"},
                         snap : Ids, queue : Seq(Ids), from : Ids, last : Ids]]
  /\ link \in Conns \cup {None} /\ watching \in BOOLEAN
  /\ detail \in [pc : {"asked", "answered", "done"}, live : Ids]
  /\ ~SharedStore => \A c \in Conns : Len(conn[c].queue) <= QueueSize

(* The queues are bounded (TypeOK), but dropping the oldest message of a   *)
(* full one costs the passenger old positions only: whatever was broadcast *)
(* last since the subscription is still in it or was the last thing sent.  *)
LastHeldBy(c) == IF conn[c].queue = <<>> THEN conn[c].last
                 ELSE conn[c].queue[Len(conn[c].queue)]

NewestIsNeverDropped ==
  /\ TypeOK
  /\ \A c \in Conns :
       conn[c].pc = "stream" /\ newest > conn[c].from => LastHeldBy(c) = newest

(* Neither drops, nor reconnections, nor a snapshot of a fix that is only  *)
(* published later make the feed step back: of two messages sent over the  *)
(* phone's connections, the later one is never the older one.              *)
FeedNeverGoesBack ==
  [][\A c, d \in Conns :
       conn'[c].last # conn[c].last /\ conn'[c].last # 0 /\ conn[d].last # 0
         => conn[d].last <= conn'[c].last]_vars

(* LIVENESS.  What is in the queue of a connection that stays up reaches   *)
(* the phone, or is overtaken by something newer.                          *)
Holds(c, m) == \E i \in 1..Len(conn[c].queue) : conn[c].queue[i] = m

QueuedIsSent ==
  \A c \in Conns : \A m \in 1..MaxMessages :
    Holds(c, m) ~> (conn[c].last >= m \/ link # c)
-----------------------------------------------------------------------------
(* WHAT THE CODE SAYS OF ITSELF, and does not do.                          *)

(* "Broadcast a terminal message so watchers switch to 'trip ended'": once *)
(* the bus has ended its last trip, an open screen stops saying "Live now".*)
LiveNow == screen # 0 /\ kind[screen] = "fix"

TripIsOver == newest # 0 /\ newest = Len(kind) /\ kind[newest] = "ended"

WatcherLearnsEnd == <>[](TripIsOver /\ watching) => <>[]~LiveNow
=============================================================================
