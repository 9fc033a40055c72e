----------------------------- MODULE AlertWorker -----------------------------
(***************************************************************************)
(* The background worker that turns alert subscriptions into push          *)
(* notifications (app/services/alert_worker.py), the push sender it uses   *)
(* (app/services/push_service.py) and one bus whose live position moves    *)
(* under it.                                                               *)
(*                                                                         *)
(* One tick loads the subscriptions, takes them one by one, awaiting the   *)
(* store, the database and the sender, and commits all its marks at the    *)
(* end.  Distances are abstracted: Near[s] are the places within           *)
(* distance_m of the stop of subscription s.  away, told and heard belong  *)
(* to no part of the program: they record what the passenger has received. *)
(***************************************************************************)
EXTENDS Naturals

CONSTANTS
  Subs,         \* rows of alert_subscriptions that have an fcm_token
  Places,       \* where the bus can be
  Near,         \* Near[s]: the places within the radius of s
  Locatable,    \* subscriptions whose stop has coordinates
  MayMisread,   \* positions may be stale or anomalous
  MaxFailures   \* bound: ticks that fail, pushes that are refused or unconfirmed

ASSUME AlertAssumption ==
  /\ Near \in [Subs -> SUBSET Places]
  /\ Locatable \subseteq Subs
  /\ MayMisread \in BOOLEAN
  /\ MaxFailures \in Nat

VARIABLES
  live,       \* the position in the store, or NoLive
  subscribed, \* the subscriptions that exist
  triggered,  \* column triggered
  tick,       \* the tick in progress
  failures,   \* ticks and pushes that have failed
  away,       \* the bus was last seen outside the radius
  told,       \* pushes received since the bus entered the radius
  heard       \* a push was received since the subscription was last armed

vars == <<live, subscribed, triggered, tick, failures, away, told, heard>>

NoLive    == [at |-> "nowhere"]
Positions == [at : Places, stale : BOOLEAN, anomalous : BOOLEAN]
Reported  == IF MayMisread THEN Positions
             ELSE [at : Places, stale : {FALSE}, anomalous : {FALSE}]

(* tick.todo: subscriptions still to be looked at; tick.mark: the flag     *)
(* triggered as the session of the tick has it; tick.cache: live_cache.    *)
Asleep == [pc |-> "asleep", todo |-> {}, mark |-> [s \in Subs |-> FALSE],
           cache |-> NoLive, sub |-> {}]

Inside(p, s)  == p # NoLive /\ p.at \in Near[s]
Outside(p, s) == p # NoLive /\ p.at \notin Near[s]

-----------------------------------------------------------------------------
(* Faulty variants, each a plausible slip; nothing in the model uses them. *)
AlwaysDue(s)        == Inside(tick.cache, s)            \* triggered unchecked
NeverRearmed(s)     == FALSE
MarkedBeforeSend(s) == [tick EXCEPT !.pc = "send", !.todo = @ \ {s}, !.sub = {s},
                                    !.mark[s] = TRUE]
EmptyScan           == {}
-----------------------------------------------------------------------------
(* within and not triggered; not within and triggered.                     *)
Due(s)     == Inside(tick.cache, s) /\ ~tick.mark[s]
Rearmed(s) == Outside(tick.cache, s) /\ tick.mark[s]

Marked(s)  == [tick.mark EXCEPT ![s] = TRUE]
Sending(s) == [tick EXCEPT !.pc = "send", !.todo = @ \ {s}, !.sub = {s}]
Scanned    == subscribed

Init ==
  /\ live = NoLive
  /\ subscribed = {}
  /\ triggered = [s \in Subs |-> FALSE]
  /\ tick = Asleep
  /\ failures = 0
  /\ away = [s \in Subs |-> TRUE]
  /\ told = [s \in Subs |-> 0]
  /\ heard = [s \in Subs |-> FALSE]
-----------------------------------------------------------------------------
(* A fix arrives, or the position expires or is deleted.  An approach      *)
(* begins when a bus last seen outside the radius is seen inside.          *)
Moves(p) ==
  /\ live' = p
  /\ away' = [s \in Subs |-> Outside(p, s) \/ (away[s] /\ ~Inside(p, s))]
  /\ told' = [s \in Subs |-> IF away[s] /\ Inside(p, s) THEN 0 ELSE told[s]]
  /\ UNCHANGED <<subscribed, triggered, tick, failures, heard>>

(* POST /alerts                                                            *)
Subscribe(s) ==
  /\ s \notin subscribed
  /\ subscribed' = subscribed \cup {s}
  /\ UNCHANGED <<live, triggered, tick, failures, away, told, heard>>
-----------------------------------------------------------------------------
(* alert_worker_tick                                                       *)
Wake ==
  /\ tick.pc = "asleep"
  /\ tick' = [Asleep EXCEPT !.pc = "scan", !.todo = Scanned, !.mark = triggered]
  /\ UNCHANGED <<live, subscribed, triggered, failures, away, told, heard>>

(* The first subscription reads the position of the bus; live_cache keeps  *)
(* it for the others.  Without a position the subscription is skipped.     *)
LookUp(s) ==
  /\ tick.pc = "scan" /\ s \in tick.todo
  /\ tick.cache = NoLive
  /\ tick' = IF live = NoLive THEN [tick EXCEPT !.todo = @ \ {s}]
             ELSE [tick EXCEPT !.cache = live]
  /\ UNCHANGED <<live, subscribed, triggered, failures, away, told, heard>>

Judging(s) == tick.pc = "scan" /\ s \in tick.todo /\ tick.cache # NoLive

Usable(s) == ~tick.cache.stale /\ s \in Locatable

BeginSend(s) ==
  /\ Judging(s) /\ Usable(s) /\ Due(s)
  /\ tick' = Sending(s)
  /\ UNCHANGED <<live, subscribed, triggered, failures, away, told, heard>>

Rearm(s) ==
  /\ Judging(s) /\ Usable(s) /\ Rearmed(s)
  /\ tick' = [tick EXCEPT !.todo = @ \ {s}, !.mark[s] = FALSE]
  /\ UNCHANGED <<live, subscribed, triggered, failures, away, told, heard>>

Skip(s) ==
  /\ Judging(s)
  /\ ~(Usable(s) /\ (Due(s) \/ Rearmed(s)))
  /\ tick' = [tick EXCEPT !.todo = @ \ {s}]
  /\ UNCHANGED <<live, subscribed, triggered, failures, away, told, heard>>

(* sender.send returns True.                                               *)
Sent ==
  /\ tick.pc = "send"
  /\ \E s \in tick.sub :
       /\ tick' = [tick EXCEPT !.pc = "scan", !.mark = Marked(s), !.sub = {}]
       /\ told' = [told EXCEPT ![s] = @ + 1]
       /\ heard' = [heard EXCEPT ![s] = TRUE]
  /\ UNCHANGED <<live, subscribed, triggered, failures, away>>

(* FcmPushSender swallows every exception and returns False: the push may  *)
(* have been delivered all the same.                                       *)
SendReturnsFalse ==
  /\ tick.pc = "send"
  /\ failures < MaxFailures
  /\ failures' = failures + 1
  /\ tick' = [tick EXCEPT !.pc = "scan", !.sub = {}]
  /\ \/ UNCHANGED <<told, heard>>
     \/ \E s \in tick.sub :
          /\ told' = [told EXCEPT ![s] = @ + 1]
          /\ heard' = [heard EXCEPT ![s] = TRUE]
  /\ UNCHANGED <<live, subscribed, triggered, away>>

Commit ==
  /\ tick.pc = "scan" /\ tick.todo = {}
  /\ triggered' = tick.mark
  /\ heard' = [s \in Subs |-> heard[s] /\ tick.mark[s]]
  /\ tick' = Asleep
  /\ UNCHANGED <<live, subscribed, failures, away, told>>

(* An exception, a failed commit or a restart of the server: the session   *)
(* is rolled back, the pushes are not.  run_alert_worker goes on.          *)
TickFails ==
  /\ tick.pc # "asleep"
  /\ failures < MaxFailures
  /\ failures' = failures + 1
  /\ tick' = Asleep
  /\ UNCHANGED <<live, subscribed, triggered, away, told, heard>>
-----------------------------------------------------------------------------
WorkerStep ==
  \/ Wake \/ Sent \/ Commit
  \/ \E s \in Subs : LookUp(s) \/ BeginSend(s) \/ Rearm(s) \/ Skip(s)

Next ==
  \/ \E p \in Reported \cup {NoLive} : Moves(p)
  \/ \E s \in Subs : Subscribe(s)
  \/ WorkerStep
  \/ SendReturnsFalse \/ TickFails

Spec == Init /\ [][Next]_vars

(* The worker polls for ever; every await of a tick returns.               *)
FairSpec == Spec /\ WF_vars(WorkerStep)
-----------------------------------------------------------------------------
TypeOK ==
  /\ live \in Positions \cup {NoLive}
  /\ subscribed \subseteq Subs
  /\ triggered \in [Subs -> BOOLEAN]
  /\ tick \in [pc : {"asleep", "scan", "send"}, todo : SUBSET subscribed,
               mark : [Subs -> BOOLEAN], cache : Positions \cup {NoLive},
               sub : SUBSET subscribed]
  /\ failures \in 0..MaxFailures
  /\ told \in [Subs -> Nat]
  /\ {away, heard} \subseteq [Subs -> BOOLEAN]

(* However the bus moves while a tick is under way, an approach gives one  *)
(* push; each tick that fails before its commit and each push that is      *)
(* delivered without being confirmed adds at most one.                     *)
RepeatsNeedFailures == \A s \in Subs : told[s] <= 1 + failures

(* No subscription is marked triggered, and so kept quiet, without a push  *)
(* that reached its passenger since it was last armed.                     *)
TriggeredWasTold == \A s \in Subs : triggered[s] => heard[s]

(* LIVENESS.  When a bus stays within the radius, its subscription is      *)
(* triggered in the end, in spite of failures, and by a push that arrived. *)
Visible == live # NoLive /\ ~live.stale

StaysInside(s)  == s \in subscribed /\ Visible /\ Inside(live, s)
StaysOutside(s) == s \in subscribed /\ Visible /\ Outside(live, s)

NearBusIsReported ==
  \A s \in Locatable : <>[]StaysInside(s) => <>[](triggered[s] /\ heard[s])

(* LIVENESS.  Once the bus stays beyond the radius, the subscription is    *)
(* armed for the next approach.                                            *)
AwayBusRearms == \A s \in Locatable : <>[]StaysOutside(s) => <>[]~triggered[s]
=============================================================================
