------------------------ MODULE AlertWorker_proofs ------------------------
(***************************************************************************)
(* Proofs about AlertWorker, for any subscriptions, places and radii, any  *)
(* movement of the bus and any number of failures.                         *)
(***************************************************************************)
EXTENDS AlertWorker, TLAPS

(* What the ghost away says of the live position.                          *)
SideIsKnown == \A s \in Subs :
  /\ away[s] => ~Inside(live, s)
  /\ Outside(live, s) => away[s]

(* A push under way is for a subscription the tick has seen inside.        *)
SendsInside == \A s \in tick.sub : Inside(tick.cache, s)

(* The worker will not push for s before the bus begins a new approach.    *)
Silent(s) ==
  IF tick.pc = "asleep" THEN triggered[s] \/ away[s]
  ELSE /\ tick.mark[s] \/ (away[s] /\ ~Inside(tick.cache, s))
       /\ Outside(tick.cache, s) => away[s]
       /\ s \notin tick.sub

SilentWhenSpent == \A s \in Subs : told[s] = 1 + failures => Silent(s)

(* What a tick is about to commit is true of the passengers.               *)
MarkWasTold == tick.pc # "asleep" => \A s \in Subs : tick.mark[s] => heard[s]

(* The inductive invariant.  RepeatsNeedFailures says nothing of why the   *)
(* next push cannot come too early: SilentWhenSpent does, and a tick that  *)
(* works with an old position keeps it because of the other two.           *)
IInv ==
  /\ TypeOK
  /\ SideIsKnown /\ SendsInside
  /\ RepeatsNeedFailures /\ SilentWhenSpent
  /\ TriggeredWasTold /\ MarkWasTold

TickRows == [pc : {"asleep", "scan", "send"}, todo : SUBSET subscribed,
             mark : [Subs -> BOOLEAN], cache : Positions \cup {NoLive},
             sub : SUBSET subscribed]

LEMMA AsleepType == ASSUME TypeOK PROVE Asleep \in TickRows
  BY DEF TypeOK, Asleep, TickRows

LEMMA InitIInv == Init => IInv
<1>. SUFFICES ASSUME Init PROVE IInv
  OBVIOUS
<1>1. TypeOK
  BY AlertAssumption DEF Init, TypeOK, Asleep
<1>2. SideIsKnown /\ SendsInside
  BY DEF Init, SideIsKnown, SendsInside, Inside, Outside, Asleep
<1>3. RepeatsNeedFailures /\ SilentWhenSpent
  BY DEF Init, RepeatsNeedFailures, SilentWhenSpent, Silent, Asleep
<1>4. TriggeredWasTold /\ MarkWasTold
  BY DEF Init, TriggeredWasTold, MarkWasTold, Asleep
<1> QED
  BY <1>1, <1>2, <1>3, <1>4 DEF IInv
-----------------------------------------------------------------------------
(* A step leads from well-typed states to well-typed states.               *)
LEMMA TypeStep == ASSUME TypeOK, [Next]_vars PROVE TypeOK'
<1>. USE AlertAssumption
<1>a. tick \in TickRows
  BY DEF TypeOK, TickRows
<1>1. ASSUME NEW p \in Reported \cup {NoLive}, Moves(p) PROVE TypeOK'
  <2>1. p \in Positions \cup {NoLive}
    BY DEF Reported, Positions
  <2>3. told' \in [Subs -> Nat]
    BY <1>1 DEF Moves, TypeOK
  <2>4. away' \in [Subs -> BOOLEAN]
    BY <1>1 DEF Moves, TypeOK, Outside
  <2> QED
    BY <1>1, <2>1, <2>3, <2>4 DEF Moves, TypeOK
<1>2. ASSUME NEW s \in Subs, Subscribe(s) PROVE TypeOK'
  BY <1>2 DEF Subscribe, TypeOK
<1>3. CASE Wake
  <2>1. tick' \in TickRows
    BY <1>3, AsleepType DEF Wake, TypeOK, TickRows, Asleep, Scanned
  <2> QED
    BY <1>3, <2>1 DEF Wake, TypeOK, TickRows
<1>4. ASSUME NEW s \in Subs, LookUp(s) PROVE TypeOK'
  <2>1. tick' \in TickRows
    BY <1>4, <1>a DEF LookUp, TypeOK, TickRows
  <2> QED
    BY <1>4, <2>1 DEF LookUp, TypeOK, TickRows
<1>5. ASSUME NEW s \in Subs, BeginSend(s) PROVE TypeOK'
  <2>1. tick' \in TickRows
    BY <1>5, <1>a DEF BeginSend, Sending, Judging, TickRows
  <2> QED
    BY <1>5, <2>1 DEF BeginSend, TypeOK, TickRows
<1>6. ASSUME NEW s \in Subs, Rearm(s) PROVE TypeOK'
  <2>1. tick' \in TickRows
    BY <1>6, <1>a DEF Rearm, TickRows
  <2> QED
    BY <1>6, <2>1 DEF Rearm, TypeOK, TickRows
<1>7. ASSUME NEW s \in Subs, Skip(s) PROVE TypeOK'
  <2>1. tick' \in TickRows
    BY <1>7, <1>a DEF Skip, TickRows
  <2> QED
    BY <1>7, <2>1 DEF Skip, TypeOK, TickRows
<1>8. CASE Sent
  <2>0. PICK s \in tick.sub :
             /\ tick' = [tick EXCEPT !.pc = "scan", !.mark = Marked(s), !.sub = {}]
             /\ told' = [told EXCEPT ![s] = @ + 1]
             /\ heard' = [heard EXCEPT ![s] = TRUE]
    BY <1>8 DEF Sent
  <2>a. Marked(s) \in [Subs -> BOOLEAN]
    BY <1>a DEF Marked, TickRows
  <2>1. tick' \in TickRows
    BY <2>0, <2>a, <1>a DEF TickRows
  <2>2. told' \in [Subs -> Nat]
    BY <2>0 DEF TypeOK
  <2>3. heard' \in [Subs -> BOOLEAN]
    BY <2>0 DEF TypeOK
  <2> QED
    BY <1>8, <2>1, <2>2, <2>3 DEF Sent, TypeOK, TickRows
<1>9. CASE SendReturnsFalse
  <2>1. tick' \in TickRows
    BY <1>9, <1>a DEF SendReturnsFalse, TickRows
  <2>2. failures' \in 0..MaxFailures
    BY <1>9 DEF SendReturnsFalse, TypeOK
  <2>3. CASE UNCHANGED <<told, heard>>
    BY <1>9, <2>1, <2>2, <2>3 DEF SendReturnsFalse, TypeOK, TickRows
  <2>4. ASSUME NEW s \in tick.sub,
               told' = [told EXCEPT ![s] = @ + 1], heard' = [heard EXCEPT ![s] = TRUE]
        PROVE  TypeOK'
    <3>1. told' \in [Subs -> Nat]
      BY <2>4 DEF TypeOK
    <3>2. heard' \in [Subs -> BOOLEAN]
      BY <2>4 DEF TypeOK
    <3> QED
      BY <1>9, <2>1, <2>2, <3>1, <3>2 DEF SendReturnsFalse, TypeOK, TickRows
  <2> QED
    BY <1>9, <2>3, <2>4 DEF SendReturnsFalse
<1>10. CASE Commit
  <2>1. tick' \in TickRows
    BY <1>10, AsleepType DEF Commit, TickRows
  <2>2. tick.mark \in [Subs -> BOOLEAN]
    BY <1>a DEF TickRows
  <2>3. heard' \in [Subs -> BOOLEAN]
    BY <1>10, <2>2 DEF Commit, TypeOK
  <2> QED
    BY <1>10, <2>1, <2>2, <2>3 DEF Commit, TypeOK, TickRows
<1>11. CASE TickFails
  <2>1. tick' \in TickRows
    BY <1>11, AsleepType DEF TickFails, TickRows
  <2>2. failures' \in 0..MaxFailures
    BY <1>11 DEF TickFails, TypeOK
  <2> QED
    BY <1>11, <2>1, <2>2 DEF TickFails, TypeOK, TickRows
<1>12. CASE UNCHANGED vars
  BY <1>12 DEF vars, TypeOK
<1> QED
  BY <1>1, <1>2, <1>3, <1>4, <1>5, <1>6, <1>7, <1>8, <1>9, <1>10, <1>11, <1>12
  DEF Next, WorkerStep
-----------------------------------------------------------------------------
(* Only a fix, or its expiry, changes what the ghost away is about.        *)
LEMMA SideStep == ASSUME IInv, [Next]_vars PROVE SideIsKnown'
<1>1. ASSUME NEW p \in Reported \cup {NoLive}, Moves(p) PROVE SideIsKnown'
  BY <1>1 DEF Moves, Inside, Outside, SideIsKnown, IInv, TypeOK
<1>2. CASE UNCHANGED <<live, away>>
  BY <1>2 DEF Inside, Outside, SideIsKnown, IInv
<1>3. ASSUME NEW s \in Subs, Subscribe(s) \/ LookUp(s) \/ BeginSend(s) \/ Rearm(s) \/ Skip(s)
      PROVE  UNCHANGED <<live, away>>
  BY <1>3 DEF Subscribe, LookUp, BeginSend, Rearm, Skip
<1>4. CASE Wake \/ Sent \/ SendReturnsFalse \/ Commit \/ TickFails
  BY <1>4, <1>2 DEF Wake, Sent, SendReturnsFalse, Commit, TickFails
<1>5. CASE UNCHANGED vars
  BY <1>5, <1>2 DEF vars
<1> QED
  BY <1>1, <1>2, <1>3, <1>4, <1>5 DEF Next, WorkerStep

(* Pushes begin only for a subscription that is Due, and the cached        *)
(* position stays until the tick is over.                                  *)
LEMMA SendsStep == ASSUME IInv, [Next]_vars PROVE SendsInside'
<1>. USE DEF SendsInside, IInv
<1>a. tick \in TickRows
  BY DEF TypeOK, TickRows
<1>1. ASSUME NEW s \in Subs, LookUp(s) PROVE SendsInside'
  <2>1. tick.sub = {}
    BY <1>1 DEF LookUp, Inside
  <2> QED
    BY <1>1, <1>a, <2>1 DEF LookUp, TickRows
<1>2. ASSUME NEW s \in Subs, BeginSend(s) PROVE SendsInside'
  BY <1>2, <1>a DEF BeginSend, Sending, Due, Inside, TickRows
<1>3. ASSUME NEW s \in Subs, Rearm(s) \/ Skip(s) PROVE SendsInside'
  BY <1>3, <1>a DEF Rearm, Skip, Inside, TickRows
<1>4. CASE Sent \/ SendReturnsFalse
  BY <1>4, <1>a DEF Sent, SendReturnsFalse, TickRows
<1>5. CASE Wake \/ Commit \/ TickFails
  <2>1. Asleep.sub = {} /\ [Asleep EXCEPT !.pc = "scan", !.todo = Scanned, !.mark = triggered].sub = {}
    BY DEF Asleep
  <2>2. tick'.sub = {}
    BY <1>5, <2>1 DEF Wake, Commit, TickFails
  <2> QED
    BY <2>2
<1>6. CASE UNCHANGED tick
  BY <1>6 DEF Inside
<1> QED
  BY <1>1, <1>2, <1>3, <1>4, <1>5, <1>6 DEF Next, WorkerStep, Moves, Subscribe, vars
-----------------------------------------------------------------------------
(* A push adds one to told, and only where told was not yet spent; a       *)
(* failure allows one more.                                                *)
LEMMA SentIsAllowed ==
  ASSUME IInv, NEW s \in tick.sub, tick.pc = "send"
  PROVE  told[s] <= failures
<1>1. s \in Subs
  BY DEF IInv, TypeOK
<1>2. told[s] # 1 + failures
  BY <1>1 DEF IInv, SilentWhenSpent, Silent
<1>3. told[s] <= 1 + failures /\ told[s] \in Nat /\ failures \in Nat
  BY <1>1 DEF IInv, RepeatsNeedFailures, TypeOK
<1> QED
  BY <1>2, <1>3

LEMMA RepeatsStep == ASSUME IInv, [Next]_vars PROVE RepeatsNeedFailures'
<1>. SUFFICES ASSUME NEW r \in Subs PROVE told'[r] <= 1 + failures'
  BY DEF RepeatsNeedFailures
<1>a. told[r] \in Nat /\ failures \in Nat /\ told[r] <= 1 + failures /\ told \in [Subs -> Nat]
  BY DEF IInv, TypeOK, RepeatsNeedFailures
<1>1. ASSUME NEW p \in Reported \cup {NoLive}, Moves(p) PROVE told'[r] <= 1 + failures'
  BY <1>1, <1>a DEF Moves
<1>2. CASE Sent
  <2>1. PICK s \in tick.sub : told' = [told EXCEPT ![s] = @ + 1]
    BY <1>2 DEF Sent
  <2>2. told[s] <= failures
    BY <1>2, SentIsAllowed DEF Sent
  <2> QED
    BY <1>2, <1>a, <2>1, <2>2 DEF Sent
<1>3. CASE SendReturnsFalse
  <2>1. failures' = failures + 1
    BY <1>3 DEF SendReturnsFalse
  <2>2. told'[r] <= told[r] + 1
    BY <1>3, <1>a DEF SendReturnsFalse
  <2>3. told'[r] \in Nat
    BY <1>3, <1>a DEF SendReturnsFalse
  <2> QED
    BY <1>a, <2>1, <2>2, <2>3
<1>4. CASE TickFails
  BY <1>4, <1>a DEF TickFails
<1>5. CASE UNCHANGED <<told, failures>>
  BY <1>5, <1>a
<1>6. ASSUME NEW s \in Subs, Subscribe(s) \/ LookUp(s) \/ BeginSend(s) \/ Rearm(s) \/ Skip(s)
      PROVE  UNCHANGED <<told, failures>>
  BY <1>6 DEF Subscribe, LookUp, BeginSend, Rearm, Skip
<1>7. CASE Wake \/ Commit \/ UNCHANGED vars
  BY <1>7, <1>5 DEF Wake, Commit, vars
<1> QED
  BY <1>1, <1>2, <1>3, <1>4, <1>5, <1>6, <1>7 DEF Next, WorkerStep

(* A subscription whose pushes are spent stays silent until the bus leaves *)
(* the radius and comes back, also under a tick that still works with a    *)
(* position from before.                                                   *)
LEMMA SilentStep == ASSUME IInv, [Next]_vars PROVE SilentWhenSpent'
<1>. SUFFICES ASSUME NEW r \in Subs, told'[r] = 1 + failures' PROVE Silent(r)'
  BY DEF SilentWhenSpent
<1>a. /\ told[r] \in Nat /\ failures \in Nat /\ told[r] <= 1 + failures
      /\ told \in [Subs -> Nat] /\ tick \in TickRows /\ tick.mark \in [Subs -> BOOLEAN]
  BY DEF IInv, TypeOK, RepeatsNeedFailures, TickRows
<1>b. told[r] = 1 + failures => Silent(r)
  BY DEF IInv, SilentWhenSpent
<1>c. (away[r] => ~Inside(live, r)) /\ (Outside(live, r) => away[r])
  BY DEF IInv, SideIsKnown
<1>1. ASSUME NEW p \in Reported \cup {NoLive}, Moves(p) PROVE Silent(r)'
  <2>1. told[r] = 1 + failures /\ ~(away[r] /\ Inside(p, r))
    BY <1>1, <1>a DEF Moves
  <2>2. away[r] => away'[r]
    BY <1>1, <2>1 DEF Moves
  <2> QED
    BY <1>1, <1>b, <2>1, <2>2 DEF Moves, Silent, Inside, Outside
<1>2. ASSUME NEW s \in Subs, Subscribe(s) PROVE Silent(r)'
  BY <1>2, <1>b DEF Subscribe, Silent, Inside, Outside
<1>3. CASE Wake
  BY <1>3, <1>b DEF Wake, Silent, Asleep, Inside, Outside
<1>4. ASSUME NEW s \in Subs, LookUp(s) PROVE Silent(r)'
  BY <1>4, <1>a, <1>b, <1>c DEF LookUp, Silent, Inside, Outside, TickRows
<1>5. ASSUME NEW s \in Subs, BeginSend(s) PROVE Silent(r)'
  <2>1. Silent(r) /\ tick.pc = "scan"
    BY <1>5, <1>b DEF BeginSend, Judging
  <2>2. r # s
    BY <1>5, <2>1 DEF BeginSend, Due, Silent
  <2> QED
    BY <1>5, <1>a, <2>1, <2>2 DEF BeginSend, Sending, Silent, Inside, Outside, TickRows
<1>6. ASSUME NEW s \in Subs, Rearm(s) PROVE Silent(r)'
  <2>1. Silent(r) /\ tick.pc = "scan"
    BY <1>6, <1>b DEF Rearm, Judging
  <2>2. Outside(tick.cache, s) /\ tick' = [tick EXCEPT !.todo = @ \ {s}, !.mark[s] = FALSE]
    BY <1>6 DEF Rearm, Rearmed
  <2> QED
    BY <1>6, <1>a, <2>1, <2>2 DEF Rearm, Silent, Inside, Outside, TickRows
<1>7. ASSUME NEW s \in Subs, Skip(s) PROVE Silent(r)'
  BY <1>7, <1>a, <1>b DEF Skip, Judging, Silent, Inside, Outside, TickRows
<1>8. CASE Sent
  <2>1. PICK s \in tick.sub :
             /\ tick' = [tick EXCEPT !.pc = "scan", !.mark = Marked(s), !.sub = {}]
             /\ told' = [told EXCEPT ![s] = @ + 1]
    BY <1>8 DEF Sent
  <2>2. tick.pc = "send" /\ UNCHANGED <<failures, away>>
    BY <1>8 DEF Sent
  <2>3. CASE r = s
    <3>1. ~Outside(tick.cache, r)
      BY <2>1, <2>3 DEF IInv, SendsInside, Inside, Outside
    <3>2. Marked(s)[r] = TRUE
      BY <1>a, <2>3 DEF Marked
    <3> QED
      BY <1>a, <2>1, <2>2, <3>1, <3>2 DEF Silent, Outside, Inside, TickRows
  <2>4. CASE r # s
    <3>1. Silent(r)
      BY <1>a, <1>b, <2>1, <2>2, <2>4
    <3>2. Marked(s)[r] = tick.mark[r]
      BY <1>a, <2>4 DEF Marked
    <3> QED
      BY <1>a, <2>1, <2>2, <3>1, <3>2 DEF Silent, Outside, Inside, TickRows
  <2> QED
    BY <2>3, <2>4
<1>9. CASE SendReturnsFalse
  <2>1. failures' = failures + 1 /\ tick.pc = "send"
    BY <1>9 DEF SendReturnsFalse
  <2>2. CASE UNCHANGED told
    BY <1>a, <2>1, <2>2
  <2>3. ASSUME NEW s \in tick.sub, told' = [told EXCEPT ![s] = @ + 1] PROVE FALSE
    <3>1. told[s] <= failures /\ s \in Subs
      BY <2>1, SentIsAllowed DEF IInv, TypeOK
    <3> QED
      BY <1>a, <2>1, <2>3, <3>1
  <2> QED
    BY <1>9, <2>2, <2>3, <1>a, <2>1 DEF SendReturnsFalse
<1>10. CASE Commit
  BY <1>10, <1>b DEF Commit, Silent, Asleep
<1>11. CASE TickFails
  BY <1>11, <1>a DEF TickFails
<1>12. CASE UNCHANGED vars
  BY <1>12, <1>b DEF vars, Silent, Inside, Outside
<1> QED
  BY <1>1, <1>2, <1>3, <1>4, <1>5, <1>6, <1>7, <1>8, <1>9, <1>10, <1>11, <1>12
  DEF Next, WorkerStep
-----------------------------------------------------------------------------
(* A mark is set where a push was received, committed as it is, and heard  *)
(* is forgotten only where the committed mark is unset.                    *)
LEMMA ToldStep == ASSUME IInv, [Next]_vars PROVE (TriggeredWasTold /\ MarkWasTold)'
<1>a. /\ \A s \in Subs : triggered[s] => heard[s]
      /\ tick.pc # "asleep" => \A s \in Subs : tick.mark[s] => heard[s]
  BY DEF IInv, TriggeredWasTold, MarkWasTold
<1>b. tick \in TickRows /\ tick.mark \in [Subs -> BOOLEAN] /\ heard \in [Subs -> BOOLEAN]
  BY DEF IInv, TypeOK, TickRows
<1>. USE DEF TriggeredWasTold, MarkWasTold
<1>1. CASE Wake
  <2>1. tick'.mark = triggered /\ UNCHANGED <<triggered, heard>>
    BY <1>1 DEF Wake, Asleep
  <2> QED
    BY <1>a, <2>1
<1>2. ASSUME NEW s \in Subs, LookUp(s) \/ BeginSend(s) \/ Rearm(s) \/ Skip(s)
      PROVE  (TriggeredWasTold /\ MarkWasTold)'
  <2>1. /\ tick.pc # "asleep" /\ UNCHANGED <<triggered, heard>>
        /\ \A r \in Subs : tick'.mark[r] => tick.mark[r]
    BY <1>2, <1>b DEF LookUp, BeginSend, Rearm, Skip, Judging, Sending, TickRows
  <2> QED
    BY <1>a, <2>1
<1>3. CASE Sent
  <2>1. PICK s \in tick.sub :
             /\ tick' = [tick EXCEPT !.pc = "scan", !.mark = Marked(s), !.sub = {}]
             /\ heard' = [heard EXCEPT ![s] = TRUE]
    BY <1>3 DEF Sent
  <2>2. tick'.mark = Marked(s) /\ tick.pc # "asleep" /\ UNCHANGED triggered
    BY <1>3, <1>b, <2>1 DEF Sent, TickRows
  <2>3. \A r \in Subs : heard[r] => heard'[r]
    BY <1>b, <2>1
  <2>4. \A r \in Subs : Marked(s)[r] => (r = s \/ tick.mark[r])
    BY <1>b DEF Marked
  <2>5. s \in Subs => heard'[s]
    BY <1>b, <2>1
  <2> QED
    BY <1>a, <2>2, <2>3, <2>4, <2>5
<1>4. CASE SendReturnsFalse
  <2>1. /\ tick.pc # "asleep" /\ UNCHANGED triggered
        /\ tick'.mark = tick.mark
    BY <1>4, <1>b DEF SendReturnsFalse, TickRows
  <2>2. \A r \in Subs : heard[r] => heard'[r]
    BY <1>4, <1>b DEF SendReturnsFalse
  <2> QED
    BY <1>a, <2>1, <2>2
<1>5. CASE Commit
  <2>1. triggered' = tick.mark /\ tick.pc # "asleep" /\ tick'.pc = "asleep"
    BY <1>5 DEF Commit, Asleep
  <2>2. \A r \in Subs : heard'[r] = (heard[r] /\ tick.mark[r])
    BY <1>5 DEF Commit
  <2> QED
    BY <1>a, <2>1, <2>2
<1>6. CASE TickFails
  BY <1>6, <1>a DEF TickFails, Asleep
<1>7. CASE UNCHANGED <<triggered, tick, heard>>
  BY <1>7, <1>a
<1>8. ASSUME NEW s \in Subs, Subscribe(s) PROVE UNCHANGED <<triggered, tick, heard>>
  BY <1>8 DEF Subscribe
<1>9. ASSUME NEW p \in Reported \cup {NoLive}, Moves(p) PROVE UNCHANGED <<triggered, tick, heard>>
  BY <1>9 DEF Moves
<1>10. CASE UNCHANGED vars
  BY <1>10, <1>7 DEF vars
<1> QED
  BY <1>1, <1>2, <1>3, <1>4, <1>5, <1>6, <1>7, <1>8, <1>9, <1>10 DEF Next, WorkerStep
-----------------------------------------------------------------------------
LEMMA IInvStep == IInv /\ [Next]_vars => IInv'
<1>. SUFFICES ASSUME IInv, [Next]_vars
              PROVE  IInv'
  OBVIOUS
<1>1. TypeOK'
  BY TypeStep DEF IInv
<1>2. SideIsKnown' /\ SendsInside'
  BY SideStep, SendsStep
<1>3. RepeatsNeedFailures' /\ SilentWhenSpent'
  BY RepeatsStep, SilentStep
<1>4. (TriggeredWasTold /\ MarkWasTold)'
  BY ToldStep
<1> QED
  BY <1>1, <1>2, <1>3, <1>4 DEF IInv

LEMMA Invariance == Spec => []IInv
  BY InitIInv, IInvStep, PTL DEF Spec

(* The worker and its ghosts are well typed, for any number of             *)
(* subscriptions and places.                                               *)
THEOREM TypeCorrect == Spec => []TypeOK
<1>1. IInv => TypeOK
  BY DEF IInv
<1> QED
  BY <1>1, Invariance, PTL

(* alert_worker_tick repeats a push within one approach at most once for   *)
(* each tick that failed and each push that was not confirmed.             *)
THEOREM RepeatsBounded == Spec => []RepeatsNeedFailures
<1>1. IInv => RepeatsNeedFailures
  BY DEF IInv
<1> QED
  BY <1>1, Invariance, PTL

(* alert_worker_tick never commits triggered for a passenger who has       *)
(* received nothing.                                                       *)
THEOREM TriggeredAlwaysTold == Spec => []TriggeredWasTold
<1>1. IInv => TriggeredWasTold
  BY DEF IInv
<1> QED
  BY <1>1, Invariance, PTL
=============================================================================
