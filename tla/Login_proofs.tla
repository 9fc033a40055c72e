---------------------------- MODULE Login_proofs ----------------------------
(***************************************************************************)
(* Proofs about what guards the login of a driver: RateLimit, for every    *)
(* limit, window and number of workers, with either store, and for workers *)
(* that die between INCR and EXPIRE; and OtpLogin, for any number of       *)
(* codes, of attempts and of requests at a time.                           *)
(***************************************************************************)
EXTENDS RateLimit, OtpLogin, FiniteSetTheorems, WellFoundedInduction, TLAPS

(* THE INDUCTIVE INVARIANT.  A time to live belongs to a key; only Redis   *)
(* has keys without one, and only the worker that created the key is about *)
(* to give it one.                                                         *)
OneGivesTime ==
  /\ count = 0 => left = Forever
  /\ store = "memory" => AllIdle /\ (count # 0 => left # Forever)
  /\ \A w \in Workers : h[w] = "expire" => count # 0 /\ left = Forever
  /\ \A v, w \in Workers : h[v] = "expire" /\ h[w] = "expire" => v = w

(* A key has lived since the last answer for as long as nobody asked.      *)
KeyGoesQuietly ==
  count # 0 /\ left # Forever =>
    /\ store = "redis" => left >= 1 /\ left + quiet <= Window
    /\ store = "memory" => left + quiet <= Window \/ left + quiet <= IncrTTL

(* What was let through in a window of ticks is the work of two keys.  The *)
(* n requests of the one before came before the EXPIRE of this one, and    *)
(* will be out of the window when it is gone.                              *)
FromTwoKeys(n) ==
  /\ n <= Limit
  /\ Len(taken) - n <= count /\ Len(taken) - n <= Limit
  /\ count # 0 /\ left # Forever => \A i \in 1..n : taken[i] + left >= Window

TwoKeysPerWindow == store = "redis" => \E n \in 0..Len(taken) : FromTwoKeys(n)

LimiterInv == TypeOK /\ OneGivesTime /\ KeyGoesQuietly /\ TwoKeysPerWindow

LEMMA LimitNumbers ==
  /\ Limit \in Nat \ {0} /\ Window \in Nat \ {0} /\ IncrTTL \in Nat \ {0} /\ MaxCount \in Nat
  /\ Forever \notin Nat
  BY RateLimitAssumption

LEMMA LimiterInit == Init => LimiterInv
<1>. SUFFICES ASSUME Init
              PROVE  LimiterInv
  OBVIOUS
<1>1. TypeOK /\ OneGivesTime /\ KeyGoesQuietly
  BY LimitNumbers DEF Init, TypeOK, OneGivesTime, AllIdle, KeyGoesQuietly
<1>2. FromTwoKeys(0) /\ 0 \in 0..Len(taken)
  BY LimitNumbers DEF Init, FromTwoKeys
<1> QED
  BY <1>1, <1>2 DEF LimiterInv, TwoKeysPerWindow

-----------------------------------------------------------------------------
(* A tick drops the oldest k requests and makes the others older.          *)
LEMMA AgedShape ==
  ASSUME TypeOK, NEW k \in 0..Len(taken)
  PROVE  /\ Aged(k) \in Seq(Nat)
         /\ Len(Aged(k)) = Len(taken) - k
         /\ \A i \in 1..(Len(taken) - k) : Aged(k)[i] = taken[i + k] + 1
<1>1. Len(taken) \in Nat /\ Len(taken) - k \in Nat
  BY DEF TypeOK
<1>2. ASSUME NEW i \in 1..(Len(taken) - k)
      PROVE  taken[i + k] + 1 \in Nat
  BY <1>1 DEF TypeOK
<1> QED
  BY <1>1, <1>2 DEF Aged

LEMMA TypeStep ==
  ASSUME TypeOK, OneGivesTime, KeyGoesQuietly, [Next]_vars
  PROVE  TypeOK'
<1>. USE LimitNumbers
<1>1. CASE UNCHANGED vars
  BY <1>1 DEF vars, TypeOK
<1>2. CASE Tick
  <2>1. PICK k \in 0..Len(taken) : taken' = Aged(k)
    BY <1>2 DEF Tick
  <2>2. taken' \in Seq(Nat)
    BY <2>1, AgedShape
  <2>3. count' \in 0..MaxCount /\ quiet' \in Nat /\ UNCHANGED <<store, h>>
    BY <1>2 DEF Tick, TypeOK
  <2>4. left' \in Nat \cup {Forever}
    BY <1>2 DEF Tick, LastTick, TypeOK, OneGivesTime, KeyGoesQuietly
  <2> QED
    BY <2>2, <2>3, <2>4 DEF TypeOK
<1>3. ASSUME NEW w \in Workers, Incr(w)
      PROVE  TypeOK'
  <2>1. taken' \in Seq(Nat)
    <3>1. taken' = taken \/ taken' = Append(taken, 0)
      BY <1>3 DEF Incr, IncrRedis, IncrMemory, LetThrough
    <3>2. taken \in Seq(Nat) /\ 0 \in Nat
      BY DEF TypeOK
    <3> QED
      BY <3>1, <3>2
  <2>2. count' \in 0..MaxCount /\ quiet' \in Nat
    BY <1>3 DEF Incr, IncrRedis, IncrMemory, TypeOK
  <2>3. left' \in Nat \cup {Forever} /\ store' = store
    BY <1>3 DEF Incr, IncrRedis, IncrMemory, ExpireTTL, TypeOK
  <2>4. h' \in [Workers -> {"idle", "expire"}]
    BY <1>3 DEF Incr, IncrRedis, IncrMemory, TypeOK
  <2> QED
    BY <2>1, <2>2, <2>3, <2>4 DEF TypeOK
<1>4. ASSUME NEW w \in Workers, Expire(w) \/ WorkerDies(w)
      PROVE  TypeOK'
  BY <1>4 DEF Expire, WorkerDies, ExpireTTL, TypeOK
<1> QED
  BY <1>1, <1>2, <1>3, <1>4 DEF Next

LEMMA OneGivesStep ==
  ASSUME TypeOK, OneGivesTime, KeyGoesQuietly, [Next]_vars
  PROVE  OneGivesTime'
<1>. USE LimitNumbers
<1>1. CASE UNCHANGED vars
  BY <1>1 DEF vars, OneGivesTime, AllIdle
<1>2. CASE Tick
  BY <1>2 DEF Tick, LastTick, TypeOK, OneGivesTime, AllIdle, KeyGoesQuietly
<1>3. ASSUME NEW w \in Workers, IncrRedis(w)
      PROVE  OneGivesTime'
  <2>1. CASE count = 0
    BY <1>3, <2>1 DEF IncrRedis, IsFirst, TypeOK, OneGivesTime, AllIdle
  <2>2. CASE count # 0
    BY <1>3, <2>2 DEF IncrRedis, IsFirst, TypeOK, OneGivesTime, AllIdle
  <2> QED
    BY <2>1, <2>2
<1>4. ASSUME NEW w \in Workers, IncrMemory(w)
      PROVE  OneGivesTime'
  BY <1>4 DEF IncrMemory, ExpireTTL, TypeOK, OneGivesTime, AllIdle
<1>5. ASSUME NEW w \in Workers, Expire(w) \/ WorkerDies(w)
      PROVE  OneGivesTime'
  BY <1>5 DEF Expire, WorkerDies, TypeOK, OneGivesTime, AllIdle
<1> QED
  BY <1>1, <1>2, <1>3, <1>4, <1>5 DEF Next, Incr

LEMMA QuietStep ==
  ASSUME TypeOK, OneGivesTime, KeyGoesQuietly, [Next]_vars
  PROVE  KeyGoesQuietly'
<1>. USE LimitNumbers
<1>1. CASE UNCHANGED vars
  BY <1>1 DEF vars, KeyGoesQuietly
<1>2. CASE Tick
  BY <1>2 DEF Tick, LastTick, TypeOK, OneGivesTime, KeyGoesQuietly
<1>3. ASSUME NEW w \in Workers, IncrRedis(w)
      PROVE  KeyGoesQuietly'
  BY <1>3 DEF IncrRedis, IsFirst, TypeOK, OneGivesTime, KeyGoesQuietly
<1>4. ASSUME NEW w \in Workers, IncrMemory(w)
      PROVE  KeyGoesQuietly'
  BY <1>4 DEF IncrMemory, ExpireTTL, TypeOK, KeyGoesQuietly
<1>5. ASSUME NEW w \in Workers, Expire(w) \/ WorkerDies(w)
      PROVE  KeyGoesQuietly'
  BY <1>5 DEF Expire, WorkerDies, ExpireTTL, TypeOK, OneGivesTime, KeyGoesQuietly
<1> QED
  BY <1>1, <1>2, <1>3, <1>4, <1>5 DEF Next, Incr

(* A key that is gone leaves only its own requests behind.                 *)
LEMMA TwoKeysStep ==
  ASSUME TypeOK, OneGivesTime, KeyGoesQuietly, TwoKeysPerWindow, [Next]_vars
  PROVE  TwoKeysPerWindow'
<1>. USE LimitNumbers
<1>. SUFFICES ASSUME store' = "redis"
              PROVE  \E m \in 0..Len(taken') : FromTwoKeys(m)'
  BY DEF TwoKeysPerWindow
<1>0. store = "redis" /\ Len(taken) \in Nat /\ count \in Nat
  BY DEF Next, Tick, Incr, IncrRedis, IncrMemory, Expire, WorkerDies, vars, TypeOK
<1>1. PICK n \in 0..Len(taken) : FromTwoKeys(n)
  BY <1>0 DEF TwoKeysPerWindow
<1>2. CASE UNCHANGED vars
  BY <1>1, <1>2 DEF vars, FromTwoKeys
<1>3. CASE Tick
  <2>1. PICK k \in 0..Len(taken) : Oldest(k) /\ taken' = Aged(k)
    BY <1>3 DEF Tick
  <2>2. /\ Len(taken') = Len(taken) - k
        /\ \A i \in 1..(Len(taken) - k) : taken'[i] = taken[i + k] + 1
    BY <2>1, AgedShape
  <2>3. CASE count # 0 /\ left = LastTick
    <3>1. left = 1 /\ left # Forever /\ count' = 0
      BY <1>0, <1>3, <2>3 DEF LastTick, Tick
    <3>2. n <= k
      <4>1. CASE n = 0
        BY <4>1
      <4>2. CASE n > 0
        <5>1. taken[n] + 1 >= Window
          BY <1>1, <2>3, <3>1, <4>2 DEF FromTwoKeys
        <5> QED
          BY <1>0, <2>1, <4>2, <5>1 DEF Oldest
      <4> QED
        BY <1>0, <4>1, <4>2
    <3>3. PICK m \in Nat : m = Len(taken) - k
      BY <1>0
    <3>4. m = Len(taken') /\ m <= Limit
      BY <1>0, <1>1, <2>2, <3>2, <3>3 DEF FromTwoKeys
    <3>5. FromTwoKeys(m)'
      BY <1>0, <3>1, <3>4 DEF FromTwoKeys
    <3> QED
      BY <3>4, <3>5
  <2>4. CASE ~(count # 0 /\ left = LastTick)
    <3>. DEFINE m == IF n <= k THEN 0 ELSE n - k
    <3>0. /\ n <= Limit /\ Len(taken) - n <= count /\ Len(taken) - n <= Limit
          /\ Len(taken') = Len(taken) - k
      BY <1>1, <2>2 DEF FromTwoKeys
    <3>1. m \in 0..Len(taken') /\ m <= Limit
      BY <1>0, <3>0
    <3>2. Len(taken') - m <= count /\ Len(taken') - m <= Limit
      BY <1>0, <3>0
    <3>3. count' = count /\ (left = Forever => left' = Forever) /\ (left # Forever => left' = left - 1)
      BY <1>3, <2>4 DEF Tick
    <3>4. ASSUME count # 0, left # Forever, NEW i \in 1..m
          PROVE  taken'[i] + left' >= Window
      <4>1. left \in Nat /\ left >= 1
        BY <1>0, <3>4 DEF TypeOK, KeyGoesQuietly
      <4>2. i + k \in 1..n /\ i \in 1..(Len(taken) - k)
        BY <1>0
      <4>3. taken[i + k] + left >= Window
        BY <1>1, <3>4, <4>2 DEF FromTwoKeys
      <4>4. taken'[i] = taken[i + k] + 1 /\ left' = left - 1
        BY <2>2, <3>3, <3>4, <4>2
      <4>5. taken[i + k] \in Nat
        BY <1>0, <4>2 DEF TypeOK
      <4> QED
        BY <4>1, <4>3, <4>4, <4>5
    <3>. HIDE DEF m
    <3>5. FromTwoKeys(m)'
      BY <3>1, <3>2, <3>3, <3>4 DEF FromTwoKeys
    <3> QED
      BY <3>1, <3>5
  <2> QED
    BY <2>3, <2>4
<1>4. ASSUME NEW w \in Workers, IncrRedis(w)
      PROVE  \E m \in 0..Len(taken') : FromTwoKeys(m)'
  <2>1. CASE Allowed(count + 1)
    <3>1. taken' = Append(taken, 0) /\ taken \in Seq(Nat)
      BY <1>4, <2>1 DEF IncrRedis, LetThrough, TypeOK
    <3>2. Len(taken') = Len(taken) + 1 /\ \A i \in 1..n : taken'[i] = taken[i]
      BY <1>0, <3>1
    <3>3. count' = count + 1 /\ left' = left /\ count + 1 <= Limit
      BY <1>4, <2>1 DEF IncrRedis, Allowed
    <3>4. count = 0 => left = Forever
      BY DEF OneGivesTime
    <3>5. FromTwoKeys(n)' /\ n \in 0..Len(taken')
      BY <1>0, <1>1, <3>2, <3>3, <3>4 DEF FromTwoKeys
    <3> QED
      BY <3>5
  <2>2. CASE ~Allowed(count + 1)
    <3>1. taken' = taken /\ count' = count + 1 /\ left' = left
      BY <1>4, <2>2 DEF IncrRedis, LetThrough
    <3>2. count = 0 => left = Forever
      BY DEF OneGivesTime
    <3>3. FromTwoKeys(n)'
      BY <1>0, <1>1, <3>1, <3>2 DEF FromTwoKeys
    <3> QED
      BY <3>1, <3>3
  <2> QED
    BY <2>1, <2>2
<1>5. ASSUME NEW w \in Workers, Expire(w)
      PROVE  \E m \in 0..Len(taken') : FromTwoKeys(m)'
  <2>1. taken' = taken /\ count' = count /\ left' = Window
    BY <1>5 DEF Expire, ExpireTTL
  <2>2. \A i \in 1..n : taken[i] \in Nat
    BY <1>0 DEF TypeOK
  <2>3. FromTwoKeys(n)'
    BY <1>0, <1>1, <2>1, <2>2 DEF FromTwoKeys
  <2> QED
    BY <2>1, <2>3
<1>6. ASSUME NEW w \in Workers, WorkerDies(w)
      PROVE  \E m \in 0..Len(taken') : FromTwoKeys(m)'
  BY <1>1, <1>6 DEF WorkerDies, FromTwoKeys
<1>7. \A w \in Workers : ~IncrMemory(w)
  BY <1>0 DEF IncrMemory
<1> QED
  BY <1>2, <1>3, <1>4, <1>5, <1>6, <1>7 DEF Next, Incr

-----------------------------------------------------------------------------
LEMMA LimiterStep == LimiterInv /\ [Next]_vars => LimiterInv'
  BY TypeStep, OneGivesStep, QuietStep, TwoKeysStep DEF LimiterInv

LEMMA LimiterInvariance == Spec => []LimiterInv
  BY LimiterInit, LimiterStep, PTL DEF Spec

(* With Redis no Window ticks let through more than twice the limit, and   *)
(* with either store remaining does not lie about what is left of it.      *)
THEOREM LimitAlwaysKept == Spec => []LimitIsKept
<1>1. LimiterInv => AtMostTwicePerWindow
  BY LimitNumbers DEF LimiterInv, TypeOK, TwoKeysPerWindow, FromTwoKeys, AtMostTwicePerWindow
<1>2. LimiterInv => RemainingIsHonest
  BY LimitNumbers DEF LimiterInv, TypeOK, OneGivesTime, RemainingIsHonest, Remaining, Allowed,
                 Orphaned
<1> QED
  BY <1>1, <1>2, LimiterInvariance, PTL DEF LimitIsKept

(* A client that waited for a window is served again, however its requests *)
(* raced, unless the key lost its time to live.                            *)
THEOREM PatientClientIsServed == Spec => PatientIsServed
<1>1. ASSUME LimiterInv, [Next]_vars, NEW w \in Workers, Patient, ~Orphaned, Incr(w)
      PROVE  taken' = Append(taken, 0)
  <2>1. count = 0
    BY <1>1, LimitNumbers DEF LimiterInv, TypeOK, KeyGoesQuietly, Patient, Orphaned
  <2>2. Allowed(count + 1)
    BY <2>1, LimitNumbers DEF Allowed
  <2> QED
    BY <1>1, <2>2 DEF Incr, IncrRedis, IncrMemory, LetThrough
<1>2. LimiterInv /\ [Next]_vars =>
        [\A w \in Workers :
           Patient /\ ~Orphaned /\ Incr(w) => taken' = Append(taken, 0)]_vars
  BY <1>1
<1> QED
  BY <1>2, LimiterInvariance, PTL DEF Spec, PatientIsServed
-----------------------------------------------------------------------------
Holders(n)  == {w \in OtpTasks : otpTask[w].pc \in {"match", "commit"} /\ otpTask[w].code = n}
Guessing(n) == {w \in OtpTasks : otpTask[w].pc = "miss" /\ otpTask[w].code = n}

OtpRecord  == [row : BOOLEAN, attempts : 0..MaxAttempts, consumed : BOOLEAN, expired : BOOLEAN]
TaskRecord == [pc : {"idle", "look_up", "add_driver", "send", "match", "miss", "commit"},
               code : {0} \cup Codes, seen : 0..MaxAttempts, swept : SUBSET Codes]

(* THE INDUCTIVE INVARIANT, part 1.  Codes are committed one after the     *)
(* other, and a request works with one that was.                           *)
CodesInOrder == \E k \in 0..MaxCodes : OtpRows = 1..k

TasksHoldCodes ==
  \A w \in OtpTasks :
    /\ otpTask[w].pc = "idle" => otpTask[w] = NoOtpTask
    /\ otpTask[w].pc # "idle" => otpTask[w].code \in OtpRows
    /\ otpTask[w].pc \in {"match", "miss", "commit"} => otpTask[w].seen < MaxAttempts

OneAtATime ==
  inTurn => \A v, w \in OtpTasks :
    otpTask[v].pc # "idle" /\ otpTask[w].pc # "idle" => v = w

UsedCodesExist == \A n \in Codes : guesses[n] # 0 \/ logins[n] # 0 => n \in OtpRows

BaseInv == OtpTypeOK /\ CodesInOrder /\ TasksHoldCodes /\ OneAtATime /\ UsedCodesExist

(* Part 2.  The UPDATE has found every older code, because they are there. *)
(* Once a code has logged in, only those who hold it already can repeat    *)
(* that, and nobody joins them.                                            *)
SendsToDriver == \A w \in OtpTasks : otpTask[w].pc = "send" => driver

SweepsOlder ==
  \A w \in OtpTasks : otpTask[w].pc = "commit" =>
    \A m \in Codes : m < otpTask[w].code => m \in otpTask[w].swept

LoginsAreCounted ==
  \A n \in Codes :
    IF inTurn THEN logins[n] <= 1 /\ (Holders(n) # {} => logins[n] = 0)
              ELSE logins[n] + Cardinality(Holders(n)) <= Cardinality(OtpTasks)

SoundInv ==
  SendsToDriver /\ SentHasDriver /\ SweepsOlder /\ LoginUsesUpOlder /\ LoginsAreCounted

(* Part 3, for requests that wait for one another.  No wrong guess is      *)
(* missing from the counter of a code that may still be tried.             *)
TurnsAreCounted(n) ==
  /\ guesses[n] <= MaxAttempts
  /\ ~otp[n].consumed => guesses[n] <= otp[n].attempts
  /\ \A w \in Guessing(n) : ~otp[n].consumed /\ otpTask[w].seen = otp[n].attempts

TurnsInv == inTurn => \A n \in Codes : TurnsAreCounted(n)

(* Part 3, for two requests at a time; everything is doubled to stay in    *)
(* the integers.  Whoever has seen v attempts, or the counter itself, will *)
(* let the other guess up to the cap and then take the counter to v + 1.   *)
(* Of two who guess the later has seen the counter as it is, so that the   *)
(* failure of either takes nobody further back.                            *)
Most == (MaxAttempts + 1) * (MaxAttempts + 2) - 2

Ahead(v) == (MaxAttempts - v) * (MaxAttempts - v + 1)

Reach(n, v) == 2 * guesses[n] + Ahead(v) + 2 * (MaxAttempts - otp[n].attempts)

RoomIsLeft(n) ==
  ~otp[n].consumed =>
    /\ Reach(n, otp[n].attempts) <= Most
    /\ \A w \in Guessing(n) : Reach(n, otpTask[w].seen) <= Most

LaterIsCurrent(n) ==
  ~otp[n].consumed =>
    \A v, w \in Guessing(n) : v # w => otp[n].attempts \in {otpTask[v].seen, otpTask[w].seen}

LastGuess(n) ==
  /\ 2 * guesses[n] <= Most
  /\ otp[n].consumed => \A v, w \in Guessing(n) : v = w /\ 2 * guesses[n] + 2 <= Most

RaceInv == \A n \in Codes : RoomIsLeft(n) /\ LaterIsCurrent(n) /\ LastGuess(n)

-----------------------------------------------------------------------------
(* NUMBERS                                                                 *)
LEMMA HasSmallest ==
  ASSUME NEW S \in SUBSET Nat, S # {}
  PROVE  \E n \in S : \A m \in S : n <= m
<1>. DEFINE R == {p \in Nat \X Nat : p[1] < p[2]}
<1>1. IsWellFoundedOn(R, Nat)
  BY NatLessThanWellFounded DEF OpToRel
<1>2. PICK n \in S : \A m \in S : ~(<<m, n>> \in R)
  <2>. HIDE DEF R
  <2> QED
    BY <1>1, WFMin
<1>3. ASSUME NEW m \in S PROVE n <= m
  <2>1. n \in Nat /\ m \in Nat
    OBVIOUS
  <2>2. m < n => <<m, n>> \in R
    BY <2>1
  <2>3. ~(<<m, n>> \in R)
    BY <1>2
  <2> QED
    BY <2>1, <2>2, <2>3
<1> QED
  BY <1>3

(* Newest finds the newest code: it is that with the fewest above it.      *)
LEMMA NewestIsOne ==
  ASSUME NEW S \in SUBSET Codes, S # {}
  PROVE  Newest(S) \in S
<1>. DEFINE D == {MaxCodes - n : n \in S}
<1>1. D \in SUBSET Nat /\ D # {}
  <2>1. \A n \in S : MaxCodes - n \in Nat
    BY OtpAssumption DEF Codes
  <2> QED
    BY <2>1
<1>2. PICK d \in D : \A e \in D : d <= e
  <2>. HIDE DEF D
  <2> QED
    BY <1>1, HasSmallest
<1>3. PICK n \in S : d = MaxCodes - n
  OBVIOUS
<1>4. \A m \in S : m <= n
  <2>. SUFFICES ASSUME NEW m \in S PROVE m <= n
    OBVIOUS
  <2>1. MaxCodes - m \in D
    OBVIOUS
  <2>2. d <= MaxCodes - m
    BY <1>2, <2>1
  <2>3. m \in Nat /\ n \in Nat /\ MaxCodes \in Nat
    BY OtpAssumption DEF Codes
  <2> QED
    BY <1>3, <2>2, <2>3
<1>5. \E m \in S : \A l \in S : l <= m
  BY <1>4
<1> QED
  BY <1>5 DEF Newest

LEMMA NextIsNew ==
  ASSUME NEW k \in 0..MaxCodes, OtpRows = 1..k, OtpRows # Codes
  PROVE  NextCode = k + 1 /\ k + 1 \in Codes /\ k + 1 \notin OtpRows
<1>1. k \in Nat /\ MaxCodes \in Nat /\ k # MaxCodes
  BY OtpAssumption DEF Codes
<1>2. k + 1 \in Codes /\ k + 1 \notin OtpRows
  BY <1>1 DEF Codes
<1>3. \A n \in Codes : otp[n].row <=> n \in 1..k
  BY DEF OtpRows
<1>4. \A n \in Codes :
        (~otp[n].row /\ \A m \in Codes : m < n => otp[m].row) <=> n = k + 1
  <2>. SUFFICES ASSUME NEW n \in Codes
                PROVE  (n \notin 1..k /\ \A m \in Codes : m < n => m \in 1..k) <=> n = k + 1
    BY <1>3
  <2>1. n \in Nat /\ n >= 1 /\ \A m \in Codes : m \in Nat /\ m >= 1
    BY DEF Codes
  <2>2. CASE n = k + 1
    BY <1>1, <2>1, <2>2
  <2>3. CASE n < k + 1
    BY <1>1, <2>1, <2>3
  <2>4. CASE n > k + 1
    <3>1. k + 1 \in Codes /\ k + 1 < n /\ k + 1 \notin 1..k
      BY <1>1, <1>2, <2>4
    <3> QED
      BY <1>1, <2>1, <2>4, <3>1
  <2> QED
    BY <1>1, <2>1, <2>2, <2>3, <2>4
<1> QED
  BY <1>2, <1>4 DEF NextCode

-----------------------------------------------------------------------------
(* STEPS                                                                   *)
TaskGoes(w, p, n, s, S) ==
  otpTask' = [otpTask EXCEPT ![w] = [pc |-> p, code |-> n, seen |-> s, swept |-> S]]

Ends(w) == TaskGoes(w, "idle", 0, 0, {})

LEMMA Types ==
  ASSUME OtpTypeOK
  PROVE  /\ \A w \in OtpTasks : otpTask[w] \in TaskRecord
         /\ \A n \in Codes : otp[n] \in OtpRecord
         /\ DOMAIN otpTask = OtpTasks /\ DOMAIN otp = Codes
  BY DEF OtpTypeOK, TaskRecord, OtpRecord

LEMMA Moves ==
  ASSUME OtpTypeOK, NEW w \in OtpTasks
  PROVE  /\ RequestCode(w) => TaskGoes(w, "look_up", NextCode, 0, {})
         /\ LookUpDriver(w) => TaskGoes(w, IF driver THEN "send" ELSE "add_driver",
                                        otpTask[w].code, otpTask[w].seen, otpTask[w].swept)
         /\ AddDriver(w) =>
              \/ Ends(w)
              \/ TaskGoes(w, "send", otpTask[w].code, otpTask[w].seen, otpTask[w].swept)
         /\ Send(w) \/ Miss(w) \/ LogIn(w) \/ TaskFails(w) => Ends(w)
         /\ Sweep(w) => TaskGoes(w, "commit", otpTask[w].code, otpTask[w].seen,
                                 Others(otpTask[w].code))
<1>. otpTask[w] \in TaskRecord
  BY Types
<1>1. RequestCode(w) => TaskGoes(w, "look_up", NextCode, 0, {})
  BY DEF RequestCode, Requested, NoOtpTask, TaskGoes
<1>2. LookUpDriver(w) => TaskGoes(w, IF driver THEN "send" ELSE "add_driver",
                                  otpTask[w].code, otpTask[w].seen, otpTask[w].swept)
  BY DEF LookUpDriver, LookedUp, TaskGoes, TaskRecord
<1>3. AddDriver(w) =>
        \/ Ends(w)
        \/ TaskGoes(w, "send", otpTask[w].code, otpTask[w].seen, otpTask[w].swept)
  BY DEF AddDriver, NoOtpTask, Ends, TaskGoes, TaskRecord
<1>4. Send(w) \/ Miss(w) \/ LogIn(w) \/ TaskFails(w) => Ends(w)
  BY DEF Send, Miss, LogIn, TaskFails, NoOtpTask, Ends, TaskGoes
<1>5. Sweep(w) => TaskGoes(w, "commit", otpTask[w].code, otpTask[w].seen,
                           Others(otpTask[w].code))
  <2>. SUFFICES ASSUME Sweep(w)
                PROVE  TaskGoes(w, "commit", otpTask[w].code, otpTask[w].seen,
                                Others(otpTask[w].code))
    OBVIOUS
  <2>1. otpTask' = [otpTask EXCEPT ![w] =
           [[otpTask[w] EXCEPT !.pc = "commit"] EXCEPT !.swept = Others(otpTask[w].code)]]
    BY DEF Sweep
  <2>2. [otpTask[w] EXCEPT !.pc = "commit"] =
          [pc |-> "commit", code |-> otpTask[w].code, seen |-> otpTask[w].seen,
           swept |-> otpTask[w].swept]
    BY DEF TaskRecord
  <2>3. [[pc |-> "commit", code |-> otpTask[w].code, seen |-> otpTask[w].seen,
          swept |-> otpTask[w].swept] EXCEPT !.swept = Others(otpTask[w].code)] =
          [pc |-> "commit", code |-> otpTask[w].code, seen |-> otpTask[w].seen,
           swept |-> Others(otpTask[w].code)]
    OBVIOUS
  <2> QED
    BY <2>1, <2>2, <2>3 DEF TaskGoes
<1> QED
  BY <1>1, <1>2, <1>3, <1>4, <1>5

LEMMA TaskFields ==
  ASSUME OtpTypeOK, NEW w \in OtpTasks, NEW p, NEW n, NEW s, NEW S, TaskGoes(w, p, n, s, S)
  PROVE  /\ otpTask'[w] = [pc |-> p, code |-> n, seen |-> s, swept |-> S]
         /\ otpTask'[w].pc = p /\ otpTask'[w].code = n
         /\ otpTask'[w].seen = s /\ otpTask'[w].swept = S
         /\ \A v \in OtpTasks : v # w => otpTask'[v] = otpTask[v]
         /\ [pc |-> p, code |-> n, seen |-> s, swept |-> S] \in TaskRecord
              => otpTask' \in [OtpTasks -> TaskRecord]
<1>1. otpTask \in [OtpTasks -> TaskRecord]
  BY DEF OtpTypeOK, TaskRecord
<1>2. otpTask'[w] = [pc |-> p, code |-> n, seen |-> s, swept |-> S]
  BY Types DEF TaskGoes
<1>3. \A v \in OtpTasks : v # w => otpTask'[v] = otpTask[v]
  BY Types DEF TaskGoes
<1>4. [pc |-> p, code |-> n, seen |-> s, swept |-> S] \in TaskRecord
        => otpTask' \in [OtpTasks -> TaskRecord]
  BY <1>1 DEF TaskGoes
<1> QED
  BY <1>2, <1>3, <1>4

(* Verify works with a code that may still be tried.                       *)
LEMMA VerifyMoves ==
  ASSUME OtpTypeOK, NEW w \in OtpTasks, NEW guess, Verify(w, guess)
  PROVE  \E n \in OtpRows, p \in {"match", "miss"} :
           /\ Offered(n) /\ n = Newest(Usable)
           /\ TaskGoes(w, p, n, otp[n].attempts, {})
           /\ MayAnswer(w)
           /\ UNCHANGED <<inTurn, otp, driver, sent, guesses, logins>>
<1>. DEFINE n == Newest(Usable)
<1>1. Usable # {} /\ Usable \in SUBSET Codes
  BY DEF Verify, Usable, OtpRows
<1>2. n \in Usable
  BY <1>1, NewestIsOne
<1>3. n \in OtpRows /\ Offered(n)
  BY <1>2 DEF Usable
<1>. HIDE DEF n
<1>4. \E p \in {"match", "miss"} : TaskGoes(w, p, n, otp[n].attempts, {})
  BY DEF Verify, TaskGoes, n
<1>5. MayAnswer(w) /\ UNCHANGED <<inTurn, otp, driver, sent, guesses, logins>>
  BY DEF Verify
<1> QED
  BY <1>3, <1>4, <1>5 DEF n

(* A code that has been committed stays, with what became of it.           *)
CodesKept ==
  /\ otp' \in [Codes -> OtpRecord]
  /\ OtpRows \subseteq OtpRows' /\ CodesInOrder'
  /\ \A n \in OtpRows : otp[n].consumed => otp'[n].consumed
  /\ inTurn' = inTurn /\ (driver => driver')

LEMMA Fresh ==
  /\ [NoCode EXCEPT !.row = TRUE] \in OtpRecord /\ [NoCode EXCEPT !.row = TRUE].row
  /\ ~[NoCode EXCEPT !.row = TRUE].consumed /\ [NoCode EXCEPT !.row = TRUE].attempts = 0
<1>1. NoCode \in OtpRecord
  BY OtpAssumption DEF NoCode, OtpRecord
<1>2. ~NoCode.consumed /\ NoCode.attempts = 0
  BY DEF NoCode
<1> QED
  BY <1>1, <1>2 DEF OtpRecord

LEMMA Counted ==
  ASSUME NEW r \in OtpRecord, NEW k \in 0..MaxAttempts
  PROVE  /\ [r EXCEPT !.attempts = k] \in OtpRecord
         /\ [r EXCEPT !.attempts = k].row = r.row
         /\ [r EXCEPT !.attempts = k].consumed = r.consumed
         /\ [r EXCEPT !.attempts = k].attempts = k
  BY DEF OtpRecord

LEMMA Marked ==
  ASSUME NEW r \in OtpRecord
  PROVE  /\ [r EXCEPT !.consumed = TRUE] \in OtpRecord
         /\ [r EXCEPT !.consumed = TRUE].row = r.row
         /\ [r EXCEPT !.consumed = TRUE].consumed
  BY DEF OtpRecord

LEMMA ConsumedShape ==
  ASSUME OtpTypeOK, NEW w \in OtpTasks, NEW n \in Codes
  PROVE  /\ Consumed(w)[n] \in OtpRecord
         /\ Consumed(w)[n].row = otp[n].row
         /\ n = otpTask[w].code \/ n \in otpTask[w].swept => Consumed(w)[n].consumed
         /\ ~(n = otpTask[w].code \/ n \in otpTask[w].swept) => Consumed(w)[n] = otp[n]
<1>. otp[n] \in OtpRecord
  BY Types
<1>1. CASE n = otpTask[w].code
  <2>. DEFINE k == IF otpTask[w].seen = 0 THEN otp[n].attempts ELSE 0
  <2>1. Consumed(w)[n] = [otp[n] EXCEPT !.consumed = TRUE, !.attempts = k]
    BY <1>1 DEF Consumed, OtpRecord
  <2>2. k \in 0..MaxAttempts
    BY OtpAssumption DEF OtpRecord
  <2>. HIDE DEF k
  <2>3. Consumed(w)[n] = [row |-> otp[n].row, attempts |-> k, consumed |-> TRUE,
                          expired |-> otp[n].expired]
    BY <2>1 DEF OtpRecord
  <2>. HIDE DEF Consumed
  <2> QED
    BY <1>1, <2>2, <2>3 DEF OtpRecord
<1>2. CASE n # otpTask[w].code
  BY <1>2, Marked DEF Consumed
<1> QED
  BY <1>1, <1>2

LEMMA CodesStay ==
  ASSUME BaseInv, [OtpNext]_otpVars
  PROVE  CodesKept
<1>. USE DEF BaseInv, CodesKept
<1>0. otp \in [Codes -> OtpRecord] /\ \A n \in Codes : otp[n] \in OtpRecord
  BY DEF OtpTypeOK, OtpRecord
<1>1. ASSUME \/ UNCHANGED <<inTurn, otp, driver>>
             \/ driver' = TRUE /\ UNCHANGED <<inTurn, otp>>
      PROVE  CodesKept
  BY <1>0, <1>1 DEF CodesInOrder, OtpRows
<1>2. ASSUME NEW w \in OtpTasks, RequestCode(w)
      PROVE  CodesKept
  <2>1. PICK k \in 0..MaxCodes : OtpRows = 1..k
    BY DEF CodesInOrder
  <2>2. NextCode = k + 1 /\ k + 1 \in Codes /\ k + 1 \notin OtpRows
    BY <1>2, <2>1, NextIsNew DEF RequestCode
  <2>3. /\ otp' = [otp EXCEPT ![k + 1] = [NoCode EXCEPT !.row = TRUE]]
        /\ UNCHANGED <<inTurn, driver>>
    BY <1>2, <2>2 DEF RequestCode
  <2>4. [NoCode EXCEPT !.row = TRUE] \in OtpRecord /\ [NoCode EXCEPT !.row = TRUE].row
    BY Fresh
  <2>5. MaxAttempts \in Nat /\ MaxCodes \in Nat /\ k \in Nat
    BY OtpAssumption
  <2>6. otp' \in [Codes -> OtpRecord]
    BY <1>0, <2>3, <2>4
  <2>7. otp'[k + 1].row /\ \A n \in Codes : n # k + 1 => otp'[n] = otp[n]
    BY <1>0, <2>2, <2>3, <2>4
  <2>8. OtpRows' = OtpRows \cup {k + 1}
    BY <2>2, <2>7 DEF OtpRows
  <2>9. OtpRows' = 1..(k + 1) /\ k + 1 \in 0..MaxCodes
    BY <2>1, <2>2, <2>5, <2>8 DEF Codes
  <2>10. \A n \in OtpRows : otp'[n] = otp[n]
    BY <2>2, <2>7 DEF OtpRows
  <2> QED
    BY <2>3, <2>6, <2>8, <2>9, <2>10 DEF CodesInOrder
<1>3. ASSUME NEW w \in OtpTasks, Miss(w)
      PROVE  CodesKept
  <2>1. otp' = [otp EXCEPT ![otpTask[w].code] = Missed(w)] /\ UNCHANGED <<inTurn, driver>>
    BY <1>3 DEF Miss
  <2>2. /\ otpTask[w].code \in OtpRows /\ otpTask[w].code \in Codes
        /\ otpTask[w].seen \in Nat /\ otpTask[w].seen < MaxAttempts
    BY <1>3, Types DEF Miss, TasksHoldCodes, OtpRows, TaskRecord
  <2>3. Missed(w) \in OtpRecord
    BY <1>0, <2>2, OtpAssumption DEF Missed, OtpRecord
  <2>4. otp' \in [Codes -> OtpRecord]
    BY <1>0, <2>1, <2>3
  <2>5. \A n \in Codes : otp'[n].row = otp[n].row /\ otp'[n].consumed = otp[n].consumed
    BY <1>0, <2>1, <2>2 DEF Missed, OtpRecord
  <2>6. OtpRows' = OtpRows
    BY <2>5 DEF OtpRows
  <2> QED
    BY <2>1, <2>4, <2>5, <2>6 DEF CodesInOrder
<1>4. ASSUME NEW w \in OtpTasks, LogIn(w)
      PROVE  CodesKept
  <2>1. otp' = Consumed(w) /\ UNCHANGED <<inTurn, driver>>
    BY <1>4 DEF LogIn
  <2>2. \A n \in Codes : /\ otp'[n] \in OtpRecord
                         /\ otp'[n].row = otp[n].row
                         /\ otp[n].consumed => otp'[n].consumed
    BY <2>1, ConsumedShape
  <2>3. otp' \in [Codes -> OtpRecord]
    <3>1. otp' = [n \in Codes |-> otp'[n]]
      BY <2>1 DEF Consumed
    <3> QED
      BY <2>2, <3>1
  <2>4. OtpRows' = OtpRows
    BY <2>2 DEF OtpRows
  <2>5. inTurn' = inTurn /\ driver' = driver
    BY <2>1
  <2> QED
    BY <2>2, <2>3, <2>4, <2>5 DEF CodesInOrder, OtpRows
<1>5. ASSUME NEW n \in Codes, ExpireCode(n)
      PROVE  CodesKept
  <2>1. otp' = [otp EXCEPT ![n].expired = TRUE] /\ UNCHANGED <<inTurn, driver>>
    BY <1>5 DEF ExpireCode
  <2>2. \A m \in Codes : /\ otp'[m] \in OtpRecord
                         /\ otp'[m].row = otp[m].row
                         /\ otp'[m].consumed = otp[m].consumed
    BY <1>0, <2>1 DEF OtpRecord
  <2>3. otp' \in [Codes -> OtpRecord] /\ OtpRows' = OtpRows
    BY <1>0, <2>1, <2>2 DEF OtpRows
  <2> QED
    BY <2>1, <2>2, <2>3 DEF CodesInOrder
<1>6. CASE UNCHANGED otpVars
  BY <1>1, <1>6 DEF otpVars
<1>7. ASSUME NEW w \in OtpTasks,
             \/ LookUpDriver(w) \/ AddDriver(w) \/ Send(w) \/ Refuse(w) \/ Sweep(w)
             \/ TaskFails(w) \/ \E guess \in {0} \cup Codes : Verify(w, guess)
      PROVE  CodesKept
  BY <1>1, <1>7 DEF LookUpDriver, AddDriver, Send, Refuse, Sweep, TaskFails, Verify, otpVars
<1> QED
  BY <1>2, <1>3, <1>4, <1>5, <1>6, <1>7 DEF OtpNext

(* What steps leave of the tasks.                                          *)
TasksKept ==
  /\ otpTask' \in [OtpTasks -> TaskRecord]
  /\ TasksHoldCodes' /\ OneAtATime'

LEMMA OneTaskStep ==
  ASSUME BaseInv, CodesKept, NEW w \in OtpTasks, NEW p, NEW n, NEW s, NEW S,
         TaskGoes(w, p, n, s, S),
         [pc |-> p, code |-> n, seen |-> s, swept |-> S] \in TaskRecord,
         p = "idle" => [pc |-> p, code |-> n, seen |-> s, swept |-> S] = NoOtpTask,
         p # "idle" => n \in OtpRows' /\ (otpTask[w].pc # "idle" \/ MayAnswer(w)),
         p \in {"match", "miss", "commit"} => s < MaxAttempts
  PROVE  TasksKept
<1>1. /\ otpTask'[w] = [pc |-> p, code |-> n, seen |-> s, swept |-> S]
      /\ otpTask'[w].pc = p /\ otpTask'[w].code = n /\ otpTask'[w].seen = s
      /\ \A v \in OtpTasks : v # w => otpTask'[v] = otpTask[v]
      /\ otpTask' \in [OtpTasks -> TaskRecord]
  BY TaskFields DEF BaseInv
<1>2. TasksHoldCodes'
  <2>. SUFFICES ASSUME NEW v \in OtpTasks
                PROVE  /\ otpTask'[v].pc = "idle" => otpTask'[v] = NoOtpTask
                       /\ otpTask'[v].pc # "idle" => otpTask'[v].code \in OtpRows'
                       /\ otpTask'[v].pc \in {"match", "miss", "commit"}
                            => otpTask'[v].seen < MaxAttempts
    BY DEF TasksHoldCodes, NoOtpTask
  <2>1. CASE v = w
    BY <1>1, <2>1
  <2>2. CASE v # w
    BY <1>1, <2>2 DEF BaseInv, TasksHoldCodes, CodesKept
  <2> QED
    BY <2>1, <2>2
<1>3. OneAtATime'
  <2>. SUFFICES ASSUME inTurn, NEW u \in OtpTasks, NEW v \in OtpTasks,
                       otpTask'[u].pc # "idle", otpTask'[v].pc # "idle"
                PROVE  u = v
    BY DEF OneAtATime, CodesKept
  <2>1. otpTask[w].pc # "idle" => \A x \in OtpTasks : otpTask[x].pc # "idle" => x = w
    BY DEF BaseInv, OneAtATime
  <2>2. MayAnswer(w) => \A x \in OtpTasks : otpTask[x].pc = "idle"
    BY DEF MayAnswer, NoOtpTask
  <2>3. p = "idle" => \A x, y \in OtpTasks :
                         otpTask[x].pc # "idle" /\ otpTask[y].pc # "idle" => x = y
    BY DEF BaseInv, OneAtATime
  <2>4. CASE p = "idle"
    BY <1>1, <2>3, <2>4
  <2>5. CASE p # "idle"
    BY <1>1, <2>1, <2>2, <2>5
  <2> QED
    BY <2>4, <2>5
<1> QED
  BY <1>1, <1>2, <1>3 DEF TasksKept

LEMMA EndsTask ==
  ASSUME BaseInv, CodesKept, NEW w \in OtpTasks, Ends(w)
  PROVE  TasksKept
<1>1. [pc |-> "idle", code |-> 0, seen |-> 0, swept |-> {}] \in TaskRecord
  BY OtpAssumption DEF TaskRecord
<1> QED
  BY <1>1, OneTaskStep DEF Ends, NoOtpTask

LEMMA TasksStay ==
  ASSUME BaseInv, [OtpNext]_otpVars
  PROVE  TasksKept
<1>1. CodesKept /\ OtpTypeOK
  BY CodesStay DEF BaseInv
<1>2. ASSUME UNCHANGED otpTask
      PROVE  TasksKept
  BY <1>1, <1>2 DEF BaseInv, OtpTypeOK, TaskRecord, CodesKept, TasksKept, TasksHoldCodes, OneAtATime
<1>3. ASSUME NEW w \in OtpTasks, Send(w) \/ Miss(w) \/ LogIn(w) \/ TaskFails(w)
      PROVE  TasksKept
  BY <1>1, <1>3, Moves, EndsTask
<1>4. ASSUME NEW w \in OtpTasks, RequestCode(w)
      PROVE  TasksKept
  <2>1. TaskGoes(w, "look_up", NextCode, 0, {}) /\ MayAnswer(w)
    BY <1>1, <1>4, Moves DEF RequestCode
  <2>2. NextCode \in Codes
    BY <1>4, NextIsNew DEF BaseInv, CodesInOrder, RequestCode
  <2>3. NextCode \in OtpRows'
    <3>1. otp'[NextCode].row
      BY <1>1, <1>4, <2>2, Types, Fresh DEF RequestCode
    <3> QED
      BY <2>2, <3>1 DEF OtpRows
  <2>4. [pc |-> "look_up", code |-> NextCode, seen |-> 0, swept |-> {}] \in TaskRecord
    BY <2>2, OtpAssumption DEF TaskRecord
  <2> QED
    BY <1>1, <2>1, <2>3, <2>4, OneTaskStep
<1>5. ASSUME NEW w \in OtpTasks, LookUpDriver(w) \/ AddDriver(w)
      PROVE  TasksKept
  <2>1. otpTask[w] \in TaskRecord /\ otpTask[w].pc # "idle" /\ otpTask[w].code \in OtpRows'
    BY <1>1, <1>5, Types DEF LookUpDriver, AddDriver, BaseInv, TasksHoldCodes, CodesKept
  <2>2. ASSUME NEW p \in {"send", "add_driver"},
               TaskGoes(w, p, otpTask[w].code, otpTask[w].seen, otpTask[w].swept)
        PROVE  TasksKept
    <3>1. [pc |-> p, code |-> otpTask[w].code, seen |-> otpTask[w].seen,
           swept |-> otpTask[w].swept] \in TaskRecord
      BY <2>1 DEF TaskRecord
    <3> QED
      BY <1>1, <2>1, <2>2, <3>1, OneTaskStep
  <2> QED
    BY <1>1, <1>5, <2>2, Moves, EndsTask
<1>6. ASSUME NEW w \in OtpTasks, NEW guess, Verify(w, guess)
      PROVE  TasksKept
  <2>1. PICK n \in OtpRows, p \in {"match", "miss"} :
          Offered(n) /\ TaskGoes(w, p, n, otp[n].attempts, {}) /\ MayAnswer(w)
    BY <1>1, <1>6, VerifyMoves
  <2>2. n \in Codes /\ n \in OtpRows' /\ otp[n] \in OtpRecord
    BY <1>1, Types DEF OtpRows, CodesKept
  <2>3. [pc |-> p, code |-> n, seen |-> otp[n].attempts, swept |-> {}] \in TaskRecord
    BY <2>2 DEF TaskRecord, OtpRecord
  <2> QED
    BY <1>1, <2>1, <2>2, <2>3, OneTaskStep DEF Offered
<1>7. ASSUME NEW w \in OtpTasks, Sweep(w)
      PROVE  TasksKept
  <2>1. /\ otpTask[w] \in TaskRecord /\ otpTask[w].pc = "match"
        /\ otpTask[w].code \in OtpRows' /\ otpTask[w].seen < MaxAttempts
        /\ Others(otpTask[w].code) \in SUBSET Codes
    BY <1>1, <1>7, Types DEF Sweep, BaseInv, TasksHoldCodes, CodesKept, Others, OtpRows
  <2>2. [pc |-> "commit", code |-> otpTask[w].code, seen |-> otpTask[w].seen,
         swept |-> Others(otpTask[w].code)] \in TaskRecord
    BY <2>1 DEF TaskRecord
  <2>3. TaskGoes(w, "commit", otpTask[w].code, otpTask[w].seen, Others(otpTask[w].code))
    BY <1>1, <1>7, Moves
  <2> QED
    BY <1>1, <2>1, <2>2, <2>3, OneTaskStep
<1>8. CASE UNCHANGED otpVars \/ (\E w \in OtpTasks : Refuse(w)) \/ \E n \in Codes : ExpireCode(n)
  BY <1>2, <1>8 DEF otpVars, Refuse, ExpireCode
<1> QED
  BY <1>3, <1>4, <1>5, <1>6, <1>7, <1>8 DEF OtpNext

LEMMA BaseInit == OtpInit => BaseInv
<1>. SUFFICES ASSUME OtpInit PROVE BaseInv
  OBVIOUS
<1>1. NoOtpTask \in TaskRecord /\ NoCode \in OtpRecord /\ ~NoCode.row /\ MaxCodes \in Nat
  BY OtpAssumption DEF NoOtpTask, TaskRecord, NoCode, OtpRecord
<1>2. OtpRows = {} /\ OtpTypeOK
  BY <1>1 DEF OtpInit, OtpRows, OtpTypeOK, TaskRecord, OtpRecord
<1>3. CodesInOrder
  <2>1. OtpRows = 1..0 /\ 0 \in 0..MaxCodes
    BY <1>1, <1>2
  <2> QED
    BY <2>1 DEF CodesInOrder
<1>4. TasksHoldCodes /\ OneAtATime /\ UsedCodesExist
  BY DEF OtpInit, NoOtpTask, TasksHoldCodes, OneAtATime, UsedCodesExist
<1> QED
  BY <1>2, <1>3, <1>4 DEF BaseInv

LEMMA BaseStep == BaseInv /\ [OtpNext]_otpVars => BaseInv'
<1>. SUFFICES ASSUME BaseInv, [OtpNext]_otpVars PROVE BaseInv'
  OBVIOUS
<1>1. CodesKept /\ TasksKept
  BY CodesStay, TasksStay
<1>2. /\ sent' \subseteq OtpRows' /\ driver' \in BOOLEAN /\ inTurn' \in BOOLEAN
      /\ guesses' \in [Codes -> Nat] /\ logins' \in [Codes -> Nat]
      /\ UsedCodesExist'
  <2>0. OtpTypeOK /\ UsedCodesExist /\ OtpRows \subseteq OtpRows' /\ inTurn' = inTurn
    BY <1>1 DEF BaseInv, CodesKept
  <2>1. CASE UNCHANGED <<driver, sent, guesses, logins>>
    BY <2>0, <2>1 DEF OtpTypeOK, UsedCodesExist
  <2>2. ASSUME NEW w \in OtpTasks, AddDriver(w)
        PROVE  <1>2!:
    BY <2>0, <2>2 DEF AddDriver, OtpTypeOK, UsedCodesExist
  <2>3. ASSUME NEW w \in OtpTasks, Send(w)
        PROVE  <1>2!:
    <3>1. otpTask[w].code \in OtpRows
      BY <2>3 DEF Send, BaseInv, TasksHoldCodes
    <3> QED
      BY <2>0, <2>3, <3>1 DEF Send, OtpTypeOK, UsedCodesExist
  <2>4. ASSUME NEW w \in OtpTasks, Miss(w)
        PROVE  <1>2!:
    <3>1. otpTask[w].code \in OtpRows /\ otpTask[w].code \in Codes
      BY <2>4 DEF Miss, BaseInv, TasksHoldCodes, OtpRows
    <3>2. guesses' = [guesses EXCEPT ![otpTask[w].code] = @ + 1] /\ UNCHANGED <<driver, sent, logins>>
      BY <2>4 DEF Miss
    <3> QED
      BY <2>0, <3>1, <3>2 DEF OtpTypeOK, UsedCodesExist
  <2>5. ASSUME NEW w \in OtpTasks, LogIn(w)
        PROVE  <1>2!:
    <3>1. otpTask[w].code \in OtpRows /\ otpTask[w].code \in Codes
      BY <2>5 DEF LogIn, BaseInv, TasksHoldCodes, OtpRows
    <3>2. /\ logins' \in {logins, [logins EXCEPT ![otpTask[w].code] = @ + 1]}
          /\ UNCHANGED <<driver, sent, guesses>>
      BY <2>5 DEF LogIn
    <3> QED
      BY <2>0, <3>1, <3>2 DEF OtpTypeOK, UsedCodesExist
  <2> QED
    BY <2>1, <2>2, <2>3, <2>4, <2>5 DEF OtpNext, otpVars, RequestCode, LookUpDriver, Verify,
       Refuse, Sweep, TaskFails, ExpireCode
<1> QED
  BY <1>1, <1>2 DEF BaseInv, CodesKept, TasksKept, OtpTypeOK, OtpRecord, TaskRecord

LEMMA BaseInvariance == OtpSpec => []BaseInv
  BY BaseInit, BaseStep, PTL DEF OtpSpec

-----------------------------------------------------------------------------
(* WHAT BECOMES OF A CODE                                                  *)
LEMMA HoldersFinite ==
  ASSUME NEW n
  PROVE  /\ IsFiniteSet(Holders(n)) /\ Cardinality(Holders(n)) \in Nat
         /\ Cardinality(Holders(n)) <= Cardinality(OtpTasks)
         /\ Cardinality(OtpTasks) \in Nat
<1>1. Holders(n) \subseteq OtpTasks
  BY DEF Holders
<1> QED
  BY <1>1, OtpAssumption, FS_Subset, FS_CardinalityType

(* Codes that have logged in keep using up the older ones.                 *)
LEMMA UsedStays ==
  ASSUME BaseInv, LoginUsesUpOlder, CodesKept, NEW n \in Codes, logins[n] > 0
  PROVE  \A m \in 1..n : otp'[m].consumed
<1>1. n \in OtpRows
  BY DEF BaseInv, UsedCodesExist, OtpTypeOK
<1>2. \A m \in 1..n : m \in OtpRows
  BY <1>1 DEF BaseInv, CodesInOrder, Codes
<1> QED
  BY <1>2 DEF LoginUsesUpOlder, CodesKept

LEMMA SoundTaskStep ==
  ASSUME BaseInv, SoundInv, CodesKept, logins' = logins,
         NEW w \in OtpTasks, NEW p, NEW n, NEW s, NEW S, TaskGoes(w, p, n, s, S),
         p = "send" => driver', sent' # {} => driver',
         p = "commit" => \A m \in Codes : m < n => m \in S,
         p \in {"match", "commit"} => w \in Holders(n) \/ (n \in Codes /\ ~otp[n].consumed)
  PROVE  SoundInv'
<1>1. /\ otpTask'[w].pc = p /\ otpTask'[w].code = n /\ otpTask'[w].swept = S
      /\ \A v \in OtpTasks : v # w => otpTask'[v] = otpTask[v]
  BY Types DEF BaseInv, TaskGoes
<1>2. SendsToDriver'
  BY <1>1 DEF SendsToDriver, SoundInv, CodesKept
<1>3. SentHasDriver'
  BY DEF SentHasDriver
<1>4. SweepsOlder'
  BY <1>1 DEF SweepsOlder, SoundInv
<1>5. LoginUsesUpOlder'
  BY UsedStays DEF LoginUsesUpOlder, SoundInv
<1>6. LoginsAreCounted'
  <2>. SUFFICES ASSUME NEW m \in Codes
                PROVE  IF inTurn
                       THEN logins[m] <= 1 /\ (Holders(m)' # {} => logins[m] = 0)
                       ELSE logins[m] + Cardinality(Holders(m)') <= Cardinality(OtpTasks)
    BY DEF LoginsAreCounted, CodesKept
  <2>1. logins[m] \in Nat
    BY DEF BaseInv, OtpTypeOK
  <2>2. /\ inTurn => logins[m] <= 1 /\ (Holders(m) # {} => logins[m] = 0)
        /\ ~inTurn => logins[m] + Cardinality(Holders(m)) <= Cardinality(OtpTasks)
    BY DEF SoundInv, LoginsAreCounted
  <2>3. CASE p \in {"match", "commit"} /\ m = n /\ ~otp[n].consumed
    <3>1. logins[m] = 0
      <4>1. logins[m] > 0 => otp[m].consumed
        BY DEF SoundInv, LoginUsesUpOlder, Codes
      <4> QED
        BY <2>1, <2>3, <4>1
    <3>2. Holders(m)' \subseteq OtpTasks
      BY DEF Holders
    <3>3. Cardinality(Holders(m)') \in Nat /\ Cardinality(Holders(m)') <= Cardinality(OtpTasks)
      BY <3>2, OtpAssumption, FS_Subset, FS_CardinalityType
    <3> QED
      BY <3>1, <3>3, HoldersFinite
  <2>4. CASE ~(p \in {"match", "commit"} /\ m = n /\ ~otp[n].consumed)
    <3>1. Holders(m)' \subseteq Holders(m)
      BY <1>1, <2>4 DEF Holders
    <3>2. Cardinality(Holders(m)') \in Nat
          /\ Cardinality(Holders(m)') <= Cardinality(Holders(m))
      BY <3>1, HoldersFinite, FS_Subset, FS_CardinalityType
    <3> QED
      BY <2>1, <2>2, <3>1, <3>2, HoldersFinite
  <2> QED
    BY <2>3, <2>4
<1> QED
  BY <1>2, <1>3, <1>4, <1>5, <1>6 DEF SoundInv

LEMMA SoundLogIn ==
  ASSUME BaseInv, SoundInv, CodesKept, NEW w \in OtpTasks, LogIn(w)
  PROVE  SoundInv'
<1>. DEFINE c == otpTask[w].code
<1>0. OtpTypeOK /\ c \in Codes /\ c \in OtpRows /\ otpTask[w].pc = "commit"
  BY DEF LogIn, BaseInv, TasksHoldCodes, OtpRows
<1>1. /\ otpTask'[w].pc = "idle"
      /\ \A v \in OtpTasks : v # w => otpTask'[v] = otpTask[v]
  <2>1. TaskGoes(w, "idle", 0, 0, {})
    BY <1>0, Moves DEF Ends
  <2> QED
    BY <1>0, <2>1, Types DEF TaskGoes
<1>2. /\ logins' \in {logins, [logins EXCEPT ![c] = @ + 1]}
      /\ UNCHANGED <<driver, sent, inTurn>> /\ otp' = Consumed(w)
  BY DEF LogIn
<1>3. \A m \in Codes : /\ logins[m] \in Nat /\ logins'[m] \in {logins[m], logins[m] + 1}
                       /\ m # c => logins'[m] = logins[m]
  BY <1>0, <1>2 DEF OtpTypeOK
<1>4. SendsToDriver' /\ SentHasDriver' /\ SweepsOlder'
  BY <1>1, <1>2 DEF SendsToDriver, SentHasDriver, SweepsOlder, SoundInv
<1>. HIDE DEF c
<1>5. LoginUsesUpOlder'
  <2>. SUFFICES ASSUME NEW n \in Codes, logins'[n] > 0, NEW m \in 1..n
                PROVE  otp'[m].consumed
    BY DEF LoginUsesUpOlder
  <2>1. CASE logins[n] > 0
    BY <2>1, UsedStays DEF SoundInv
  <2>2. CASE n = c
    <3>1. m \in Codes /\ (m = c \/ m < c)
      BY <1>0, <2>2, OtpAssumption DEF Codes
    <3>2. m = c \/ m \in otpTask[w].swept
      BY <1>0, <3>1 DEF SoundInv, SweepsOlder, c
    <3> QED
      BY <1>0, <1>2, <3>1, <3>2, ConsumedShape DEF c
  <2> QED
    BY <1>3, <2>1, <2>2
<1>6. w \in Holders(c) /\ \A m : Holders(m)' \subseteq Holders(m) \ {w}
  BY <1>0, <1>1 DEF Holders, c
<1>7. LoginsAreCounted'
  <2>. SUFFICES ASSUME NEW m \in Codes
                PROVE  IF inTurn
                       THEN logins'[m] <= 1 /\ (Holders(m)' # {} => logins'[m] = 0)
                       ELSE logins'[m] + Cardinality(Holders(m)') <= Cardinality(OtpTasks)
    BY <1>2 DEF LoginsAreCounted
  <2>1. /\ inTurn => logins[m] <= 1 /\ (Holders(m) # {} => logins[m] = 0)
        /\ ~inTurn => logins[m] + Cardinality(Holders(m)) <= Cardinality(OtpTasks)
    BY DEF SoundInv, LoginsAreCounted
  <2>2. /\ IsFiniteSet(Holders(m)) /\ Cardinality(Holders(m)) \in Nat
        /\ Cardinality(OtpTasks) \in Nat
    BY HoldersFinite
  <2>3. CASE inTurn
    <3>1. Holders(m)' = {}
      <4>1. \A v \in OtpTasks : otpTask[v].pc # "idle" => v = w
        BY <1>0, <2>3 DEF BaseInv, OneAtATime
      <4> QED
        BY <1>6, <4>1 DEF Holders
    <3> QED
      BY <1>3, <1>6, <2>1, <2>3, <3>1
  <2>4. CASE ~inTurn /\ m = c
    <3>1. Cardinality(Holders(m) \ {w}) = Cardinality(Holders(m)) - 1
          /\ IsFiniteSet(Holders(m) \ {w})
      BY <1>6, <2>2, <2>4, FS_RemoveElement
    <3>2. Cardinality(Holders(m)') <= Cardinality(Holders(m)) - 1
          /\ Cardinality(Holders(m)') \in Nat
      BY <1>6, <3>1, FS_Subset, FS_CardinalityType
    <3> QED
      BY <1>3, <2>1, <2>2, <2>4, <3>2
  <2>5. CASE ~inTurn /\ m # c
    <3>1. Holders(m)' \subseteq Holders(m)
      BY <1>6
    <3>2. Cardinality(Holders(m)') <= Cardinality(Holders(m))
          /\ Cardinality(Holders(m)') \in Nat
      BY <3>1, <2>2, FS_Subset, FS_CardinalityType
    <3> QED
      BY <1>3, <2>1, <2>2, <2>5, <3>2
  <2> QED
    BY <2>3, <2>4, <2>5
<1> QED
  BY <1>4, <1>5, <1>7 DEF SoundInv

LEMMA SoundStep == BaseInv /\ SoundInv /\ [OtpNext]_otpVars => SoundInv'
<1>. SUFFICES ASSUME BaseInv, SoundInv, [OtpNext]_otpVars PROVE SoundInv'
  OBVIOUS
<1>1. CodesKept /\ OtpTypeOK /\ (sent # {} => driver)
  BY CodesStay DEF BaseInv, SoundInv, SentHasDriver
<1>2. ASSUME NEW w \in OtpTasks, RequestCode(w)
      PROVE  SoundInv'
  BY <1>1, <1>2, Moves, SoundTaskStep DEF RequestCode
<1>3. ASSUME NEW w \in OtpTasks, LookUpDriver(w)
      PROVE  SoundInv'
  <2>1. UNCHANGED <<driver, sent, logins>>
    BY <1>3 DEF LookUpDriver
  <2> QED
    BY <1>1, <1>3, <2>1, Moves, SoundTaskStep
<1>4. ASSUME NEW w \in OtpTasks, AddDriver(w)
      PROVE  SoundInv'
  <2>1. driver' /\ UNCHANGED <<sent, logins>>
    BY <1>4 DEF AddDriver
  <2> QED
    BY <1>1, <1>4, <2>1, Moves, SoundTaskStep DEF Ends
<1>5. ASSUME NEW w \in OtpTasks, Send(w)
      PROVE  SoundInv'
  <2>1. driver' /\ UNCHANGED <<logins>>
    BY <1>5 DEF Send, SoundInv, SendsToDriver
  <2> QED
    BY <1>1, <1>5, <2>1, Moves, SoundTaskStep DEF Ends
<1>6. ASSUME NEW w \in OtpTasks, Miss(w) \/ TaskFails(w)
      PROVE  SoundInv'
  <2>1. UNCHANGED <<driver, sent, logins>>
    BY <1>6 DEF Miss, TaskFails
  <2> QED
    BY <1>1, <1>6, <2>1, Moves, SoundTaskStep DEF Ends
<1>7. ASSUME NEW w \in OtpTasks, NEW guess, Verify(w, guess)
      PROVE  SoundInv'
  <2>1. PICK n \in OtpRows, p \in {"match", "miss"} :
          /\ Offered(n) /\ TaskGoes(w, p, n, otp[n].attempts, {})
          /\ UNCHANGED <<driver, sent, logins>>
    BY <1>1, <1>7, VerifyMoves
  <2>2. n \in Codes /\ ~otp[n].consumed
    BY <2>1 DEF OtpRows, Offered
  <2> QED
    BY <1>1, <2>1, <2>2, SoundTaskStep
<1>8. ASSUME NEW w \in OtpTasks, Sweep(w)
      PROVE  SoundInv'
  <2>1. otpTask[w].pc = "match" /\ UNCHANGED <<driver, sent, logins>>
    BY <1>8 DEF Sweep
  <2>2. otpTask[w].code \in OtpRows /\ w \in Holders(otpTask[w].code)
    BY <2>1 DEF BaseInv, TasksHoldCodes, Holders
  <2>3. \A m \in Codes : m < otpTask[w].code => m \in Others(otpTask[w].code)
    BY <2>2 DEF BaseInv, CodesInOrder, Others, Codes
  <2>4. TaskGoes(w, "commit", otpTask[w].code, otpTask[w].seen, Others(otpTask[w].code))
    BY <1>1, <1>8, Moves
  <2> QED
    BY <1>1, <2>1, <2>2, <2>3, <2>4, SoundTaskStep
<1>9. ASSUME NEW w \in OtpTasks, LogIn(w)
      PROVE  SoundInv'
  BY <1>1, <1>9, SoundLogIn
<1>10. CASE UNCHANGED otpVars \/ (\E w \in OtpTasks : Refuse(w)) \/ \E n \in Codes : ExpireCode(n)
  <2>1. UNCHANGED <<inTurn, driver, sent, otpTask, logins>>
    BY <1>10 DEF otpVars, Refuse, ExpireCode
  <2>2. LoginUsesUpOlder'
    BY <1>1, <2>1, UsedStays DEF LoginUsesUpOlder, SoundInv
  <2>3. LoginsAreCounted'
    <3>1. \A n : Holders(n)' = Holders(n)
      BY <2>1 DEF Holders
    <3> QED
      BY <2>1, <3>1 DEF LoginsAreCounted, SoundInv
  <2> QED
    BY <2>1, <2>2, <2>3 DEF SoundInv, SendsToDriver, SentHasDriver, SweepsOlder
<1> QED
  BY <1>2, <1>3, <1>4, <1>5, <1>6, <1>7, <1>8, <1>9, <1>10 DEF OtpNext

LEMMA SoundInit == OtpInit => SoundInv
<1>. SUFFICES ASSUME OtpInit PROVE SoundInv
  OBVIOUS
<1>1. \A n : Holders(n) = {}
  BY DEF OtpInit, Holders, NoOtpTask
<1>2. \A n \in Codes : logins[n] = 0
  BY DEF OtpInit
<1>3. LoginsAreCounted
  BY <1>1, <1>2, HoldersFinite DEF LoginsAreCounted
<1> QED
  BY <1>2, <1>3 DEF OtpInit, SoundInv, SendsToDriver, SentHasDriver, SweepsOlder,
     LoginUsesUpOlder, NoOtpTask

(* A code is sent to a driver only, gives out tokens once -- or once for   *)
(* each verification that had read it before the first of them committed   *)
(* -- and leaves neither itself nor an older one behind: request_code and  *)
(* verify_code, whatever their requests raced with or failed at.           *)
THEOREM CodesStaySound == OtpSpec => []CodesAreSound
<1>1. BaseInv /\ SoundInv => CodesAreSound
  <2>. SUFFICES ASSUME BaseInv, SoundInv, NEW n \in Codes
                PROVE  logins[n] <= IF inTurn THEN 1 ELSE Cardinality(OtpTasks)
    BY DEF CodesAreSound, CodeLogsInOnce, SoundInv
  <2>1. logins[n] \in Nat /\ Cardinality(Holders(n)) \in Nat /\ Cardinality(OtpTasks) \in Nat
    BY HoldersFinite DEF BaseInv, OtpTypeOK
  <2> QED
    BY <2>1 DEF SoundInv, LoginsAreCounted
<1> QED
  BY <1>1, BaseInit, BaseStep, SoundInit, SoundStep, PTL DEF OtpSpec

-----------------------------------------------------------------------------
(* HOW OFTEN A CODE ANSWERS                                                *)
LEMMA MostAhead ==
  /\ MaxAttempts \in Nat /\ Most \in Nat /\ Ahead(0) \in Nat
  /\ Ahead(0) + 2 * MaxAttempts = Most
<1>1. MaxAttempts \in Nat /\ MaxAttempts >= 1
  BY OtpAssumption
<1>2. Ahead(0) + 2 * MaxAttempts = Most
  BY <1>1 DEF Ahead, Most
<1>3. Ahead(0) \in Nat
  BY <1>1 DEF Ahead
<1> QED
  BY <1>1, <1>2, <1>3

LEMMA AheadIsNat ==
  ASSUME NEW s \in 0..MaxAttempts
  PROVE  Ahead(s) \in Nat
<1>1. MaxAttempts - s \in Nat
  BY OtpAssumption
<1> QED
  BY <1>1 DEF Ahead

LEMMA AheadOfNext ==
  ASSUME NEW s \in 0..MaxAttempts, s < MaxAttempts
  PROVE  Ahead(s) = Ahead(s + 1) + 2 * (MaxAttempts - s) /\ Ahead(s) >= 2
<1>. DEFINE x == MaxAttempts - s
<1>1. x \in Nat /\ x >= 1 /\ MaxAttempts - (s + 1) = x - 1 /\ s + 1 \in 0..MaxAttempts
  BY OtpAssumption
<1>2. Ahead(s) = x * (x + 1) /\ Ahead(s + 1) = (x - 1) * (x - 1 + 1)
  BY <1>1 DEF Ahead
<1>. HIDE DEF x
<1>3. x * (x + 1) = (x - 1) * (x - 1 + 1) + 2 * x
  BY <1>1
<1>4. (x - 1) * (x - 1 + 1) \in Nat
  BY <1>1
<1> QED
  BY <1>1, <1>2, <1>3, <1>4 DEF x

LEMMA AheadOfLater ==
  ASSUME NEW s \in 0..MaxAttempts, NEW t \in 0..MaxAttempts, s < t
  PROVE  Ahead(t) + 2 * (t - s) <= Ahead(s)
<1>. DEFINE x == MaxAttempts - t
            d == t - s
<1>1. x \in Nat /\ d \in Nat /\ d >= 1 /\ MaxAttempts - s = x + d
  BY OtpAssumption
<1>2. Ahead(t) = x * (x + 1) /\ Ahead(s) = (x + d) * (x + d + 1)
  BY <1>1 DEF Ahead
<1>. HIDE DEF x, d
<1>3. (x + d) * (x + d + 1) = x * (x + 1) + 2 * (x * d) + d * d + d
  BY <1>1
<1>4. x * d \in Nat /\ x * (x + 1) \in Nat /\ d * d >= d /\ d * d \in Nat
  BY <1>1
<1>5. x * (x + 1) + 2 * d <= (x + d) * (x + d + 1)
  BY <1>1, <1>3, <1>4
<1> QED
  BY <1>2, <1>5 DEF d

(* What a step does to one code.                                           *)
GuessersStay(n) ==
  /\ Guessing(n)' \subseteq Guessing(n)
  /\ \A v \in Guessing(n)' : otpTask'[v].seen = otpTask[v].seen

NumbersStay(n) ==
  /\ otp'[n].attempts = otp[n].attempts /\ otp'[n].consumed = otp[n].consumed
  /\ guesses'[n] = guesses[n]

Stays(n) == NumbersStay(n) /\ GuessersStay(n)

IsNew(n) ==
  /\ otp'[n].attempts = 0 /\ ~otp'[n].consumed /\ guesses'[n] = 0
  /\ Guessing(n)' = {}

Joins(w, n) ==
  /\ NumbersStay(n) /\ ~otp[n].consumed
  /\ otpTask'[w].seen = otp[n].attempts
  /\ Guessing(n)' \subseteq Guessing(n) \cup {w}
  /\ \A v \in Guessing(n)' : v # w => otpTask'[v].seen = otpTask[v].seen

Misses(w, n) ==
  /\ w \in Guessing(n)
  /\ guesses'[n] = guesses[n] + 1 /\ otp'[n].attempts = otpTask[w].seen + 1
  /\ otp'[n].consumed = otp[n].consumed
  /\ GuessersStay(n) /\ w \notin Guessing(n)'

IsUsedUp(w, n) ==
  /\ otp'[n].consumed /\ guesses'[n] = guesses[n]
  /\ GuessersStay(n)
  /\ otpTask[w].pc # "idle" /\ w \notin Guessing(n)

LEMMA GuessersLeave ==
  ASSUME OtpTypeOK, NEW w \in OtpTasks, NEW p, NEW m, NEW s, NEW S, TaskGoes(w, p, m, s, S),
         NEW n, p = "miss" => m # n
  PROVE  GuessersStay(n) /\ w \notin Guessing(n)'
<1>1. /\ otpTask'[w].pc = p /\ otpTask'[w].code = m
      /\ \A v \in OtpTasks : v # w => otpTask'[v] = otpTask[v]
  BY Types DEF TaskGoes
<1> QED
  BY <1>1 DEF GuessersStay, Guessing

LEMMA CodeSteps ==
  ASSUME BaseInv, [OtpNext]_otpVars, NEW n \in Codes
  PROVE  \/ Stays(n) \/ IsNew(n)
         \/ \E w \in OtpTasks : Joins(w, n) \/ Misses(w, n) \/ IsUsedUp(w, n)
<1>0. OtpTypeOK /\ \A m \in Codes : otp[m] \in OtpRecord
  BY Types DEF BaseInv
<1>1. ASSUME UNCHANGED <<otp, guesses>>, NEW w \in OtpTasks, NEW p, NEW m, NEW s, NEW S,
             TaskGoes(w, p, m, s, S), p # "miss"
      PROVE  Stays(n)
  BY <1>0, <1>1, GuessersLeave DEF Stays, NumbersStay
<1>2. ASSUME NEW w \in OtpTasks, RequestCode(w)
      PROVE  Stays(n) \/ IsNew(n)
  <2>1. PICK k \in 0..MaxCodes : OtpRows = 1..k
    BY DEF BaseInv, CodesInOrder
  <2>2. NextCode \in Codes /\ NextCode \notin OtpRows
    BY <1>2, <2>1, NextIsNew DEF RequestCode
  <2>3. /\ otp' = [otp EXCEPT ![NextCode] = [NoCode EXCEPT !.row = TRUE]]
        /\ UNCHANGED guesses /\ TaskGoes(w, "look_up", NextCode, 0, {})
    BY <1>0, <1>2, Moves DEF RequestCode
  <2>4. GuessersStay(n)
    BY <1>0, <2>3, GuessersLeave
  <2>5. CASE n = NextCode
    <3>1. otp'[n] = [NoCode EXCEPT !.row = TRUE]
      BY <1>0, <2>3, <2>5 DEF OtpTypeOK
    <3>2. guesses'[n] = 0
      BY <2>2, <2>3, <2>5 DEF BaseInv, UsedCodesExist
    <3>3. Guessing(n) = {}
      BY <2>2, <2>5 DEF Guessing, BaseInv, TasksHoldCodes
    <3> QED
      BY <2>4, <3>1, <3>2, <3>3, Fresh DEF IsNew, GuessersStay
  <2>6. CASE n # NextCode
    BY <1>0, <2>3, <2>4, <2>6 DEF Stays, NumbersStay, OtpTypeOK
  <2> QED
    BY <2>5, <2>6
<1>3. ASSUME NEW w \in OtpTasks, LookUpDriver(w) \/ AddDriver(w) \/ Send(w) \/ TaskFails(w)
                                 \/ Sweep(w)
      PROVE  Stays(n)
  <2>1. UNCHANGED <<otp, guesses>>
    BY <1>3 DEF LookUpDriver, AddDriver, Send, TaskFails, Sweep
  <2>2. \E p, m, s, S : TaskGoes(w, p, m, s, S) /\ p # "miss"
    BY <1>0, <1>3, Moves DEF Ends
  <2> QED
    BY <1>1, <2>1, <2>2
<1>4. ASSUME NEW w \in OtpTasks, NEW guess, Verify(w, guess)
      PROVE  Stays(n) \/ Joins(w, n)
  <2>1. PICK m \in OtpRows, p \in {"match", "miss"} :
          /\ Offered(m) /\ TaskGoes(w, p, m, otp[m].attempts, {})
          /\ UNCHANGED <<otp, guesses>>
    BY <1>0, <1>4, VerifyMoves
  <2>2. CASE m = n
    <3>1. /\ otpTask'[w].seen = otp[n].attempts
          /\ \A v \in OtpTasks : v # w => otpTask'[v] = otpTask[v]
      BY <1>0, <2>1, <2>2, Types DEF TaskGoes
    <3>2. Guessing(n)' \subseteq Guessing(n) \cup {w}
      BY <3>1 DEF Guessing
    <3>3. \A v \in Guessing(n)' : v # w => otpTask'[v].seen = otpTask[v].seen
      BY <3>1 DEF Guessing
    <3> QED
      BY <2>1, <2>2, <3>1, <3>2, <3>3 DEF Joins, NumbersStay, Offered
  <2>3. CASE m # n
    BY <1>0, <2>1, <2>3, GuessersLeave DEF Stays, NumbersStay
  <2> QED
    BY <2>2, <2>3
<1>5. ASSUME NEW w \in OtpTasks, Miss(w)
      PROVE  Stays(n) \/ Misses(w, n)
  <2>1. /\ GuessersStay(n) /\ w \notin Guessing(n)'
    BY <1>0, <1>5, Moves, GuessersLeave DEF Ends
  <2>2. /\ otpTask[w].code \in Codes /\ otpTask[w].pc = "miss"
        /\ otp' = [otp EXCEPT ![otpTask[w].code] = Missed(w)]
        /\ guesses' = [guesses EXCEPT ![otpTask[w].code] = @ + 1]
    BY <1>5 DEF Miss, BaseInv, TasksHoldCodes, OtpRows
  <2>3. CASE n # otpTask[w].code
    BY <1>0, <2>1, <2>2, <2>3 DEF Stays, NumbersStay, OtpTypeOK
  <2>4. CASE n = otpTask[w].code
    <3>1. otp'[n] = [otp[n] EXCEPT !.attempts = otpTask[w].seen + 1]
          /\ guesses'[n] = guesses[n] + 1
      BY <1>0, <2>2, <2>4 DEF Missed, OtpTypeOK
    <3>2. otp'[n].attempts = otpTask[w].seen + 1 /\ otp'[n].consumed = otp[n].consumed
      BY <1>0, <3>1 DEF OtpRecord
    <3>3. w \in Guessing(n)
      BY <2>2, <2>4 DEF Guessing
    <3> QED
      BY <2>1, <3>1, <3>2, <3>3 DEF Misses
  <2> QED
    BY <2>3, <2>4
<1>6. ASSUME NEW w \in OtpTasks, LogIn(w)
      PROVE  Stays(n) \/ IsUsedUp(w, n)
  <2>1. GuessersStay(n) /\ UNCHANGED guesses /\ otp' = Consumed(w)
    BY <1>0, <1>6, Moves, GuessersLeave DEF Ends, LogIn
  <2>2. otpTask[w].pc = "commit" /\ w \notin Guessing(n)
    BY <1>6 DEF LogIn, Guessing
  <2>3. otp'[n].consumed \/ otp'[n] = otp[n]
    BY <1>0, <2>1, ConsumedShape
  <2> QED
    BY <2>1, <2>2, <2>3 DEF IsUsedUp, Stays, NumbersStay
<1>7. ASSUME NEW m \in Codes, ExpireCode(m)
      PROVE  Stays(n)
  <2>1. otp'[n].attempts = otp[n].attempts /\ otp'[n].consumed = otp[n].consumed
    BY <1>0, <1>7 DEF ExpireCode, OtpRecord, OtpTypeOK
  <2> QED
    BY <1>7, <2>1 DEF ExpireCode, Stays, NumbersStay, GuessersStay, Guessing
<1>8. CASE UNCHANGED otpVars \/ \E w \in OtpTasks : Refuse(w)
  <2>1. UNCHANGED <<otp, otpTask, guesses>>
    BY <1>8 DEF otpVars, Refuse
  <2> QED
    BY <2>1 DEF Stays, NumbersStay, GuessersStay, Guessing
<1> QED
  BY <1>2, <1>3, <1>4, <1>5, <1>6, <1>7, <1>8 DEF OtpNext

(* What is known of the numbers of a code and of those who guess at it.    *)
LEMMA Numbers ==
  ASSUME BaseInv, NEW n \in Codes
  PROVE  /\ guesses[n] \in Nat /\ otp[n].attempts \in 0..MaxAttempts
         /\ otp[n].consumed \in BOOLEAN
         /\ \A w \in Guessing(n) : /\ w \in OtpTasks /\ otpTask[w].pc # "idle"
                                   /\ otpTask[w].seen \in 0..MaxAttempts
                                   /\ otpTask[w].seen < MaxAttempts
<1>1. otp[n] \in OtpRecord /\ guesses[n] \in Nat
  BY Types DEF BaseInv, OtpTypeOK
<1>2. \A w \in Guessing(n) : /\ w \in OtpTasks /\ otpTask[w].pc = "miss"
                             /\ otpTask[w] \in TaskRecord
  BY Types DEF Guessing, BaseInv
<1> QED
  BY <1>1, <1>2 DEF OtpRecord, TaskRecord, BaseInv, TasksHoldCodes

LEMMA TurnsStep == BaseInv /\ TurnsInv /\ [OtpNext]_otpVars => TurnsInv'
<1>. SUFFICES ASSUME BaseInv, TurnsInv, [OtpNext]_otpVars PROVE TurnsInv'
  OBVIOUS
<1>. SUFFICES ASSUME inTurn, NEW n \in Codes PROVE TurnsAreCounted(n)'
  BY CodesStay DEF TurnsInv, CodesKept
<1>1. /\ guesses[n] <= MaxAttempts
      /\ ~otp[n].consumed => guesses[n] <= otp[n].attempts
      /\ \A w \in Guessing(n) : ~otp[n].consumed /\ otpTask[w].seen = otp[n].attempts
  BY DEF TurnsInv, TurnsAreCounted
<1>2. /\ guesses[n] \in Nat /\ otp[n].attempts \in 0..MaxAttempts /\ MaxAttempts \in Nat
      /\ \A w \in Guessing(n) : /\ w \in OtpTasks /\ otpTask[w].pc # "idle"
                                /\ otpTask[w].seen < MaxAttempts
  BY Numbers, OtpAssumption
<1>3. \A v \in Guessing(n), w \in OtpTasks : otpTask[w].pc # "idle" => v = w
  BY <1>2 DEF BaseInv, OneAtATime
<1>4. CASE Stays(n)
  BY <1>1, <1>4 DEF Stays, NumbersStay, GuessersStay, TurnsAreCounted
<1>5. CASE IsNew(n)
  BY <1>2, <1>5 DEF IsNew, TurnsAreCounted
<1>6. ASSUME NEW w \in OtpTasks, Joins(w, n)
      PROVE  TurnsAreCounted(n)'
  BY <1>1, <1>6 DEF Joins, NumbersStay, TurnsAreCounted
<1>7. ASSUME NEW w \in OtpTasks, Misses(w, n)
      PROVE  TurnsAreCounted(n)'
  <2>1. Guessing(n)' = {}
    BY <1>2, <1>3, <1>7 DEF Misses, GuessersStay
  <2>2. /\ guesses'[n] = guesses[n] + 1 /\ otp'[n].attempts = otp[n].attempts + 1
        /\ otp[n].attempts < MaxAttempts /\ guesses[n] <= otp[n].attempts
    BY <1>1, <1>2, <1>7 DEF Misses
  <2>3. guesses'[n] <= MaxAttempts /\ guesses'[n] <= otp'[n].attempts
    BY <1>2, <2>2
  <2> QED
    BY <2>1, <2>3 DEF TurnsAreCounted
<1>8. ASSUME NEW w \in OtpTasks, IsUsedUp(w, n)
      PROVE  TurnsAreCounted(n)'
  <2>1. Guessing(n)' = {}
    BY <1>3, <1>8 DEF IsUsedUp, GuessersStay
  <2> QED
    BY <1>1, <1>8, <2>1 DEF IsUsedUp, TurnsAreCounted
<1> QED
  BY <1>4, <1>5, <1>6, <1>7, <1>8, CodeSteps

(* Nobody but two make requests at the same time.                          *)
TwoTasks == \A u, v, w \in OtpTasks : u = v \/ u = w \/ v = w

LEMMA RaceStep ==
  ASSUME TwoTasks, BaseInv, RaceInv, [OtpNext]_otpVars
  PROVE  RaceInv'
<1>. SUFFICES ASSUME NEW n \in Codes
              PROVE  RoomIsLeft(n)' /\ LaterIsCurrent(n)' /\ LastGuess(n)'
  BY DEF RaceInv
<1>. DEFINE M == MaxAttempts
            g == guesses[n]
            a == otp[n].attempts
<1>1. /\ ~otp[n].consumed =>
           /\ 2 * g + Ahead(a) + 2 * (M - a) <= Most
           /\ \A w \in Guessing(n) : 2 * g + Ahead(otpTask[w].seen) + 2 * (M - a) <= Most
           /\ \A v, w \in Guessing(n) : v # w => a \in {otpTask[v].seen, otpTask[w].seen}
      /\ 2 * g <= Most
      /\ otp[n].consumed => \A v, w \in Guessing(n) : v = w /\ 2 * g + 2 <= Most
  BY DEF RaceInv, RoomIsLeft, LaterIsCurrent, LastGuess, Reach
<1>2. /\ g \in Nat /\ a \in 0..M /\ M \in Nat /\ Most \in Nat
      /\ otp[n].consumed \in BOOLEAN
      /\ \A w \in Guessing(n) : /\ w \in OtpTasks /\ otpTask[w].pc # "idle"
                                /\ otpTask[w].seen \in 0..M /\ otpTask[w].seen < M
  BY Numbers, MostAhead
<1>3. CASE Stays(n)
  BY <1>1, <1>3 DEF Stays, NumbersStay, GuessersStay, RoomIsLeft, LaterIsCurrent, LastGuess, Reach
<1>4. CASE IsNew(n)
  <2>1. Reach(n, 0)' <= Most
    BY <1>4, MostAhead DEF IsNew, Reach
  <2> QED
    BY <1>2, <1>4, <2>1 DEF IsNew, RoomIsLeft, LaterIsCurrent, LastGuess
<1>5. ASSUME NEW w \in OtpTasks, Joins(w, n)
      PROVE  RoomIsLeft(n)' /\ LaterIsCurrent(n)' /\ LastGuess(n)'
  <2>1. /\ otp'[n].attempts = a /\ guesses'[n] = g /\ ~otp[n].consumed /\ ~otp'[n].consumed
        /\ otpTask'[w].seen = a
        /\ \A v \in Guessing(n)' : v # w => v \in Guessing(n) /\ otpTask'[v].seen = otpTask[v].seen
    BY <1>5 DEF Joins, NumbersStay
  <2>2. RoomIsLeft(n)'
    BY <1>1, <2>1 DEF RoomIsLeft, Reach
  <2>3. LaterIsCurrent(n)'
    BY <1>1, <2>1 DEF LaterIsCurrent
  <2>4. LastGuess(n)'
    BY <1>1, <2>1 DEF LastGuess
  <2> QED
    BY <2>2, <2>3, <2>4
<1>6. ASSUME NEW w \in OtpTasks, IsUsedUp(w, n)
      PROVE  RoomIsLeft(n)' /\ LaterIsCurrent(n)' /\ LastGuess(n)'
  <2>1. /\ otp'[n].consumed /\ guesses'[n] = g /\ Guessing(n)' \subseteq Guessing(n)
        /\ w \notin Guessing(n)
    BY <1>6 DEF IsUsedUp, GuessersStay
  <2>2. \A u, v \in Guessing(n) : u = v
    BY <1>2, <2>1 DEF TwoTasks
  <2>3. \A v \in Guessing(n) : 2 * g + 2 <= Most
    <3>. SUFFICES ASSUME NEW v \in Guessing(n), ~otp[n].consumed PROVE 2 * g + 2 <= Most
      BY <1>1, <1>2
    <3>. DEFINE t == otpTask[v].seen
    <3>1. t \in 0..M /\ t < M /\ 2 * g + Ahead(t) + 2 * (M - a) <= Most
      BY <1>1, <1>2
    <3>. HIDE DEF t
    <3>2. Ahead(t) >= 2 /\ Ahead(t) \in Nat
      BY <3>1, AheadOfNext, AheadIsNat
    <3> QED
      BY <1>2, <3>1, <3>2
  <2>4. LastGuess(n)'
    BY <1>1, <2>1, <2>2, <2>3 DEF LastGuess
  <2> QED
    BY <2>1, <2>4 DEF RoomIsLeft, LaterIsCurrent
<1>7. ASSUME NEW w \in OtpTasks, Misses(w, n)
      PROVE  RoomIsLeft(n)' /\ LaterIsCurrent(n)' /\ LastGuess(n)'
  <2>. DEFINE s == otpTask[w].seen
  <2>1. /\ w \in Guessing(n) /\ guesses'[n] = g + 1 /\ otp'[n].attempts = s + 1
        /\ otp'[n].consumed = otp[n].consumed
        /\ \A v \in Guessing(n)' :
             v \in Guessing(n) /\ v # w /\ otpTask'[v].seen = otpTask[v].seen
    BY <1>7 DEF Misses, GuessersStay
  <2>2. \A u, v \in Guessing(n)' : u = v
    BY <1>2, <2>1 DEF TwoTasks
  <2>3. s \in 0..M /\ s < M /\ s \in Nat
    BY <1>2, <2>1
  <2>4. CASE otp[n].consumed
    <3>1. 2 * g + 2 <= Most /\ Guessing(n)' = {}
      BY <1>1, <2>1, <2>4
    <3>2. 2 * guesses'[n] <= Most
      BY <1>2, <2>1, <3>1
    <3> QED
      BY <2>1, <2>4, <3>1, <3>2 DEF RoomIsLeft, LaterIsCurrent, LastGuess
  <2>5. CASE ~otp[n].consumed
    <3>1. 2 * g + Ahead(s) + 2 * (M - a) <= Most
      BY <1>1, <2>1, <2>5
    <3>2. /\ Ahead(s) = Ahead(s + 1) + 2 * (M - s) /\ Ahead(s) >= 2
          /\ Ahead(s) \in Nat /\ Ahead(s + 1) \in Nat
      <4>. HIDE DEF s
      <4>1. s + 1 \in 0..M
        BY <1>2, <2>3
      <4> QED
        BY <2>3, <4>1, AheadOfNext, AheadIsNat
    <3>3. Reach(n, otp[n].attempts)' <= Most
      <4>1. 2 * (g + 1) + Ahead(s + 1) + 2 * (M - (s + 1)) <= Most
        <5>. HIDE DEF s, g, a, M
        <5> QED
          BY <1>2, <2>3, <3>1, <3>2
      <4> QED
        BY <2>1, <4>1 DEF Reach
    <3>4. ASSUME NEW v \in Guessing(n)'
          PROVE  Reach(n, otpTask[v].seen)' <= Most
      <4>. DEFINE t == otpTask[v].seen
      <4>1. /\ v \in Guessing(n) /\ v # w /\ otpTask'[v].seen = t
            /\ t \in 0..M /\ 2 * g + Ahead(t) + 2 * (M - a) <= Most
            /\ a = t \/ a = s
        BY <1>1, <1>2, <2>1, <2>5
      <4>. HIDE DEF t
      <4>2. 2 * (g + 1) + Ahead(t) + 2 * (M - (s + 1)) <= Most
        <5>1. s < t => Ahead(t) + 2 * (t - s) <= Ahead(s)
          <6>. HIDE DEF s
          <6> QED
            BY <2>3, <4>1, AheadOfLater
        <5>2. Ahead(t) \in Nat
          BY <4>1, AheadIsNat
        <5>. HIDE DEF s, g, a, M
        <5>3. CASE a = s
          BY <1>2, <2>3, <4>1, <5>2, <5>3
        <5>4. CASE a = t /\ t <= s
          BY <1>2, <2>3, <4>1, <5>2, <5>4
        <5>5. CASE a = t /\ s < t
          BY <1>2, <2>3, <3>1, <3>2, <4>1, <5>1, <5>2, <5>5
        <5> QED
          BY <1>2, <2>3, <4>1, <5>3, <5>4, <5>5
      <4> QED
        BY <2>1, <4>1, <4>2 DEF Reach
    <3>5. RoomIsLeft(n)'
      BY <2>1, <3>3, <3>4 DEF RoomIsLeft
    <3>6. LaterIsCurrent(n)'
      BY <2>2 DEF LaterIsCurrent
    <3>7. LastGuess(n)'
      <4>1. 2 * (g + 1) <= Most
        <5>. HIDE DEF s, g, a, M
        <5> QED
          BY <1>2, <2>3, <3>1, <3>2
      <4> QED
        BY <2>1, <2>5, <4>1 DEF LastGuess
    <3> QED
      BY <3>5, <3>6, <3>7
  <2> QED
    BY <1>2, <2>4, <2>5
<1> QED
  BY <1>3, <1>4, <1>5, <1>6, <1>7, CodeSteps

LEMMA GuessInit == OtpInit => TurnsInv /\ RaceInv
<1>. SUFFICES ASSUME OtpInit, NEW n \in Codes
              PROVE  TurnsAreCounted(n) /\ RoomIsLeft(n) /\ LaterIsCurrent(n) /\ LastGuess(n)
  BY DEF TurnsInv, RaceInv
<1>1. Guessing(n) = {} /\ guesses[n] = 0 /\ otp[n] = NoCode
  BY DEF OtpInit, Guessing, NoOtpTask
<1>2. NoCode.attempts = 0
  BY DEF NoCode
<1>3. Reach(n, 0) <= Most
  BY <1>1, <1>2, MostAhead DEF Reach
<1> QED
  BY <1>1, <1>2, <1>3, MostAhead DEF TurnsAreCounted, RoomIsLeft, LaterIsCurrent, LastGuess

(* verify_code reads the attempts of a code before an await and writes     *)
(* them after it.  Requests that wait for one another get no more than     *)
(* otp_max_attempts wrong guesses out of a code, and two at a time no more *)
(* than the sum of what either may still try for each value of the         *)
(* counter: a slow guess takes the counter back, but not for ever.         *)
THEOREM GuessesRunOut ==
  ASSUME TwoTasks
  PROVE  OtpSpec => []GuessesBounded
<1>1. BaseInv /\ TurnsInv /\ RaceInv => GuessesBounded
  <2>. SUFFICES ASSUME BaseInv, TurnsInv, RaceInv, NEW n \in Codes
                PROVE  guesses[n] <= IF inTurn THEN MaxAttempts
                                     ELSE (((MaxAttempts + 1) * (MaxAttempts + 2)) \div 2) - 1
    BY DEF GuessesBounded
  <2>1. guesses[n] \in Nat /\ MaxAttempts \in Nat
    BY Numbers, OtpAssumption
  <2>2. CASE inTurn
    BY <2>2 DEF TurnsInv, TurnsAreCounted
  <2>3. CASE ~inTurn
    <3>. DEFINE P == (MaxAttempts + 1) * (MaxAttempts + 2)
    <3>1. 2 * guesses[n] <= P - 2 /\ P \in Nat
      BY <2>1 DEF RaceInv, LastGuess, Most
    <3>. HIDE DEF P
    <3>2. guesses[n] <= (P \div 2) - 1
      BY <2>1, <3>1
    <3> QED
      BY <2>3, <3>2 DEF P
  <2> QED
    BY <2>2, <2>3
<1>2. BaseInv /\ TurnsInv /\ RaceInv /\ [OtpNext]_otpVars => (BaseInv /\ TurnsInv /\ RaceInv)'
  BY BaseStep, TurnsStep, RaceStep
<1> QED
  BY <1>1, <1>2, BaseInit, GuessInit, PTL DEF OtpSpec
=============================================================================
