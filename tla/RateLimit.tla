------------------------------ MODULE RateLimit ------------------------------
(***************************************************************************)
(* RateLimiter.allow (app/core/rate_limit.py) on one key, with the counter *)
(* as RedisStore and MemoryStore keep it (app/core/redis_client.py).       *)
(*                                                                         *)
(* Time passes in ticks.  left is the time to live of the key: the key is  *)
(* gone once it has run out, or never, if it was never set.  taken and     *)
(* quiet belong to no part of the program: the ages of the requests that   *)
(* were let through lately, and the time since the last answer.            *)
(***************************************************************************)
EXTENDS Naturals, Sequences

CONSTANTS
  Limit, Window, \* RateLimiter(store, limit, window_seconds)
  IncrTTL,       \* MemoryStore.incr stores its counter with ex=10
  Workers,       \* bound: requests served at a time
  MaxCount,      \* bound: requests counted before a key expires
  Forever        \* the time to live of a key without one

ASSUME RateLimitAssumption ==
  /\ Limit \in Nat \ {0} /\ Window \in Nat \ {0} /\ IncrTTL \in Nat \ {0}
  /\ MaxCount \in Nat
  /\ Forever \notin Nat

VARIABLES
  store,  \* what get_store() has chosen: "redis" or "memory"
  count,  \* value of the counter; 0: there is no key
  left,   \* ticks until the key expires, or Forever
  h,      \* what each worker is doing
  taken,  \* ages of the requests let through, oldest first
  quiet   \* ticks since the last answer

vars == <<store, count, left, h, taken, quiet>>

-----------------------------------------------------------------------------
(* Faulty variants, each a plausible slip; nothing in the model uses them. *)
OneTooMany(n)   == n <= Limit + 1
FirstRefused(n) == n < Limit
Minutes         == Window \div 60
NeverDue        == Window + IncrTTL + 1             \* exp_at not looked at
-----------------------------------------------------------------------------
Allowed(n) == n <= Limit
IsFirst(n) == n = 1
ExpireTTL  == Window

(* RateLimiter.remaining                                                   *)
Remaining ==
  IF left = Forever \/ count = 0 THEN Limit
  ELSE IF Limit < count THEN 0 ELSE Limit - count

Init ==
  /\ store \in {"redis", "memory"}
  /\ count = 0 /\ left = Forever
  /\ h = [w \in Workers |-> "idle"]
  /\ taken = <<>>
  /\ quiet = 0

LetThrough(n) == taken' = IF Allowed(n) THEN Append(taken, 0) ELSE taken

(* Redis: INCR leaves the time to live alone, and EXPIRE is a second call. *)
IncrRedis(w) ==
  /\ store = "redis"
  /\ h[w] = "idle" /\ count < MaxCount
  /\ count' = count + 1
  /\ LetThrough(count + 1)
  /\ IF IsFirst(count + 1)
     THEN h' = [h EXCEPT ![w] = "expire"] /\ UNCHANGED quiet
     ELSE quiet' = 0 /\ UNCHANGED h
  /\ UNCHANGED <<store, left>>

Expire(w) ==
  /\ h[w] = "expire"
  /\ left' = ExpireTTL
  /\ h' = [h EXCEPT ![w] = "idle"]
  /\ quiet' = 0
  /\ UNCHANGED <<store, count, taken>>

(* MemoryStore: incr always writes with ex=10, nothing suspends the task,  *)
(* and expire overwrites that for the first request only.                  *)
IncrMemory(w) ==
  /\ store = "memory"
  /\ h[w] = "idle" /\ count < MaxCount
  /\ count' = count + 1
  /\ LetThrough(count + 1)
  /\ left' = IF IsFirst(count + 1) THEN ExpireTTL ELSE IncrTTL
  /\ quiet' = 0
  /\ UNCHANGED <<store, h>>

Incr(w) == IncrRedis(w) \/ IncrMemory(w)

(* A worker that dies between the two calls leaves a key for ever.         *)
WorkerDies(w) ==
  /\ h[w] = "expire"
  /\ h' = [h EXCEPT ![w] = "idle"]
  /\ quiet' = 0
  /\ UNCHANGED <<store, count, left, taken>>

(* A Redis key is gone when its time is up, a MemoryStore key one instant  *)
(* later (now > exp_at).  Requests older than Window no longer matter.     *)
LastTick == IF store = "redis" THEN 1 ELSE 0

(* The first k requests let through are as old as a Window now.            *)
Oldest(k) == \A i \in 1..Len(taken) : i <= k <=> taken[i] + 1 >= Window

Aged(k) == [i \in 1..(Len(taken) - k) |-> taken[i + k] + 1]

Tick ==
  /\ IF count # 0 /\ left = LastTick
     THEN count' = 0 /\ left' = Forever
     ELSE /\ left' = IF left = Forever THEN Forever ELSE left - 1
          /\ UNCHANGED count
  /\ \E k \in 0..Len(taken) : Oldest(k) /\ taken' = Aged(k)
  /\ quiet' = IF quiet <= Window + IncrTTL THEN quiet + 1 ELSE quiet
  /\ UNCHANGED <<store, h>>

Next == Tick \/ \E w \in Workers : Incr(w) \/ Expire(w) \/ WorkerDies(w)

Spec == Init /\ [][Next]_vars
-----------------------------------------------------------------------------
AllIdle == \A w \in Workers : h[w] = "idle"

TypeOK ==
  /\ store \in {"redis", "memory"}
  /\ count \in 0..MaxCount
  /\ left \in Nat \cup {Forever}
  /\ h \in [Workers -> {"idle", "expire"}]
  /\ taken \in Seq(Nat)
  /\ quiet \in Nat

(* With Redis, however the requests fall and whatever workers die, no      *)
(* Window ticks let through more than twice the limit: the end of one      *)
(* key's life and the beginning of the next.                               *)
AtMostTwicePerWindow == store = "redis" => Len(taken) <= 2 * Limit

(* A client that has waited for so long that it must be served again: for  *)
(* a Window with Redis, for the longer of the two times to live with       *)
(* MemoryStore.                                                            *)
Patient == AllIdle /\ quiet > Window /\ (store = "memory" => quiet > IncrTTL)

Orphaned == count # 0 /\ left = Forever

(* A patient client is served again, whatever it was refused before and    *)
(* however its requests raced between incr and expire; only the death of a *)
(* worker there, which leaves a key without a time to live, locks it out.  *)
PatientIsServed ==
  [][\A w \in Workers :
       Patient /\ ~Orphaned /\ Incr(w) => taken' = Append(taken, 0)]_vars

(* remaining tells a client that is not being served how many requests     *)
(* allow will still let through, unless the key has lost its time to live: *)
(* then it promises the whole limit.                                       *)
RemainingIsHonest ==
  AllIdle /\ ~Orphaned => (Remaining > 0 <=> Allowed(count + 1))

(* What the limiter promises of its limit: no window gives more than twice *)
(* of it, and remaining does not lie about it.                             *)
LimitIsKept == AtMostTwicePerWindow /\ RemainingIsHonest
=============================================================================
