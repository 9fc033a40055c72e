------------------------------ MODULE OtpLogin ------------------------------
(***************************************************************************)
(* Login of one driver's phone number by one-time codes: request_otp and   *)
(* verify_otp (app/api/auth.py) over OtpService (otp_service.py).          *)
(*                                                                         *)
(* Codes are numbered in the order they are committed; a guess is the code *)
(* it equals, or 0.  A task runs from one await to the next.  The rate     *)
(* limiters (RateLimit) only decide whether a request gets this far.       *)
(* guesses and logins belong to no part of the program: how many wrong     *)
(* guesses each code has answered, and how often it gave out tokens.       *)
(***************************************************************************)
EXTENDS Naturals, FiniteSets

CONSTANTS
  MaxCodes,    \* bound: codes ever requested
  MaxAttempts, \* settings.otp_max_attempts
  OtpTasks,    \* bound: requests served at a time
  MaxGuesses   \* bound: no guess is taken once a code has answered this many

ASSUME OtpAssumption ==
  MaxCodes \in Nat /\ MaxAttempts \in Nat \ {0} /\ IsFiniteSet(OtpTasks)

VARIABLES
  inTurn,   \* whether requests for this number wait for one another
  otp,      \* table otp_codes: otp[n] is a row, or NoCode
  driver,   \* the number has a row in table drivers
  sent,     \* codes that went out to the phone
  otpTask,
  guesses, logins

otpVars == <<inTurn, otp, driver, sent, otpTask, guesses, logins>>

Codes  == 1..MaxCodes
NoCode == [row |-> FALSE, attempts |-> 0, consumed |-> FALSE, expired |-> FALSE]
NoOtpTask == [pc |-> "idle", code |-> 0, seen |-> 0, swept |-> {}]

OtpRows   == {n \in Codes : otp[n].row}
NextCode  == CHOOSE n \in Codes : ~otp[n].row /\ \A m \in Codes : m < n => otp[m].row
Newest(S) == CHOOSE n \in S : \A m \in S : m <= n
-----------------------------------------------------------------------------
(* Faulty variants, each a plausible slip; nothing in the model uses them. *)
SweepsNewer(n)   == {m \in OtpRows : m > n}           \* OtpCode.id > record.id
Unchecked(n)     == ~otp[n].consumed /\ ~otp[n].expired
StillOffered(n)  == ~otp[n].expired /\ otp[n].attempts < MaxAttempts
SendsAtOnce(w)   == [otpTask[w] EXCEPT !.pc = "send"] \* the driver is added last
KeepsAttempts(w) == [otp[otpTask[w].code] EXCEPT !.attempts = otpTask[w].seen]
-----------------------------------------------------------------------------
OtpInit ==
  /\ inTurn \in BOOLEAN
  /\ otp = [n \in Codes |-> NoCode]
  /\ driver = FALSE /\ sent = {}
  /\ otpTask = [w \in OtpTasks |-> NoOtpTask]
  /\ guesses = [n \in Codes |-> 0] /\ logins = [n \in Codes |-> 0]

MayAnswer(w) ==
  /\ otpTask[w] = NoOtpTask
  /\ inTurn => \A v \in OtpTasks : otpTask[v] = NoOtpTask

(* request_code: a new code is committed, then the driver looked up, added *)
(* if the number is new, and the code sent.                                *)
Requested(w, n) == [NoOtpTask EXCEPT !.pc = "look_up", !.code = n]

RequestCode(w) ==
  /\ MayAnswer(w)
  /\ OtpRows # Codes
  /\ otp' = [otp EXCEPT ![NextCode] = [NoCode EXCEPT !.row = TRUE]]
  /\ otpTask' = [otpTask EXCEPT ![w] = Requested(w, NextCode)]
  /\ UNCHANGED <<inTurn, driver, sent, guesses, logins>>

LookedUp(w) == [otpTask[w] EXCEPT !.pc = IF driver THEN "send" ELSE "add_driver"]

LookUpDriver(w) ==
  /\ otpTask[w].pc = "look_up"
  /\ otpTask' = [otpTask EXCEPT ![w] = LookedUp(w)]
  /\ UNCHANGED <<inTurn, otp, driver, sent, guesses, logins>>

(* drivers.phone is unique: the second of two racing INSERTs raises, and   *)
(* its code is never sent.                                                 *)
AddDriver(w) ==
  /\ otpTask[w].pc = "add_driver"
  /\ driver' = TRUE
  /\ otpTask' = [otpTask EXCEPT ![w] = IF driver THEN NoOtpTask ELSE [@ EXCEPT !.pc = "send"]]
  /\ UNCHANGED <<inTurn, otp, sent, guesses, logins>>

Send(w) ==
  /\ otpTask[w].pc = "send"
  /\ sent' = sent \cup {otpTask[w].code}
  /\ otpTask' = [otpTask EXCEPT ![w] = NoOtpTask]
  /\ UNCHANGED <<inTurn, otp, driver, guesses, logins>>
-----------------------------------------------------------------------------
(* verify_code: of the unconsumed codes, newest first, those expired or    *)
(* used up are passed over, and the first of the others is the only one    *)
(* the guess is compared with.                                             *)
Offered(n) ==
  ~otp[n].consumed /\ ~otp[n].expired /\ otp[n].attempts < MaxAttempts

Usable == {n \in OtpRows : Offered(n)}

Verify(w, guess) ==
  /\ MayAnswer(w)
  /\ Usable # {}
  /\ LET n == Newest(Usable) IN
       /\ guesses[n] < MaxGuesses
       /\ otpTask' = [otpTask EXCEPT ![w] =
            [pc |-> IF n = guess THEN "match" ELSE "miss",
             code |-> n, seen |-> otp[n].attempts, swept |-> {}]]
  /\ UNCHANGED <<inTurn, otp, driver, sent, guesses, logins>>

(* "Invalid or expired OTP": nothing to compare the guess with.            *)
Refuse(w) ==
  /\ MayAnswer(w)
  /\ Usable = {}
  /\ UNCHANGED otpVars

(* record.attempts += 1 on the value that was read.                        *)
Missed(w) == [otp[otpTask[w].code] EXCEPT !.attempts = otpTask[w].seen + 1]

Miss(w) ==
  /\ otpTask[w].pc = "miss"
  /\ otp' = [otp EXCEPT ![otpTask[w].code] = Missed(w)]
  /\ guesses' = [guesses EXCEPT ![otpTask[w].code] = @ + 1]
  /\ otpTask' = [otpTask EXCEPT ![w] = NoOtpTask]
  /\ UNCHANGED <<inTurn, driver, sent, logins>>

(* The UPDATE of the number's other codes finds those that exist now.      *)
Others(n) == OtpRows \ {n}

Sweep(w) ==
  /\ otpTask[w].pc = "match"
  /\ otpTask' = [otpTask EXCEPT ![w].pc = "commit", ![w].swept = Others(otpTask[w].code)]
  /\ UNCHANGED <<inTurn, otp, driver, sent, guesses, logins>>

(* consumed = True, attempts = 0; the ORM writes only what changed.        *)
Consumed(w) ==
  [n \in Codes |->
     IF n = otpTask[w].code
     THEN [otp[n] EXCEPT !.consumed = TRUE, !.attempts = IF otpTask[w].seen = 0 THEN @ ELSE 0]
     ELSE IF n \in otpTask[w].swept THEN [otp[n] EXCEPT !.consumed = TRUE] ELSE otp[n]]

LogIn(w) ==
  /\ otpTask[w].pc = "commit"
  /\ otp' = Consumed(w)
  /\ logins' = IF driver THEN [logins EXCEPT ![otpTask[w].code] = @ + 1] ELSE logins
  /\ otpTask' = [otpTask EXCEPT ![w] = NoOtpTask]
  /\ UNCHANGED <<inTurn, driver, sent, guesses>>

-----------------------------------------------------------------------------
(* Every code lives for otp_ttl_seconds, so the oldest expires first.      *)
ExpireCode(n) ==
  /\ otp[n].row /\ ~otp[n].expired
  /\ \A m \in Codes : m < n => otp[m].expired
  /\ otp' = [otp EXCEPT ![n].expired = TRUE]
  /\ UNCHANGED <<inTurn, driver, sent, otpTask, guesses, logins>>

(* The database or the SMS provider raises; what was committed stays.      *)
TaskFails(w) ==
  /\ otpTask[w] # NoOtpTask
  /\ otpTask' = [otpTask EXCEPT ![w] = NoOtpTask]
  /\ UNCHANGED <<inTurn, otp, driver, sent, guesses, logins>>

OtpNext ==
  \/ \E w \in OtpTasks :
       \/ RequestCode(w) \/ LookUpDriver(w) \/ AddDriver(w) \/ Send(w)
       \/ \E guess \in {0} \cup Codes : Verify(w, guess)
       \/ Refuse(w) \/ Miss(w) \/ Sweep(w) \/ LogIn(w) \/ TaskFails(w)
  \/ \E n \in Codes : ExpireCode(n)

OtpSpec == OtpInit /\ [][OtpNext]_otpVars
-----------------------------------------------------------------------------
OtpTypeOK ==
  /\ {inTurn, driver} \subseteq BOOLEAN
  /\ otp \in [Codes -> [row : BOOLEAN, attempts : 0..MaxAttempts,
                        consumed : BOOLEAN, expired : BOOLEAN]]
  /\ sent \subseteq OtpRows
  /\ otpTask \in [OtpTasks -> [pc : {"idle", "look_up", "add_driver", "send",
                               "match", "miss", "commit"},
                         code : {0} \cup Codes, seen : 0..MaxAttempts,
                         swept : SUBSET Codes]]
  /\ guesses \in [Codes -> Nat] /\ logins \in [Codes -> Nat]

(* A code gives out tokens once.  Only verifications that had read it      *)
(* before the first one committed can repeat that, so requests that wait   *)
(* for one another never do.                                               *)
CodeLogsInOnce ==
  \A n \in Codes : logins[n] <= IF inTurn THEN 1 ELSE Cardinality(OtpTasks)

(* The attempts of a code are read before an await and written after it:   *)
(* a slow wrong guess takes the counter back to what it had read.  One     *)
(* request at a time gets MaxAttempts wrong guesses out of a code; two at  *)
(* a time get more, for each value of the counter the guesses up to the    *)
(* cap and the slow one, and no more than that.                            *)
GuessesBounded ==
  \A n \in Codes :
    guesses[n] <= IF inTurn THEN MaxAttempts
                  ELSE (((MaxAttempts + 1) * (MaxAttempts + 2)) \div 2) - 1

(* Whatever raced, a code that has logged the driver in leaves neither     *)
(* itself nor an older code behind.                                        *)
LoginUsesUpOlder ==
  \A n \in Codes : logins[n] > 0 => \A m \in 1..n : otp[m].consumed

(* Whoever holds a code finds the driver it belongs to: "Driver record     *)
(* missing" is never the answer to a code that was sent, even when two     *)
(* first requests raced for the unique number or one failed half-way.      *)
SentHasDriver == sent # {} => driver

(* What becomes of a code: sent to a driver, good for one login, after     *)
(* which neither it nor an older one is left.                              *)
CodesAreSound == CodeLogsInOnce /\ LoginUsesUpOlder /\ SentHasDriver
=============================================================================
