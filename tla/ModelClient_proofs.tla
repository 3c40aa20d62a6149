------------------------- MODULE ModelClient_proofs -------------------------
(***************************************************************************)
(* What holds of a call of the model for every number of retries, every    *)
(* backoff factor, every timeout and every lateness of the threads.        *)
(*                                                                         *)
(* The bounds on the time are not inductive: they hold because a retry is  *)
(* made only of a request that has failed for good (VainInv), so that all  *)
(* waits after the first are over at once; and because a pause after a     *)
(* rate limit ends within the timeout, and one after a TimeoutError begins *)
(* within it (InTime).  That the pauses add up is an invariant of its own  *)
(* (PausesAddUp).                                                          *)
(***************************************************************************)
EXTENDS ModelClient, Induction

-----------------------------------------------------------------------------
(* Powers of the backoff factor.                                           *)

LEMMA PowerDef ==
    /\ Power \in [Nat -> Nat \ {0}]
    /\ Power[0] = 1
    /\ \A n \in Nat : Power[n + 1] = Backoff * Power[n]
<1> DEFINE V == Nat \ {0}
           step == [x \in Nat \X V |-> Backoff * x[2]]
<1>0. \A v \in V : Backoff * v \in V
  <2> SUFFICES ASSUME NEW v \in V PROVE Backoff * v \in V
    OBVIOUS
  <2>1. Backoff \in Int /\ v \in Int /\ Backoff >= 1 /\ v >= 1
    BY ClientAssumption
  <2>2. Backoff * v >= 1 /\ Backoff * v \in Int
    BY <2>1
  <2> QED
    BY <2>2
<1>9. 1 \in V
  OBVIOUS
<1> HIDE DEF V
<1>1. /\ 1 \in V
      /\ step \in [Nat \X V -> V]
      /\ \A n \in Nat, v \in V : step[n, v] = Backoff * v
  BY <1>0, <1>9
<1> HIDE DEF step
<1>2. PICK f \in [Nat -> V] : NatRecursion(f, 1, step)
  BY <1>1, NatRecursionDefines
<1>3. f = [n \in Nat |-> IF n = 0 THEN 1 ELSE Backoff * f[n - 1]]
  <2>1. \A n \in Nat : n # 0 => n - 1 \in Nat /\ f[n - 1] \in V
    OBVIOUS
  <2> QED
    BY <1>1, <1>2, <2>1 DEF NatRecursion
<1>4. Power = [n \in Nat |-> IF n = 0 THEN 1 ELSE Backoff * Power[n - 1]]
  BY <1>3, Zenon DEF Power
<1> HIDE DEF Power
<1>5. \A n \in Nat : Power[n + 1] = Backoff * Power[n] /\ Power[0] = 1
  BY <1>4
<1> DEFINE S == {n \in Nat : Power[n] \in V}
<1>6. \A n \in Nat : Power[n] \in V
  <2>1. 0 \in S
    BY <1>1, <1>5
  <2>2. \A n \in Nat : n \in S => n + 1 \in S
    BY <1>0, <1>5
  <2> HIDE DEF S
  <2>3. Nat \subseteq S
    BY <2>1, <2>2, NaturalsInSet
  <2> QED
    BY <2>3 DEF S
<1> QED
  BY <1>4, <1>5, <1>6 DEF V

\* A pause is no longer than the longest.
LEMMA PowerGrows == \A n \in 1 .. MaxRetries : Power[n] <= Power[MaxRetries]
<1> DEFINE S == {n \in Nat : \A m \in 0 .. n : Power[m] <= Power[n]}
<1>1. 0 \in S
  BY PowerDef
<1>2. ASSUME NEW n \in Nat, n \in S PROVE n + 1 \in S
  <2>1. Power[n] \in Nat \ {0} /\ Power[n + 1] = Backoff * Power[n]
    BY PowerDef
  <2>2. Power[n] <= Power[n + 1] /\ Power[n + 1] \in Int
    BY <2>1, ClientAssumption
  <2>3. \A m \in 0 .. n : Power[m] \in Int /\ Power[m] <= Power[n]
    BY <1>2, PowerDef
  <2>4. \A m \in 0 .. n + 1 : Power[m] <= Power[n + 1]
    <3> HIDE DEF S
    <3> QED
      BY <2>1, <2>2, <2>3
  <2> QED
    BY <2>4
<1> HIDE DEF S
<1>3. MaxRetries \in S
  BY <1>1, <1>2, NaturalsInSet, ClientAssumption
<1> QED
  BY <1>3, ClientAssumption DEF S

\* The pauses before the first n retries, added up.
PausesUpTo == Totals(Power)

LEMMA PausesDef ==
    /\ PausesUpTo \in [Nat -> Nat]
    /\ PausesUpTo[0] = 0
    /\ \A n \in Nat : PausesUpTo[n + 1] = PausesUpTo[n] + Power[n + 1]
<1>1. Power \in [Nat -> Nat]
  <2>1. \A n \in Nat : Power[n] \in Nat /\ Power = [m \in Nat |-> Power[m]]
    BY PowerDef
  <2> QED
    BY <2>1, PowerDef
<1> QED
  BY <1>1, TotalsDef DEF PausesUpTo

-----------------------------------------------------------------------------
(* A retry is in vain.                                                     *)

\* A retry is made only for a request that has failed for good: a wait that
\* times out has used up all the time there is, so it is never retried.
VainInv ==
    /\ now \in Nat /\ since \in Nat /\ retries \in Nat
    /\ retries > 0 => future \in {"rate_limit", "timeout"}
    /\ caller = "returned" => future = "answer"

LEMMA VainStep == VainInv /\ [Next]_vars => VainInv'
<1>. SUFFICES ASSUME VainInv, [Next]_vars PROVE VainInv'
  OBVIOUS
<1>. USE ClientAssumption DEF VainInv
<1>1. CASE Return
  BY <1>1 DEF Return
<1>2. CASE HandleRateLimit
  BY <1>2 DEF HandleRateLimit, Retry, Fatal
<1>3. CASE HandleTimeout
  <2>1. CASE future = "timeout"
    BY <1>3, <2>1 DEF HandleTimeout, Retry, Fatal
  <2>2. CASE WaitOver
    <3>1. ~TimeoutTimeLeft
      BY <2>2 DEF WaitOver, TimeoutTimeLeft
    <3>. QED  BY <1>3, <3>1 DEF HandleTimeout, Fatal
  <2>. QED  BY <1>3, <2>1, <2>2 DEF HandleTimeout
<1>4. CASE HandleError
  BY <1>4 DEF HandleError, Fatal
<1>5. CASE Wake
  BY <1>5 DEF Wake
<1>6. CASE Exit
  BY <1>6 DEF Exit
<1>7. CASE Complete
  BY <1>7 DEF Complete
<1>8. CASE Tick
  BY <1>8 DEF Tick
<1>9. CASE UNCHANGED vars
  BY <1>9 DEF vars
<1>. QED
  BY <1>1, <1>2, <1>3, <1>4, <1>5, <1>6, <1>7, <1>8, <1>9 DEF Next, Caller

\* Whatever the parameters, an answer is returned only if no retry was made:
\* the retry loop of GetModel.invoke can only delay the failure.
THEOREM RetriesAreInVain == Spec => []RetriesInVain
<1>1. Init => VainInv
  BY DEF Init, VainInv
<1>2. VainInv => RetriesInVain
  BY DEF VainInv, RetriesInVain
<1>. QED  BY <1>1, <1>2, VainStep, PTL DEF Spec

-----------------------------------------------------------------------------
(* The time a call takes.                                                  *)

Typed ==
    /\ caller \in {"waiting", "sleeping", "exiting"} \cup Done
    /\ future \in {"running"} \cup Outcomes
    /\ requests \in Nat

\* A wait that is not over at once is the first.  A pause after a rate limit ends
\* within the timeout, any other began within it.
InTime ==
    /\ retries \in 0 .. MaxRetries
    /\ now \in Nat /\ since \in 0 .. now /\ wakeup \in Nat
    /\ caller = "waiting" => retries < MaxRetries
    /\ retries = 0 => since = 0 /\ caller # "sleeping"
    /\ wakeup <= Timeout + Power[MaxRetries]
    /\ now <= Timeout + Power[MaxRetries] + Slack
    /\ caller = "sleeping" => now <= wakeup + Slack
    /\ future # "timeout" =>
         /\ caller = "sleeping" => wakeup <= Timeout
         /\ caller \in {"waiting", "sleeping"} => now <= Timeout + Slack

\* However often a rate limit has made the caller pause, the pauses are over, or
\* will be at the end of the one under way.
PausesAddUp ==
    future # "timeout" =>
        /\ caller = "waiting" => PausesUpTo[retries] <= now
        /\ caller = "sleeping" => PausesUpTo[retries] <= wakeup

ClientInv == VainInv /\ Typed /\ InTime /\ PausesAddUp

LEMMA ClientInit == Init => ClientInv
<1> SUFFICES ASSUME Init PROVE ClientInv
  OBVIOUS
<1>1. VainInv /\ Typed
  BY DEF Init, VainInv, Typed
<1>2. Power[MaxRetries] \in Nat \ {0}
  BY PowerDef, ClientAssumption
<1>3. InTime
  BY <1>2, ClientAssumption DEF Init, InTime
<1>4. PausesAddUp
  BY PausesDef DEF Init, PausesAddUp
<1> QED
  BY <1>1, <1>3, <1>4 DEF ClientInv

\* A pause is begun by a caller whose request has ended in a way that leaves time.
LEMMA RetryInv ==
    ASSUME ClientInv, caller = "waiting", Retry,
           \/ future = "rate_limit" /\ RateLimitTimeLeft
           \/ future = "timeout" /\ TimeoutTimeLeft
    PROVE  ClientInv'
<1> USE ClientAssumption DEF ClientInv
<1>1. VainInv'
  BY DEF VainInv, Retry
<1>2. Typed'
  BY DEF Typed, Retry
<1>3. /\ retries \in Nat /\ retries + 1 \in 1 .. MaxRetries
      /\ Power[retries + 1] \in Nat \ {0}
      /\ Power[MaxRetries] \in Nat \ {0}
      /\ Power[retries + 1] <= Power[MaxRetries]
  BY PowerDef, PowerGrows DEF InTime
<1>4. /\ caller' = "sleeping" /\ retries' = retries + 1 /\ since' = now
      /\ wakeup' = now + Power[retries + 1] /\ now' = now /\ future' = future
  BY DEF Retry, Pause
<1>5. /\ future # "timeout" => now + Power[retries + 1] <= Timeout
      /\ now <= Timeout
  BY <1>3 DEF RateLimitTimeLeft, TimeoutTimeLeft, Pause, InTime
<1>6. InTime'
  BY <1>3, <1>4, <1>5 DEF InTime
<1>7. PausesAddUp'
  <2>1. PausesUpTo[retries + 1] = PausesUpTo[retries] + Power[retries + 1]
    BY <1>3, PausesDef
  <2>2. PausesUpTo[retries] \in Nat
    BY <1>3, PausesDef
  <2> QED
    BY <1>3, <1>4, <2>1, <2>2 DEF PausesAddUp, InTime
<1> QED
  BY <1>1, <1>2, <1>6, <1>7

\* A caller that gives up, or has got its answer.
LEMMA EndInv ==
    ASSUME ClientInv, caller' \in {"exiting", "exited", "returned"},
           caller' = "returned" => future = "answer",
           UNCHANGED <<future, retries, since, wakeup, now, requests>>
    PROVE  ClientInv'
  BY DEF ClientInv, VainInv, Typed, InTime, PausesAddUp, Done

\* The pause is over.
LEMMA WakeInv == ClientInv /\ Wake => ClientInv'
<1> SUFFICES ASSUME ClientInv, Wake PROVE ClientInv'
  OBVIOUS
<1> USE ClientAssumption DEF ClientInv, Wake
<1>1. VainInv'
  BY DEF VainInv
<1>2. Typed'
  BY DEF Typed, Done
<1>3. InTime'
  BY PowerDef DEF InTime
<1>4. PausesAddUp'
  <2>1. PausesUpTo[retries] \in Nat
    BY PausesDef DEF InTime
  <2> QED
    BY <2>1 DEF PausesAddUp, InTime
<1> QED
  BY <1>1, <1>2, <1>3, <1>4

\* The request ends; no pause is under way then.
LEMMA CompleteInv == ClientInv /\ Complete => ClientInv'
<1> SUFFICES ASSUME ClientInv, Complete PROVE ClientInv'
  OBVIOUS
<1>1. retries = 0 /\ caller # "sleeping"
  BY DEF ClientInv, VainInv, InTime, Complete
<1> QED
  BY <1>1 DEF ClientInv, VainInv, Typed, InTime, PausesAddUp, Complete

\* A second goes by.
LEMMA TickInv == ClientInv /\ Tick => ClientInv'
<1> SUFFICES ASSUME ClientInv, Tick PROVE ClientInv'
  OBVIOUS
<1> USE ClientAssumption DEF ClientInv, Tick
<1>1. VainInv' /\ Typed'
  BY DEF VainInv, Typed
<1>2. Power[MaxRetries] \in Nat \ {0}
  BY PowerDef
<1>3. retries \in 0 .. MaxRetries /\ PausesUpTo[retries] \in Nat
  BY PausesDef DEF InTime
<1>4. InTime'
  <2>1. CASE caller = "waiting" /\ future = "running" /\ now < since + Timeout + Slack
    <3>1. retries = 0 /\ since = 0
      BY <2>1, <1>3 DEF VainInv, InTime
    <3> QED
      BY <1>2, <2>1, <3>1 DEF InTime
  <2>2. CASE caller = "sleeping" /\ now < wakeup + Slack
    BY <1>2, <2>2 DEF InTime
  <2> QED
    BY <2>1, <2>2
<1>5. PausesAddUp'
  BY <1>3 DEF PausesAddUp, InTime
<1> QED
  BY <1>1, <1>4, <1>5

LEMMA ClientStep == ClientInv /\ [Next]_vars => ClientInv'
<1> SUFFICES ASSUME ClientInv, [Next]_vars PROVE ClientInv'
  OBVIOUS
<1>1. CASE Return
  BY <1>1, EndInv DEF Return
<1>2. CASE HandleRateLimit
  <2>1. CASE RateLimitTimeLeft /\ Retry
    BY <1>2, <2>1, RetryInv DEF HandleRateLimit
  <2>2. CASE Fatal
    BY <2>2, EndInv DEF Fatal
  <2> QED
    BY <1>2, <2>1, <2>2 DEF HandleRateLimit
<1>3. CASE HandleTimeout
  <2>1. CASE future = "timeout" /\ TimeoutTimeLeft /\ Retry
    BY <1>3, <2>1, RetryInv DEF HandleTimeout
  <2>2. CASE Fatal
    BY <2>2, EndInv DEF Fatal
  <2>3. WaitOver => ~TimeoutTimeLeft
    BY ClientAssumption DEF ClientInv, InTime, WaitOver, TimeoutTimeLeft
  <2> QED
    BY <1>3, <2>1, <2>2, <2>3 DEF HandleTimeout
<1>4. CASE HandleError
  BY <1>4, EndInv DEF HandleError, Fatal
<1>5. CASE Wake
  BY <1>5, WakeInv
<1>6. CASE Exit
  BY <1>6, EndInv DEF Exit
<1>7. CASE Complete
  BY <1>7, CompleteInv
<1>8. CASE Tick
  BY <1>8, TickInv
<1>9. CASE UNCHANGED vars
  BY <1>9 DEF vars, ClientInv, VainInv, Typed, InTime, PausesAddUp
<1> QED
  BY <1>1, <1>2, <1>3, <1>4, <1>5, <1>6, <1>7, <1>8, <1>9 DEF Next, Caller

LEMMA ClientAlways == Spec => []ClientInv
  BY ClientInit, ClientStep, PTL DEF Spec

\* No call outlasts its timeout by more than the longest pause.
THEOREM ClientTyped == Spec => []TypeOK
<1>1. ClientInv => TypeOK
  BY PowerDef, ClientAssumption DEF ClientInv, Typed, InTime, TypeOK
<1> QED
  BY <1>1, ClientAlways, PTL

\* Whatever the parameters, a call still under way is within its timeout, unless
\* its request ended in TimeoutError: the handler of rate limits looks ahead, and
\* the one of timeouts has no time left when it is the wait that timed out.
THEOREM GivesUp == Spec => []GivesUpInTime
<1>1. ClientInv => GivesUpInTime
  BY DEF ClientInv, InTime, GivesUpInTime
<1> QED
  BY <1>1, ClientAlways, PTL

\* With the defaults 5, 2 and 60, 2 + 4 + 8 + 16 + 32 is more than 60.
PausesOutlastTimeout == Timeout < PausesUpTo[MaxRetries]

\* The parameters decide whether invoke() can fall out of its loop: it does so
\* only after a TimeoutError of the request itself, if the pauses of all retries
\* add up to more than the timeout.
THEOREM NoneAfterTimeoutOnly ==
    ASSUME PausesOutlastTimeout
    PROVE  Spec => []NoneOnlyAfterTimeout
<1>1. ASSUME ClientInv, NoneOnlyAfterTimeout, [Next]_vars PROVE NoneOnlyAfterTimeout'
  <2> SUFFICES ASSUME caller' = "none" PROVE future' = "timeout"
    BY DEF NoneOnlyAfterTimeout
  <2>1. CASE Wake
    <3> SUFFICES ASSUME future # "timeout" PROVE FALSE
      BY <2>1 DEF Wake
    <3>1. caller = "sleeping" /\ ~(retries < MaxRetries)
      BY <2>1 DEF Wake
    <3>2. retries = MaxRetries /\ wakeup \in Nat /\ wakeup <= Timeout
      BY <1>1, <3>1, ClientAssumption DEF ClientInv, InTime
    <3>3. PausesUpTo[MaxRetries] <= wakeup /\ PausesUpTo[MaxRetries] \in Nat
      BY <1>1, <3>1, <3>2, PausesDef, ClientAssumption DEF ClientInv, PausesAddUp
    <3> QED
      BY <3>2, <3>3, ClientAssumption DEF PausesOutlastTimeout
  <2>2. CASE Complete \/ Tick \/ Exit \/ Return
    BY <1>1, <2>2 DEF NoneOnlyAfterTimeout, Complete, Tick, Exit, Return
  <2>3. CASE HandleRateLimit \/ HandleTimeout \/ HandleError
    BY <2>3 DEF HandleRateLimit, HandleTimeout, HandleError, Retry, Fatal
  <2>4. CASE UNCHANGED vars
    BY <1>1, <2>4 DEF NoneOnlyAfterTimeout, vars
  <2> QED
    BY <1>1, <2>1, <2>2, <2>3, <2>4 DEF Next, Caller
<1>2. Init => NoneOnlyAfterTimeout
  BY DEF Init, NoneOnlyAfterTimeout
<1> QED
  BY <1>1, <1>2, ClientAlways, PTL DEF Spec

\* They do with the defaults of GetModel.__init__.
LEMMA DefaultsOutlastTimeout ==
    ASSUME MaxRetries = 5, Backoff = 2, Timeout = 60
    PROVE  PausesOutlastTimeout
<1>1. /\ Power[0] = 1 /\ Power[0 + 1] = 2 * Power[0] /\ Power[1 + 1] = 2 * Power[1]
      /\ Power[2 + 1] = 2 * Power[2] /\ Power[3 + 1] = 2 * Power[3]
      /\ Power[4 + 1] = 2 * Power[4]
  BY PowerDef, Zenon
<1>2. /\ Power[1] = 2 /\ Power[2] = 4 /\ Power[3] = 8 /\ Power[4] = 16 /\ Power[5] = 32
  BY <1>1
<1>3. /\ PausesUpTo[0] = 0
      /\ PausesUpTo[0 + 1] = PausesUpTo[0] + Power[0 + 1]
      /\ PausesUpTo[1 + 1] = PausesUpTo[1] + Power[1 + 1]
      /\ PausesUpTo[2 + 1] = PausesUpTo[2] + Power[2 + 1]
      /\ PausesUpTo[3 + 1] = PausesUpTo[3] + Power[3 + 1]
      /\ PausesUpTo[4 + 1] = PausesUpTo[4] + Power[4 + 1]
  BY PausesDef
<1> QED
  BY <1>2, <1>3 DEF PausesOutlastTimeout

-----------------------------------------------------------------------------
(* Ends rests on fairness, and TLC checks it.  How long a call can go on is  *)
(* a matter of its steps alone.                                              *)

\* The seconds no call outlasts; and what it has left of them and of its retries,
\* what the caller has to do after them, and the request.
Longest == Timeout + Power[MaxRetries] + Slack
Turn ==
    IF caller = "sleeping" THEN 3
    ELSE IF caller = "waiting" THEN 2
    ELSE IF caller = "exiting" THEN 1 ELSE 0
Left ==
    (Longest - now) + 2 * (MaxRetries - retries) + Turn + (IF future = "running" THEN 1 ELSE 0)

\* Every step takes something off what is left, a natural number: neither waits nor
\* pauses can follow each other for ever.
THEOREM ClientCountsDown ==
    Spec => /\ [](Left \in Nat)
            /\ [][Left' < Left]_vars
<1> USE ClientAssumption
<1>1. /\ Longest \in Nat
      /\ TypeOK => now \in 0 .. Longest /\ retries \in 0 .. MaxRetries
  BY PowerDef DEF TypeOK, Longest
<1> HIDE DEF Longest
<1>2. TypeOK => Left \in Nat
  BY <1>1 DEF Left, Turn
<1>3. ASSUME TypeOK, TypeOK', Next PROVE Left' < Left
  <2>1. /\ now \in 0 .. Longest /\ retries \in 0 .. MaxRetries /\ retries' \in 0 .. MaxRetries
    BY <1>1, <1>3 DEF TypeOK
  <2> USE DEF Left, Turn
  <2>2. CASE Complete
    BY <1>1, <2>1, <2>2 DEF Complete, Outcomes
  <2>3. CASE Tick
    BY <1>1, <2>1, <2>3 DEF Tick
  <2>4. CASE Return \/ Exit
    BY <1>1, <2>1, <2>4 DEF Return, Exit
  <2>5. CASE HandleRateLimit \/ HandleTimeout \/ HandleError
    BY <1>1, <2>1, <2>5 DEF HandleRateLimit, HandleTimeout, HandleError, Retry, Fatal
  <2>6. CASE Wake
    BY <1>1, <2>1, <2>6 DEF Wake
  <2> QED
    BY <1>3, <2>2, <2>3, <2>4, <2>5, <2>6 DEF Next, Caller
<1>4. ClientInv => TypeOK
  BY PowerDef, ClientAssumption DEF ClientInv, Typed, InTime, TypeOK
<1> QED
  BY <1>2, <1>3, <1>4, ClientAlways, PTL DEF Spec
=============================================================================
