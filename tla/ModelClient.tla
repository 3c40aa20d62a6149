---------------------------- MODULE ModelClient ----------------------------
(***************************************************************************)
(* One call of GetModel.invoke (utils/model.py): the caller hands the      *)
(* request to a worker thread of a ThreadPoolExecutor and waits for its    *)
(* future, with a timeout, in a loop meant to retry with growing pauses.   *)
(*                                                                         *)
(* Time is counted in whole seconds.  A thread that is due runs at most    *)
(* Slack seconds late, and a wait that times out ends strictly after its   *)
(* deadline, as start_time is read before the wait begins.                 *)
(*                                                                         *)
(* The request is external: it may never come back, or end with an answer, *)
(* a rate limit (anthropic.RateLimitError, HTTP 429 or 529), a built-in    *)
(* TimeoutError (which concurrent.futures.TimeoutError is a name of), or   *)
(* any other exception.                                                    *)
(***************************************************************************)
EXTENDS Integers

CONSTANTS
    MaxRetries,  \* max_retries
    Backoff,     \* backoff_factor
    Timeout,     \* timeout, in seconds
    Slack        \* seconds by which a thread that is due can be late

ASSUME ClientAssumption ==
    /\ MaxRetries \in Nat \ {0}
    /\ Backoff \in Nat \ {0}
    /\ Timeout \in Nat \ {0}
    /\ Slack \in Nat \ {0}

VARIABLES
    caller,    \* "waiting", "sleeping", "exiting", "exited", "returned", "none"
    future,    \* "running", or how the request ended
    retries,
    since,     \* when the wait or the pause under way began
    wakeup,    \* when the pause under way is over
    now,       \* seconds since start_time
    requests   \* requests sent by the worker

vars == <<caller, future, retries, since, wakeup, now, requests>>

Outcomes == {"answer", "rate_limit", "timeout", "error"}
Done == {"returned", "none", "exited"}

\* executor.submit sends the only request; the first wait begins at once.
Init ==
    /\ caller = "waiting"
    /\ future = "running"
    /\ retries = 0
    /\ since = 0
    /\ wakeup = 0
    /\ now = 0
    /\ requests = 1

\* The worker's request ends.
Complete ==
    /\ future = "running"
    /\ future' \in Outcomes
    /\ UNCHANGED <<caller, retries, since, wakeup, now, requests>>

\* Mutated form of WaitOver: future.result() waits without a timeout.
WaitNeverOver == FALSE

\* future.result(timeout) raises TimeoutError by itself.
WaitOver == future = "running" /\ now > since + Timeout

\* return future.result(...)
Return ==
    /\ caller = "waiting"
    /\ future = "answer"
    /\ caller' = "returned"
    /\ UNCHANGED <<future, retries, since, wakeup, now, requests>>

\* backoff_factor ** n, written out: the provers know nothing of ^.
Power[n \in Nat] == IF n = 0 THEN 1 ELSE Backoff * Power[n - 1]

\* Mutated form of Pause: the exponent is the number of retries before.
PauseTooShort == Power[retries]

\* The pause before retry number retries + 1.
Pause == Power[retries + 1]

\* Pause and wait again for the same future: the request is not sent again.
Retry ==
    /\ caller' = "sleeping"
    /\ retries' = retries + 1
    /\ since' = now
    /\ wakeup' = now + Pause
    /\ UNCHANGED <<future, now, requests>>

\* fatal_error raises SystemExit inside the "with" of the executor.
Fatal ==
    /\ caller' = "exiting"
    /\ UNCHANGED <<future, retries, since, wakeup, now, requests>>

\* Mutated form of RateLimitTimeLeft: the pause to come is forgotten.
RateLimitTimeLeftNow == now <= Timeout

\* elapsed_time + wait_time > self.timeout fails
RateLimitTimeLeft == now + Pause <= Timeout

HandleRateLimit ==
    /\ caller = "waiting"
    /\ future = "rate_limit"
    /\ \/ RateLimitTimeLeft /\ Retry
       \/ ~RateLimitTimeLeft /\ Fatal

\* Mutated form of TimeoutTimeLeft: only the number of retries is bounded.
TimeoutTimeLeftAlways == TRUE

\* elapsed_time > self.timeout fails
TimeoutTimeLeft == now <= Timeout

\* The wait timed out, or the request raised TimeoutError: one except clause.
HandleTimeout ==
    /\ caller = "waiting"
    /\ WaitOver \/ future = "timeout"
    /\ \/ TimeoutTimeLeft /\ Retry
       \/ ~TimeoutTimeLeft /\ Fatal

HandleError ==
    /\ caller = "waiting"
    /\ future = "error"
    /\ Fatal

\* The pause is over: wait again, or leave the loop and return None.
Wake ==
    /\ caller = "sleeping"
    /\ now >= wakeup
    /\ caller' = IF retries < MaxRetries THEN "waiting" ELSE "none"
    /\ since' = now
    /\ UNCHANGED <<future, retries, wakeup, now, requests>>

\* Leaving the "with" joins the worker: the process ends only after it.
Exit ==
    /\ caller = "exiting"
    /\ future # "running"
    /\ caller' = "exited"
    /\ UNCHANGED <<future, retries, since, wakeup, now, requests>>

\* A second goes by.  The caller is never more than Slack seconds late, and a
\* caller whose future is done runs within the second.
Tick ==
    /\ \/ caller = "waiting" /\ future = "running" /\ now < since + Timeout + Slack
       \/ caller = "sleeping" /\ now < wakeup + Slack
    /\ now' = now + 1
    /\ UNCHANGED <<caller, future, retries, since, wakeup, requests>>

Caller == Return \/ HandleRateLimit \/ HandleTimeout \/ HandleError \/ Wake \/ Exit

Next == Caller \/ Complete \/ Tick

\* The caller's thread runs and time goes by; the request may never end.
Spec == Init /\ [][Next]_vars /\ WF_vars(Caller) /\ WF_vars(Tick)

-----------------------------------------------------------------------------
(* Properties.                                                             *)

\* Type invariant, with the time no call outlasts: the timeout and the
\* longest pause.
TypeOK ==
    /\ caller \in {"waiting", "sleeping", "exiting"} \cup Done
    /\ future \in {"running"} \cup Outcomes
    /\ retries \in 0 .. MaxRetries
    /\ now \in 0 .. (Timeout + Power[MaxRetries] + Slack)
    /\ since \in 0 .. now
    /\ wakeup \in 0 .. (Timeout + Power[MaxRetries])
    /\ requests \in Nat

\* A call that is neither over nor exiting is within its timeout: a pause is
\* begun only if it ends in time.  A request that ended in TimeoutError is
\* the exception, as that handler looks at the time gone by only.
GivesUpInTime ==
    caller \in {"waiting", "sleeping"} /\ future # "timeout" => now <= Timeout + Slack

\* invoke() never falls out of its loop and returns None, which its callers
\* would take for a response, unless the request itself raised TimeoutError:
\* the pauses add up to more than the timeout before retries run out.
NoneOnlyAfterTimeout == caller = "none" => future = "timeout"

\* The retries are in vain: the loop asks the future that has failed again, so
\* that an answer is returned only if none was made.
RetriesInVain == caller = "returned" => future = "answer" /\ retries = 0

\* The call ends, or the process waits for the worker's request alone.
Ends == <>[](caller \in Done \/ (caller = "exiting" /\ future = "running"))

\* What RELEASE.txt and the message "retrying in ..." say: after a pause the
\* request is made again, once for each retry.
RetriesSendRequests == caller = "waiting" => requests = retries + 1
=============================================================================
