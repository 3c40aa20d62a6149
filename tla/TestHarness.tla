---------------------------- MODULE TestHarness ----------------------------
(***************************************************************************)
(* A generated C++ test at run time, and what get_coverage_cc makes of it. *)
(*                                                                         *)
(* The unit_test node prescribes the shape of the test (utils/nodes.py):   *)
(* main announces each case with a line "Test case i: ..." and hands it to *)
(* run_with_timeout, which runs it in a detached thread and waits for it   *)
(* with a timeout.  A case that timed out goes on running beside the cases *)
(* that follow.  After a core dump get_coverage_cc comments out the case   *)
(* of the last such line in the log, and the next test, which keeps what   *)
(* is tagged CRASH, runs without it.                                       *)
(*                                                                         *)
(* The model follows a test written as prescribed, in NumCases cases.  The *)
(* functions under test are external: a case may return, throw, hang, end  *)
(* the process, or crash it.  What they return is checked by the case, and *)
(* a check that fails counts the failure before it throws.                 *)
(*                                                                         *)
(* number_of_failures is the global variable that the text on checks calls *)
(* it (one that main declares for itself, as in the example, is none the   *)
(* cases could count in), without a lock.  Counting is a read and a write, *)
(* and the increment of a case that goes on late can come between those of *)
(* main: what the data race does here is that an increment is lost.        *)
(***************************************************************************)
EXTENDS Integers, FiniteSets

CONSTANTS
    NumCases,   \* test cases
    MaxRuns     \* bound: runs of the test considered

ASSUME HarnessAssumption == NumCases \in Nat /\ MaxRuns \in Nat

VARIABLES
    main,      \* "next", "wait", "catch", "count", "exiting"; then how it ended
    cur,       \* the case main is at, or that after the one it has left
    case,      \* what each case does: "none", "running", "failing" (a check),
               \* "returned", "threw" (the function did), "failed" (the check)
    late,      \* cases whose wait timed out
    failures,  \* number_of_failures
    read,      \* what each thread that counts has read of it; main is 0
    printed,   \* the number after "Number of failures:", or None
    said,      \* the case of the last "Test case i:" line in the log
    crashed,   \* the case that dumped core, or None
    blamed,    \* the case get_coverage_cc has found, or None
    masked,    \* cases commented out and tagged CRASH
    runs,      \* runs of the test so far
    dumps,     \* runs of them that dumped core
    slow       \* some case has timed out in one of them

counter == <<failures, read>>
process == <<main, cur, case, late, counter, printed, said, crashed>>
verdict == <<blamed, masked>>
ghosts == <<runs, dumps, slow>>
vars == <<process, verdict, ghosts>>

Cases == 1 .. NumCases
MainThread == 0
None == -1
Garbled == -2   \* a line mixed with one of another thread

Over == {"ended", "dumped", "blamed", "raised"}
Running == {c \in Cases : case[c] = "running"}
Failing == {c \in Cases : case[c] = "failing"}

Init ==
    /\ main = "next"
    /\ cur = 1
    /\ case = [c \in Cases |-> "none"]
    /\ late = {}
    /\ failures = 0
    /\ read = [t \in Cases \cup {MainThread} |-> 0]
    /\ printed = None
    /\ said = None
    /\ crashed = None
    /\ blamed = None
    /\ masked = {}
    /\ runs = 1
    /\ dumps = 0
    /\ slow = FALSE

-----------------------------------------------------------------------------
(* number_of_failures++, in any thread.                                    *)

ReadCounter(t) ==
    /\ read' = [read EXCEPT ![t] = failures]
    /\ UNCHANGED failures

\* Mutated form of Increment: the failure is counted once more where the
\* exception is caught and thrown on.
IncrementTwice(n) == n + 2

Increment(n) == n + 1

WriteCounter(t) ==
    /\ failures' = Increment(read[t])
    /\ read' = [read EXCEPT ![t] = 0]

-----------------------------------------------------------------------------
(* main and run_with_timeout.                                              *)

\* Mutated form of Said: the line is written when the case has completed.
SaidAtTheEnd(c) == {IF c = 1 THEN None ELSE c - 1}

\* The line announcing c.  Each << is one write, and the line break another:
\* a line of a case still running can come in between.
Said(c) == {c} \cup (IF Running = {} THEN {} ELSE {Garbled})

\* Mutated form of IsRun: a CRASH tag is a comment only.
IsRunAlways(c) == TRUE

\* A case tagged CRASH is announced, and throws instead of being run.
IsRun(c) == c \notin masked

\* Main is done with a case, or catches what came of it.
Leave(how) ==
    /\ cur' = cur + 1
    /\ main' = how

\* cout << "Test case cur: ..."; run_with_timeout(test_case_cur)
Start ==
    /\ main = "next"
    /\ cur \in Cases
    /\ said' \in Said(cur)
    /\ \/ /\ IsRun(cur)
          /\ case' = [case EXCEPT ![cur] = "running"]
          /\ main' = "wait"
          /\ UNCHANGED cur
       \/ /\ ~IsRun(cur)
          /\ Leave("catch")
          /\ UNCHANGED case
    /\ UNCHANGED <<late, counter, printed, crashed, verdict, ghosts>>

\* future.get() returns, or rethrows what the case threw.
Join ==
    /\ main = "wait"
    /\ case[cur] \notin {"running", "failing"}
    /\ Leave(IF case[cur] = "returned" THEN "next" ELSE "catch")
    /\ UNCHANGED <<case, late, counter, printed, said, crashed, verdict, ghosts>>

\* Mutated form of MayTimeOut: future.wait() has no timeout.
MayTimeOutNever == FALSE

\* future.wait_for(timeout) may time out as long as the case runs.
MayTimeOut == case[cur] \in {"running", "failing"}

\* Mutated form of AfterTimeOut: the timeout is reported and nothing thrown.
AfterTimeOutNext == "next"

\* throw std::runtime_error("error")
AfterTimeOut == "catch"

TimeOut ==
    /\ main = "wait"
    /\ MayTimeOut
    /\ late' = late \cup {cur}
    /\ slow' = TRUE
    /\ Leave(AfterTimeOut)
    /\ UNCHANGED <<case, counter, printed, said, crashed, verdict, runs, dumps>>

\* catch (...) { number_of_failures++; ... }
CatchReads ==
    /\ main = "catch"
    /\ main' = "count"
    /\ ReadCounter(MainThread)
    /\ UNCHANGED <<cur, case, late, printed, said, crashed, verdict, ghosts>>

CatchWrites ==
    /\ main = "count"
    /\ main' = "next"
    /\ WriteCounter(MainThread)
    /\ UNCHANGED <<cur, case, late, printed, said, crashed, verdict, ghosts>>

\* cout << "Number of failures: " ...; return 0
Count ==
    /\ main = "next"
    /\ cur \notin Cases
    /\ printed' = failures
    /\ main' = "exiting"
    /\ UNCHANGED <<cur, case, late, counter, said, crashed, verdict, ghosts>>

Exit ==
    /\ main = "exiting"
    /\ main' = "ended"
    /\ UNCHANGED <<cur, case, late, counter, printed, said, crashed, verdict, ghosts>>

-----------------------------------------------------------------------------
(* The threads of the cases, until the process ends.                       *)

\* The case returns, or throws what the function has thrown.
Complete(c) ==
    /\ main \notin Over
    /\ c \in Running
    /\ \E how \in {"returned", "threw"} : case' = [case EXCEPT ![c] = how]
    /\ UNCHANGED <<main, cur, late, counter, printed, said, crashed, verdict, ghosts>>

\* A check fails: number_of_failures++; throw std::runtime_error("error").
CheckReads(c) ==
    /\ main \notin Over
    /\ c \in Running
    /\ case' = [case EXCEPT ![c] = "failing"]
    /\ ReadCounter(c)
    /\ UNCHANGED <<main, cur, late, printed, said, crashed, verdict, ghosts>>

CheckWrites(c) ==
    /\ main \notin Over
    /\ c \in Failing
    /\ case' = [case EXCEPT ![c] = "failed"]
    /\ WriteCounter(c)
    /\ UNCHANGED <<main, cur, late, printed, said, crashed, verdict, ghosts>>

\* The function under test calls exit.
Quit(c) ==
    /\ main \notin Over
    /\ c \in Running
    /\ main' = "ended"
    /\ UNCHANGED <<cur, case, late, counter, printed, said, crashed, verdict, ghosts>>

Crash(c) ==
    /\ main \notin Over
    /\ c \in Running
    /\ main' = "dumped"
    /\ crashed' = c
    /\ dumps' = dumps + 1
    /\ UNCHANGED <<cur, case, late, counter, printed, said, verdict, runs, slow>>

-----------------------------------------------------------------------------
(* get_coverage_cc, and the test of the next iteration.                    *)

\* The search for the call of the case raises NameError (verbose) if it finds
\* none: a garbled line is not in the code, and after that of a tagged case
\* comes its tag, where only a description can hold parentheses.
NotFound ==
    /\ said \notin Cases \ masked
    /\ main' = "raised"
    /\ UNCHANGED verdict

\* Comment out the case of the last "Test case i:" line, or leave its tag.
Found ==
    /\ said \in Cases
    /\ blamed' = said
    /\ masked' = masked \cup {said}
    /\ main' = "blamed"

Blame ==
    /\ main = "dumped"
    /\ Found \/ NotFound
    /\ UNCHANGED <<cur, case, late, counter, printed, said, crashed, ghosts>>

\* The next test keeps the cases and their tags.
RunAgain ==
    /\ main \in {"ended", "blamed"}
    /\ runs < MaxRuns
    /\ runs' = runs + 1
    /\ main' = "next"
    /\ cur' = 1
    /\ case' = [c \in Cases |-> "none"]
    /\ late' = {}
    /\ failures' = 0
    /\ read' = [t \in Cases \cup {MainThread} |-> 0]
    /\ printed' = None
    /\ said' = None
    /\ crashed' = None
    /\ blamed' = None
    /\ UNCHANGED <<masked, dumps, slow>>

Main == Start \/ Join \/ TimeOut \/ CatchReads \/ CatchWrites \/ Count \/ Exit
Thread ==
    \E c \in Cases : Complete(c) \/ CheckReads(c) \/ CheckWrites(c) \/ Quit(c) \/ Crash(c)
Next == Main \/ Thread \/ Blame \/ RunAgain

\* main runs and its timeouts expire; a case may hang for ever.
Spec == Init /\ [][Next]_vars /\ WF_vars(Main) /\ WF_vars(Blame)

-----------------------------------------------------------------------------
(* Properties.                                                             *)

\* Cases main has caught or will catch: tagged, with an exception, or late.
NotPassed == late \cup {c \in Cases : case[c] \in {"none", "threw", "failed"}}

\* Cases whose own check has failed and been counted.
Failed == {c \in Cases : case[c] = "failed"}

\* Type invariant: the process, the log and the accounts; a case is counted by
\* main and by its own check, and no more than that.
TypeOK ==
    /\ main \in {"next", "wait", "catch", "count", "exiting"} \cup Over
    /\ cur \in 1 .. NumCases + 1
    /\ case \in [Cases -> {"none", "running", "failing", "returned", "threw", "failed"}]
    /\ late \subseteq Cases
    /\ failures \in 0 .. 2 * NumCases
    /\ read \in [Cases \cup {MainThread} -> 0 .. 2 * NumCases]
    /\ printed \in 0 .. 2 * NumCases \cup {None}
    /\ said \in Cases \cup {None, Garbled}
    /\ crashed \in Cases \cup {None}
    /\ blamed \in Cases \cup {None}
    /\ masked \subseteq Cases
    /\ runs \in Nat /\ dumps \in Nat
    /\ slow \in BOOLEAN

\* A case is blamed for the crash of another one only if that one had timed
\* out before: while main waits for it, a case is the last one announced.
BlameRightUnlessLate ==
    main = "blamed" /\ blamed # crashed => crashed \in late /\ crashed < blamed

\* As long as no case times out, each core dump has one more case commented
\* out, so that NumCases core dumps are the most there are.
DumpsMaskCases == ~slow /\ main # "dumped" => dumps = Cardinality(masked)

\* The number printed is 0 for a test whose cases have all passed, and for no
\* other, whatever late threads do to the counter.  While none is late, it has
\* one for each case that did not pass and one more for each failed check.
FailuresCounted ==
    printed # None =>
        LET most == Cardinality(NotPassed) + Cardinality(Failed)
        IN  /\ printed = 0 <=> NotPassed = {}
            /\ printed <= most
            /\ late = {} => printed = most

\* Each run comes to its end, though a case may hang for ever.
RunEnds == []<>(main \in Over)

\* What the README says of the coverage step: "If one of tests crash, we
\* notify the reflection which testcase cause the problem".
BlamesCrashedCase == main = "blamed" => blamed = crashed
=============================================================================
