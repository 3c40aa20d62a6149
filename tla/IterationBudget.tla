--------------------------- MODULE IterationBudget ---------------------------
(***************************************************************************)
(* What the generate/measure/review loop of agent.py promises, without its *)
(* graph, its counters or its prompts.                                     *)
(*                                                                         *)
(* A caller asks for Budget iterations (--max_number_of_iterations).  An   *)
(* iteration whose test could not be built is disregarded: it is not paid  *)
(* for from the budget (nodes.py, coverage, "disregard this iteration").   *)
(* The loop closes once the whole budget is paid and the last test is      *)
(* acceptable, goes on for no other reason, and may give up at any time.   *)
(***************************************************************************)
EXTENDS Integers

CONSTANT Budget

VARIABLES
    owed,        \* iterations still to be paid for; negative: paid too many
    acceptable,  \* the last iteration's test built, and did not crash
    phase        \* "open", "closed" or "aborted"

vars == <<owed, acceptable, phase>>

Init ==
    /\ owed = Budget
    /\ acceptable = FALSE
    /\ phase = "open"

\* There is a reason to make another iteration.
Wanted == owed > 0 \/ ~acceptable

\* An iteration that is paid for, whatever came of its test.
Count ==
    /\ phase = "open"
    /\ Wanted
    /\ owed' = owed - 1
    /\ acceptable' \in BOOLEAN
    /\ UNCHANGED phase

\* An iteration that is not: its test was not fit to be measured.
Disregard ==
    /\ phase = "open"
    /\ Wanted
    /\ acceptable' = FALSE
    /\ UNCHANGED <<owed, phase>>

Close ==
    /\ phase = "open"
    /\ ~Wanted
    /\ phase' = "closed"
    /\ UNCHANGED <<owed, acceptable>>

Abort ==
    /\ phase = "open"
    /\ phase' = "aborted"
    /\ UNCHANGED <<owed, acceptable>>

Next == Count \/ Disregard \/ Close \/ Abort

Spec == Init /\ [][Next]_vars
=============================================================================
