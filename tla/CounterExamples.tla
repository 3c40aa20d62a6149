-------------------------- MODULE CounterExamples --------------------------
(***************************************************************************)
(* What symbolic.py reads in the output of ESBMC.                          *)
(*                                                                         *)
(* An output is a record: traces, the counterexamples in it, each the      *)
(* sequence of its assignments <<variable, value>>; errors, its lines with *)
(* ERROR:, "timeout" for those with Timed out and "other" for the others;  *)
(* cut, whether the last of these ends the output, without a newline.      *)
(***************************************************************************)
EXTENDS Naturals, Sequences, SequencesExt

CONSTANTS
    Params,      \* parameters of the function under test
    Locals,      \* its local variables
    Guards,      \* drop_vars
    None         \* None

\* The values a trace gives a variable, in order.
Values(trace, v) ==
    LET own == SelectSeq(trace, LAMBDA a : a[1] = v)
    IN  [i \in DOMAIN own |-> own[i][2]]

FirstValue(trace, v) ==
    IF Values(trace, v) = <<>> THEN None ELSE Values(trace, v)[1]

\* A counterexample: of a parameter or a local variable the first value is kept,
\* of any other variable all of them.
Cex(trace) ==
    [params |-> [v \in Params |-> FirstValue(trace, v)],
     locals |-> [v \in Locals \ Params |-> FirstValue(trace, v)],
     inputs |-> [v \in {trace[i][1] : i \in DOMAIN trace}
                         \ (Params \cup Locals \cup Guards) |-> Values(trace, v)]]

\* A trace without assignments, or one that is in the list, is passed over.
WithTrace(list, trace) ==
    IF trace # <<>> /\ ~Contains(list, Cex(trace)) THEN Append(list, Cex(trace)) ELSE list

\* parse_examples: the list it is given goes on.
ParseExamples(output, list) == FoldLeft(WithTrace, list, output.traces)

\* Mutated form of HasSymbolicFailed: a run that timed out hides what follows.
HasFailedAtFirst(output1, output2) ==
    LET lines == output1.errors \o output2.errors
    IN  lines # <<>> /\ lines[1] = "other"

\* has_symbolic_failed, of the output of both runs: the log of the first is
\* followed by more, that of the second may end within its last line, which is
\* not looked at then.
HasSymbolicFailed(output1, output2) ==
    LET second == IF output2.cut THEN Front(output2.errors) ELSE output2.errors
    IN  Contains(output1.errors \o second, "other")

\* What the prompt shows of a counterexample, as parse_cex has it: the locals
\* are left out, as is the first value of an input, and any variable that has no
\* value then.
ShownInputs(cex) ==
    [v \in {x \in DOMAIN cex.inputs : Len(cex.inputs[x]) > 1} |-> Tail(cex.inputs[v])]
ShownParams(cex) ==
    [v \in {x \in DOMAIN cex.params : cex.params[x] # None} |-> <<cex.params[v]>>]
Shown(cex) ==
    [v \in DOMAIN ShownParams(cex) \cup DOMAIN ShownInputs(cex) |->
        IF v \in DOMAIN ShownInputs(cex) THEN ShownInputs(cex)[v] ELSE ShownParams(cex)[v]]

\* parse_cex: a counterexample of which nothing is left has no test case.
TestCases(list) ==
    [i \in {j \in DOMAIN list : DOMAIN Shown(list[j]) # {}} |-> Shown(list[i])]
=============================================================================
