--------------------------- MODULE MCPreparation ---------------------------
(* A file of a target and three functions, with the calls of a fixed graph *)
(* there or not, and a search of depth 2: a function may be met at the     *)
(* bottom first and above it later.  Outputs of ESBMC that repeat a        *)
(* counterexample within a run and from one run to the other, differ in    *)
(* the order of the values only, assign nothing but a guard, time out, or  *)
(* report another error, in a line that ends or does not.                  *)
EXTENDS Preparation

MCFunctions == {"main", "a", "b", "c"}
MCNames == MCFunctions \cup {"printf"}

MCEdges ==
    {<<"main", "a">>, <<"main", "b">>, <<"a", "b">>, <<"b", "c">>, <<"c", "main">>, <<"a", "printf">>}
MCGraphs ==
    {[fn \in MCFunctions |-> {n \in MCNames : <<fn, n>> \in E}] : E \in SUBSET MCEdges}

First == <<<<"p", "0">>, <<"l", "3">>, <<"p", "1">>>>
Second == <<<<"p", "1">>, <<"in", "0">>, <<"in", "5">>>>
OnlyGuard == <<<<"guard", "1">>>>

Output(traces, errors, cut) == [traces |-> traces, errors |-> errors, cut |-> cut]

MCOutputs ==
    {Output(<<>>, <<>>, FALSE),
     Output(<<First, First, <<>>>>, <<>>, FALSE),
     Output(<<Second, First>>, <<"timeout">>, FALSE),
     Output(<<OnlyGuard>>, <<>>, FALSE),
     Output(<<Second>>, <<"timeout", "other">>, FALSE),
     Output(<<>>, <<"other">>, TRUE)}
=============================================================================
