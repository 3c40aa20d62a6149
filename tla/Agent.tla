------------------------------- MODULE Agent -------------------------------
(***************************************************************************)
(* The workflow of agent.py over the nodes of utils/nodes.py:              *)
(*                                                                         *)
(*   implied_functions -> symbolic -> (unit_test -> coverage -> reflection)* *)
(*                                                                         *)
(* LangGraph runs one node at a time; each handler is one atomic step that *)
(* reads the state left by the previous one.  A step is counted in "nodes" *)
(* and LangGraph raises GraphRecursionError when RecursionLimit of them    *)
(* have run.  agent.py puts its own recursion_limit inside "configurable", *)
(* where LangGraph does not look, so the limit is LangGraph's default, 25. *)
(*                                                                         *)
(* What the language model writes is abstracted to what the loop tells     *)
(* apart: a test is the number of its generation (0 is the empty test), a  *)
(* coverage log is a record of the facts the handlers look for in its      *)
(* text, and a review is the test and the log it was asked about.          *)
(***************************************************************************)
EXTENDS Integers, Sequences, FiniteSets

CONSTANTS
    MaxIterations,   \* --max_number_of_iterations
    RecursionLimit,  \* nodes LangGraph runs before GraphRecursionError
    Languages        \* languages of the targets considered

ASSUME MaxIterationsAssumption == MaxIterations \in Nat

\* Room for one pass up to reflection: a checkpoint that agent.py can recover.
ASSUME RecursionLimitAssumption == RecursionLimit \in Nat /\ RecursionLimit >= 4

ASSUME LanguagesAssumption == Languages \subseteq {"c", "cc", "python"}

VARIABLES
    \* fields of AgentState
    language, number_of_iterations, max_number_of_iterations,
    test, coverage_output, review, messages,
    \* the execution of the graph
    pc,        \* the next node, or "END"
    nodes,     \* nodes run so far
    oldest,    \* the first checkpoint whose next node is reflection
    status,    \* "running", "finished", "recursion" or "aborted"
    logs       \* what run() wrote under logs/, or NotWritten

config == <<language, number_of_iterations, max_number_of_iterations>>
graph == <<pc, nodes, oldest, status, logs>>
vars == <<config, test, coverage_output, review, messages, graph>>

-----------------------------------------------------------------------------
(* Coverage logs.                                                          *)

\* "of" is the test that was run; "fix": the log was marked FIX THIS; "core":
\* it tells of a core dump.
Log(of, fix, core) == [of |-> of, fix |-> fix, core |-> core]

NoLog == Log(0, FALSE, FALSE)

\* What get_coverage_cc and get_coverage_python can return for test t: both
\* facts are words looked for in a log that holds what the compiler and the test
\* have written, or follow from what the shell prints to stderr, and any of them
\* can meet.
CoverageLogs(t) == [of : {t}, fix : BOOLEAN, core : BOOLEAN]

-----------------------------------------------------------------------------

\* Mutated form of Exchange: the reflection handler forgets its response.
ExchangeWithoutResponse(node) ==
    IF node = "reflection" THEN << [role |-> "user", node |-> node] >>
    ELSE << [role |-> "user", node |-> node], [role |-> "ai", node |-> node] >>

\* The messages of one call of the model: the prompt and the response.
Exchange(node) == << [role |-> "user", node |-> node], [role |-> "ai", node |-> node] >>

\* Node n can run now, and what every node does to the graph's bookkeeping.
Enter(n) ==
    /\ status = "running"
    /\ pc = n
    /\ nodes < RecursionLimit
    /\ nodes' = nodes + 1
    /\ UNCHANGED <<status, logs>>

\* Mutated form of MayEnd: the loop goes on for one iteration too many.
MayEndLate(number, maximum, log) == number > maximum + 1 /\ ~log.fix /\ ~log.core

\* should_continue: the loop may end.
MayEnd(number, maximum, log) == number > maximum /\ ~log.fix /\ ~log.core

-----------------------------------------------------------------------------
Init ==
    /\ language \in Languages
    /\ number_of_iterations = 1
    /\ max_number_of_iterations = MaxIterations
    /\ test = 0
    /\ coverage_output = NoLog
    /\ review = <<>>
    /\ messages = <<>>
    /\ pc = "implied_functions"
    /\ nodes = 0
    /\ oldest = [review |-> <<>>, messages |-> <<>>]
    /\ status = "running"
    /\ logs = [written |-> FALSE, review |-> <<>>, prompts |-> <<>>]

\* Reads the sources.  Its call of the model is not recorded in messages, and
\* a bare except swallows whatever that call raises.
ImpliedFunctions ==
    /\ Enter("implied_functions")
    /\ pc' = "symbolic"
    /\ UNCHANGED <<config, test, coverage_output, review, messages, oldest>>

\* The symbolic engine works on C only.  Without counterexamples the handler
\* returns early; with them the model writes a test, which may be empty.  The
\* conditional edge has_symbolic_test skips unit_test when there is a test.
Symbolic ==
    /\ Enter("symbolic")
    /\ \/ test' = 0 /\ UNCHANGED messages
       \/ /\ language = "c"
          /\ test' \in {0, 1}
          /\ messages' = messages \o Exchange("symbolic")
    /\ pc' = IF test' # 0 THEN "coverage" ELSE "unit_test"
    /\ UNCHANGED <<config, coverage_output, review, oldest>>

UnitTest ==
    /\ Enter("unit_test")
    /\ test' = test + 1
    /\ messages' = messages \o Exchange("unit_test")
    /\ pc' = "coverage"
    /\ UNCHANGED <<config, coverage_output, review, oldest>>

\* Mutated form of NewMaximum: a test that did not build costs an iteration.
NewMaximumUnchanged(log) == max_number_of_iterations

\* Mutated form of NewMaximum: a disregarded iteration is taken off.
NewMaximumLess(log) == max_number_of_iterations - (IF log.fix THEN 1 ELSE 0)

\* The new maximum: an iteration whose log must be fixed is disregarded.
NewMaximum(log) == max_number_of_iterations + (IF log.fix THEN 1 ELSE 0)

\* Writes the test file, measures it and rereads it.
Coverage ==
    /\ Enter("coverage")
    /\ coverage_output' \in CoverageLogs(test)
    /\ max_number_of_iterations' = NewMaximum(coverage_output')
    /\ oldest' = IF review = <<>> THEN [review |-> review, messages |-> messages]
                 ELSE oldest
    /\ pc' = "reflection"
    /\ UNCHANGED <<language, number_of_iterations, test, review, messages>>

\* Mutated form of Reflect: a review replaces the previous ones.
ReflectKeepingLast(r) == <<r>>

\* The reviews with one more: the handlers show them in reverse order.
Reflect(r) == Append(review, r)

\* Asks for a review of the test and its log; should_continue picks the edge.
Reflection ==
    /\ Enter("reflection")
    /\ number_of_iterations' = number_of_iterations + 1
    /\ review' = Reflect([test |-> test, log |-> coverage_output])
    /\ messages' = messages \o Exchange("reflection")
    /\ pc' = IF MayEnd(number_of_iterations', max_number_of_iterations, coverage_output)
             THEN "END" ELSE "unit_test"
    /\ UNCHANGED <<language, max_number_of_iterations, test, coverage_output, oldest>>

Finish ==
    /\ status = "running"
    /\ pc = "END"
    /\ status' = "finished"
    /\ UNCHANGED <<config, test, coverage_output, review, messages,
                   pc, nodes, oldest, logs>>

\* LangGraph tests its limit before it looks for the next node; whether that
\* hides an END reached by the last node allowed is left open here.
GraphRecursion ==
    /\ status = "running"
    /\ nodes = RecursionLimit
    /\ status' = "recursion"
    /\ UNCHANGED <<config, test, coverage_output, review, messages,
                   pc, nodes, oldest, logs>>

\* A handler calls fatal_error or raises, and run() does not catch it: no such
\* function, no coverage.info, a model that failed, a review that is not JSON
\* or has no rating.  symbolic can fail only where it has something to run.
Abort ==
    /\ status = "running"
    /\ pc # "END"
    /\ nodes < RecursionLimit
    /\ pc = "symbolic" => language = "c"
    /\ status' = "aborted"
    /\ UNCHANGED <<config, test, coverage_output, review, messages,
                   pc, nodes, oldest, logs>>

\* The state run() reports on: after GraphRecursionError it takes the last
\* entry of a history that lists the newest checkpoint first.
FinalState ==
    IF status = "recursion" THEN oldest
    ELSE [review |-> review, messages |-> messages]

\* range(0, len(messages), 2): every other message is a prompt.
Prompts(m) == [i \in 1 .. ((Len(m) + 1) \div 2) |-> m[2 * i - 1]]

\* Mutated form of HasFinalState: GraphRecursionError is not handled.
HasFinalStateOnlyAtEnd == status = "finished"

HasFinalState == status \in {"finished", "recursion"}

WriteLogs ==
    /\ HasFinalState
    /\ ~logs.written
    /\ logs' = [written |-> TRUE,
                review  |-> FinalState.review,
                prompts |-> Prompts(FinalState.messages)]
    /\ UNCHANGED <<config, test, coverage_output, review, messages,
                   pc, nodes, oldest, status>>

Next ==
    \/ ImpliedFunctions \/ Symbolic \/ UnitTest \/ Coverage \/ Reflection
    \/ Finish \/ GraphRecursion \/ Abort \/ WriteLogs

\* graph.invoke() drives one node after the other: as long as a step can be
\* taken it is taken.
Spec == Init /\ [][Next]_vars /\ WF_vars(Next)

-----------------------------------------------------------------------------
(* Properties.                                                             *)

Nodes == {"implied_functions", "symbolic", "unit_test", "coverage", "reflection"}
LogSet == [of : Nat, fix : BOOLEAN, core : BOOLEAN]
ReviewSet == [test : Nat, log : LogSet]
MessageSet == [role : {"user", "ai"}, node : Nodes]

\* Type invariant: AgentState and the graph's bookkeeping keep their types,
\* and a run never executes more nodes than the limit.
TypeOK ==
    /\ language \in Languages
    /\ number_of_iterations \in Nat
    /\ max_number_of_iterations \in Nat
    /\ test \in Nat
    /\ coverage_output \in LogSet
    /\ review \in Seq(ReviewSet)
    /\ messages \in Seq(MessageSet)
    /\ pc \in Nodes \cup {"END"}
    /\ nodes \in 0 .. RecursionLimit
    /\ oldest \in [review : Seq(ReviewSet), messages : Seq(MessageSet)]
    /\ status \in {"running", "finished", "recursion", "aborted"}
    /\ logs \in [written : BOOLEAN, review : Seq(ReviewSet), prompts : Seq(MessageSet)]

\* The iterations of r that were paid for from the budget.
Counted(r) == {i \in DOMAIN r : ~r[i].log.fix}

\* A run that ends by itself has made all the iterations it was asked for,
\* not counting those disregarded because their test did not build, and its
\* last test built and did not crash (should_continue, coverage).
BudgetKept ==
    status = "finished" =>
        /\ Cardinality(Counted(review)) >= MaxIterations
        /\ ~review[Len(review)].log.fix
        /\ ~review[Len(review)].log.core

\* Every generated test is run, and reviewed once with its own log, before
\* the next is generated: no handler sees a log of another test.
ReviewedInOrder ==
    /\ \A i \in DOMAIN review : review[i].test = i /\ review[i].log.of = i
    /\ pc = "reflection" => coverage_output.of = test /\ test = Len(review) + 1

\* The files under logs/ belong together, also when the run is recovered from
\* GraphRecursionError: every p<i> file is a prompt, there is one prompt of
\* reflection for each review written, and none comes from a later state.
LogsTogether ==
    logs.written =>
        /\ \A i \in DOMAIN logs.prompts : logs.prompts[i].role = "user"
        /\ Cardinality({i \in DOMAIN logs.prompts : logs.prompts[i].node = "reflection"})
               = Len(logs.review)
        /\ \A i \in DOMAIN logs.review : logs.review[i] = review[i]

\* However often the tests keep failing, the run ends: its logs are written
\* or it stopped on an error.
Termination == <>(logs.written \/ status = "aborted")

\* What nodes.py says of the iterations that are disregarded: those that
\* "failed compilation or caused core dump".  So the iterations a finished
\* run has made are, without these, as many as it was asked for.
DisregardsCoreDumps ==
    status = "finished" =>
        Cardinality({i \in DOMAIN review : ~review[i].log.fix /\ ~review[i].log.core})
            >= MaxIterations

\* The loop keeps the promise of IterationBudget.  Between coverage and
\* reflection the maximum has been raised for an iteration still under way.
UnderWay == IF pc = "reflection" /\ coverage_output.fix THEN 1 ELSE 0

Promise == INSTANCE IterationBudget WITH
    Budget     <- MaxIterations,
    owed       <- max_number_of_iterations - UnderWay - (number_of_iterations - 1),
    acceptable <- review # <<>> /\ ~review[Len(review)].log.fix
                                /\ ~review[Len(review)].log.core,
    phase      <- CASE status = "running" -> "open"
                    [] status = "finished" -> "closed"
                    [] OTHER -> "aborted"

\* Refinement: every step of the workflow is a step the promise allows or
\* leaves it unchanged.
KeepsPromise == Promise!Spec
=============================================================================
