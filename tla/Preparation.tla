---------------------------- MODULE Preparation ----------------------------
(***************************************************************************)
(* The nodes implied_functions and symbolic (utils/nodes.py), which Agent  *)
(* takes as one step each: which functions the tests are about, what is    *)
(* said of the code outside of the test, and the test cases asked for.     *)
(*                                                                         *)
(* clang, opt, code2flow, ESBMC, the language model and the files db.yaml  *)
(* and info/... are external: the actions choose what they give.           *)
(***************************************************************************)
EXTENDS CallTraversal, CounterExamples

CONSTANTS
    Targets,     \* functions that may be under test
    Outputs      \* outputs of ESBMC considered

ASSUME PreparationAssumption ==
    /\ Targets \subseteq Names
    /\ \A o \in Outputs :
         /\ o.traces \in Seq(ToSet(o.traces))
         /\ o.errors \in Seq({"timeout", "other"})
         /\ o.cut => o.errors # <<>>

VARIABLES
    name,        \* the function under test
    language,    \* language of the source files
    node,        \* where the two nodes are
    implied,     \* function_names
    interface,   \* extern_interface["interface"]: of the code, or of the model
    toInclude,   \* extern_interface["files_to_include"] is not empty
    outputs,     \* outputs of ESBMC so far
    cexList,     \* cex_list
    cases        \* symbolic_test_cases

nodeVars == <<interface, toInclude, outputs, cexList, cases>>
request == <<name, language>>
vars == <<traversalVars, request, node, implied, nodeVars>>

Languages == {"c", "cc", "python", "not supported"}

\* Outcomes of an execution that does not come to unit_test.
Stopped == {"raised", "exited", "fatal"}

Init ==
    /\ TraversalInit
    /\ name \in Targets
    /\ language \in Languages
    /\ node = "implied_functions"
    /\ implied = {}
    /\ interface = "none"
    /\ toInclude = FALSE
    /\ outputs = <<>>
    /\ cexList = <<>>
    /\ cases = <<>>

-----------------------------------------------------------------------------
(* implied_functions.                                                      *)

\* There is a db.yaml and one source file, and the scan of the file, a process
\* of its own, has printed its functions.
ScanFile ==
    /\ node = "implied_functions"
    /\ language \in {"c", "cc"}
    /\ name \in Functions
    /\ Traverse(name)
    /\ node' = "traverse"
    /\ UNCHANGED <<request, implied, nodeVars>>

\* They do not include the target.
FatalError ==
    /\ node = "implied_functions"
    /\ language \in {"c", "cc"}
    /\ name \notin Functions
    /\ node' = "fatal"
    /\ UNCHANGED <<traversalVars, request, implied, nodeVars>>

TraverseFile ==
    /\ node = "traverse"
    /\ TraversalStep
    /\ UNCHANGED <<request, node, implied, nodeVars>>

\* has_func
ImpliedGraph ==
    /\ node = "traverse"
    /\ traversal = "done"
    /\ implied' = DOMAIN seen
    /\ node' = "extern_interface"
    /\ UNCHANGED <<traversalVars, request, nodeVars>>

\* Several files, no db.yaml, or a scan that printed nothing: the graph of clang
\* and opt.  If clang gives an error, the result is empty, and the node goes on; if
\* not, the program prints the functions and exits, or meets one that no file has.
CallGraph ==
    /\ node = "implied_functions"
    /\ language \in {"c", "cc"}
    /\ node' \in {"extern_interface", "raised", "exited"}
    /\ UNCHANGED <<traversalVars, request, implied, nodeVars>>

\* get_implied_graph_python: code2flow gives what it finds downstream, nothing
\* if it prints an error.
Code2flow ==
    /\ node = "implied_functions"
    /\ language = "python"
    /\ \E found \in SUBSET Functions :
         /\ implied' = found
         /\ node' = IF found = {} THEN "raised" ELSE "symbolic"
    /\ UNCHANGED <<traversalVars, request, nodeVars>>

NotSupported ==
    /\ node = "implied_functions"
    /\ language = "not supported"
    /\ node' = "raised"
    /\ UNCHANGED <<traversalVars, request, implied, nodeVars>>

\* get_extern_interface, for the target and those that share static variables
\* with it.  db.yaml and info/... may be missing or not know the file, clang may
\* warn of something, and pycparser may not read it.  Then the node raises
\* ValueError if no function was found.
ExternInterface ==
    /\ node = "extern_interface"
    /\ \/ /\ interface' = "code"
          /\ toInclude' \in BOOLEAN
          /\ node' = IF implied = {} THEN "raised" ELSE "read_source"
       \/ /\ node' \in {"raised", "fatal"}
          /\ UNCHANGED <<interface, toInclude>>
    /\ UNCHANGED <<traversalVars, request, implied, outputs, cexList, cases>>

\* The model is asked for the interface once more.  Whatever goes wrong, be it
\* that the client gives up and exits, the source file is read as it is, and the
\* interface stays.
ReadSource ==
    /\ node = "read_source"
    /\ \/ /\ interface' = "model"
          /\ toInclude' = FALSE
       \/ UNCHANGED <<interface, toInclude>>
    /\ node' = "symbolic"
    /\ UNCHANGED <<traversalVars, request, implied, outputs, cexList, cases>>

-----------------------------------------------------------------------------
(* symbolic.                                                               *)

\* The symbolic engine is for C.
NoSymbolic ==
    /\ node = "symbolic"
    /\ language # "c"
    /\ node' = "unit_test"
    /\ UNCHANGED <<traversalVars, request, implied, nodeVars>>

\* get_function_interface cannot read the file, or exits.
NoParameters ==
    /\ node = "symbolic"
    /\ language = "c"
    /\ outputs = <<>>
    /\ node' \in {"raised", "fatal"}
    /\ UNCHANGED <<traversalVars, request, implied, nodeVars>>

\* get_symbolic_test runs ESBMC twice: for coverage of the conditions, and for
\* other errors.
Esbmc ==
    /\ node = "symbolic"
    /\ language = "c"
    /\ Len(outputs) < 2
    /\ \E o \in Outputs :
         /\ outputs' = Append(outputs, o)
         /\ cexList' = ParseExamples(o, cexList)
    /\ UNCHANGED <<traversalVars, request, node, implied, interface, toInclude, cases>>

\* Nothing useful: the agent goes on without a test.
NoTestCases ==
    /\ node = "symbolic"
    /\ Len(outputs) = 2
    /\ cexList = <<>> \/ HasSymbolicFailed(outputs[1], outputs[2])
    /\ node' = "unit_test"
    /\ UNCHANGED <<traversalVars, request, implied, nodeVars>>

\* The model is asked for a test of the test cases; it answers, with nothing
\* perhaps, or its client gives up, or returns None, which has no content.
SymbolicTest ==
    /\ node = "symbolic"
    /\ Len(outputs) = 2
    /\ cexList # <<>>
    /\ ~HasSymbolicFailed(outputs[1], outputs[2])
    /\ \/ cases' = TestCases(cexList) /\ node' \in {"coverage", "unit_test"}
       \/ node' \in {"fatal", "raised"} /\ UNCHANGED cases
    /\ UNCHANGED <<traversalVars, request, implied, interface, toInclude, outputs, cexList>>

Over ==
    /\ node \in Stopped \cup {"unit_test", "coverage"}
    /\ UNCHANGED vars

Next ==
    \/ ScanFile \/ FatalError \/ TraverseFile \/ ImpliedGraph \/ CallGraph
    \/ Code2flow \/ NotSupported \/ ExternInterface \/ ReadSource
    \/ NoSymbolic \/ NoParameters \/ Esbmc \/ NoTestCases \/ SymbolicTest
    \/ Over

Spec == Init /\ [][Next]_vars

-----------------------------------------------------------------------------
(* Properties.                                                             *)

\* Type invariant.
TypeOK ==
    /\ TraversalTypeOK
    /\ name \in Targets
    /\ language \in Languages
    /\ node \in {"implied_functions", "traverse", "extern_interface", "read_source",
                 "symbolic", "unit_test", "coverage"} \cup Stopped
    /\ implied \subseteq Functions
    /\ interface \in {"none", "code", "model"}
    /\ toInclude \in BOOLEAN
    /\ outputs \in Seq(Outputs) /\ Len(outputs) <= 2
    /\ \A i \in DOMAIN cexList : DOMAIN cexList[i] = {"params", "locals", "inputs"}
    /\ DOMAIN cases \subseteq DOMAIN cexList

\* Test cases are different counterexamples of runs without trouble: no two of
\* the list are the same, though both runs of ESBMC report what they find of the
\* function; each stands in the output of one of them; a line with ERROR:, other
\* than that of a run that timed out, lets none of them through, unless it is cut
\* off at the end.
CasesTrusted ==
    /\ \A i, j \in DOMAIN cexList : cexList[i] = cexList[j] => i = j
    /\ \A i \in DOMAIN cexList : \E r \in DOMAIN outputs :
          cexList[i] \in {Cex(outputs[r].traces[k]) : k \in DOMAIN outputs[r].traces}
    /\ cases # <<>> \/ node = "coverage" =>
          /\ ~Contains(outputs[1].errors, "other")
          /\ \A k \in DOMAIN outputs[2].errors :
                outputs[2].errors[k] = "other" =>
                    outputs[2].cut /\ k = Len(outputs[2].errors)
=============================================================================
