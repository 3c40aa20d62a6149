---------------------------- MODULE MockupOrder ----------------------------
(***************************************************************************)
(* find_configuration (auto_mockup.py): which functions of which files a   *)
(* mock-up of a target needs, and in what order the files are pasted       *)
(* together.                                                               *)
(*                                                                         *)
(* scan_recursively follows the calls depth first, one step of the model   *)
(* per call; a frame of the stack is a file being scanned and the callees  *)
(* left to follow, in any order, as they come from a set.  Nodes of the    *)
(* graph are named by their files; a file is a node once a function of it  *)
(* is kept.  An edge leads from the file of a callee to that of its        *)
(* caller.  Any exception of the search makes main skip the target.        *)
(***************************************************************************)
EXTENDS ProjectScanner, SequencesExt

CONSTANTS
    NoFile,      \* the sink, node 0
    Main,        \* the name main
    Suffix,      \* <<f, g>>: the path of f ends with the path of g
    Preferred    \* files whose path holds what the configuration of the target's
                 \* file says of a function

ASSUME OrderAssumption ==
    /\ NoFile \notin Files
    /\ Main \in Names
    /\ Suffix \subseteq Files \X Files
    /\ \A f \in Files : <<f, f>> \in Suffix
    /\ Preferred \in [Files -> [Names -> SUBSET Files]]

VARIABLES
    order,       \* where find_configuration is
    target,      \* the file and the function it was called for
    stack,       \* calls of scan_recursively under way, innermost first
    kept,        \* files[f]['functions']
    edges,       \* edges of the graph
    sorted       \* result

orderVars == <<order, target, stack, kept, edges, sorted>>

Nodes == {f \in Files : kept[f] # {}}

OrderInit ==
    /\ order = "idle"
    /\ target = <<NoFile, Main>>
    /\ stack = <<>>
    /\ kept = [f \in Files |-> {}]
    /\ edges = {}
    /\ sorted = <<>>

-----------------------------------------------------------------------------
\* Files that have a function n, as far as project_yaml['functions'] lists it.
Candidates(n) == {f \in Files : n \in Known(db, f) \cap db.functions}

\* The file n is taken from, when it is called in file f; none if they cannot be
\* told apart.  A candidate "local" to f is one whose path ends with that of f.
Chosen(f, n) ==
    IF \E g \in Files : Candidates(n) = {g} THEN Candidates(n)
    ELSE IF \E g \in Candidates(n) : <<g, f>> \in Suffix THEN {f}
    ELSE Candidates(n) \cap Preferred[target[1]][n]

\* Mutated forms of EdgesAfter: an edge to the sink; one from a file to itself;
\* one to the callee; no edge if the caller wants nothing new.
EdgesToSink(u, f, new) == IF u = f THEN edges ELSE edges \cup {<<f, u>>}
EdgesToSelf(u, f, new) == IF u = NoFile THEN edges ELSE edges \cup {<<f, u>>}
EdgesReversed(u, f, new) == IF u \in {NoFile, f} THEN edges ELSE edges \cup {<<u, f>>}
EdgesIfNew(u, f, new) ==
    IF u \in {NoFile, f} \/ new = {} THEN edges ELSE edges \cup {<<f, u>>}

EdgesAfter(u, f, new) ==
    IF u \in {NoFile, f} THEN edges ELSE edges \cup {<<f, u>>}

NewFunctions(f, fns) == fns \ kept[f]

\* Mutated form of KeptAfter: a file is taken as a whole.
KeptWhole(f, fns) == [kept EXCEPT ![f] = Known(db, f)]

KeptAfter(f, fns) == [kept EXCEPT ![f] = @ \cup fns]

\* scan_recursively(u, f, fns): the rest of the frame below is todo.  KeyError
\* if f has no such function, or the database no 'functions'.
Visit(u, f, fns, below) ==
    LET new == NewFunctions(f, fns) IN
    /\ edges' = EdgesAfter(u, f, new)
    /\ kept' = KeptAfter(f, fns)
    /\ IF new = {} THEN stack' = below /\ order' = "scan"
       ELSE IF new \subseteq Known(db, f) /\ db.functions # {}
         THEN /\ stack' = <<[file |-> f,
                             todo |-> UNION {Callees(Sig(f), fn) :
                                               fn \in new}]>> \o below
              /\ order' = "scan"
         ELSE stack' = below /\ order' = "failed"
    /\ UNCHANGED <<target, sorted>>

\* instrument_c asks for a function; the functions that share static variables
\* with it are kept with it.
Configure(f, fn) ==
    /\ order = "idle"
    /\ target' = <<f, fn>>
    /\ edges' = {}
    /\ stack' = <<>>
    /\ sorted' = <<>>
    /\ kept' = [g \in Files |-> {}]
    /\ order' = IF fn \in Known(db, f) THEN "found" ELSE "failed"

\* The first call, with the sink as its caller.
Enter ==
    /\ order = "found"
    /\ LET f == target[1] IN
         Visit(NoFile, f, SharingStatics(Sig(f), target[2], Main), <<>>)

\* The next callee of the innermost call.
Call(n) ==
    /\ order = "scan"
    /\ stack # <<>>
    /\ n \in Head(stack).todo
    /\ LET f == Head(stack).file
           below == <<[Head(stack) EXCEPT !.todo = @ \ {n}]>> \o Tail(stack)
       IN  \/ /\ Candidates(n) = {}
              /\ stack' = below
              /\ UNCHANGED <<order, target, kept, edges, sorted>>
           \/ /\ Candidates(n) # {}
              /\ \E g \in Chosen(f, n) : Visit(f, g, {n}, below)
           \/ /\ Candidates(n) # {}
              /\ Chosen(f, n) = {}
              /\ order' = "failed"
              /\ UNCHANGED <<target, stack, kept, edges, sorted>>

Return ==
    /\ order = "scan"
    /\ stack # <<>>
    /\ Head(stack).todo = {}
    /\ stack' = Tail(stack)
    /\ UNCHANGED <<order, target, kept, edges, sorted>>

\* Files in an order that all edges agree with.
Topological(s) ==
    \A e \in edges : \E i, j \in DOMAIN s : i < j /\ s[i] = e[1] /\ s[j] = e[2]

\* nx.topological_sort, which raises if the graph has a cycle.
Sort ==
    /\ order = "scan"
    /\ stack = <<>>
    /\ \/ /\ \E s \in SetToSeqs(Nodes) : Topological(s) /\ sorted' = s
          /\ order' = "sorted"
       \/ /\ ~\E s \in SetToSeqs(Nodes) : Topological(s)
          /\ order' = "failed"
          /\ UNCHANGED sorted
    /\ UNCHANGED <<target, stack, kept, edges>>

OrderStep == Enter \/ (\E n \in Names : Call(n)) \/ Return \/ Sort

\* Whoever asked has got its answer.
Forget ==
    /\ order # "idle"
    /\ order' = "idle"
    /\ target' = <<NoFile, Main>>
    /\ stack' = <<>>
    /\ kept' = [f \in Files |-> {}]
    /\ edges' = {}
    /\ sorted' = <<>>

-----------------------------------------------------------------------------
(* Properties.                                                             *)

\* Type invariant.
OrderTypeOK ==
    /\ order \in {"idle", "found", "scan", "sorted", "failed"}
    /\ target \in (Files \cup {NoFile}) \X Names
    /\ stack \in Seq([file : Files, todo : SUBSET Names])
    /\ kept \in [Files -> SUBSET Names]
    /\ edges \subseteq Files \X Files
    /\ sorted \in Seq(Files)

Kept == {c \in Files \X Names : c[2] \in kept[c[1]]}

\* A set of functions of files, which calls do not lead out of into others that
\* are kept.
ClosedInKept(S) ==
    \A c \in S :
        c[2] \in Known(db, c[1]) =>
            \A n \in Callees(Sig(c[1]), c[2]) :
                Candidates(n) # {} =>
                    \A g \in Chosen(c[1], n) : <<g, n>> \in Kept => <<g, n>> \in S

\* What is kept is kept for the target and those that share static variables
\* with it: calls among the kept functions lead from these to each of them.
KeptReachable ==
    order = "sorted" =>
        \A S \in SUBSET Kept :
            /\ \A fn \in SharingStatics(Sig(target[1]),
                                         target[2], Main) : <<target[1], fn>> \in S
            /\ ClosedInKept(S)
            => S = Kept

\* When the search ends well, every function of the project that a kept function
\* calls is kept, in a file it may be taken from; and if that is another file,
\* it comes first: what is pasted above knows nothing of what is below.
CalleesComeFirst ==
    order = "sorted" =>
        \A f \in Files : \A fn \in kept[f] :
            \A n \in Callees(Sig(f), fn) :
                Candidates(n) # {} =>
                    \E g \in Chosen(f, n) :
                        /\ n \in kept[g]
                        /\ g # f => \E i, j \in DOMAIN sorted :
                                      i < j /\ sorted[i] = g /\ sorted[j] = f

\* The file of the target is pasted last, and is the last entry of info/...: the
\* agent takes that entry for it.
TargetComesLast == order = "sorted" => sorted # <<>> /\ Last(sorted) = target[1]

\* A target is given up for a reason: the database has no functions or not the
\* one asked for; a callee cannot be told apart from others, or is looked for in
\* a file that has none of that name; or files that are kept call each other in
\* a circle.
Circle == \E S \in SUBSET Nodes :
              S # {} /\ \A f \in S : \E g \in S \ {f} : <<g, f>> \in edges
FailsForAReason ==
    order = "failed" =>
        \/ db.functions = {}
        \/ target[2] \notin Known(db, target[1])
        \/ \E f \in Nodes : \E fn \in kept[f] \cap Known(db, f) :
             \E n \in Callees(Sig(f), fn) :
                 /\ Candidates(n) # {}
                 /\ Chosen(f, n) = {} \/ ~(Chosen(f, n) \subseteq Candidates(n))
        \/ Circle
=============================================================================
