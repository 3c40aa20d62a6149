--------------------------- MODULE CallTraversal ---------------------------
(***************************************************************************)
(* Traverser (utils/implied_graph.py): the functions of one file that are  *)
(* within a number of calls of a function.                                 *)
(*                                                                         *)
(* The recursion of __traverse is a stack of frames, one step per callee;  *)
(* the callees of a function come from a set, in any order.                *)
(***************************************************************************)
EXTENDS Integers, Sequences, FiniteSets

CONSTANTS
    Functions,   \* functions the scan of the file lists
    Names,       \* these, and others that are called
    Graphs,      \* the call graphs considered
    Depth        \* depth of the search

ASSUME TraversalAssumption ==
    /\ IsFiniteSet(Names)
    /\ Functions \subseteq Names
    /\ Graphs \subseteq [Functions -> SUBSET Names]
    /\ Depth \in Nat

VARIABLES
    calls,       \* files_dict[fn]['functions']
    traversal,   \* where traverse is
    start,       \* the function it was called for
    seen,        \* target_functions
    frames       \* calls of __traverse under way, innermost first

traversalVars == <<calls, traversal, start, seen, frames>>

TraversalInit ==
    /\ calls \in Graphs
    /\ traversal = "idle"
    /\ start = {}
    /\ seen = [n \in {} |-> 0]
    /\ frames = <<>>

-----------------------------------------------------------------------------
\* Mutated form of Deeper: the depth is the caller's.
SameDepth(d) == d

Deeper(d) == d - 1

\* Mutated forms of AtBottom: it stops a level early, or late.
AboveBottom(d) == d <= 1
BelowBottom(d) == d < 0

AtBottom(d) == d <= 0

\* __traverse(fn, d), with the frames below it.
Visit(fn, d, below) ==
    /\ seen' = [n \in DOMAIN seen \cup {fn} |-> IF n = fn THEN d ELSE seen[n]]
    /\ frames' = IF AtBottom(d) THEN below
                 ELSE <<[fn |-> fn, depth |-> d, todo |-> calls[fn]]>> \o below

Traverse(fn) ==
    /\ traversal = "idle"
    /\ fn \in Functions
    /\ traversal' = "searching"
    /\ start' = {fn}
    /\ Visit(fn, Depth, <<>>)
    /\ UNCHANGED calls

\* A function is entered when it is not known.  What was meant to enter it again
\* from higher up asks for the depth of the caller, not that of the callee.
Enters(frame, n) ==
    n \in Functions /\ (n \notin DOMAIN seen \/ seen[frame.fn] < frame.depth)

Callee(n) ==
    /\ traversal = "searching"
    /\ frames # <<>>
    /\ n \in Head(frames).todo
    /\ LET top == Head(frames)
           below == <<[top EXCEPT !.todo = @ \ {n}]>> \o Tail(frames)
       IN  IF Enters(top, n) THEN Visit(n, Deeper(top.depth), below)
           ELSE frames' = below /\ UNCHANGED seen
    /\ UNCHANGED <<calls, traversal, start>>

Return ==
    /\ traversal = "searching"
    /\ frames # <<>>
    /\ Head(frames).todo = {}
    /\ frames' = Tail(frames)
    /\ UNCHANGED <<calls, traversal, start, seen>>

\* traverse returns the names.
Found ==
    /\ traversal = "searching"
    /\ frames = <<>>
    /\ traversal' = "done"
    /\ UNCHANGED <<calls, start, seen, frames>>

TraversalStep == (\E n \in Names : Callee(n)) \/ Return \/ Found

TraversalNext == (\E fn \in Functions : Traverse(fn)) \/ TraversalStep

TraversalSpec == TraversalInit /\ [][TraversalNext]_traversalVars

-----------------------------------------------------------------------------
(* Properties.                                                             *)

\* Type invariant.
TraversalTypeOK ==
    /\ calls \in [Functions -> SUBSET Names]
    /\ traversal \in {"idle", "searching", "done"}
    /\ start \in SUBSET Functions
    /\ seen \in UNION {[S -> 0 .. Depth] : S \in SUBSET Functions}
    /\ frames \in Seq([fn : Functions, depth : 1 .. Depth, todo : SUBSET Names])

\* Sets of functions, one for each number of calls: the start for none, and after
\* each of them one that holds what its functions call.
Level(W, d) == IF d = 0 THEN start ELSE W[d]
Levels(W) ==
    \A d \in 1 .. Depth : \A fn \in Level(W, d - 1) : calls[fn] \cap Functions \subseteq W[d]

\* Whatever is found is within Depth calls of the start: a function with depth d
\* left is in the set for Depth - d calls, whatever these sets are.
FoundWithinDepth ==
    \A W \in [1 .. Depth -> SUBSET Functions] :
        Levels(W) => \A fn \in DOMAIN seen : fn \in Level(W, Depth - seen[fn])

\* When the search is over, a function of the file that is not found is called by
\* no function that was found above the bottom: what is missed, though it is
\* within the depth, is behind a function that was first met at the bottom.
CalleesFound ==
    traversal = "done" =>
        /\ start \subseteq DOMAIN seen
        /\ \A fn \in DOMAIN seen :
              seen[fn] > 0 => calls[fn] \cap Functions \subseteq DOMAIN seen
=============================================================================
