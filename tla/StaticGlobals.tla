--------------------------- MODULE StaticGlobals ---------------------------
(***************************************************************************)
(* find_all_functions_using_static_globals (auto_mockup.py): the functions *)
(* of a file that a mock-up must keep beside its target, as they share     *)
(* state with it that no other file can see.                               *)
(*                                                                         *)
(* The loop makes passes over the functions of the file until a pass finds *)
(* no new variable.  A function that shares a variable with those found so *)
(* far is kept, and with it all its variables, those without internal      *)
(* linkage too.  The order of a pass is that of a dictionary: the model    *)
(* takes any, in every pass.                                               *)
(*                                                                         *)
(* The file is what scan_c_project has found in it: arbitrary, and fixed.  *)
(***************************************************************************)
EXTENDS FiniteSets

CONSTANTS
    Functions,   \* functions of the file
    Globals,     \* global variables they use
    Main         \* the function named main, in the file or not

ASSUME FileAssumption == IsFiniteSet(Functions) /\ IsFiniteSet(Globals)

VARIABLES
    uses,        \* the globals each function uses
    statics,     \* __static__globals
    hidden,      \* functions of static storage
    function,    \* the target
    external,    \* dont_use_static_functions
    found,       \* static_globals
    kept,        \* all_functions
    todo,        \* functions this pass has not come to
    changed      \* has_changed

file == <<uses, statics, hidden, function, external>>
vars == <<file, found, kept, todo, changed>>

\* Functions the loop does not skip: the target and they are both static, or
\* both not.
Eligible ==
    {fn \in Functions \ {function, Main} :
        /\ external => fn \notin hidden
        /\ fn \in hidden <=> function \in hidden}

\* The variables the search starts from.
Start == statics \cap uses[function]

Init ==
    /\ uses \in [Functions -> SUBSET Globals]
    /\ statics \in SUBSET Globals
    /\ hidden \in SUBSET Functions
    /\ function \in Functions
    /\ external \in BOOLEAN
    /\ found = Start
    /\ kept = {function}
    /\ todo = Functions
    /\ changed = FALSE

\* Mutated form of Shares: any variable of the file will do.
SharesStatic(fn) == uses[fn] \cap (statics \cup found) # {}

\* static_globals.intersection(file_class[fn]['globals'])
Shares(fn) == uses[fn] \cap found # {}

\* Mutated form of ChangedBy: a function changes something whenever it is kept.
ChangedByKeeping(fn) == TRUE

\* Only a function that brings new variables asks for one more pass.
ChangedBy(fn) == changed \/ ~(uses[fn] \subseteq found)

\* Mutated form of Keep: the new variables replace those found so far.
KeepNewOnly(fn) ==
    /\ kept' = kept \cup {fn}
    /\ found' = uses[fn] \ found
    /\ changed' = ChangedBy(fn)

Keep(fn) ==
    /\ kept' = kept \cup {fn}
    /\ found' = found \cup uses[fn]
    /\ changed' = ChangedBy(fn)

Visit(fn) ==
    /\ fn \in todo
    /\ todo' = todo \ {fn}
    /\ IF fn \in Eligible /\ Shares(fn)
         THEN Keep(fn)
         ELSE UNCHANGED <<found, kept, changed>>
    /\ UNCHANGED file

\* Mutated form of Again: one pass is all.
AgainNever == FALSE

\* while has_changed
Again == changed

NextPass ==
    /\ todo = {}
    /\ Again
    /\ todo' = Functions
    /\ changed' = FALSE
    /\ UNCHANGED <<file, found, kept>>

Next == NextPass \/ \E fn \in Functions : Visit(fn)

Spec == Init /\ [][Next]_vars /\ WF_vars(Next)

-----------------------------------------------------------------------------
(* Properties.                                                             *)

Done == todo = {} /\ ~Again

\* A set of variables the kept functions do not lead out of.
Closed(S) == \A fn \in Eligible : uses[fn] \cap S # {} => uses[fn] \subseteq S

\* Type invariant; the target is always kept, and the target's own static
\* variables always found.
TypeOK ==
    /\ uses \in [Functions -> SUBSET Globals]
    /\ statics \in SUBSET Globals
    /\ hidden \in SUBSET Functions
    /\ function \in Functions
    /\ external \in BOOLEAN
    /\ found \in SUBSET Globals /\ Start \subseteq found
    /\ kept \in SUBSET (Eligible \cup {function}) /\ function \in kept
    /\ todo \in SUBSET Functions
    /\ changed \in BOOLEAN

\* No variable is found that the target does not lead to, and no function
\* kept that uses none of those: a mock-up takes nothing along for nothing.
NothingTooMuch ==
    \A S \in SUBSET Globals :
        Start \subseteq S /\ Closed(S) =>
            found \subseteq S /\ \A fn \in kept \ {function} : uses[fn] \cap S # {}

\* When the loop ends, every function of the file that shares a variable with
\* one that is kept is kept itself, in whatever order the passes went.
NothingMissed ==
    Done => Closed(found) /\ kept = {function} \cup {fn \in Eligible : Shares(fn)}

\* The loop ends.
Terminates == <>Done
=============================================================================
