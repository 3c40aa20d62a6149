------------------------------ MODULE CSource ------------------------------
(***************************************************************************)
(* What get_functions (scan_c_project.py) finds in a C file.               *)
(*                                                                         *)
(* Source gives the text of each file in each version; other flags for the *)
(* preprocessor, which show another text, count as another version.  A     *)
(* text is the record of what the visitors look for in its syntax tree:    *)
(*    compiles    clang and pycparser accept it                            *)
(*    once        it cannot be compiled twice in one program text          *)
(*    defines     variables it defines with external linkage               *)
(*    declares    variables it only declares, extern                       *)
(*    statics     its static variables                                     *)
(*    included    variables the headers it includes declare                *)
(*    body        its functions, with a record for each of them:           *)
(*      static, empty, lopsided   its storage; whether its body is {};     *)
(*                                whether its lines hold braces that do    *)
(*                                not pair off, as in strings              *)
(*      calls, indirect           names it calls; whether it calls through *)
(*                                an expression                            *)
(*      reads, assigns, stores    names in its expressions; names assigned *)
(*                                to; names that occur only on the left of *)
(*                                an assignment to *p, a[i] or s.f         *)
(***************************************************************************)
EXTENDS FiniteSets

CONSTANTS
    Files,       \* C files of the project
    Versions,    \* versions a file may be in
    Names,       \* names of functions and variables
    Source       \* the text of a file in a version

TextFields ==
    {"compiles", "once", "defines", "declares", "statics", "included", "body"}

ASSUME SourceAssumption ==
    /\ IsFiniteSet(Files)
    /\ DOMAIN Source = Files \X Versions
    /\ \A k \in Files \X Versions :
         /\ DOMAIN Source[k] = TextFields
         /\ Source[k].statics \cup DOMAIN Source[k].body \subseteq Names
         /\ \A fn \in DOMAIN Source[k].body : Source[k].body[fn].calls \subseteq Names

-----------------------------------------------------------------------------
\* The functions of a text, and those its function fn calls by their name.
FunctionsOf(src) == DOMAIN src.body
Callees(src, fn) == src.body[fn].calls

\* __globals: what is declared in the file itself and is not static.
GlobalsOf(src) == src.defines \cup src.declares

\* all_global_vars: whatever is declared, in the file or in a header.
AllGlobals(src) == GlobalsOf(src) \cup src.statics \cup src.included

\* Mutated form of GlobalsUsed: assignments are passed over.
GlobalsRead(src, fn) ==
    AllGlobals(src) \cap (src.body[fn].calls \cup src.body[fn].reads)

\* 'globals': variables fn uses.  visit_Assignment looks at the left side for a
\* plain name only, and does not go into it.
GlobalsUsed(src, fn) ==
    AllGlobals(src) \cap
        (src.body[fn].calls \cup src.body[fn].reads \cup src.body[fn].assigns)

\* All names the code of fn refers to, for the compiler.
References(src, fn) ==
    src.body[fn].calls \cup src.body[fn].reads
        \cup src.body[fn].assigns \cup src.body[fn].stores

\* A body that makes the visitors raise something else than ValueError: a callee
\* without a name, a body without items, braces that do not come out even.
Trips(b) == b.indirect \/ b.empty \/ b.lopsided

\* How get_functions ends.
Outcome(src) ==
    IF ~src.compiles THEN "ValueError"
    ELSE IF \E fn \in FunctionsOf(src) : Trips(src.body[fn]) THEN "raised"
    ELSE "signature"

\* find_all_functions_using_static_globals: the least set of variables that the
\* functions which share one of them do not lead out of, and those functions.
\* StaticGlobals shows that the loop comes to it.
SharingStatics(src, fn, main) ==
    LET alike == {g \in FunctionsOf(src) \ {fn, main} :
                    src.body[g].static = src.body[fn].static}
        start == src.statics \cap GlobalsUsed(src, fn)
        closed == {V \in SUBSET AllGlobals(src) :
                     /\ start \subseteq V
                     /\ \A g \in alike : GlobalsUsed(src, g) \cap V # {} =>
                                           GlobalsUsed(src, g) \subseteq V}
        found == {v \in AllGlobals(src) : \A V \in closed : v \in V}
    IN  {fn} \cup {g \in alike : GlobalsUsed(src, g) \cap found # {}}
=============================================================================
