----------------------------- MODULE AutoMockup -----------------------------
(***************************************************************************)
(* main of auto_mockup.py: scan the project, and for every target paste    *)
(* together the functions it needs, repair the program text until it       *)
(* links, and append a rule for it to the Makefile.                        *)
(*                                                                         *)
(* Runs of the program follow each other over the same project and cache,  *)
(* and may be interrupted anywhere.  A mock-up is what was pasted into it: *)
(* which functions of which files, and how often each file.  The compiler  *)
(* and the linker are external: they complain of names defined twice, of   *)
(* declarations that conflict, and of names nothing defines.               *)
(***************************************************************************)
EXTENDS MockupOrder, Integers

CONSTANTS
    Library,     \* names the C library defines
    Nested,      \* files in a directory below that of the project
    Conflicting, \* pairs of files with conflicting declarations
    Asked        \* bound: functions a run may be asked for by their name

ASSUME MockupAssumption ==
    /\ Library \cup Asked \subseteq Names
    /\ Nested \subseteq Files
    /\ Conflicting \subseteq Files \X Files

VARIABLES
    stage,       \* where main is
    todo,        \* targets still to come
    copies,      \* how often each file was pasted: not, once, more often
    text,        \* functions in the mock-up
    clash,       \* something is in it twice
    redirected,  \* redirect__globals: <<f, n>>, the name n of file f is replaced
    made,        \* rules this run has appended to the Makefile, and their mock-ups
    dbRenamed    \* <<f, n>>: this run has replaced n in the lists of f in db.yaml

linkVars == <<copies, text, clash>>
workVars == <<todo, redirected, made, dbRenamed>>
vars == <<scanVars, orderVars, stage, linkVars, workVars>>

Init ==
    /\ ScanInit
    /\ OrderInit
    /\ stage = "off"
    /\ todo = {}
    /\ copies = [f \in Files |-> 0]
    /\ text = {}
    /\ clash = FALSE
    /\ redirected = {}
    /\ made = {}
    /\ dbRenamed = {}

-----------------------------------------------------------------------------
(* create_work.                                                            *)

Run(stop) ==
    /\ stage = "off"
    /\ Scan(stop)
    /\ stage' = "scanning"
    /\ UNCHANGED <<orderVars, linkVars, workVars>>

ScanProject ==
    /\ stage = "scanning"
    /\ ScanStep
    /\ UNCHANGED <<orderVars, stage, linkVars, workVars>>

\* Any exception of the scanner: "Please fix errors".
FixErrors ==
    /\ stage = "scanning"
    /\ scan = "raised"
    /\ stage' = "exited"
    /\ UNCHANGED <<scanVars, orderVars, linkVars, workVars>>

\* db.yaml is written with the names of the sources.  The targets are functions
\* of all files or of one: those it is known to have, or the one asked for.
CreateWork ==
    /\ stage = "scanning"
    /\ scan = "answered"
    /\ \E fs \in {Files} \cup {{f} : f \in Files} :
         \/ todo' = {t \in fs \X Names : t[2] \in Known(db, t[1])}
         \/ \E fn \in Asked : todo' = fs \X {fn}
    /\ stage' = "targets"
    /\ UNCHANGED <<scanVars, orderVars, linkVars, redirected, made, dbRenamed>>

\* get_global_variables, outside of the try, meets a file whose entry in the
\* cache was cut off.
DieOfCache ==
    /\ stage = "scanning"
    /\ scan = "answered"
    /\ db.functions = {}
    /\ stage' = "dead"
    /\ UNCHANGED <<scanVars, orderVars, linkVars, workVars>>

-----------------------------------------------------------------------------
(* One target after the other.                                             *)

\* The targets come in the order of lists, which is fixed, but any.
NextTarget ==
    /\ stage = "targets"
    /\ todo # {}
    /\ LET t == CHOOSE x \in todo : TRUE IN
         /\ Configure(t[1], t[2])
         /\ todo' = todo \ {t}
    /\ stage' = "ordering"
    /\ UNCHANGED <<scanVars, linkVars, redirected, made, dbRenamed>>

FindConfiguration ==
    /\ stage = "ordering"
    /\ OrderStep
    /\ UNCHANGED <<scanVars, stage, linkVars, workVars>>

\* except Exception: continue
SkipTarget ==
    /\ stage = "ordering"
    /\ order = "failed"
    /\ Forget
    /\ stage' = "targets"
    /\ UNCHANGED <<scanVars, linkVars, workVars>>

\* Functions fns of files fs, with all else these files hold, are pasted to the
\* front of the mock-up.  The names that are renamed in a file are recorded.
Paste(fns, fs) ==
    /\ copies' = [f \in Files |-> IF f \in fs /\ copies[f] < 2 THEN copies[f] + 1
                                  ELSE copies[f]]
    /\ text' = text \cup fns
    /\ clash' = (clash \/ fns \cap text # {} \/ \E f \in fs : copies[f] > 0 /\ Sig(f).once)

\* Names generate_code replaces in f: those of static variables and functions,
\* and main.  A static function keeps its name if the new one is that of the
\* target, which it is if the directory of the file is not part of it.
Replaced(f) ==
    (Sig(f).statics
       \cup {fn \in FunctionsOf(Sig(f)) : fn = Main \/ Sig(f).body[fn].static})
    \ (IF f = target[1] /\ f \notin Nested THEN {target[2]} \ {Main} ELSE {})

Renames(fs) == {p \in fs \X Names : p[2] \in Replaced(p[1])}

\* Mutated form of Redirect: each mock-up starts a list of its own.
RedirectAnew(fs) == redirected' = Renames(fs)

Redirect(fs) == redirected' = redirected \cup Renames(fs)

\* instrument_c and generate_code, for the configuration found.
Generate ==
    /\ stage = "ordering"
    /\ order = "sorted"
    /\ Paste(Kept, Nodes)
    /\ Redirect(Nodes)
    /\ stage' = "linking"
    /\ UNCHANGED <<scanVars, orderVars, todo, made, dbRenamed>>

-----------------------------------------------------------------------------
(* The program text.                                                       *)

Pasted == {f \in Files : copies[f] > 0}

\* The name n stands for in the text of f.
Symbol(f, n) == IF n \in Replaced(f) THEN <<f, n>> ELSE <<NoFile, n>>

Defined ==
    {Symbol(d[1], d[2]) : d \in text}
        \cup UNION {{Symbol(f, v) : v \in Sig(f).defines \cup Sig(f).statics} : f \in Pasted}

\* An empty main is linked with it, unless one was kept.
Needed ==
    UNION {{Symbol(d[1], n) : n \in References(Sig(d[1]), d[2])} : d \in text}
        \cup {<<NoFile, Main>> : f \in {g \in Files : Main \in kept[g]}}

\* Mutated form of Undefined: compiled, but not linked.
UndefinedIfCompiled == {}

Undefined == Needed \ (Defined \cup {<<NoFile, n>> : n \in Library})

\* The lines that were cut out are those of the text the database is of.
Fits == \A f \in Pasted : disk[f] = db.files[f]

Conflict == \E f, g \in Pasted : <<f, g>> \in Conflicting

\* A file or a function is in it twice, or functions of two files that have kept
\* the same name.
Redefined ==
    clash \/ \E d, e \in text : d # e /\ Symbol(d[1], d[2]) = Symbol(e[1], e[2])

\* The compiler's complaints keep the linker from being called.
Compiles == ~Conflict /\ ~Redefined

\* A text cut at the wrong lines may or may not compile, and the linker may or
\* may not miss something.
Links == ~Fits \/ (Compiles /\ Undefined = {})
Missing == IF ~Fits \/ Compiles THEN Undefined ELSE {}
Missed == {u[2] : u \in {m \in Missing : m[1] = NoFile}}

-----------------------------------------------------------------------------
(* The loop that repairs it.                                               *)

\* The loop is left: 'static' is removed, and the Makefile gets its rule, with
\* errors left or not.
Finish ==
    /\ made' = made \cup {[of |-> target, files |-> Pasted, kept |-> text,
                         names |-> Renames(Pasted)]}
    /\ Forget
    /\ copies' = [f \in Files |-> 0]
    /\ text' = {}
    /\ clash' = FALSE
    /\ stage' = "targets"
    /\ UNCHANGED <<scanVars, todo, redirected, dbRenamed>>

\* No error.
LinkOk ==
    /\ stage = "linking"
    /\ Links
    /\ Finish

\* Files that declare the variable n: _globals.
Declaring(n) == {f \in DOMAIN db.files : db.files[f] # Failed /\ n \in GlobalsOf(Sig(f))}

\* Mutated form of GiveUp: only undefined references are looked at.
GiveUpReferences ==
    /\ stage = "linking"
    /\ \E n \in Missed : Candidates(n) = {} /\ Declaring(n) = {}
    /\ Finish

\* Errors other than undefined references, or one of a name that is in none of
\* the lists, or of a function that several files have.
GiveUp ==
    /\ stage = "linking"
    /\ \/ ~Fits \/ (Redefined /\ ~Conflict)
       \/ \E u \in Missing : u[1] # NoFile
       \/ \E n \in Missed :
            \/ Candidates(n) = {} /\ Declaring(n) = {}
            \/ /\ \A f \in Files : Candidates(n) # {f}
               /\ Candidates(n) # {}
               /\ Preferred[target[1]][n] = {}
    /\ Finish

\* "conflicting types for": exit().
ExitOnConflict ==
    /\ stage = "linking"
    /\ Conflict \/ ~Fits
    /\ stage' = "exited"
    /\ UNCHANGED <<scanVars, orderVars, linkVars, workVars>>

\* config[name] for config[fn][name]: KeyError, and a debugger's prompt.
Debug ==
    /\ stage = "linking"
    /\ \E n \in Missed :
         /\ \A f \in Files : Candidates(n) # {f}
         /\ Candidates(n) # {}
         /\ Preferred[target[1]][n] # {}
    /\ stage' = "debugger"
    /\ UNCHANGED <<scanVars, orderVars, linkVars, workVars>>

\* The one file with a function n is added, with n alone.
AddFunction ==
    /\ stage = "linking"
    /\ \E n \in Missed, f \in Files :
         /\ Candidates(n) = {f}
         /\ Paste({<<f, n>>}, {f})
         /\ Redirect({f})
    /\ UNCHANGED <<scanVars, orderVars, stage, todo, made, dbRenamed>>

\* The one file that declares a variable n is added, with no function.
AddGlobal ==
    /\ stage = "linking"
    /\ \E n \in Missed, f \in Files :
         /\ Candidates(n) = {}
         /\ Declaring(n) = {f}
         /\ Paste({}, {f})
         /\ Redirect({f})
    /\ UNCHANGED <<scanVars, orderVars, stage, todo, made, dbRenamed>>

\* Several do: add_to_file writes the first, and raises for the second, as its
\* list has become a string.
DieOfGlobal ==
    /\ stage = "linking"
    /\ \E n \in Missed : \E f \in Declaring(n) :
         /\ Candidates(n) = {}
         /\ Declaring(n) # {f}
         /\ Paste({}, {f})
         /\ Redirect({f})
    /\ stage' = "dead"
    /\ UNCHANGED <<scanVars, orderVars, todo, made, dbRenamed>>

Repair == AddFunction \/ AddGlobal

-----------------------------------------------------------------------------
(* The end of a run.                                                       *)

\* update_project, and db.yaml once more.
UpdateProject ==
    /\ stage = "targets"
    /\ todo = {}
    /\ dbRenamed' = redirected
    /\ stage' = "done"
    /\ UNCHANGED <<scanVars, orderVars, linkVars, todo, redirected, made>>

\* The process is gone: it has ended, or is killed.
Off ==
    /\ stage # "off"
    /\ stage' = "off"
    /\ ScanOver
    /\ IF order = "idle" THEN UNCHANGED orderVars ELSE Forget
    /\ todo' = {}
    /\ copies' = [f \in Files |-> 0]
    /\ text' = {}
    /\ clash' = FALSE
    /\ redirected' = {}
    /\ made' = {}
    /\ dbRenamed' = {}

EditFile(f) ==
    /\ stage = "off"
    /\ Edit(f)
    /\ UNCHANGED <<orderVars, stage, linkVars, workVars>>

Step ==
    \/ ScanProject \/ FixErrors \/ CreateWork \/ DieOfCache
    \/ NextTarget \/ FindConfiguration \/ SkipTarget \/ Generate
    \/ LinkOk \/ GiveUp \/ ExitOnConflict \/ Debug \/ Repair \/ DieOfGlobal
    \/ UpdateProject

Next ==
    \/ \E stop \in BOOLEAN : Run(stop)
    \/ Step
    \/ Off
    \/ \E f \in Files : EditFile(f)

Spec == Init /\ [][Next]_vars /\ WF_vars(Step)

-----------------------------------------------------------------------------
(* Properties.                                                             *)

Stages == {"off", "scanning", "targets", "ordering", "linking",
           "done", "exited", "dead", "debugger"}

\* Type invariant, of the scanner and of the search too.
TypeOK ==
    /\ ScanTypeOK
    /\ OrderTypeOK
    /\ stage \in Stages
    /\ todo \subseteq Files \X Names
    /\ copies \in [Files -> 0 .. 2]
    /\ text \subseteq Files \X Names
    /\ clash \in BOOLEAN
    /\ redirected \subseteq Files \X Names
    /\ dbRenamed \subseteq Files \X Names
    /\ made \subseteq [of : Files \X Names, files : SUBSET Files,
                      kept : SUBSET (Files \X Names), names : SUBSET (Files \X Names)]

\* A mock-up holds every function of its target's file that shares a static
\* variable with the target, is of the same storage and is not main, unless one
\* of the two does no more than to store through the variable: the visitors do
\* not see that.
SharersKept ==
    \A r \in made :
        LET f == r.of[1]
            body == Sig(f).body
            uses(fn) == Sig(f).statics \cap
                          (body[fn].calls \cup body[fn].reads \cup body[fn].assigns)
        IN  \A fn \in FunctionsOf(Sig(f)) \ {Main} :
              body[fn].static = body[r.of[2]].static /\ uses(fn) \cap uses(r.of[2]) # {}
                => <<f, fn>> \in r.kept

\* What is static in one file is the name of no function and no variable of
\* another, nor of the library; and main is a function only.
Static(src) == src.statics \cup {fn \in FunctionsOf(src) : src.body[fn].static}
NamesApart ==
    /\ Main \notin Library
    /\ \A k \in Files \X Versions :
         /\ Main \notin Source[k].defines \cup Source[k].statics
         /\ Static(Source[k]) \cap Library = {}
         /\ \A l \in (Files \ {k[1]}) \X Versions :
              Static(Source[k]) \cap (FunctionsOf(Source[l]) \cup Source[l].defines) = {}

\* Where a mock-up links, a call of a function of the project ends in a file the
\* search chose for it, also after other files were added in the repair.
LinksChosen ==
    stage = "linking" /\ Links /\ Fits =>
        \A f \in Files : \A fn \in kept[f] : \A n \in Callees(Sig(f), fn) :
            Candidates(n) # {} =>
                \E g \in Chosen(f, n) :
                    <<g, n>> \in text /\ Symbol(g, n) = Symbol(f, n)

\* A run that comes to its end leaves a db.yaml that has all the names replaced in
\* the mock-ups of its rules: the agent looks their functions and variables up in
\* it.  The name of a static target is the one exception: its own mock-up keeps
\* it, while db.yaml has the name that the mock-ups of other targets give it.
NamesAgree ==
    stage = "done" =>
        \A r \in made :
            /\ r.names \subseteq dbRenamed
            /\ {p \in dbRenamed \ r.names : p[1] \in r.files} \subseteq {r.of}

\* The linker misses a variable that one file declares and none defines: adding
\* the file changes nothing.  Or the text is of lines cut out of another one than
\* the database is of, and anything may be missing.
Stuck ==
    /\ stage = "linking"
    /\ \/ ~Fits
       \/ \E n \in Missed, f \in Files :
            /\ Candidates(n) = {}
            /\ Declaring(n) = {f}
            /\ n \notin Sig(f).defines

\* Every run ends, well or not, or comes to be stuck for good: whatever else the
\* repair adds, it does not add for ever.
Ended == stage \in {"off", "done", "exited", "dead", "debugger"}
RunEnds == stage = "scanning" ~> Ended \/ []Stuck
=============================================================================
