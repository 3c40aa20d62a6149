------------------------- MODULE AutoMockup_proofs -------------------------
(***************************************************************************)
(* Proofs about main of auto_mockup.py and what it calls, the scanner and  *)
(* the search, for any project, database, target and configuration.        *)
(*                                                                         *)
(* SaneAnswer is not inductive: what the scanner answers may come from the *)
(* cache, and the cache from any state of an earlier dump.  ScanInv says   *)
(* of both what is true throughout.                                        *)
(*                                                                         *)
(* The search is correct at its end because of what is true throughout:    *)
(* a callee of a kept function is kept where it is taken from, with its    *)
(* edge, or is still to be followed by a frame of its caller's file        *)
(* (Pending); frames follow only what kept functions call (Called); every  *)
(* file but the target's has an edge to another file (Leads).              *)
(***************************************************************************)
EXTENDS AutoMockup, Induction

-----------------------------------------------------------------------------
(* The scanner.                                                            *)

\* What holds of a cache whatever was cut off: the files in it were read without
\* trouble, and functions are listed only after all files, and are functions of
\* these.
CacheInv ==
    /\ \A f \in DOMAIN cache.files :
         cache.files[f] # Failed => Outcome(Source[<<f, cache.files[f]>>]) = "signature"
    /\ DOMAIN cache.files # Files => cache.functions = {}
    /\ DOMAIN cache.files = Files => cache.functions \subseteq AllFunctions(cache.files)

\* A database that was made, and not yet answered, is of the files as they are.
Fresh ==
    /\ db.files = Signatures
    /\ db.functions = AllFunctions(Signatures)
    /\ hit = FALSE
    /\ stopOnError => \A f \in Files : db.files[f] # Failed

ScanInv ==
    /\ ScanTypeOK
    /\ CacheInv
    /\ scan \in {"open", "dump"} => Fresh
    /\ scan = "dump" => \A f \in DOMAIN cache.files : cache.files[f] = db.files[f]
    /\ SaneAnswer

\* A database is of all files when its entries are a function of them.
LEMMA DatabaseType ==
    ASSUME NEW d \in Database
    PROVE  /\ d = [files |-> d.files, functions |-> d.functions]
           /\ DOMAIN d.files \subseteq Files
           /\ d.files \in [DOMAIN d.files -> Versions \cup {Failed}]
           /\ d.functions \subseteq Names
  BY DEF Database

LEMMA NoDbType == NoDb \in Database
<1>1. [f \in {} |-> Failed] \in [{} -> Versions \cup {Failed}]
  OBVIOUS
<1>2. {} \in SUBSET Files /\ {} \in SUBSET Names
  OBVIOUS
<1> QED
  BY <1>1, <1>2 DEF NoDb, Database

\* Signatures is an entry for every file, and what it lists are names.
LEMMA SignaturesType ==
    ASSUME disk \in [Files -> Versions]
    PROVE  /\ Signatures \in [Files -> Versions \cup {Failed}]
           /\ AllFunctions(Signatures) \subseteq Names
           /\ \A f \in Files : Signatures[f] # Failed =>
                  Outcome(Source[<<f, Signatures[f]>>]) = "signature"
<1>1. Signatures \in [Files -> Versions \cup {Failed}]
  BY DEF Signatures
<1>2. \A f \in Files : Signatures[f] # Failed =>
         Signatures[f] = disk[f] /\ Outcome(Text(f)) = "signature"
  BY DEF Signatures
<1>3. \A f \in Files : Signatures[f] # Failed =>
         FunctionsOf(Source[<<f, Signatures[f]>>]) \subseteq Names
  BY <1>2, SourceAssumption DEF FunctionsOf
<1> QED
  BY <1>1, <1>2, <1>3 DEF AllFunctions, Text

\* The invariant holds at first.
LEMMA ScanInitInv == ScanInit => ScanInv
<1> SUFFICES ASSUME ScanInit PROVE ScanInv
  OBVIOUS
<1>1. ScanTypeOK
  BY NoDbType DEF ScanInit, ScanTypeOK
<1>2. CacheInv
  BY DEF ScanInit, CacheInv, NoDb
<1> QED
  BY <1>1, <1>2 DEF ScanInit, ScanInv, SaneAnswer

\* Reading the files makes a fresh database.
LEMMA ReadFilesFresh ==
    ASSUME ScanInv, ReadFiles, scan' = "open"
    PROVE  Fresh' /\ db' \in Database
<1>1. /\ db' = [files |-> Signatures, functions |-> AllFunctions(Signatures)]
      /\ hit' = FALSE
      /\ ~GivesUp
      /\ \A f \in Files : Outcome(Text(f)) # "raised"
      /\ disk' = disk /\ stopOnError' = stopOnError
  BY DEF ReadFiles
<1>2. disk \in [Files -> Versions]
  BY DEF ScanInv, ScanTypeOK
<1>3. Signatures' = Signatures
  BY <1>1 DEF Signatures, Text
<1>4. stopOnError => \A f \in Files : Signatures[f] # Failed
  <2> SUFFICES ASSUME stopOnError, NEW f \in Files PROVE Signatures[f] # Failed
    OBVIOUS
  <2>1. Outcome(Text(f)) = "signature"
    BY <1>1 DEF GivesUp, Outcome
  <2> QED
    BY <2>1, <1>2, ScannerAssumption DEF Signatures
<1>5. db' \in Database
  BY <1>1, <1>2, SignaturesType DEF Database
<1> QED
  BY <1>1, <1>3, <1>4, <1>5 DEF Fresh

LEMMA SameEntries ==
    ASSUME NEW S, NEW T, NEW e1 \in [S -> T], NEW e2 \in [S -> T],
           \A x \in S : e1[x] = e2[x]
    PROVE  e1 = e2
  OBVIOUS

\* A step of the dump leaves a cache as CacheInv has it.
LEMMA DumpPartInv ==
    ASSUME ScanInv, DumpPart
    PROVE  /\ cache' \in Database
           /\ CacheInv'
           /\ \A f \in DOMAIN cache'.files : cache'.files[f] = db.files[f]
<1>1. /\ Fresh
      /\ db \in Database /\ cache \in Database
      /\ disk \in [Files -> Versions]
      /\ \A f \in DOMAIN cache.files : cache.files[f] = db.files[f]
  BY DEF DumpPart, ScanInv, ScanTypeOK
<1>2. /\ db.files \in [Files -> Versions \cup {Failed}]
      /\ db.functions = AllFunctions(db.files)
      /\ \A f \in Files : db.files[f] # Failed => Outcome(Source[<<f, db.files[f]>>]) = "signature"
  BY <1>1, SignaturesType DEF Fresh
<1>3. ASSUME NEW written \in SUBSET Files,
             cache' = [NoDb EXCEPT !.files = [f \in written |-> db.files[f]]]
      PROVE  /\ cache' \in Database
             /\ CacheInv'
             /\ \A f \in DOMAIN cache'.files : cache'.files[f] = db.files[f]
  <2>1. /\ cache' = [files |-> [f \in written |-> db.files[f]], functions |-> {}]
        /\ cache'.files = [f \in written |-> db.files[f]]
        /\ cache'.functions = {}
    BY <1>3 DEF NoDb
  <2>2. cache'.files \in [written -> Versions \cup {Failed}]
    BY <2>1, <1>2
  <2>3. cache' \in Database
    BY <2>1, <2>2 DEF Database
  <2> QED
    BY <2>1, <2>3, <1>2 DEF CacheInv
<1>4. ASSUME NEW names \in CutOff, DOMAIN cache.files = Files,
             cache' = [cache EXCEPT !.functions = db.functions \cap names]
      PROVE  /\ cache' \in Database
             /\ CacheInv'
             /\ \A f \in DOMAIN cache'.files : cache'.files[f] = db.files[f]
  <2>1. cache = [files |-> cache.files, functions |-> cache.functions]
    BY <1>1, DatabaseType
  <2>2. /\ cache'.files = cache.files
        /\ cache'.functions = db.functions \cap names
        /\ cache' = [files |-> cache.files, functions |-> db.functions \cap names]
    BY <2>1, <1>4
  <2>3. cache.files = db.files
    <3>1. cache.files \in [Files -> Versions \cup {Failed}]
      BY <1>1, <1>4, DatabaseType
    <3>2. \A f \in Files : cache.files[f] = db.files[f]
      BY <1>1, <1>4
    <3> QED
      BY <3>1, <3>2, <1>2, SameEntries
  <2>4. cache' \in Database
    BY <2>2, <1>1, <1>2, <2>3, DatabaseType DEF Database
  <2> QED
    BY <2>2, <2>3, <2>4, <1>2, <1>4 DEF CacheInv
<1> QED
  BY <1>3, <1>4 DEF DumpPart

\* A cache that nobody writes stays as it is.
LEMMA CacheKept == CacheInv /\ cache' = cache => CacheInv'
  BY DEF CacheInv, AllFunctions

\* Every step of the scanner preserves it.
LEMMA ScanNextInv == ScanInv /\ [ScanNext]_scanVars => ScanInv'
<1> SUFFICES ASSUME ScanInv, [ScanNext]_scanVars PROVE ScanInv'
  OBVIOUS
<1> USE DEF ScanInv
<1>1. ASSUME NEW stop \in BOOLEAN, Scan(stop) PROVE ScanInv'
  BY <1>1 DEF Scan, ScanTypeOK, CacheInv, SaneAnswer, AllFunctions
<1>2. CASE Hit
  <2>1. /\ disk' = disk /\ cache' = cache /\ stopOnError' = stopOnError
        /\ scan' = "answered" /\ db' = cache /\ hit' = TRUE
        /\ DOMAIN cache.files = Files
    BY <1>2 DEF Hit, Sane
  <2>2. CacheInv'
    BY <2>1, CacheKept
  <2>3. ScanTypeOK'
    BY <2>1 DEF ScanTypeOK
  <2>4. SaneAnswer'
    BY <2>1 DEF CacheInv, SaneAnswer, Sig, AllFunctions
  <2> QED
    BY <2>1, <2>2, <2>3, <2>4
<1>3. CASE Miss
  BY <1>3 DEF Miss, ScanTypeOK, CacheInv, SaneAnswer, AllFunctions
<1>4. CASE ReadFiles
  <2>1. /\ cache' = cache /\ disk' = disk /\ stopOnError' = stopOnError
        /\ scan' \in {"raised", "open"}
    BY <1>4 DEF ReadFiles
  <2>2. CacheInv'
    BY <2>1 DEF CacheInv, AllFunctions
  <2>3. CASE scan' = "raised"
    BY <1>4, <2>1, <2>2, <2>3 DEF ReadFiles, ScanTypeOK, SaneAnswer
  <2>4. CASE scan' = "open"
    <3>1. Fresh' /\ db' \in Database /\ hit' \in BOOLEAN
      BY <1>4, <2>4, ReadFilesFresh DEF Fresh
    <3> QED
      BY <2>1, <2>2, <2>4, <3>1 DEF ScanTypeOK, SaneAnswer
  <2> QED
    BY <2>1, <2>3, <2>4
<1>5. CASE OpenCache
  <2>1. Fresh'
    BY <1>5 DEF OpenCache, Fresh, Signatures, Text
  <2>2. ScanTypeOK'
    BY <1>5, NoDbType DEF OpenCache, ScanTypeOK
  <2>3. CacheInv' /\ \A f \in DOMAIN cache'.files : cache'.files[f] = db'.files[f]
    BY <1>5 DEF OpenCache, CacheInv, NoDb
  <2> QED
    BY <1>5, <2>1, <2>2, <2>3 DEF OpenCache, SaneAnswer
<1>6. CASE DumpPart
  <2>1. /\ cache' \in Database
        /\ CacheInv'
        /\ \A f \in DOMAIN cache'.files : cache'.files[f] = db.files[f]
    BY <1>6, DumpPartInv
  <2>2. /\ disk' = disk /\ stopOnError' = stopOnError /\ scan' = scan
        /\ db' = db /\ hit' = hit /\ scan = "dump"
    BY <1>6 DEF DumpPart
  <2>3. Fresh'
    BY <2>2 DEF Fresh, Signatures, Text
  <2> QED
    BY <2>1, <2>2, <2>3 DEF ScanTypeOK, SaneAnswer
<1>7. CASE DumpEnd
  <2>1. /\ disk' = disk /\ stopOnError' = stopOnError /\ scan' = "answered"
        /\ db' = db /\ hit' = hit /\ cache' = db /\ Fresh
    BY <1>7 DEF DumpEnd
  <2>2. /\ Signatures \in [Files -> Versions \cup {Failed}]
        /\ \A f \in Files : Signatures[f] # Failed =>
               Outcome(Source[<<f, Signatures[f]>>]) = "signature"
    BY SignaturesType DEF ScanTypeOK
  <2>3. ScanTypeOK'
    BY <2>1 DEF ScanTypeOK
  <2>4. CacheInv'
    BY <2>1, <2>2 DEF CacheInv, Fresh, AllFunctions
  <2>5. Signatures' = Signatures
    BY <2>1 DEF Signatures, Text
  <2>6. SaneAnswer'
    BY <2>1, <2>2, <2>5 DEF SaneAnswer, Sig, Fresh, AllFunctions
  <2> QED
    BY <2>1, <2>3, <2>4, <2>6
<1>8. CASE ScanOver
  BY <1>8, NoDbType DEF ScanOver, ScanTypeOK, CacheInv, SaneAnswer, AllFunctions
<1>9. ASSUME NEW f \in Files, Edit(f) PROVE ScanInv'
  <2>1. disk' \in [Files -> Versions]
    BY <1>9 DEF Edit, ScanTypeOK
  <2>2. CacheInv'
    BY <1>9, CacheKept DEF Edit
  <2> QED
    BY <1>9, <2>1, <2>2 DEF Edit, ScanTypeOK, SaneAnswer
<1>10. CASE UNCHANGED scanVars
  <2>1. /\ disk' = disk /\ cache' = cache /\ stopOnError' = stopOnError
        /\ scan' = scan /\ db' = db /\ hit' = hit
    BY <1>10 DEF scanVars
  <2>2. CacheInv'
    BY <2>1, CacheKept
  <2>3. Signatures' = Signatures
    BY <2>1 DEF Signatures, Text
  <2>4. Fresh' <=> Fresh
    BY <2>1, <2>3 DEF Fresh, AllFunctions
  <2>5. SaneAnswer'
    BY <2>1, <2>3 DEF SaneAnswer, Sig, AllFunctions
  <2> QED
    BY <2>1, <2>2, <2>4, <2>5 DEF ScanTypeOK
<1> QED
  BY <1>1, <1>2, <1>3, <1>4, <1>5, <1>6, <1>7, <1>8, <1>9, <1>10 DEF ScanNext, ScanStep

\* Type correctness of the scanner, for any files, versions and texts.
THEOREM ScannerTyped == ScanSpec => []ScanTypeOK
<1>1. ScanInv => ScanTypeOK
  BY DEF ScanInv
<1> QED
  BY <1>1, ScanInitInv, ScanNextInv, PTL DEF ScanSpec

\* Whatever was cut off of the cache, and edited since, an answer is of all the
\* files, and of nothing the scanner trips over.
THEOREM AnswersSanely == ScanSpec => []SaneAnswer
<1>1. ScanInv => SaneAnswer
  BY DEF ScanInv
<1> QED
  BY <1>1, ScanInitInv, ScanNextInv, PTL DEF ScanSpec

-----------------------------------------------------------------------------
(* The search.                                                             *)

Frame == [file : Files, todo : SUBSET Names]

\* The frames on a stack.
On(s) == {s[i] : i \in DOMAIN s}

\* What the search starts with.
StartsOf(t) == SharingStatics(Sig(t[1]), t[2], Main)

\* Names that functions of a file call, and those that the kept ones call.
CalledBy(f, fns) == UNION {Callees(Sig(f), fn) : fn \in fns}
Wanted(f) == CalledBy(f, kept[f])

\* The callee n of file f is kept in a file it may be taken from, above f.
Resolved(f, n) == \E g \in Chosen(f, n) : n \in kept[g] /\ (g # f => <<g, f>> \in edges)

OnlyKnown == \A f \in Files : kept[f] \subseteq Known(db, f)
Started ==
    /\ target[1] \in Files
    /\ target[2] \in Known(db, target[1])
    /\ target[2] \in StartsOf(target)
    /\ StartsOf(target) \subseteq kept[target[1]]
Pending ==
    \A f \in Files : \A n \in Wanted(f) :
        Candidates(n) # {} =>
            Resolved(f, n) \/ \E x \in On(stack) : x.file = f /\ n \in x.todo
Called == \A x \in On(stack) : x.todo \subseteq Wanted(x.file)
Leads == \A f \in Nodes \ {target[1]} : \E u \in Files : u # f /\ <<f, u>> \in edges
Reachable ==
    \A S \in SUBSET Kept :
        (\A fn \in StartsOf(target) : <<target[1], fn>> \in S) /\ ClosedInKept(S) => S = Kept

Followed == OnlyKnown /\ Started /\ Pending /\ Called /\ Leads /\ Reachable

OrderInv ==
    /\ OrderTypeOK
    /\ order = "found" =>
         /\ target[1] \in Files
         /\ target[2] \in Known(db, target[1])
         /\ kept = [f \in Files |-> {}]
         /\ edges = {}
         /\ stack = <<>>
    /\ order \in {"scan", "sorted"} => Followed
    /\ order = "sorted" =>
         /\ stack = <<>>
         /\ sorted \in SetToSeqs(Nodes)
         /\ Topological(sorted)

-----------------------------------------------------------------------------
(* Stacks.                                                                 *)

LEMMA TopOf ==
    ASSUME NEW F, NEW s \in Seq(F), s # <<>>
    PROVE  /\ Head(s) \in F
           /\ Tail(s) \in Seq(F)
           /\ On(s) = {Head(s)} \cup On(Tail(s))
<1>1. /\ Head(s) \in F /\ Tail(s) \in Seq(F) /\ Head(s) = s[1] /\ Len(s) \in Nat \ {0}
      /\ DOMAIN s = 1 .. Len(s) /\ DOMAIN Tail(s) = 1 .. Len(s) - 1
      /\ \A i \in DOMAIN Tail(s) : Tail(s)[i] = s[i + 1]
  OBVIOUS
<1>2. On(s) \subseteq {Head(s)} \cup On(Tail(s))
  <2> SUFFICES ASSUME NEW i \in DOMAIN s, i # 1 PROVE s[i] \in On(Tail(s))
    BY <1>1 DEF On
  <2>1. i - 1 \in DOMAIN Tail(s) /\ Tail(s)[i - 1] = s[i]
    BY <1>1
  <2> QED
    BY <2>1 DEF On
<1>3. \A i \in DOMAIN Tail(s) : i + 1 \in DOMAIN s
  BY <1>1
<1>4. On(Tail(s)) \subseteq On(s)
  BY <1>1, <1>3 DEF On
<1>5. Head(s) \in On(s)
  BY <1>1 DEF On
<1> QED
  BY <1>1, <1>2, <1>4, <1>5

LEMMA Pushed ==
    ASSUME NEW F, NEW s \in Seq(F), NEW x \in F
    PROVE  /\ <<x>> \o s \in Seq(F)
           /\ On(<<x>> \o s) = {x} \cup On(s)
<1> DEFINE t == <<x>> \o s
<1>1. /\ t \in Seq(F) /\ t # <<>> /\ Head(t) = x /\ Tail(t) = s
  OBVIOUS
<1> QED
  BY <1>1, TopOf

LEMMA NoFrame == On(<<>>) = {}
  BY DEF On

-----------------------------------------------------------------------------
(* The project.                                                            *)

\* What a database knows has a text, whose calls are names.
LEMMA KnownTexts ==
    ASSUME ScanTypeOK, NEW f \in Files
    PROVE  /\ Known(db, f) \subseteq Names
           /\ \A fn \in Known(db, f) :
                /\ fn \in FunctionsOf(Sig(f))
                /\ Callees(Sig(f), fn) \subseteq Names
<1>1. /\ DOMAIN db.files \subseteq Files
      /\ db.files \in [DOMAIN db.files -> Versions \cup {Failed}]
  BY DatabaseType DEF ScanTypeOK
<1>2. ASSUME f \in DOMAIN db.files, db.files[f] # Failed
      PROVE  <<f, db.files[f]>> \in Files \X Versions
  BY <1>1, <1>2
<1>3. ASSUME NEW k \in Files \X Versions
      PROVE  /\ FunctionsOf(Source[k]) \subseteq Names
             /\ \A fn \in FunctionsOf(Source[k]) : Callees(Source[k], fn) \subseteq Names
  BY SourceAssumption DEF FunctionsOf, Callees
<1> QED
  BY <1>2, <1>3 DEF Known, Sig

\* The target is of the functions the search starts with, and these are known.
LEMMA StartsKnown ==
    ASSUME NEW src, NEW fn \in FunctionsOf(src)
    PROVE  /\ fn \in SharingStatics(src, fn, Main)
           /\ SharingStatics(src, fn, Main) \subseteq FunctionsOf(src)
  BY DEF SharingStatics

LEMMA ChosenFiles == \A f \in Files : \A n : Chosen(f, n) \subseteq Files
  BY DEF Chosen, Candidates

\* Nothing that is said of the project changes while its database does not.
LEMMA SameProject ==
    ASSUME db' = db
    PROVE  /\ \A f : Known(db, f)' = Known(db, f)
           /\ \A f : Sig(f)' = Sig(f)
           /\ \A n : Candidates(n)' = Candidates(n)
           /\ \A t : StartsOf(t)' = StartsOf(t)
  BY DEF Known, Sig, Candidates, StartsOf

LEMMA SameChoice ==
    ASSUME db' = db, target' = target
    PROVE  \A f, n : Chosen(f, n)' = Chosen(f, n)
<1> SUFFICES ASSUME NEW f, NEW n PROVE Chosen(f, n)' = Chosen(f, n)
  OBVIOUS
<1>1. Candidates(n)' = Candidates(n)
  BY SameProject
<1> QED
  BY <1>1 DEF Chosen

-----------------------------------------------------------------------------
(* A call of scan_recursively.                                             *)

\* What a call of scan_recursively(u, g, fns) does.
Visited(u, g, fns, below) ==
    /\ target' = target /\ order' \in {"scan", "failed"}
    /\ kept' = KeptAfter(g, fns)
    /\ edges \subseteq edges' /\ edges' \subseteq edges \cup {<<g, u>>}
    /\ u = NoFile => edges' = edges
    /\ u # NoFile /\ u # g => <<g, u>> \in edges'
    /\ On(below) \subseteq On(stack')
    /\ order' = "scan" =>
         /\ NewFunctions(g, fns) \subseteq Known(db, g)
         /\ \A x \in On(stack') :
               x \in On(below) \/ (x.file = g /\ x.todo \subseteq CalledBy(g, kept'[g]))
         /\ \A fn \in NewFunctions(g, fns) : \A n \in Callees(Sig(g), fn) :
               \E x \in On(stack') : x.file = g /\ n \in x.todo

LEMMA VisitStep ==
    ASSUME ScanTypeOK, OrderTypeOK, UNCHANGED scanVars,
           NEW u \in Files \cup {NoFile}, NEW g \in Files, NEW fns \in SUBSET Names,
           NEW below \in Seq(Frame), Visit(u, g, fns, below)
    PROVE  OrderTypeOK' /\ Visited(u, g, fns, below)
<1> DEFINE new == NewFunctions(g, fns)
           called == CalledBy(g, new)
           frame == [file |-> g, todo |-> called]
<1>1. /\ edges' = EdgesAfter(u, g, new)
      /\ kept' = KeptAfter(g, fns)
      /\ target' = target /\ sorted' = sorted
      /\ \/ new = {} /\ stack' = below /\ order' = "scan"
         \/ /\ new # {} /\ new \subseteq Known(db, g)
            /\ stack' = <<frame>> \o below /\ order' = "scan"
         \/ stack' = below /\ order' = "failed"
  BY DEF Visit, CalledBy
<1>2. kept' = KeptAfter(g, fns) /\ kept' \in [Files -> SUBSET Names]
  BY <1>1 DEF KeptAfter, OrderTypeOK
<1>3. /\ edges \subseteq edges' /\ edges' \subseteq edges \cup {<<g, u>>}
      /\ u = NoFile => edges' = edges
      /\ u # NoFile /\ u # g => <<g, u>> \in edges'
      /\ edges' \subseteq Files \X Files
  BY <1>1 DEF EdgesAfter, OrderTypeOK
<1>5. called \subseteq CalledBy(g, kept'[g])
  BY <1>2 DEF CalledBy, OrderTypeOK, KeptAfter, NewFunctions
<1>6. ASSUME new \subseteq Known(db, g) PROVE frame \in Frame
  BY <1>6, KnownTexts DEF Frame, CalledBy
<1>7. CASE new = {} /\ stack' = below /\ order' = "scan"
  BY <1>1, <1>2, <1>3, <1>7 DEF OrderTypeOK, Frame, Visited
<1>8. CASE /\ new \subseteq Known(db, g)
           /\ stack' = <<frame>> \o below /\ order' = "scan"
  <2>1. stack' \in Seq(Frame) /\ On(stack') = {frame} \cup On(below)
    BY <1>6, <1>8, Pushed
  <2>2. frame.file = g /\ frame.todo = called
    OBVIOUS
  <2>3. frame \in On(stack') /\ \A x \in On(stack') : x \in On(below) \/ x = frame
    BY <2>1
  <2>4. \A fn \in new : \A n \in Callees(Sig(g), fn) : n \in called
    BY DEF CalledBy
  <2>5. OrderTypeOK'
    BY <1>1, <1>2, <1>3, <1>8, <2>1 DEF OrderTypeOK, Frame
  <2> HIDE DEF frame, called
  <2> QED
    BY <1>1, <1>2, <1>3, <1>5, <1>8, <2>1, <2>2, <2>3, <2>4, <2>5 DEF Visited
<1>9. CASE stack' = below /\ order' = "failed"
  BY <1>1, <1>2, <1>3, <1>9 DEF OrderTypeOK, Frame, Visited
<1> QED
  BY <1>1, <1>7, <1>8, <1>9

\* Steps of the search that leave it as it is, but for its stack.
LEMMA SameSearch ==
    ASSUME Followed, UNCHANGED <<scanVars, target, kept, edges>>,
           \A x \in On(stack') : x.todo \subseteq Wanted(x.file),
           \A x \in On(stack) : \A n \in x.todo :
              Candidates(n) # {} =>
                  Resolved(x.file, n) \/ \E y \in On(stack') : y.file = x.file /\ n \in y.todo
    PROVE  Followed'
<1>1. /\ db' = db /\ target' = target /\ kept' = kept /\ edges' = edges
  BY DEF scanVars
<1>2. /\ \A h, n : Chosen(h, n)' = Chosen(h, n)
      /\ \A h : Known(db, h)' = Known(db, h) /\ Sig(h)' = Sig(h)
      /\ \A n : Candidates(n)' = Candidates(n)
      /\ StartsOf(target)' = StartsOf(target)
  BY <1>1, SameProject, SameChoice
<1>3. \A h : Wanted(h)' = Wanted(h)
  BY <1>1, <1>2 DEF Wanted, CalledBy
<1>4. \A h, n : Resolved(h, n) => Resolved(h, n)'
  BY <1>1, <1>2 DEF Resolved
<1>5. Pending'
  BY <1>2, <1>3, <1>4 DEF Followed, Pending
<1>6. Called'
  BY <1>3 DEF Called
<1>7. Leads' /\ OnlyKnown' /\ Started'
  BY <1>1, <1>2 DEF Followed, Leads, Nodes, OnlyKnown, Started
<1>8. Kept' = Kept
  BY <1>1 DEF Kept
<1>9. \A S : ClosedInKept(S)' <=> ClosedInKept(S)
  BY <1>2, <1>8 DEF ClosedInKept
<1>10. Reachable'
  BY <1>1, <1>2, <1>8, <1>9 DEF Followed, Reachable
<1> QED
  BY <1>5, <1>6, <1>7, <1>10 DEF Followed

\* The first call.
LEMMA EnterInv ==
    ASSUME ScanTypeOK, OrderInv, Enter, UNCHANGED scanVars
    PROVE  OrderInv'
<1> PICK g, fns : g = target[1] /\ fns = StartsOf(target)
  OBVIOUS
<1>1. /\ g \in Files /\ target[2] \in Known(db, g)
      /\ kept = [h \in Files |-> {}] /\ edges = {} /\ stack = <<>>
      /\ OrderTypeOK
      /\ Visit(NoFile, g, fns, <<>>)
  BY DEF Enter, OrderInv, StartsOf
<1>2. target[2] \in fns /\ fns \subseteq Known(db, g) /\ fns \subseteq Names
  <2>1. target[2] \in FunctionsOf(Sig(g)) /\ Known(db, g) = FunctionsOf(Sig(g))
    BY <1>1 DEF Known, Sig
  <2> QED
    BY <2>1, <1>1, StartsKnown, KnownTexts DEF StartsOf
<1>3. <<>> \in Seq(Frame) /\ NoFile \in Files \cup {NoFile}
  OBVIOUS
<1>4. OrderTypeOK' /\ Visited(NoFile, g, fns, <<>>)
  BY <1>1, <1>2, <1>3, VisitStep
<1> USE DEF Visited
<1>5. kept' = [h \in Files |-> IF h = g THEN fns ELSE {}] /\ NewFunctions(g, fns) = fns
  BY <1>1, <1>4 DEF KeptAfter, NewFunctions
<1> SUFFICES ASSUME order' = "scan" PROVE Followed'
  BY <1>4 DEF OrderInv
<1>6. /\ db' = db
      /\ \A h : Known(db, h)' = Known(db, h) /\ Sig(h)' = Sig(h)
      /\ StartsOf(target)' = StartsOf(target)
  BY <1>4, SameProject DEF scanVars
<1>7. OnlyKnown' /\ Started'
  BY <1>1, <1>2, <1>4, <1>5, <1>6 DEF OnlyKnown, Started
<1>8. Pending'
  <2>1. \A h \in Files \ {g} : Wanted(h)' = {}
    BY <1>5 DEF Wanted, CalledBy
  <2>2. \A n \in Wanted(g)' : \E x \in On(stack') : x.file = g /\ n \in x.todo
    <3>1. Wanted(g)' = UNION {Callees(Sig(g), fn) : fn \in fns}
      BY <1>1, <1>5, <1>6 DEF Wanted, CalledBy
    <3> QED
      BY <3>1, <1>4, <1>5
  <2> QED
    BY <2>1, <2>2 DEF Pending
<1>9. Called'
  <2>1. Wanted(g)' = CalledBy(g, kept'[g])
    BY <1>6 DEF Wanted, CalledBy
  <2> QED
    BY <1>4, <2>1, NoFrame DEF Called
<1>10. Leads'
  BY <1>4, <1>5 DEF Leads, Nodes
<1>11. Reachable'
  <2>1. \A c \in Kept' : c = <<g, c[2]>> /\ c[2] \in fns
    BY <1>5 DEF Kept
  <2> QED
    BY <2>1, <1>4, <1>6 DEF Reachable
<1> QED
  BY <1>7, <1>8, <1>9, <1>10, <1>11 DEF Followed

\* A callee is followed into a file it may be taken from.
LEMMA FollowInv ==
    ASSUME ScanTypeOK, OrderInv, order = "scan", UNCHANGED scanVars,
           NEW top \in Frame, NEW rest \in Seq(Frame), NEW below \in Seq(Frame),
           On(stack) = {top} \cup On(rest),
           NEW n \in top.todo,
           On(below) = {[top EXCEPT !.todo = @ \ {n}]} \cup On(rest),
           NEW g \in Chosen(top.file, n),
           Visit(top.file, g, {n}, below), order' = "scan"
    PROVE  Followed'
<1> DEFINE f == top.file
           less == [top EXCEPT !.todo = @ \ {n}]
<1>1. /\ f \in Files /\ g \in Files /\ n \in Names
      /\ f # NoFile
  BY ChosenFiles, OrderAssumption DEF Frame
<1>2. less.file = f /\ less.todo = top.todo \ {n}
  BY DEF Frame
<1>3. Followed /\ OrderTypeOK
  BY DEF OrderInv
<1>4. Visited(f, g, {n}, below)
  BY <1>1, <1>3, VisitStep
<1> USE DEF Visited
<1>5. /\ db' = db
      /\ \A h : Known(db, h)' = Known(db, h) /\ Sig(h)' = Sig(h)
      /\ \A m : Candidates(m)' = Candidates(m)
      /\ \A h, m : Chosen(h, m)' = Chosen(h, m)
      /\ StartsOf(target)' = StartsOf(target)
  BY <1>4, SameProject, SameChoice DEF scanVars
<1> HIDE DEF f, less
<1>6. /\ kept' = [h \in Files |-> IF h = g THEN kept[g] \cup {n} ELSE kept[h]]
      /\ n \notin kept[g] => n \in NewFunctions(g, {n})
      /\ n \in Known(db, g) \/ n \in kept[g]
  BY <1>1, <1>3, <1>4 DEF OrderTypeOK, KeptAfter, NewFunctions
<1>7. /\ \A h \in Files : Wanted(h) \subseteq Wanted(h)'
      /\ \A h \in Files : \A m \in Wanted(h)' :
           m \in Wanted(h) \/ (h = g /\ n \notin kept[g] /\ m \in Callees(Sig(g), n))
  BY <1>5, <1>6 DEF Wanted, CalledBy
<1>8. OnlyKnown' /\ Started'
  <2>1. OnlyKnown'
    BY <1>1, <1>3, <1>5, <1>6 DEF Followed, OnlyKnown
  <2>2. \A h \in Files : kept[h] \subseteq kept'[h]
    BY <1>6
  <2>3. Started'
    BY <1>3, <1>4, <1>5, <2>2 DEF Followed, Started
  <2> QED
    BY <2>1, <2>3
<1>9. \A h \in Files : \A m : Resolved(h, m) => Resolved(h, m)'
  BY <1>4, <1>5, <1>6, ChosenFiles DEF Resolved
<1>10. Resolved(f, n)'
  BY <1>1, <1>4, <1>5, <1>6 DEF Resolved, f
<1>11. Pending'
  <2> SUFFICES ASSUME NEW h \in Files, NEW m \in Wanted(h)', Candidates(m) # {}
               PROVE  Resolved(h, m)' \/ \E x \in On(stack') : x.file = h /\ m \in x.todo
    BY <1>5 DEF Pending
  <2>1. CASE m \in Wanted(h)
    <3>1. Resolved(h, m) \/ \E x \in On(stack) : x.file = h /\ m \in x.todo
      BY <1>3, <2>1 DEF Followed, Pending
    <3>2. ASSUME NEW x \in On(stack), x.file = h, m \in x.todo
          PROVE  Resolved(h, m)' \/ \E y \in On(stack') : y.file = h /\ m \in y.todo
      <4>1. CASE x = top
        <5>1. CASE m = n
          BY <1>10, <3>2, <4>1, <5>1 DEF f
        <5>2. CASE m # n
          BY <1>2, <1>4, <3>2, <4>1, <5>2 DEF f, less
        <5> QED
          BY <5>1, <5>2
      <4>2. CASE x # top
        BY <1>4, <3>2, <4>2
      <4> QED
        BY <4>1, <4>2
    <3> QED
      BY <1>9, <3>1, <3>2
  <2>2. CASE h = g /\ n \notin kept[g] /\ m \in Callees(Sig(g), n)
    BY <1>4, <1>6, <2>2
  <2> QED
    BY <1>7, <2>1, <2>2
<1>12. Called'
  <2>1. Wanted(g)' = CalledBy(g, kept'[g])
    BY <1>5 DEF Wanted, CalledBy
  <2>2. \A x \in On(below) : x.file \in Files /\ x.todo \subseteq Wanted(x.file)
    <3>1. \A x \in On(stack) : x.todo \subseteq Wanted(x.file)
      BY <1>3 DEF Followed, Called
    <3>2. \A x \in On(rest) : x.file \in Files
      <4>1. \A i \in DOMAIN rest : rest[i] \in Frame
        OBVIOUS
      <4> QED
        BY <4>1 DEF On, Frame
    <3> QED
      BY <1>1, <1>2, <3>1, <3>2 DEF less, f
  <2> QED
    <3>1. ASSUME NEW x \in On(stack') PROVE x.todo \subseteq Wanted(x.file)'
      <4>1. CASE x \in On(below)
        BY <1>7, <2>2, <4>1
      <4>2. CASE x.file = g /\ x.todo \subseteq CalledBy(g, kept'[g])
        BY <2>1, <4>2
      <4> QED
        BY <1>4, <4>1, <4>2
    <3> QED
      BY <3>1 DEF Called
<1>13. Leads'
  <2> SUFFICES ASSUME NEW h \in Nodes', h # target[1]
               PROVE  \E u \in Files : u # h /\ <<h, u>> \in edges'
    BY <1>4 DEF Leads
  <2>1. CASE h \in Nodes
    BY <1>3, <1>4, <2>1 DEF Followed, Leads
  <2>2. CASE h \notin Nodes
    <3>1. h = g /\ kept[g] = {}
      BY <1>6, <2>2 DEF Nodes
    <3>2. kept[f] # {}
      <4>1. n \in Wanted(f)
        BY <1>3 DEF Followed, Called, f
      <4> QED
        BY <4>1 DEF Wanted, CalledBy
    <3> QED
      BY <1>1, <1>4, <3>1, <3>2
  <2> QED
    BY <2>1, <2>2
<1>14. Reachable'
  <2> SUFFICES ASSUME NEW S \in SUBSET Kept',
                      \A fn \in StartsOf(target) : <<target[1], fn>> \in S,
                      ClosedInKept(S)'
               PROVE  S = Kept'
    BY <1>4, <1>5 DEF Reachable
  <2>1. /\ Kept' = Kept \cup {<<g, n>>}
        /\ Kept \subseteq Kept'
    BY <1>1, <1>6 DEF Kept
  <2>2. \A fn \in StartsOf(target) : <<target[1], fn>> \in S \cap Kept
    <3>1. target[1] \in Files /\ StartsOf(target) \subseteq kept[target[1]]
      BY <1>3 DEF Followed, Started
    <3>2. kept[target[1]] \subseteq Names
      BY <1>3, <3>1 DEF OrderTypeOK
    <3> QED
      BY <3>1, <3>2 DEF Kept
  <2>3. \A c \in S : c[2] \in Known(db, c[1]) =>
           \A m \in Callees(Sig(c[1]), c[2]) :
               Candidates(m) # {} =>
                   \A h \in Chosen(c[1], m) : <<h, m>> \in Kept' => <<h, m>> \in S
    BY <1>5 DEF ClosedInKept
  <2>4. ClosedInKept(S \cap Kept)
    BY <2>1, <2>3 DEF ClosedInKept
  <2>5. S \cap Kept = Kept
    BY <2>2, <2>4, <1>3 DEF Followed, Reachable
  <2>6. PICK fn \in kept[f] : n \in Callees(Sig(f), fn)
    BY <1>3 DEF Followed, Called, Wanted, CalledBy, f
  <2>7. <<f, fn>> \in S /\ fn \in Known(db, f)
    <3>1. fn \in Known(db, f) /\ fn \in Names
      BY <1>1, <1>3, <2>6 DEF Followed, OnlyKnown, OrderTypeOK
    <3>2. <<f, fn>> \in Kept
      BY <1>1, <2>6, <3>1 DEF Kept
    <3> QED
      BY <2>5, <3>1, <3>2
  <2>8. Candidates(n) # {}
    BY DEF Chosen
  <2>9. <<g, n>> \in S
    BY <2>1, <2>3, <2>6, <2>7, <2>8 DEF f
  <2> QED
    BY <2>1, <2>5, <2>9
<1> QED
  BY <1>8, <1>11, <1>12, <1>13, <1>14 DEF Followed

\* The next callee of the innermost call.
LEMMA CallInv ==
    ASSUME ScanTypeOK, OrderInv, UNCHANGED scanVars, NEW n \in Names, Call(n)
    PROVE  OrderInv'
<1>1. OrderTypeOK /\ Followed /\ order = "scan" /\ stack \in Seq(Frame) /\ stack # <<>>
  BY DEF Call, OrderInv, OrderTypeOK, Frame
<1>2. PICK top, rest : top = Head(stack) /\ rest = Tail(stack)
  OBVIOUS
<1>3. top \in Frame /\ rest \in Seq(Frame) /\ On(stack) = {top} \cup On(rest)
  BY <1>1, <1>2, TopOf
<1> DEFINE less == [top EXCEPT !.todo = @ \ {n}]
           below == <<less>> \o rest
<1>4. less \in Frame /\ less.file = top.file /\ less.todo = top.todo \ {n}
  BY <1>3 DEF Frame
<1>5. below \in Seq(Frame) /\ On(below) = {less} \cup On(rest)
  BY <1>3, <1>4, Pushed
<1>6. /\ n \in top.todo
      /\ \/ /\ Candidates(n) = {}
            /\ stack' = below
            /\ UNCHANGED <<order, target, kept, edges, sorted>>
         \/ \E g \in Chosen(top.file, n) : Visit(top.file, g, {n}, below)
         \/ /\ order' = "failed"
            /\ UNCHANGED <<target, stack, kept, edges, sorted>>
  BY <1>2 DEF Call
<1>7. CASE /\ Candidates(n) = {}
           /\ stack' = below
           /\ UNCHANGED <<order, target, kept, edges, sorted>>
  <2>1. \A x \in On(stack') : x.todo \subseteq Wanted(x.file)
    BY <1>1, <1>3, <1>4, <1>5, <1>7 DEF Followed, Called
  <2>2. ASSUME NEW x \in On(stack), NEW m \in x.todo, Candidates(m) # {}
        PROVE  \E y \in On(stack') : y.file = x.file /\ m \in y.todo
    <3>1. CASE x = top
      BY <1>4, <1>5, <1>7, <2>2, <3>1
    <3>2. CASE x # top
      BY <1>3, <1>5, <1>7, <2>2, <3>2
    <3> QED
      BY <3>1, <3>2
  <2>3. Followed'
    BY <1>1, <1>7, <2>1, <2>2, SameSearch
  <2>4. OrderTypeOK'
    BY <1>1, <1>5, <1>7 DEF OrderTypeOK, Frame
  <2> QED
    BY <1>1, <1>7, <2>3, <2>4 DEF OrderInv
<1>8. ASSUME NEW g \in Chosen(top.file, n), Visit(top.file, g, {n}, below)
      PROVE  OrderInv'
  <2>1. top.file \in Files /\ top.file \in Files \cup {NoFile} /\ g \in Files
        /\ {n} \in SUBSET Names
    BY <1>3, ChosenFiles DEF Frame
  <2>2. OrderTypeOK' /\ Visited(top.file, g, {n}, below)
    BY <1>1, <1>5, <1>8, <2>1, VisitStep
  <2>3. order' \in {"scan", "failed"}
    BY <2>2 DEF Visited
  <2>4. order' = "scan" => Followed'
    BY <1>1, <1>3, <1>5, <1>6, <1>8, FollowInv
  <2> QED
    BY <2>2, <2>3, <2>4 DEF OrderInv
<1>9. CASE order' = "failed" /\ UNCHANGED <<target, stack, kept, edges, sorted>>
  BY <1>1, <1>9 DEF OrderInv, OrderTypeOK
<1> QED
  BY <1>6, <1>7, <1>8, <1>9

\* A call that returns.
LEMMA ReturnInv ==
    ASSUME ScanTypeOK, OrderInv, UNCHANGED scanVars, Return
    PROVE  OrderInv'
<1>1. /\ OrderTypeOK /\ Followed /\ order = "scan" /\ stack \in Seq(Frame) /\ stack # <<>>
      /\ Head(stack).todo = {} /\ stack' = Tail(stack)
      /\ UNCHANGED <<order, target, kept, edges, sorted>>
  BY DEF Return, OrderInv, OrderTypeOK, Frame
<1>2. stack' \in Seq(Frame) /\ On(stack) = {Head(stack)} \cup On(stack')
  BY <1>1, TopOf
<1>3. \A x \in On(stack') : x.todo \subseteq Wanted(x.file)
  BY <1>1, <1>2 DEF Followed, Called
<1>4. \A x \in On(stack) : \A n \in x.todo :
         \E y \in On(stack') : y.file = x.file /\ n \in y.todo
  BY <1>1, <1>2
<1>5. Followed'
  BY <1>1, <1>3, <1>4, SameSearch
<1>6. OrderTypeOK'
  BY <1>1, <1>2 DEF OrderTypeOK, Frame
<1> QED
  BY <1>1, <1>5, <1>6 DEF OrderInv

\* A sequence of all nodes, without repetition.
LEMMA NodesInSequence ==
    ASSUME NEW s \in SetToSeqs(Nodes)
    PROVE  /\ s \in Seq(Files) /\ DOMAIN s = 1 .. Len(s)
           /\ Len(s) = Cardinality(Nodes) /\ Len(s) \in Nat
           /\ \A i, j \in DOMAIN s : i # j => s[i] # s[j]
           /\ \A i \in DOMAIN s : s[i] \in Nodes
<1>1. Nodes \subseteq Files
  BY DEF Nodes
<1>2. Cardinality(Nodes) \in Nat
  BY <1>1, SourceAssumption, FS_Subset, FS_CardinalityType
<1>3. /\ s \in [1 .. Cardinality(Nodes) -> Nodes]
      /\ \A i, j \in 1 .. Cardinality(Nodes) : i # j => s[i] # s[j]
  BY DEF SetToSeqs
<1> HIDE DEF Nodes
<1>4. s \in Seq(Nodes) /\ Len(s) = Cardinality(Nodes)
  BY <1>2, <1>3
<1> QED
  BY <1>1, <1>2, <1>3, <1>4

\* The files are sorted, or cannot be.
LEMMA SortInv ==
    ASSUME ScanTypeOK, OrderInv, UNCHANGED scanVars, Sort
    PROVE  OrderInv'
<1>1. /\ OrderTypeOK /\ Followed /\ stack = <<>>
      /\ UNCHANGED <<target, stack, kept, edges>>
      /\ \/ order' = "sorted" /\ sorted' \in SetToSeqs(Nodes) /\ Topological(sorted')
         \/ order' = "failed" /\ sorted' = sorted
  BY DEF Sort, OrderInv
<1>2. CASE order' = "sorted" /\ sorted' \in SetToSeqs(Nodes) /\ Topological(sorted')
  <2>1. Followed'
    BY <1>1, NoFrame, SameSearch
  <2>2. Nodes' = Nodes
    BY <1>1 DEF Nodes
  <2>3. Topological(sorted)'
    BY <1>1, <1>2 DEF Topological
  <2>4. OrderTypeOK'
    BY <1>1, <1>2, NodesInSequence DEF OrderTypeOK
  <2> QED
    BY <1>1, <1>2, <2>1, <2>2, <2>3, <2>4 DEF OrderInv
<1>3. CASE order' = "failed" /\ sorted' = sorted
  BY <1>1, <1>3 DEF OrderInv, OrderTypeOK
<1> QED
  BY <1>1, <1>2, <1>3

\* A search that begins, and one that is forgotten.
LEMMA ConfigureInv ==
    ASSUME ScanTypeOK, OrderInv, UNCHANGED scanVars,
           NEW f \in Files, NEW fn \in Names, Configure(f, fn)
    PROVE  OrderInv'
<1>1. Known(db, f)' = Known(db, f)
  BY SameProject DEF scanVars
<1>2. /\ target' = <<f, fn>> /\ edges' = {} /\ stack' = <<>> /\ sorted' = <<>>
      /\ kept' = [g \in Files |-> {}]
      /\ order' = IF fn \in Known(db, f) THEN "found" ELSE "failed"
  BY DEF Configure
<1>3. OrderTypeOK'
  BY <1>2 DEF OrderTypeOK
<1> QED
  BY <1>1, <1>2, <1>3 DEF OrderInv

LEMMA ForgetInv == Forget \/ OrderInit' => OrderInv' /\ order' = "idle"
<1> SUFFICES ASSUME Forget \/ OrderInit' PROVE OrderInv' /\ order' = "idle"
  OBVIOUS
<1>1. /\ order' = "idle" /\ target' = <<NoFile, Main>> /\ stack' = <<>>
      /\ kept' = [f \in Files |-> {}] /\ edges' = {} /\ sorted' = <<>>
  BY DEF Forget, OrderInit
<1> QED
  BY <1>1, OrderAssumption DEF OrderInv, OrderTypeOK

LEMMA OrderStepInv ==
    ASSUME ScanTypeOK, OrderInv, UNCHANGED scanVars, OrderStep
    PROVE  OrderInv'
  BY EnterInv, CallInv, ReturnInv, SortInv DEF OrderStep

\* A search nobody goes on with.
LEMMA SameOrder ==
    ASSUME OrderInv, UNCHANGED orderVars, UNCHANGED scanVars \/ order = "idle"
    PROVE  OrderInv'
<1>1. /\ order' = order /\ target' = target /\ stack' = stack /\ kept' = kept
      /\ edges' = edges /\ sorted' = sorted
  BY DEF orderVars
<1>2. OrderTypeOK'
  BY <1>1 DEF OrderInv, OrderTypeOK
<1>3. CASE order = "idle"
  BY <1>1, <1>2, <1>3 DEF OrderInv
<1>4. CASE UNCHANGED scanVars
  <2>1. db' = db
    BY <1>4 DEF scanVars
  <2>2. Followed => Followed'
    <3> SUFFICES ASSUME Followed PROVE Followed'
      OBVIOUS
    <3>1. \A x \in On(stack') : x.todo \subseteq Wanted(x.file)
      BY <1>1 DEF Followed, Called
    <3>2. \A x \in On(stack) : \A n \in x.todo :
             \E y \in On(stack') : y.file = x.file /\ n \in y.todo
      BY <1>1
    <3> QED
      BY <1>1, <1>4, <3>1, <3>2, SameSearch
  <2>3. Known(db, target[1])' = Known(db, target[1])
    BY <1>1, <2>1, SameProject
  <2>4. Nodes' = Nodes /\ Topological(sorted)' = Topological(sorted)
    BY <1>1 DEF Nodes, Topological
  <2> QED
    BY <1>1, <1>2, <2>2, <2>3, <2>4 DEF OrderInv
<1> QED
  BY <1>3, <1>4

-----------------------------------------------------------------------------
(* main.                                                                   *)

Rules == [of : Files \X Names, files : SUBSET Files,
          kept : SUBSET (Files \X Names), names : SUBSET (Files \X Names)]

MockTypes ==
    /\ stage \in Stages
    /\ todo \subseteq Files \X Names
    /\ copies \in [Files -> 0 .. 2]
    /\ text \subseteq Files \X Names
    /\ clash \in BOOLEAN
    /\ redirected \subseteq Files \X Names
    /\ dbRenamed \subseteq Files \X Names
    /\ made \subseteq Rules

\* Where main is, a search is under way or not; and what a mock-up holds.
Held ==
    /\ stage \in {"off", "scanning", "targets", "done"} => order = "idle"
    /\ stage = "linking" => order = "sorted" /\ Kept \subseteq text
    /\ stage \in {"off", "scanning"} => made = {}
    /\ \A r \in made :
         /\ r.of[2] \in Known(db, r.of[1])
         /\ \A fn \in StartsOf(r.of) : <<r.of[1], fn>> \in r.kept

\* Names of f that are replaced for some target: all but the target's own name, if
\* it is static, are replaced for each.
Renamable(f) ==
    Sig(f).statics
      \cup {fn \in FunctionsOf(Sig(f)) : fn = Main \/ Sig(f).body[fn].static}

\* Until a mock-up is begun there is none.
Empty == {"off", "scanning", "targets", "ordering"}

\* The names replaced in a mock-up are recorded, and all names recorded are such
\* as are replaced in every mock-up but that of a static target.
Recorded ==
    /\ stage \in Empty => Pasted = {}
    /\ stage \in {"off", "scanning"} => redirected = {}
    /\ Renames(Pasted) \subseteq redirected
    /\ \A p \in redirected : p[2] \in Renamable(p[1])
    /\ \A r \in made :
         /\ r.names \subseteq redirected
         /\ \A f \in r.files : \A n \in Names :
              n \in Renamable(f) => <<f, n>> \in r.names \/ <<f, n>> = r.of
    /\ stage = "done" => dbRenamed = redirected

MockInv == ScanInv /\ OrderInv /\ MockTypes /\ Held /\ Recorded

\* Every step of main is one of the scanner, or leaves it alone.
LEMMA MainScans == [Next]_vars => [ScanNext]_scanVars
<1> SUFFICES ASSUME [Next]_vars PROVE [ScanNext]_scanVars
  OBVIOUS
<1>1. ASSUME NEW stop \in BOOLEAN, Run(stop) PROVE ScanNext
  BY <1>1 DEF Run, ScanNext
<1>2. CASE ScanProject
  BY <1>2 DEF ScanProject, ScanNext
<1>3. CASE FixErrors \/ CreateWork \/ DieOfCache \/ NextTarget \/ FindConfiguration
  BY <1>3 DEF FixErrors, CreateWork, DieOfCache, NextTarget, FindConfiguration
<1>4. CASE SkipTarget \/ Generate \/ LinkOk \/ GiveUp \/ ExitOnConflict
  BY <1>4 DEF SkipTarget, Generate, LinkOk, GiveUp, Finish, ExitOnConflict
<1>5. CASE Debug \/ Repair \/ DieOfGlobal \/ UpdateProject
  BY <1>5 DEF Debug, Repair, AddFunction, AddGlobal, DieOfGlobal, UpdateProject
<1>6. CASE Off
  BY <1>6 DEF Off, ScanNext
<1>7. ASSUME NEW f \in Files, EditFile(f) PROVE ScanNext
  BY <1>7 DEF EditFile, ScanNext
<1>8. CASE UNCHANGED vars
  BY <1>8 DEF vars
<1> QED
  BY <1>1, <1>2, <1>3, <1>4, <1>5, <1>6, <1>7, <1>8 DEF Next, Step

\* The next target is one of those to come.
LEMMA NextTargetOf ==
    ASSUME MockTypes, NextTarget
    PROVE  \E f \in Files, fn \in Names : Configure(f, fn)
<1> DEFINE t == CHOOSE x \in todo : TRUE
<1>1. t \in todo /\ Configure(t[1], t[2])
  BY DEF NextTarget
<1>2. t[1] \in Files /\ t[2] \in Names
  BY <1>1 DEF MockTypes
<1> QED
  BY <1>1, <1>2

\* Every step of main is one of the search, or leaves it alone; the project stays
\* as it is while a search is under way.
MainSearchesBy ==
    \/ UNCHANGED orderVars /\ (UNCHANGED scanVars \/ order = "idle")
    \/ UNCHANGED scanVars /\ \E f \in Files, fn \in Names : Configure(f, fn)
    \/ UNCHANGED scanVars /\ OrderStep
    \/ Forget

LEMMA MainSearches ==
    ASSUME MockInv, [Next]_vars
    PROVE  MainSearchesBy
<1> USE DEF MockInv, ScanInv, MainSearchesBy
<1>1. ASSUME NEW stop \in BOOLEAN, Run(stop) PROVE MainSearchesBy
  BY <1>1 DEF Run, Held
<1>2. CASE ScanProject
  BY <1>2 DEF ScanProject, Held
<1>3. CASE FixErrors \/ CreateWork \/ DieOfCache
  BY <1>3 DEF FixErrors, CreateWork, DieOfCache
<1>4. CASE NextTarget
  <2>1. UNCHANGED scanVars
    BY <1>4 DEF NextTarget
  <2> QED
    BY <1>4, <2>1, NextTargetOf
<1>5. CASE FindConfiguration
  BY <1>5 DEF FindConfiguration
<1>6. CASE SkipTarget \/ LinkOk \/ GiveUp
  BY <1>6 DEF SkipTarget, LinkOk, GiveUp, Finish
<1>7. CASE Generate \/ ExitOnConflict \/ Debug \/ Repair \/ DieOfGlobal \/ UpdateProject
  BY <1>7
     DEF Generate, ExitOnConflict, Debug, Repair, AddFunction, AddGlobal, DieOfGlobal,
         UpdateProject
<1>8. CASE Off
  BY <1>8 DEF Off
<1>9. ASSUME NEW f \in Files, EditFile(f) PROVE MainSearchesBy
  BY <1>9 DEF EditFile, Held
<1>10. CASE UNCHANGED vars
  BY <1>10 DEF vars
<1> QED
  BY <1>1, <1>2, <1>3, <1>4, <1>5, <1>6, <1>7, <1>8, <1>9, <1>10 DEF Next, Step

LEMMA MainOrders ==
    ASSUME MockInv, [Next]_vars
    PROVE  OrderInv'
<1>1. ScanTypeOK /\ OrderInv
  BY DEF MockInv, ScanInv
<1> QED
  BY <1>1, MainSearches, SameOrder, ConfigureInv, OrderStepInv, ForgetInv DEF MainSearchesBy

\* What is replaced depends on the database, and on the target too.
LEMMA ReplacedOrTarget ==
    ASSUME NEW f
    PROVE  /\ Replaced(f) \subseteq Renamable(f)
           /\ \A n \in Renamable(f) : n \in Replaced(f) \/ (f = target[1] /\ n = target[2])
  BY DEF Replaced, Renamable

LEMMA RenamableStays == db' = db => \A f : Renamable(f)' = Renamable(f)
  BY DEF Renamable, Sig, FunctionsOf

LEMMA RenamesStay ==
    ASSUME db' = db, target' = target
    PROVE  \A fs : Renames(fs)' = {p \in fs' \X Names : p[2] \in Replaced(p[1])}
<1>1. \A f : Replaced(f)' = Replaced(f)
  BY DEF Replaced, Sig, FunctionsOf
<1> QED
  BY <1>1 DEF Renames

\* What pasting does to the mock-up.
LEMMA PasteStep ==
    ASSUME MockTypes, NEW fns \in SUBSET (Files \X Names), NEW fs \in SUBSET Files,
           Paste(fns, fs)
    PROVE  /\ copies' \in [Files -> 0 .. 2]
           /\ text' = text \cup fns
           /\ clash' \in BOOLEAN
           /\ Pasted' \subseteq Pasted \cup fs
<1>1. \A f \in Files : copies[f] \in 0 .. 2
  BY DEF MockTypes
<1>2. copies' = [f \in Files |-> IF f \in fs /\ copies[f] < 2 THEN copies[f] + 1
                                 ELSE copies[f]]
  BY DEF Paste
<1>3. copies' \in [Files -> 0 .. 2]
  BY <1>1, <1>2
<1>4. Pasted' \subseteq Pasted \cup fs
  BY <1>2 DEF Pasted
<1>5. clash' \in BOOLEAN
  BY DEF Paste
<1> QED
  BY <1>3, <1>4, <1>5 DEF Paste

LEMMA KeptNames == OrderTypeOK => Kept \in SUBSET (Files \X Names) /\ Nodes \in SUBSET Files
  BY DEF Kept, Nodes

\* The names that the repair adds, and where it takes them from.
LEMMA RepairNames ==
    ASSUME ScanTypeOK, NEW n, NEW f \in Files, Candidates(n) = {f}
    PROVE  {<<f, n>>} \in SUBSET (Files \X Names) /\ {f} \in SUBSET Files
<1>1. f \in Candidates(n)
  OBVIOUS
<1>2. n \in Known(db, f)
  BY <1>1 DEF Candidates
<1> QED
  BY <1>2, KnownTexts

\* A step that pastes.
LEMMA Pastes ==
    ASSUME MockInv, NEW fns \in SUBSET (Files \X Names), NEW fs \in SUBSET Files,
           Paste(fns, fs), Redirect(fs), UNCHANGED <<scanVars, todo, made, dbRenamed>>,
           target' = target, stage' \in {"linking", "dead"}
    PROVE  /\ MockTypes' /\ Recorded'
           /\ text' = text \cup fns
<1>1. /\ copies' \in [Files -> 0 .. 2] /\ text' = text \cup fns
      /\ clash' \in BOOLEAN /\ Pasted' \subseteq Pasted \cup fs
  BY PasteStep DEF MockInv
<1>2. redirected' = redirected \cup Renames(fs) /\ Renames(fs) \subseteq Files \X Names
  BY DEF Redirect, Renames
<1>3. MockTypes'
  BY <1>1, <1>2 DEF MockInv, MockTypes, Stages
<1>4. Recorded'
  <2>1. db' = db /\ \A f : Renamable(f)' = Renamable(f)
    BY RenamableStays DEF scanVars
  <2>2. Renames(Pasted)' \subseteq redirected'
    <3>1. Renames(Pasted)' = {p \in Pasted' \X Names : p[2] \in Replaced(p[1])}
      BY <2>1, RenamesStay
    <3>2. Renames(Pasted) \subseteq redirected
      BY DEF MockInv, Recorded
    <3> QED
      BY <1>1, <1>2, <3>1, <3>2 DEF Renames
  <2>3. \A p \in redirected' : p[2] \in Renamable(p[1])
    BY <1>2, ReplacedOrTarget DEF MockInv, Recorded, Renames
  <2>4. \A r \in made : r.names \subseteq redirected'
    BY <1>2 DEF MockInv, Recorded
  <2> QED
    BY <2>1, <2>2, <2>3, <2>4 DEF MockInv, Recorded, Empty
<1> QED
  BY <1>1, <1>3, <1>4

\* What is said of the rules made stays true while the database is the same.
LEMMA RulesStay ==
    ASSUME Held, db' = db
    PROVE  \A r \in made : /\ (r.of[2] \in Known(db, r.of[1]))'
                           /\ \A fn \in StartsOf(r.of)' : <<r.of[1], fn>> \in r.kept
<1>1. /\ \A f : Known(db, f)' = Known(db, f)
      /\ \A t : StartsOf(t)' = StartsOf(t)
  BY SameProject
<1> QED
  BY <1>1 DEF Held

\* The rule of a mock-up that is done.
LEMMA FinishStep ==
    ASSUME MockInv, stage = "linking", Finish
    PROVE  MockTypes' /\ Held' /\ Recorded'
<1>0. PICK r : r = [of |-> target, files |-> Pasted, kept |-> text,
                   names |-> Renames(Pasted)]
  OBVIOUS
<1>1. /\ made' = made \cup {r} /\ copies' = [f \in Files |-> 0] /\ text' = {}
      /\ clash' = FALSE /\ stage' = "targets" /\ order' = "idle" /\ db' = db
      /\ UNCHANGED <<todo, redirected, dbRenamed>>
  BY <1>0, ForgetInv DEF Finish, scanVars
<1>2. Followed /\ OrderTypeOK /\ Kept \subseteq text
  BY DEF MockInv, OrderInv, Held
<1>3. r \in Rules /\ target = <<target[1], target[2]>>
  <2>1. target \in Files \X Names
    BY <1>2 DEF OrderTypeOK, Followed, Started
  <2>2. Pasted \subseteq Files /\ Renames(Pasted) \subseteq Files \X Names
    BY DEF Pasted, Renames
  <2> QED
    BY <1>0, <2>1, <2>2 DEF MockInv, MockTypes, Rules
<1>4. Pasted' = {}
  BY <1>1 DEF Pasted
<1>5. MockTypes'
  <2>1. copies' \in [Files -> 0 .. 2]
    BY <1>1
  <2>2. made' \subseteq Rules
    BY <1>1, <1>3 DEF MockInv, MockTypes
  <2> QED
    BY <1>1, <2>1, <2>2 DEF MockInv, MockTypes, Stages
<1>6. Recorded'
  <2>1. \A f : Renamable(f)' = Renamable(f)
    BY <1>1, RenamableStays
  <2>2. Renames(Pasted)' = {}
    BY <1>4 DEF Renames
  <2>3. r.names \subseteq redirected
    BY <1>0 DEF MockInv, Recorded
  <2>4. ASSUME NEW f \in r.files, NEW n \in Names, n \in Renamable(f), <<f, n>> \notin r.names
        PROVE  <<f, n>> = r.of
    <3>1. n \notin Replaced(f)
      BY <1>0, <2>4 DEF Renames
    <3> QED
      BY <1>0, <1>3, <2>4, <3>1, ReplacedOrTarget
  <2>5. \A q \in made' :
           /\ q.names \subseteq redirected
           /\ \A f \in q.files : \A n \in Names :
                n \in Renamable(f) => <<f, n>> \in q.names \/ <<f, n>> = q.of
    BY <1>1, <2>3, <2>4 DEF MockInv, Recorded
  <2> QED
    BY <1>1, <1>4, <2>1, <2>2, <2>5 DEF MockInv, Recorded
<1>7. /\ r.of[2] \in Known(db, r.of[1])
      /\ \A fn \in StartsOf(r.of) : <<r.of[1], fn>> \in r.kept
  <2>1. /\ target[1] \in Files /\ target[2] \in Known(db, target[1])
        /\ StartsOf(target) \subseteq kept[target[1]]
    BY <1>2 DEF Followed, Started
  <2>2. \A fn \in StartsOf(target) : <<target[1], fn>> \in Kept
    BY <1>2, <2>1 DEF Kept, OrderTypeOK
  <2> QED
    BY <1>0, <1>2, <2>1, <2>2
<1>8. Held'
  <2>1. Known(db, r.of[1])' = Known(db, r.of[1]) /\ StartsOf(r.of)' = StartsOf(r.of)
    BY <1>1, SameProject
  <2> QED
    BY <1>1, <1>7, <2>1, RulesStay DEF Held, MockInv
<1> QED
  BY <1>5, <1>6, <1>8

\* A step that leaves the mock-ups alone.
LEMMA MainSame ==
    ASSUME MockInv, UNCHANGED <<db, linkVars, redirected, made, dbRenamed>>,
           todo' \subseteq Files \X Names, stage' \in Stages \ {"linking", "done"},
           stage' \in {"off", "scanning"} => made = {} /\ redirected = {},
           stage' \in {"off", "scanning", "targets"} => order' = "idle",
           stage \in Empty \/ (stage' \notin Empty /\ target' = target)
    PROVE  MockTypes' /\ Held' /\ Recorded'
<1>1. /\ copies' = copies /\ text' = text /\ clash' = clash /\ redirected' = redirected
      /\ made' = made /\ dbRenamed' = dbRenamed /\ db' = db
  BY DEF linkVars
<1>2. MockTypes'
  BY <1>1 DEF MockInv, MockTypes
<1>3. Recorded'
  <2>1. \A f : Renamable(f)' = Renamable(f)
    BY <1>1, RenamableStays
  <2>2. Pasted' = Pasted
    BY <1>1 DEF Pasted
  <2>3. stage' \in Empty => Pasted = {}
    BY DEF MockInv, Recorded
  <2>4. Renames(Pasted)' \subseteq redirected
    <3>1. CASE Pasted = {}
      BY <2>2, <3>1 DEF Renames
    <3>2. CASE target' = target
      BY <1>1, <2>2, <3>2, RenamesStay DEF MockInv, Recorded, Renames
    <3> QED
      BY <3>1, <3>2 DEF MockInv, Recorded
  <2> QED
    BY <1>1, <2>1, <2>2, <2>3, <2>4 DEF MockInv, Recorded
<1>4. Held'
  BY <1>1, RulesStay DEF MockInv, Held
<1> QED
  BY <1>2, <1>3, <1>4

LEMMA MainInit == Init => MockInv
<1> SUFFICES ASSUME Init PROVE MockInv
  OBVIOUS
<1>1. ScanInv
  BY ScanInitInv DEF Init
<1>2. OrderInv
  BY OrderAssumption DEF Init, OrderInit, OrderInv, OrderTypeOK
<1>3. copies \in [Files -> 0 .. 2] /\ Pasted = {}
  BY DEF Init, Pasted
<1>4. MockTypes /\ Held /\ Recorded
  BY <1>3 DEF Init, OrderInit, MockTypes, Stages, Held, Recorded, Renames
<1> QED
  BY <1>1, <1>2, <1>4 DEF MockInv

LEMMA MainNext == MockInv /\ [Next]_vars => MockInv'
<1> SUFFICES ASSUME MockInv, [Next]_vars PROVE MockInv'
  OBVIOUS
<1>0. ScanInv' /\ OrderInv'
  BY MainScans, ScanNextInv, MainOrders DEF MockInv
<1>1. /\ ScanTypeOK /\ OrderTypeOK /\ MockTypes /\ Held
      /\ stage \in {"off", "scanning"} => redirected = {}
  BY DEF MockInv, ScanInv, OrderInv, Recorded
<1> SUFFICES MockTypes' /\ Held' /\ Recorded'
  BY <1>0 DEF MockInv
<1>2. ASSUME NEW stop \in BOOLEAN, Run(stop) PROVE MockTypes' /\ Held' /\ Recorded'
  BY <1>1, <1>2, MainSame
     DEF Run, Scan, orderVars, workVars, MockTypes, Held, Stages, Empty
<1>3. CASE ScanProject
  <2>1. /\ made = {} /\ redirected = {} /\ Pasted = {}
        /\ order' = "idle" /\ stage' = "scanning"
        /\ UNCHANGED <<linkVars, workVars>>
    BY <1>1, <1>3 DEF ScanProject, Held, orderVars, MockInv, Recorded, Empty
  <2>2. MockTypes'
    BY <1>1, <2>1 DEF MockTypes, linkVars, workVars, Stages
  <2>3. Held'
    BY <2>1 DEF Held, workVars
  <2>4. Pasted' = {} /\ Renames(Pasted)' = {}
    BY <2>1 DEF Pasted, linkVars, Renames
  <2>5. Recorded'
    BY <2>1, <2>4 DEF Recorded, workVars
  <2> QED
    BY <2>2, <2>3, <2>5
<1>4. CASE FixErrors \/ DieOfCache
  BY <1>1, <1>4, MainSame
     DEF FixErrors, DieOfCache, scanVars, workVars, MockTypes, Stages, Empty
<1>5. CASE CreateWork
  <2>1. PICK fs \in SUBSET Files :
          \/ todo' = {t \in fs \X Names : t[2] \in Known(db, t[1])}
          \/ \E fn \in Asked : todo' = fs \X {fn}
    BY <1>5 DEF CreateWork
  <2>2. todo' \subseteq Files \X Names
    BY <2>1, MockupAssumption
  <2>3. /\ stage = "scanning" /\ stage' = "targets" /\ order' = order
        /\ UNCHANGED <<db, linkVars, redirected, made, dbRenamed>>
    BY <1>5 DEF CreateWork, scanVars, orderVars
  <2> QED
    BY <1>1, <2>2, <2>3, MainSame DEF Stages, Held, Empty
<1>6. CASE NextTarget
  <2>1. /\ todo' \subseteq todo /\ stage = "targets" /\ stage' = "ordering"
        /\ UNCHANGED <<db, linkVars, redirected, made, dbRenamed>>
    BY <1>6 DEF NextTarget, scanVars
  <2> QED
    BY <1>1, <2>1, MainSame DEF Stages, MockTypes, Empty
<1>7. CASE FindConfiguration
  BY <1>1, <1>7, MainSame
     DEF FindConfiguration, scanVars, workVars, MockTypes, Stages, Empty
<1>8. CASE SkipTarget
  BY <1>1, <1>8, MainSame, ForgetInv
     DEF SkipTarget, scanVars, workVars, MockTypes, Stages, Empty
<1>9. CASE Generate
  <2>1. /\ order = "sorted" /\ order' = order /\ kept' = kept /\ stage' = "linking"
        /\ target' = target /\ Paste(Kept, Nodes) /\ Redirect(Nodes) /\ db' = db /\ made' = made
        /\ UNCHANGED <<scanVars, todo, made, dbRenamed>>
    BY <1>9 DEF Generate, orderVars, scanVars
  <2>2. Kept \in SUBSET (Files \X Names) /\ Nodes \in SUBSET Files
    BY <1>1, KeptNames
  <2>3. MockTypes' /\ Recorded' /\ text' = text \cup Kept
    BY <2>1, <2>2, Pastes
  <2>4. Kept' = Kept
    BY <2>1 DEF Kept
  <2>5. Held'
    BY <1>1, <2>1, <2>3, <2>4, RulesStay DEF Held
  <2> QED
    BY <2>3, <2>5
<1>10. CASE LinkOk \/ GiveUp
  BY <1>10, FinishStep DEF LinkOk, GiveUp
<1>11. CASE ExitOnConflict \/ Debug
  BY <1>1, <1>11, MainSame
     DEF ExitOnConflict, Debug, scanVars, orderVars, workVars, MockTypes, Stages, Empty
<1>12. CASE AddFunction \/ AddGlobal \/ DieOfGlobal
  <2>1. PICK fns \in SUBSET (Files \X Names), fs \in SUBSET Files :
          Paste(fns, fs) /\ Redirect(fs)
    <3>1. CASE AddFunction
      BY <1>1, <3>1, RepairNames DEF AddFunction
    <3>2. CASE AddGlobal
      BY <3>2 DEF AddGlobal
    <3>3. CASE DieOfGlobal
      <4>1. \A n : Declaring(n) \subseteq Files
        BY <1>1, DatabaseType DEF Declaring, ScanTypeOK
      <4> QED
        BY <3>3, <4>1 DEF DieOfGlobal
    <3> QED
      BY <1>12, <3>1, <3>2, <3>3
  <2>2. /\ stage = "linking" /\ stage' \in {"linking", "dead"} /\ db' = db
        /\ UNCHANGED <<scanVars, todo, made, dbRenamed>> /\ UNCHANGED orderVars
    BY <1>12 DEF AddFunction, AddGlobal, DieOfGlobal, scanVars
  <2>3. MockTypes' /\ Recorded' /\ text' = text \cup fns
    BY <2>1, <2>2, Pastes DEF orderVars
  <2>4. order' = order /\ Kept' = Kept /\ made' = made
    BY <2>2 DEF orderVars, Kept
  <2>5. Held'
    BY <1>1, <2>2, <2>3, <2>4, RulesStay DEF Held
  <2> QED
    BY <2>3, <2>5
<1>13. CASE UpdateProject
  <2>1. /\ stage = "targets" /\ stage' = "done" /\ dbRenamed' = redirected /\ order' = order
        /\ db' = db /\ made' = made /\ redirected' = redirected /\ todo' = todo
        /\ copies' = copies /\ text' = text /\ clash' = clash
    BY <1>13 DEF UpdateProject, scanVars, orderVars, linkVars
  <2>2. MockTypes'
    BY <1>1, <2>1 DEF MockTypes, Stages
  <2>3. Recorded'
    <3>1. Pasted' = Pasted /\ \A f : Renamable(f)' = Renamable(f)
      BY <2>1, RenamableStays DEF Pasted
    <3>2. Renames(Pasted)' = Renames(Pasted)
      BY <1>13, <2>1, <3>1, RenamesStay DEF UpdateProject, orderVars, Renames
    <3> QED
      BY <2>1, <3>1, <3>2 DEF MockInv, Recorded, Empty
  <2>4. Held'
    BY <1>1, <2>1, RulesStay DEF Held
  <2> QED
    BY <2>2, <2>3, <2>4
<1>14. CASE Off
  <2>1. /\ stage' = "off" /\ todo' = {} /\ copies' = [f \in Files |-> 0] /\ text' = {}
        /\ clash' = FALSE /\ redirected' = {} /\ made' = {} /\ dbRenamed' = {}
        /\ order' = "idle"
    BY <1>14, ForgetInv DEF Off, orderVars
  <2>2. copies' \in [Files -> 0 .. 2] /\ Pasted' = {} /\ Renames(Pasted)' = {}
    BY <2>1 DEF Pasted, Renames
  <2> QED
    BY <2>1, <2>2 DEF MockTypes, Stages, Held, Recorded
<1>15. ASSUME NEW f \in Files, EditFile(f) PROVE MockTypes' /\ Held' /\ Recorded'
  BY <1>1, <1>15, MainSame
     DEF EditFile, Edit, orderVars, workVars, MockTypes, Held, Stages, Empty
<1>16. CASE UNCHANGED vars
  <2>1. /\ stage' = stage /\ order' = order /\ kept' = kept /\ db' = db
        /\ UNCHANGED <<linkVars, workVars>>
    BY <1>16 DEF vars, orderVars, scanVars
  <2>2. MockTypes'
    BY <1>1, <2>1 DEF MockTypes, linkVars, workVars
  <2>3. Recorded'
    <3>1. Pasted' = Pasted /\ \A f : Renamable(f)' = Renamable(f)
      BY <2>1, RenamableStays DEF Pasted, linkVars
    <3>2. Renames(Pasted)' = Renames(Pasted)
      BY <1>16, <2>1, <3>1, RenamesStay DEF vars, orderVars, Renames
    <3> QED
      BY <2>1, <3>1, <3>2 DEF MockInv, Recorded, workVars
  <2>4. Kept' = Kept /\ text' = text /\ made' = made
    BY <2>1 DEF Kept, linkVars, workVars
  <2>5. Held'
    BY <1>1, <2>1, <2>4, RulesStay DEF Held
  <2> QED
    BY <2>2, <2>3, <2>5
<1> QED
  BY <1>2, <1>3, <1>4, <1>5, <1>6, <1>7, <1>8, <1>9, <1>10, <1>11, <1>12, <1>13, <1>14,
     <1>15, <1>16 DEF Next, Step, Repair

LEMMA MainInv == Spec => []MockInv
  BY MainInit, MainNext, PTL DEF Spec

-----------------------------------------------------------------------------
(* A search that fails.                                                    *)

\* Edges are between different files that are kept.
Linked ==
    order = "scan" =>
        \A g \in Files, f \in Files :
            <<g, f>> \in edges => g # f /\ kept[g] # {} /\ kept[f] # {}

\* Files without a circle can be sorted.
LEMMA CanBeSorted ==
    ASSUME OrderTypeOK, Linked, order = "scan", ~Circle
    PROVE  \E s \in SetToSeqs(Nodes) : Topological(s)
<1>1. Nodes \subseteq Files /\ IsFiniteSet(Nodes)
  BY SourceAssumption, FS_Subset DEF Nodes
<1>2. Acyclic(Nodes, edges)
  BY DEF Circle, Acyclic
<1>3. PICK s : Ordering(s, Nodes, edges)
  BY <1>1, <1>2, TopologicalOrder
<1>4. Cardinality(Nodes) \in Nat
  BY <1>1, FS_CardinalityType
<1>5. \A e \in edges : e[1] \in Nodes /\ e[2] \in Nodes /\ e[1] # e[2] /\ e = <<e[1], e[2]>>
  BY DEF Linked, OrderTypeOK, Nodes
<1> DEFINE D == 1 .. Cardinality(Nodes)
<1>6. /\ s \in [D -> Nodes] /\ DOMAIN s = D
      /\ \A i, j \in D : i # j => s[i] # s[j]
      /\ \A p \in Nodes : \E i \in D : s[i] = p
      /\ \A i, j \in D : i < j => <<s[j], s[i]>> \notin edges
  BY <1>3 DEF Ordering
<1> HIDE DEF Nodes
<1>7. s \in SetToSeqs(Nodes)
  BY <1>6 DEF SetToSeqs
<1>8. ASSUME NEW e \in edges
      PROVE  \E i, j \in DOMAIN s : i < j /\ s[i] = e[1] /\ s[j] = e[2]
  <2>1. PICK i \in D, j \in D : s[i] = e[1] /\ s[j] = e[2]
    BY <1>5, <1>6
  <2>2. i # j /\ ~(j < i)
    BY <1>5, <1>6, <2>1
  <2>3. i < j
    BY <1>4, <2>2
  <2> QED
    BY <1>6, <2>1, <2>3
<1> QED
  BY <1>7, <1>8 DEF Topological

\* What a call of the innermost frame is about: a callee of a function that is
\* kept, and hence known.
LEMMA Caller ==
    ASSUME OrderInv, NEW n \in Names, Call(n)
    PROVE  LET f == Head(stack).file
           IN  /\ f \in Nodes
               /\ Tail(stack) \in Seq(Frame)
               /\ \E fn \in kept[f] \cap Known(db, f) : n \in Callees(Sig(f), fn)
<1> DEFINE top == Head(stack)
<1>1. Followed /\ stack \in Seq(Frame) /\ stack # <<>> /\ n \in top.todo
  BY DEF Call, OrderInv, OrderTypeOK, Frame
<1>2. top \in Frame /\ top \in On(stack) /\ Tail(stack) \in Seq(Frame)
  BY <1>1, TopOf
<1> HIDE DEF top
<1>3. n \in Wanted(top.file) /\ top.file \in Files
  BY <1>1, <1>2 DEF Followed, Called, Frame
<1>4. PICK fn \in kept[top.file] : n \in Callees(Sig(top.file), fn)
  BY <1>3 DEF Wanted, CalledBy
<1>5. fn \in Known(db, top.file) /\ top.file \in Nodes
  BY <1>1, <1>3, <1>4 DEF Followed, OnlyKnown, Nodes
<1> QED
  BY <1>2, <1>4, <1>5 DEF top

LEMMA LinkedNext ==
    ASSUME ScanTypeOK, OrderInv, Linked, OrderStep
    PROVE  Linked'
<1>1. CASE Enter
  <2>1. edges = {} /\ edges' = EdgesAfter(NoFile, target[1], NewFunctions(target[1],
                                             SharingStatics(Sig(target[1]), target[2], Main)))
    BY <1>1 DEF Enter, OrderInv, Visit
  <2> QED
    BY <2>1 DEF EdgesAfter, Linked
<1>2. ASSUME NEW n \in Names, Call(n) PROVE Linked'
  <2> DEFINE f == Head(stack).file
  <2>1. f \in Nodes /\ order = "scan" /\ kept \in [Files -> SUBSET Names]
        /\ edges \subseteq Files \X Files
    BY <1>2, Caller DEF Call, OrderInv, OrderTypeOK
  <2>2. CASE UNCHANGED <<target, kept, edges>>
    BY <2>1, <2>2 DEF Linked
  <2>3. ASSUME NEW g \in Chosen(f, n), NEW below, Visit(f, g, {n}, below) PROVE Linked'
    <3>1. /\ g \in Files
          /\ kept' = [kept EXCEPT ![g] = @ \cup {n}]
          /\ edges' = edges \/ (f # g /\ edges' = edges \cup {<<g, f>>})
      <4>1. kept' = KeptAfter(g, {n}) /\ edges' = EdgesAfter(f, g, NewFunctions(g, {n}))
        BY <2>3 DEF Visit
      <4>2. f \in Files /\ g \in Files
        BY <2>1, ChosenFiles DEF Nodes
      <4> HIDE DEF f
      <4> QED
        BY <4>1, <4>2 DEF KeptAfter, EdgesAfter
    <3>2. \A h \in Files : kept[h] \subseteq kept'[h] /\ (h = g => n \in kept'[h])
      BY <2>1, <3>1
    <3> HIDE DEF f
    <3>3. ASSUME NEW h \in Files, NEW k \in Files, <<h, k>> \in edges'
          PROVE  h # k /\ kept'[h] # {} /\ kept'[k] # {}
      BY <2>1, <3>1, <3>2, <3>3 DEF Linked, Nodes
    <3> QED
      BY <3>3 DEF Linked
  <2> QED
    BY <1>2, <2>2, <2>3 DEF Call
<1>3. CASE Return \/ Sort
  BY <1>3 DEF Return, Sort, Linked
<1> QED
  BY <1>1, <1>2, <1>3 DEF OrderStep

\* A step of the search that fails has a reason.
LEMMA FailsNext ==
    ASSUME ScanTypeOK, OrderInv, Linked, UNCHANGED scanVars, OrderStep
    PROVE  FailsForAReason'
<1> SUFFICES ASSUME order' = "failed" PROVE FailsForAReason'
  BY DEF FailsForAReason
<1>1. /\ db' = db
      /\ \A f : Known(db, f)' = Known(db, f) /\ Sig(f)' = Sig(f)
      /\ \A n : Candidates(n)' = Candidates(n)
  BY SameProject DEF scanVars
<1>2. CASE Enter
  <2>1. db.functions = {} \/ ~(NewFunctions(target[1], StartsOf(target)) \subseteq Known(db, target[1]))
    BY <1>2 DEF Enter, Visit, StartsOf
  <2>2. StartsOf(target) \subseteq Known(db, target[1])
    <3>1. /\ target[1] \in Files /\ target[2] \in Known(db, target[1])
      BY <1>2 DEF Enter, OrderInv
    <3>2. target[2] \in FunctionsOf(Sig(target[1]))
          /\ Known(db, target[1]) = FunctionsOf(Sig(target[1]))
      BY <3>1 DEF Known, Sig
    <3> QED
      BY <3>2, StartsKnown DEF StartsOf
  <2> QED
    BY <1>1, <2>1, <2>2 DEF NewFunctions, FailsForAReason
<1>3. ASSUME NEW n \in Names, Call(n) PROVE FailsForAReason'
  <2> DEFINE f == Head(stack).file
  <2>1. PICK fn \in kept[f] \cap Known(db, f) : n \in Callees(Sig(f), fn) /\ f \in Nodes
    BY <1>3, Caller
  <2>2. order = "scan" /\ kept \in [Files -> SUBSET Names]
    BY <1>3 DEF Call, OrderInv, OrderTypeOK
  <2>3. target' = target
    BY <1>3 DEF Call, Visit
  <2>4. \A g, m : Chosen(g, m)' = Chosen(g, m)
    BY <1>1, <2>3, SameChoice
  <2>5. \A h \in Files : kept[h] \subseteq kept'[h]
    <3>1. CASE kept' = kept
      BY <3>1
    <3>2. ASSUME NEW g, NEW below, Visit(f, g, {n}, below)
          PROVE  \A h \in Files : kept[h] \subseteq kept'[h]
      BY <2>2, <3>2 DEF Visit, KeptAfter
    <3> QED
      BY <1>3, <3>1, <3>2 DEF Call
  <2>6. \/ db.functions = {}
        \/ Candidates(n) # {} /\ (Chosen(f, n) = {} \/ ~(Chosen(f, n) \subseteq Candidates(n)))
    <3>1. ASSUME Candidates(n) # {}, NEW g \in Chosen(f, n), NEW below,
                 Visit(f, g, {n}, below), db.functions # {}
          PROVE  ~(Chosen(f, n) \subseteq Candidates(n))
      <4>1. ~(NewFunctions(g, {n}) \subseteq Known(db, g))
        BY <3>1 DEF Visit
      <4>2. g \notin Candidates(n)
        BY <4>1 DEF NewFunctions, Candidates
      <4> QED
        BY <4>2
    <3> QED
      BY <1>3, <2>2, <3>1 DEF Call
  <2> HIDE DEF f
  <2>7. f \in Nodes' /\ fn \in kept'[f] \cap Known(db, f)
    BY <2>1, <2>5 DEF Nodes
  <2> QED
    BY <1>1, <2>1, <2>4, <2>6, <2>7 DEF FailsForAReason
<1>4. CASE Return
  BY <1>4 DEF Return
<1>5. CASE Sort
  <2>1. Circle
    BY <1>5, CanBeSorted DEF Sort, OrderInv
  <2>2. kept' = kept /\ edges' = edges
    BY <1>5 DEF Sort
  <2>3. Circle'
    BY <2>1, <2>2 DEF Circle, Nodes
  <2> QED
    BY <2>3 DEF FailsForAReason
<1> QED
  BY <1>2, <1>3, <1>4, <1>5 DEF OrderStep

LEMMA ReasonNext ==
    ASSUME MockInv, Linked, FailsForAReason, [Next]_vars
    PROVE  Linked' /\ FailsForAReason'
<1>1. ScanTypeOK /\ OrderInv
  BY DEF MockInv, ScanInv
<1>2. CASE UNCHANGED orderVars /\ (UNCHANGED scanVars \/ order = "idle")
  <2>1. /\ order' = order /\ target' = target /\ kept' = kept /\ edges' = edges
    BY <1>2 DEF orderVars
  <2>2. Linked'
    BY <2>1 DEF Linked
  <2>3. CASE order = "idle"
    BY <2>1, <2>2, <2>3 DEF FailsForAReason
  <2>4. CASE UNCHANGED scanVars
    <3>1. /\ db' = db
          /\ \A f : Known(db, f)' = Known(db, f) /\ Sig(f)' = Sig(f)
          /\ \A n : Candidates(n)' = Candidates(n)
          /\ \A f, n : Chosen(f, n)' = Chosen(f, n)
      BY <2>1, <2>4, SameProject, SameChoice DEF scanVars
    <3>2. Nodes' = Nodes /\ Circle' = Circle /\ Known(db, target[1])' = Known(db, target[1])
      BY <2>1, <3>1 DEF Nodes, Circle
    <3> QED
      BY <2>1, <2>2, <3>1, <3>2 DEF FailsForAReason
  <2> QED
    BY <1>2, <2>3, <2>4
<1>3. ASSUME UNCHANGED scanVars, NEW f \in Files, NEW fn \in Names, Configure(f, fn)
      PROVE  Linked' /\ FailsForAReason'
  <2>1. /\ target' = <<f, fn>>
        /\ order' = IF fn \in Known(db, f) THEN "found" ELSE "failed"
    BY <1>3 DEF Configure
  <2>2. Known(db, f)' = Known(db, f)
    BY <1>3, SameProject DEF scanVars
  <2> QED
    BY <2>1, <2>2 DEF Linked, FailsForAReason
<1>4. CASE UNCHANGED scanVars /\ OrderStep
  BY <1>1, <1>4, LinkedNext, FailsNext
<1>5. CASE Forget
  BY <1>5 DEF Forget, Linked, FailsForAReason
<1> QED
  BY <1>2, <1>3, <1>4, <1>5, MainSearches DEF MainSearchesBy

-----------------------------------------------------------------------------
(* The link.                                                               *)

\* A mock-up is begun when there is none, and holds functions the database knows.
TextKnown ==
    /\ stage \in {"off", "scanning", "targets", "ordering"} => text = {}
    /\ stage = "linking" => \A d \in text : d[1] \in Files /\ d[2] \in Known(db, d[1])

LEMMA TextKnownNext == MockInv /\ TextKnown /\ [Next]_vars => TextKnown'
<1> SUFFICES ASSUME MockInv, TextKnown, [Next]_vars PROVE TextKnown'
  OBVIOUS
<1> USE DEF TextKnown
<1>1. ASSUME NEW stop \in BOOLEAN, Run(stop) PROVE TextKnown'
  BY <1>1 DEF Run, linkVars
<1>2. CASE ScanProject \/ FixErrors \/ CreateWork \/ DieOfCache
  BY <1>2 DEF ScanProject, FixErrors, CreateWork, DieOfCache, linkVars
<1>3. CASE NextTarget \/ FindConfiguration \/ SkipTarget
  BY <1>3 DEF NextTarget, FindConfiguration, SkipTarget, linkVars
<1>4. CASE Generate
  <2>1. /\ text' = text \cup Kept /\ text = {} /\ stage' = "linking" /\ db' = db
        /\ OnlyKnown
    BY <1>4 DEF Generate, Paste, scanVars, MockInv, OrderInv, Followed
  <2>2. \A f : Known(db, f)' = Known(db, f)
    BY <2>1, SameProject
  <2> QED
    BY <2>1, <2>2 DEF Kept, OnlyKnown
<1>5. CASE LinkOk \/ GiveUp
  BY <1>5 DEF LinkOk, GiveUp, Finish
<1>6. CASE ExitOnConflict \/ Debug \/ DieOfGlobal \/ UpdateProject
  BY <1>6 DEF ExitOnConflict, Debug, DieOfGlobal, UpdateProject
<1>7. CASE AddFunction
  <2>1. PICK n \in Missed, f \in Files : Candidates(n) = {f} /\ text' = text \cup {<<f, n>>}
    BY <1>7 DEF AddFunction, Paste
  <2>2. stage = "linking" /\ stage' = stage /\ db' = db
    BY <1>7 DEF AddFunction, scanVars
  <2>3. n \in Known(db, f)
    BY <2>1 DEF Candidates
  <2>4. \A g : Known(db, g)' = Known(db, g)
    BY <2>2, SameProject
  <2> QED
    BY <2>1, <2>2, <2>3, <2>4
<1>8. CASE AddGlobal
  <2>1. text' = text /\ stage = "linking" /\ stage' = stage /\ db' = db
    BY <1>8 DEF AddGlobal, Paste, scanVars
  <2>2. \A g : Known(db, g)' = Known(db, g)
    BY <2>1, SameProject
  <2> QED
    BY <2>1, <2>2
<1>9. CASE Off
  BY <1>9 DEF Off
<1>10. ASSUME NEW f \in Files, EditFile(f) PROVE TextKnown'
  BY <1>10 DEF EditFile, linkVars
<1>11. CASE UNCHANGED vars
  <2>1. text' = text /\ stage' = stage /\ db' = db
    BY <1>11 DEF vars, linkVars, scanVars
  <2>2. \A g : Known(db, g)' = Known(db, g)
    BY <2>1, SameProject
  <2> QED
    BY <2>1, <2>2
<1> QED
  BY <1>1, <1>2, <1>3, <1>4, <1>5, <1>6, <1>7, <1>8, <1>9, <1>10, <1>11 DEF Next, Step, Repair

\* The file of a caller that has a function of the name itself is the one chosen.
LEMMA ChosenOwn ==
    ASSUME NEW f \in Files, NEW n \in Known(db, f), Candidates(n) # {}
    PROVE  Chosen(f, n) = {f}
<1>1. f \in Candidates(n)
  BY DEF Candidates
<1> QED
  BY <1>1, OrderAssumption DEF Chosen

\* A text the database has: its functions are those the database knows.
LEMMA TextOf ==
    ASSUME ScanTypeOK, NEW f \in Files, NEW n \in Known(db, f)
    PROVE  /\ n \in FunctionsOf(Sig(f))
           /\ \E v \in Versions : Sig(f) = Source[<<f, v>>]
<1>1. f \in DOMAIN db.files /\ db.files[f] # Failed /\ n \in FunctionsOf(Sig(f))
  BY DEF Known, Sig
<1>2. db.files[f] \in Versions
  BY <1>1, DatabaseType DEF ScanTypeOK
<1> QED
  BY <1>1, <1>2 DEF Sig


\* A name that a mock-up defines for all files is one of the library, of a
\* function, or of a variable.
DefinedIn(n) ==
    \/ n \in Library
    \/ \E d \in text : d[2] = n /\ n \notin Replaced(d[1])
    \/ \E h \in Pasted : n \in Sig(h).defines \cup Sig(h).statics /\ n \notin Replaced(h)

\* If it links, a name that f does not replace is defined for all files.
LEMMA NeedsAreMet ==
    ASSUME TextKnown, stage = "linking", Undefined = {},
           NEW f \in Files, NEW fn, <<f, fn>> \in text, NEW n \in Callees(Sig(f), fn),
           n \notin Replaced(f)
    PROVE  DefinedIn(n)
<1>0. NoFile \notin Files
  BY OrderAssumption
<1>1. n \in References(Sig(f), fn)
  BY DEF References, Callees
<1>2. Symbol(f, n) = <<NoFile, n>>
  BY DEF Symbol
<1>3. PICK e \in text : e = <<f, fn>>
  OBVIOUS
<1>4. <<NoFile, n>> \in Needed
  <2>1. e[1] = f /\ e[2] = fn
    BY <1>3
  <2>2. <<NoFile, n>> \in {Symbol(e[1], m) : m \in References(Sig(e[1]), e[2])}
    BY <1>1, <1>2, <2>1
  <2> QED
    BY <2>2, Zenon DEF Needed
<1>5. <<NoFile, n>> \in Defined \/ n \in Library
  BY <1>4 DEF Undefined
<1>6. ASSUME NEW d \in text, Symbol(d[1], d[2]) = <<NoFile, n>>
      PROVE  d[2] = n /\ n \notin Replaced(d[1])
  <2>1. d[1] # NoFile
    BY <1>0 DEF TextKnown
  <2> QED
    BY <1>6, <2>1 DEF Symbol
<1>7. ASSUME NEW h \in Pasted, NEW v \in Sig(h).defines \cup Sig(h).statics,
             Symbol(h, v) = <<NoFile, n>>
      PROVE  v = n /\ n \notin Replaced(h)
  <2>1. h # NoFile
    BY <1>0 DEF Pasted
  <2> QED
    BY <1>7, <2>1 DEF Symbol
<1> QED
  BY <1>5, <1>6, <1>7 DEF Defined, DefinedIn

\* What a file replaces is main or static in it.
LEMMA ReplacedIsStatic ==
    ASSUME NEW f
    PROVE  \A n \in Replaced(f) : n \in Static(Sig(f)) \/ (n = Main /\ n \in FunctionsOf(Sig(f)))
  BY DEF Replaced, Static

\* And what is static in it is replaced, but for the target.
LEMMA StaticIsReplaced ==
    ASSUME NEW f
    PROVE  /\ Main \in FunctionsOf(Sig(f)) => Main \in Replaced(f)
           /\ \A n \in Static(Sig(f)) : n \in Replaced(f) \/ (f = target[1] /\ n = target[2])
  BY DEF Replaced, Static

-----------------------------------------------------------------------------
(* Theorems.                                                               *)

\* main uses the scanner as ProjectScanner says: whatever is proved of it there
\* holds of its runs.
THEOREM MainUsesScanner == Spec => ScanSpec
<1>1. Init => ScanInit
  BY DEF Init
<1> QED
  BY <1>1, MainScans, PTL DEF Spec, ScanSpec

\* What create_work is given covers the project, over any sequence of runs that
\* are interrupted while they write the cache.
THEOREM WorksOnSaneAnswers == Spec => []SaneAnswer
  BY MainUsesScanner, AnswersSanely, PTL

\* Type correctness of main, of the search and of the scanner.
THEOREM MockupTyped == Spec => []TypeOK
<1>1. MockInv => TypeOK
  BY DEF MockInv, ScanInv, OrderInv, MockTypes, Rules, TypeOK
<1> QED
  BY <1>1, MainInv, PTL

\* Nothing is kept that the target and its sharers do not lead to.
THEOREM KeepsReachable == Spec => []KeptReachable
<1>1. MockInv => KeptReachable
  BY DEF MockInv, OrderInv, Followed, Reachable, KeptReachable, StartsOf
<1> QED
  BY <1>1, MainInv, PTL

\* An edge of sorted files leads forward.
LEMMA EdgesForward ==
    ASSUME OrderInv, order = "sorted", NEW g \in Files, NEW f \in Files, <<g, f>> \in edges
    PROVE  \E i, j \in DOMAIN sorted : i < j /\ sorted[i] = g /\ sorted[j] = f
<1>1. Topological(sorted)
  BY DEF OrderInv
<1>2. PICK i, j \in DOMAIN sorted : i < j /\ sorted[i] = <<g, f>>[1] /\ sorted[j] = <<g, f>>[2]
  BY <1>1 DEF Topological
<1> QED
  BY <1>2

\* Callees are complete and come first, for any project and any order in which
\* calls are followed.
THEOREM CalleesAreFirst == Spec => []CalleesComeFirst
<1>1. MockInv => CalleesComeFirst
  <2> SUFFICES ASSUME MockInv, order = "sorted", NEW f \in Files, NEW fn \in kept[f],
                      NEW n \in Callees(Sig(f), fn), Candidates(n) # {}
               PROVE  \E g \in Chosen(f, n) :
                        /\ n \in kept[g]
                        /\ g # f => \E i, j \in DOMAIN sorted :
                                      i < j /\ sorted[i] = g /\ sorted[j] = f
    BY DEF CalleesComeFirst
  <2>1. OrderInv /\ Followed /\ stack = <<>>
    BY DEF MockInv, OrderInv
  <2>2. n \in Wanted(f)
    BY DEF Wanted, CalledBy
  <2>3. Resolved(f, n)
    BY <2>1, <2>2, NoFrame DEF Followed, Pending
  <2>4. PICK g \in Chosen(f, n) : n \in kept[g] /\ (g # f => <<g, f>> \in edges)
    BY <2>3 DEF Resolved
  <2>5. g \in Files
    BY ChosenFiles
  <2>6. g # f => \E i, j \in DOMAIN sorted : i < j /\ sorted[i] = g /\ sorted[j] = f
    BY <2>1, <2>4, <2>5, EdgesForward
  <2> QED
    BY <2>4, <2>6
<1> QED
  BY <1>1, MainInv, PTL

\* The last file is the target's: any other has an edge to one after it.
THEOREM TargetIsLast == Spec => []TargetComesLast
<1>1. MockInv => TargetComesLast
  <2> SUFFICES ASSUME MockInv, order = "sorted"
               PROVE  sorted # <<>> /\ Last(sorted) = target[1]
    BY DEF TargetComesLast
  <2>1. OrderInv /\ Followed /\ sorted \in SetToSeqs(Nodes)
    BY DEF MockInv, OrderInv
  <2>2. /\ sorted \in Seq(Files) /\ DOMAIN sorted = 1 .. Len(sorted)
        /\ Len(sorted) = Cardinality(Nodes) /\ Len(sorted) \in Nat
        /\ \A i, j \in DOMAIN sorted : i # j => sorted[i] # sorted[j]
        /\ \A i \in DOMAIN sorted : sorted[i] \in Nodes
    BY <2>1, NodesInSequence
  <2>3. Len(sorted) # 0
    <3>1. target[1] \in Nodes
      BY <2>1 DEF Followed, Started, Nodes
    <3>2. IsFiniteSet(Nodes)
      BY SourceAssumption, FS_Subset DEF Nodes
    <3> QED
      BY <2>2, <3>1, <3>2, FS_EmptySet
  <2> DEFINE l == Len(sorted)
  <2>4. l \in DOMAIN sorted /\ Last(sorted) = sorted[l] /\ \A i \in DOMAIN sorted : i <= l
    BY <2>2, <2>3 DEF Last
  <2>5. ASSUME sorted[l] # target[1] PROVE FALSE
    <3>1. PICK u \in Files : <<sorted[l], u>> \in edges
      BY <2>1, <2>2, <2>4, <2>5 DEF Followed, Leads
    <3>2. PICK i, j \in DOMAIN sorted : i < j /\ sorted[i] = sorted[l]
      BY <2>1, <2>2, <2>4, <3>1, EdgesForward DEF Nodes
    <3>3. i = l
      BY <2>2, <2>4, <3>2
    <3> QED
      BY <2>2, <2>4, <3>2, <3>3
  <2> QED
    BY <2>2, <2>3, <2>4, <2>5
<1> QED
  BY <1>1, MainInv, PTL

\* Functions that share a static variable with the target are in its mock-up.
THEOREM KeepsSharers == Spec => []SharersKept
<1>1. MockInv => SharersKept
  <2> DEFINE body(f) == Sig(f).body
             uses(f, fn) == Sig(f).statics \cap
                (body(f)[fn].calls \cup body(f)[fn].reads \cup body(f)[fn].assigns)
  <2> SUFFICES ASSUME MockInv, NEW r \in made,
                      NEW fn \in FunctionsOf(Sig(r.of[1])) \ {Main},
                      body(r.of[1])[fn].static = body(r.of[1])[r.of[2]].static,
                      uses(r.of[1], fn) \cap uses(r.of[1], r.of[2]) # {}
               PROVE  <<r.of[1], fn>> \in r.kept
    BY DEF SharersKept
  <2>1. PICK v : v \in uses(r.of[1], fn) \cap uses(r.of[1], r.of[2])
    OBVIOUS
  <2>2. fn \in StartsOf(r.of)
    <3> DEFINE src == Sig(r.of[1])
    <3>1. v \in src.statics /\ v \in GlobalsUsed(src, fn) /\ v \in GlobalsUsed(src, r.of[2])
      BY <2>1 DEF GlobalsUsed, AllGlobals
    <3>2. v \in AllGlobals(src)
      BY <3>1 DEF AllGlobals
    <3> HIDE DEF src, uses, body
    <3> QED
      BY <3>1, <3>2 DEF StartsOf, SharingStatics, src, body
  <2> QED
    BY <2>2 DEF MockInv, Held
<1> QED
  BY <1>1, MainInv, PTL

\* The names that a run leaves in db.yaml are those that it has replaced in each of
\* its mock-ups, whatever the targets and their order, but for the name of a static
\* target in its own mock-up.
THEOREM RecordsNames == Spec => []NamesAgree
<1>1. ASSUME MockInv PROVE NamesAgree
  <2> SUFFICES ASSUME stage = "done", NEW r \in made
               PROVE  /\ r.names \subseteq dbRenamed
                      /\ {p \in dbRenamed \ r.names : p[1] \in r.files} \subseteq {r.of}
    BY DEF NamesAgree
  <2>1. dbRenamed = redirected /\ r.names \subseteq redirected
    BY <1>1 DEF MockInv, Recorded
  <2>2. ASSUME NEW p \in redirected \ r.names, p[1] \in r.files PROVE p = r.of
    <3>1. p = <<p[1], p[2]>> /\ p[2] \in Names
      BY <1>1 DEF MockInv, MockTypes
    <3>2. p[2] \in Renamable(p[1])
      BY <1>1 DEF MockInv, Recorded
    <3> QED
      BY <1>1, <2>2, <3>1, <3>2 DEF MockInv, Recorded
  <2> QED
    BY <2>1, <2>2
<1> QED
  BY <1>1, MainInv, PTL

\* No target is given up without one of the listed reasons: what is not a circle
\* of files can be sorted, however many files there are.
THEOREM SearchFailsForAReason == Spec => []FailsForAReason
<1>1. Init => Linked /\ FailsForAReason
  BY DEF Init, OrderInit, Linked, FailsForAReason
<1> QED
  BY <1>1, MainInv, ReasonNext, PTL DEF Spec

\* If no two files mean something else by one name, of which one is static, then
\* a mock-up that links calls what the search chose, whatever the repair added.
THEOREM CallsTheChosen ==
    ASSUME NamesApart
    PROVE  Spec => []LinksChosen
<1>1. ASSUME MockInv, TextKnown PROVE LinksChosen
  <2> SUFFICES ASSUME stage = "linking", Links, Fits,
                      NEW f \in Files, NEW fn \in kept[f], NEW n \in Callees(Sig(f), fn),
                      Candidates(n) # {}
               PROVE  \E g \in Chosen(f, n) :
                         <<g, n>> \in text /\ Symbol(g, n) = Symbol(f, n)
    BY DEF LinksChosen
  <2>1. ScanTypeOK /\ Followed /\ OrderTypeOK /\ Kept \subseteq text /\ stack = <<>>
    BY <1>1 DEF MockInv, ScanInv, OrderInv, Held
  <2>2. Undefined = {}
    BY DEF Links
  <2>3. <<f, fn>> \in text /\ n \in Wanted(f)
    BY <2>1 DEF Kept, OrderTypeOK, Wanted, CalledBy
  <2>4. PICK g \in Chosen(f, n) : n \in kept[g]
    BY <2>1, <2>3, NoFrame DEF Followed, Pending, Resolved
  <2>5. g \in Files /\ n \in Known(db, g) /\ <<g, n>> \in text
    BY <2>1, <2>4, ChosenFiles DEF Followed, OnlyKnown, Kept, OrderTypeOK
  <2>6. fn \in Known(db, f)
    BY <2>1 DEF Followed, OnlyKnown
  <2>7. PICK v \in Versions, w \in Versions :
          Sig(f) = Source[<<f, v>>] /\ Sig(g) = Source[<<g, w>>]
    BY <2>1, <2>5, <2>6, TextOf
  <2>8. n \in FunctionsOf(Sig(g))
    BY <2>1, <2>5, TextOf
  <2>9. CASE g = f
    BY <2>4, <2>5, <2>9
  <2>10. CASE g # f
    <3>1. n \notin Known(db, f)
      BY <2>4, <2>10, ChosenOwn
    <3>2. n \notin FunctionsOf(Sig(f))
      BY <2>6, <3>1 DEF Known, Sig
    <3>3. n \notin Replaced(f)
      <4>1. n \notin Static(Sig(f))
        <5>1. <<f, v>> \in Files \X Versions /\ <<g, w>> \in (Files \ {f}) \X Versions
          BY <2>5, <2>10
        <5> QED
          BY <2>7, <2>8, <5>1 DEF NamesApart
      <4> QED
        BY <3>2, <4>1, ReplacedIsStatic
    <3>4. DefinedIn(n)
      BY <1>1, <2>2, <2>3, <3>3, NeedsAreMet
    <3>5. ASSUME n \in Replaced(g) PROVE FALSE
      <4>1. n \in Static(Sig(g)) \/ n = Main
        BY <3>5, ReplacedIsStatic
      <4>2. n \notin Library
        BY <2>5, <2>7, <4>1 DEF NamesApart
      <4>3. ASSUME NEW d \in text, d[2] = n, n \notin Replaced(d[1]) PROVE FALSE
        <5>1. d[1] \in Files /\ n \in Known(db, d[1]) /\ d[1] # g
          BY <1>1, <3>5, <4>3 DEF TextKnown
        <5>2. n \in FunctionsOf(Sig(d[1])) /\ \E x \in Versions : Sig(d[1]) = Source[<<d[1], x>>]
          BY <2>1, <5>1, TextOf
        <5>3. n # Main
          BY <4>3, <5>2, StaticIsReplaced
        <5> QED
          BY <2>5, <2>7, <4>1, <5>1, <5>2, <5>3 DEF NamesApart
      <4>4. ASSUME NEW h \in Pasted, n \in Sig(h).defines \cup Sig(h).statics,
                   n \notin Replaced(h)
            PROVE  FALSE
        <5>1. h \in Files /\ h # g /\ disk[h] \in Versions /\ Sig(h) = Source[<<h, disk[h]>>]
          BY <2>1, <3>5, <4>4 DEF Pasted, Fits, Sig, ScanTypeOK
        <5>2. n # Main
          BY <4>4, <5>1 DEF NamesApart
        <5>3. n \in Static(Sig(g)) /\ n \notin Sig(h).defines
          BY <2>5, <2>7, <4>1, <5>1, <5>2 DEF NamesApart
        <5>4. n \in Static(Sig(h)) /\ n \notin FunctionsOf(Sig(h))
          BY <2>5, <2>7, <4>4, <5>1, <5>3 DEF NamesApart, Static
        <5>5. h = target[1] /\ n = target[2]
          BY <4>4, <5>4, StaticIsReplaced
        <5>6. n \in FunctionsOf(Sig(h))
          BY <2>1, <5>5, TextOf DEF Followed, Started
        <5> QED
          BY <5>4, <5>6
      <4> QED
        BY <3>4, <4>2, <4>3, <4>4 DEF DefinedIn
    <3>6. Symbol(g, n) = Symbol(f, n)
      BY <3>3, <3>5 DEF Symbol
    <3> QED
      BY <2>4, <2>5, <3>6
  <2> QED
    BY <2>9, <2>10
<1>2. Init => TextKnown
  BY DEF Init, TextKnown
<1> QED
  BY <1>1, <1>2, MainInv, TextKnownNext, PTL DEF Spec
=============================================================================
