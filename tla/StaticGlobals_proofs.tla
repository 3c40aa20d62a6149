------------------------ MODULE StaticGlobals_proofs ------------------------
(***************************************************************************)
(* The search finds the least set of variables, whatever the file and the  *)
(* order of each pass.                                                     *)
(***************************************************************************)
EXTENDS StaticGlobals, CSource, Integers, FiniteSetTheorems, TLAPS

\* A function kept shares a variable; one this pass has come to, and that
\* shares one, is kept with all its variables, or asks for another pass.
PassInv ==
    /\ \A fn \in kept \ {function} : Shares(fn)
    /\ ~changed => \A fn \in Eligible \ todo :
                      Shares(fn) => fn \in kept /\ uses[fn] \subseteq found

Inv == TypeOK /\ NothingTooMuch /\ PassInv

LEMMA InitInv == Init => Inv
BY DEF Init, Inv, TypeOK, NothingTooMuch, PassInv, Start, Eligible

\* The file does not change, and what is said of it does not either.
LEMMA FileFixed ==
    ASSUME UNCHANGED file
    PROVE  /\ Eligible' = Eligible
           /\ Start' = Start
           /\ \A S : Closed(S)' <=> Closed(S)
BY DEF file, Eligible, Start, Closed

\* Keeping a function that shares a variable leads to nothing too much.
LEMMA KeepInv ==
    ASSUME Inv, NEW fn \in todo, fn \in Eligible, Shares(fn), Keep(fn),
           todo' = todo \ {fn}, UNCHANGED file
    PROVE  Inv'
<1>1. TypeOK'
  BY FileFixed DEF Inv, TypeOK, Keep, ChangedBy, file, Eligible
<1>2. NothingTooMuch'
  <2>. SUFFICES ASSUME NEW S \in SUBSET Globals, Start \subseteq S, Closed(S)
                PROVE  found' \subseteq S /\ \A g \in kept' \ {function} : uses[g] \cap S # {}
    BY FileFixed DEF NothingTooMuch, file
  <2>1. found \subseteq S /\ \A g \in kept \ {function} : uses[g] \cap S # {}
    BY DEF Inv, NothingTooMuch
  <2>2. uses[fn] \cap S # {}
    BY <2>1 DEF Shares
  <2>3. uses[fn] \subseteq S
    BY <2>2 DEF Closed
  <2>. QED  BY <2>1, <2>2, <2>3 DEF Keep
<1>3. PassInv'
  <2>1. \A g \in kept' \ {function} : Shares(g)'
    BY DEF Inv, PassInv, Shares, Keep, file
  <2>2. CASE changed'
    BY <2>1, <2>2 DEF PassInv, file
  <2>3. CASE ~changed'
    <3>1. ~changed /\ uses[fn] \subseteq found /\ found' = found
      BY <2>3 DEF Keep, ChangedBy, Inv, TypeOK
    <3>2. \A g \in Eligible \ todo' : Shares(g) => g \in kept' /\ uses[g] \subseteq found
      BY <3>1 DEF Inv, PassInv, Keep
    <3>. QED  BY <2>1, <3>1, <3>2, FileFixed DEF PassInv, Shares, file
  <2>. QED  BY <2>2, <2>3 DEF Keep, ChangedBy
<1>. QED  BY <1>1, <1>2, <1>3 DEF Inv

LEMMA InvStep == Inv /\ [Next]_vars => Inv'
<1>. SUFFICES ASSUME Inv, [Next]_vars PROVE Inv'
  OBVIOUS
<1>1. ASSUME NEW fn \in Functions, Visit(fn) PROVE Inv'
  <2>1. CASE fn \in Eligible /\ Shares(fn)
    BY <1>1, <2>1, KeepInv DEF Visit
  <2>2. CASE ~(fn \in Eligible /\ Shares(fn))
    <3>1. UNCHANGED <<found, kept, changed>> /\ UNCHANGED file /\ todo' = todo \ {fn}
      BY <1>1, <2>2 DEF Visit
    <3>2. TypeOK'
      BY <3>1, FileFixed DEF Inv, TypeOK, file
    <3>3. NothingTooMuch'
      BY <3>1, FileFixed DEF Inv, NothingTooMuch, file
    <3>4. PassInv'
      BY <2>2, <3>1, FileFixed DEF Inv, PassInv, Shares, file
    <3>. QED  BY <3>2, <3>3, <3>4 DEF Inv
  <2>. QED  BY <2>1, <2>2
<1>2. CASE NextPass
  <2>1. TypeOK'
    BY <1>2, FileFixed DEF NextPass, Inv, TypeOK, file
  <2>2. NothingTooMuch'
    BY <1>2, FileFixed DEF NextPass, Inv, NothingTooMuch, file
  <2>3. PassInv'
    BY <1>2, FileFixed DEF NextPass, Inv, PassInv, Shares, Eligible, file
  <2>. QED  BY <2>1, <2>2, <2>3 DEF Inv
<1>3. CASE UNCHANGED vars
  BY <1>3, FileFixed DEF vars, Inv, TypeOK, NothingTooMuch, PassInv, Shares, file
<1>. QED
  BY <1>1, <1>2, <1>3 DEF Next

\* The types of the search, and that the target's part is never lost.
THEOREM TypeCorrect == Spec => []TypeOK
<1>1. Inv => TypeOK
  BY DEF Inv
<1>. QED  BY <1>1, InitInv, InvStep, PTL DEF Spec

\* Whatever is found lies in every set of variables that holds the target's
\* static ones and that no eligible function leads out of.
THEOREM FindsNothingTooMuch == Spec => []NothingTooMuch
<1>1. Inv => NothingTooMuch
  BY DEF Inv
<1>. QED  BY <1>1, InitInv, InvStep, PTL DEF Spec

\* And when the loop ends, what it has found is such a set, and the functions
\* kept are those that share a variable of it.
THEOREM MissesNothing == Spec => []NothingMissed
<1>1. Inv => NothingMissed
  BY DEF Inv, PassInv, TypeOK, NothingMissed, Done, Again, Closed, Shares
<1>. QED  BY <1>1, InitInv, InvStep, PTL DEF Spec
-----------------------------------------------------------------------------
(* The mock-ups do not run the loop: they take SharingStatics, of the text   *)
(* that was scanned.  It is what the loop comes to.                          *)

\* The file of the search is the text src; get_symbolic_test leaves external at
\* its default.
Reads(src) ==
    /\ Functions = FunctionsOf(src)
    /\ Globals = AllGlobals(src)
    /\ uses = [fn \in Functions |-> GlobalsUsed(src, fn)]
    /\ statics = src.statics
    /\ hidden = {fn \in Functions : src.body[fn].static}
    /\ ~external

\* What the text's functions say of the storage of each of them is a Boolean.
Stored(src) == \A fn \in FunctionsOf(src) : src.body[fn].static \in BOOLEAN

\* Whatever the order of its passes, the loop ends with the functions that
\* SharingStatics gives for the text it searches.
THEOREM LoopFindsSharing ==
    Spec => [](\A src : Stored(src) /\ Reads(src) /\ Done =>
                          kept = SharingStatics(src, function, Main))
<1>1. ASSUME Inv, NEW src, Stored(src), Reads(src), Done
      PROVE  kept = SharingStatics(src, function, Main)
  <2>. DEFINE alike == {g \in FunctionsOf(src) \ {function, Main} :
                          src.body[g].static = src.body[function].static}
              start == src.statics \cap GlobalsUsed(src, function)
              closed == {V \in SUBSET AllGlobals(src) :
                           /\ start \subseteq V
                           /\ \A g \in alike : GlobalsUsed(src, g) \cap V # {} =>
                                                 GlobalsUsed(src, g) \subseteq V}
              least == {v \in AllGlobals(src) : \A V \in closed : v \in V}
  <2>1. TypeOK /\ NothingTooMuch
    BY <1>1 DEF Inv
  <2>2. Closed(found) /\ kept = {function} \cup {fn \in Eligible : Shares(fn)}
    BY <1>1 DEF Inv, PassInv, TypeOK, Done, Again, Closed, Shares
  <2>3. alike = Eligible
    BY <1>1, <2>1 DEF Reads, Stored, Eligible, TypeOK
  <2>4. start = Start /\ \A g \in alike : GlobalsUsed(src, g) = uses[g]
    BY <1>1, <2>1 DEF Reads, Start, TypeOK
  <2>5. closed = {V \in SUBSET Globals : Start \subseteq V /\ Closed(V)}
    BY <1>1, <2>3, <2>4 DEF Reads, Closed
  <2>6. found \in closed
    BY <2>1, <2>2, <2>5 DEF TypeOK
  <2>7. \A V \in closed : found \subseteq V
    BY <2>1, <2>5 DEF NothingTooMuch
  <2>8. least = found
    BY <1>1, <2>1, <2>6, <2>7 DEF Reads, TypeOK
  <2>9. {function} \cup {g \in alike : GlobalsUsed(src, g) \cap least # {}} = kept
    <3>. HIDE DEF least, alike
    <3>. QED  BY <2>2, <2>3, <2>4, <2>8 DEF Shares
  <2>. QED  BY <2>9 DEF SharingStatics
<1>2. Inv => \A src : Stored(src) /\ Reads(src) /\ Done =>
                         kept = SharingStatics(src, function, Main)
  BY <1>1
<1>. QED  BY <1>2, InitInv, InvStep, PTL DEF Spec
-----------------------------------------------------------------------------
(* That the loop ends rests on fairness, and TLC checks it.  How long it can *)
(* take is a matter of its steps alone.                                      *)

Width == Cardinality(Functions) + 1

\* What is left to be done: a pass for each variable not found yet, and for the
\* change that asks for one, and the functions of the pass under way.
Left ==
    (Cardinality(Globals \ found) + (IF changed THEN 1 ELSE 0)) * Width + Cardinality(todo)

LEMMA WidthIsNat == Width \in Nat \ {0} /\ Cardinality(Functions) = Width - 1
BY FileAssumption, FS_CardinalityType DEF Width

LEMMA LeftIsNat ==
    ASSUME TypeOK
    PROVE  /\ Left \in Nat
           /\ Cardinality(Globals \ found) \in Nat
           /\ Cardinality(todo) \in Nat
<1>1. IsFiniteSet(Globals \ found) /\ IsFiniteSet(todo)
  BY FileAssumption, FS_Subset DEF TypeOK
<1>2. Cardinality(Globals \ found) \in Nat /\ Cardinality(todo) \in Nat
  BY <1>1, FS_CardinalityType
<1>3. \A m, w, n \in Nat, b \in {0, 1} : (m + b) * w + n \in Nat
  OBVIOUS
<1>. QED  BY <1>2, <1>3, WidthIsNat DEF Left

LEMMA FewerLeft ==
    ASSUME NEW m1 \in Nat, NEW m2 \in Nat, NEW b1 \in {0, 1}, NEW b2 \in {0, 1},
           NEW n1 \in Nat, NEW n2 \in Nat, NEW w \in Nat \ {0},
           m2 + b2 \leq m1 + b1, n2 = n1 - 1
    PROVE  (m2 + b2) * w + n2 < (m1 + b1) * w + n1
<1>1. \A i, j \in Nat : i \leq j => i * w \leq j * w
  OBVIOUS
<1>2. m1 + b1 \in Nat /\ m2 + b2 \in Nat
  OBVIOUS
<1>3. (m2 + b2) * w \leq (m1 + b1) * w
  BY <1>1, <1>2
<1>. QED  BY <1>2, <1>3

\* A function taken from the pass, and one of the variables found, or none.
LEMMA VisitCountsDown ==
    ASSUME TypeOK, TypeOK', NEW fn \in Functions, Visit(fn)
    PROVE  Left' < Left
<1>. DEFINE m == Cardinality(Globals \ found)
            n == Cardinality(todo)
            b == IF changed THEN 1 ELSE 0
<1>1. n' = n - 1
  <2>1. IsFiniteSet(todo)
    BY FileAssumption, FS_Subset DEF TypeOK
  <2>. QED  BY <2>1, FS_RemoveElement DEF Visit
<1>2. /\ m \in Nat /\ m' \in Nat /\ n \in Nat /\ n' \in Nat
      /\ b \in {0, 1} /\ b' \in {0, 1}
  <2>1. ASSUME TypeOK PROVE m \in Nat /\ n \in Nat
    BY LeftIsNat
  <2>2. IsFiniteSet(Globals \ found') /\ IsFiniteSet(todo')
    BY FileAssumption, FS_Subset DEF TypeOK
  <2>. QED  BY <2>1, <2>2, FS_CardinalityType
<1>3. m' + b' \leq m + b
  <2>1. CASE found' = found /\ changed' = changed
    BY <2>1, LeftIsNat DEF TypeOK
  <2>2. CASE ~(found' = found /\ changed' = changed)
    <3>1. Keep(fn) /\ ~(uses[fn] \subseteq found)
      BY <2>2 DEF Visit, Keep, ChangedBy, TypeOK
    <3>2. /\ Globals \ found' \subseteq Globals \ found
          /\ Globals \ found' # Globals \ found
      BY <3>1 DEF Keep, TypeOK
    <3>3. IsFiniteSet(Globals \ found)
      BY FileAssumption, FS_Subset
    <3>4. m' < m
      BY <3>2, <3>3, FS_Subset, FS_CardinalityType
    <3>. QED  BY <3>4, <1>2
  <2>. QED  BY <2>1, <2>2
<1>4. (m' + b') * Width + n' < (m + b) * Width + n
  <2>. HIDE DEF m, n, b
  <2>. QED  BY <1>1, <1>2, <1>3, WidthIsNat, FewerLeft
<1>. QED  BY <1>4 DEF Left, Width

\* The next pass is paid for by the change that asked for it.
LEMMA PassCountsDown ==
    ASSUME TypeOK, NextPass
    PROVE  Left' < Left
<1>1. /\ Cardinality(todo) = 0
      /\ Cardinality(todo)' = Width - 1
      /\ Cardinality(Globals \ found)' = Cardinality(Globals \ found)
  BY WidthIsNat, FS_EmptySet DEF NextPass
<1>2. changed /\ ~changed'
  BY DEF NextPass, Again
<1>3. \A m \in Nat, w \in Nat \ {0} : (m + 0) * w + (w - 1) < (m + 1) * w + 0
  OBVIOUS
<1>. QED  BY <1>1, <1>2, <1>3, LeftIsNat, WidthIsNat DEF Left, Width

\* Every step takes something off what is left, a natural number: the loop cannot
\* go on for more than |Globals \ Start| + 1 passes, whatever it finds.
THEOREM LoopCountsDown ==
    Spec => /\ [](Left \in Nat)
            /\ [][Left' < Left]_vars
<1>1. Inv => Left \in Nat
  BY LeftIsNat DEF Inv
<1>2. Inv /\ Inv' /\ [Next]_vars => [Left' < Left]_vars
  BY VisitCountsDown, PassCountsDown DEF Inv, Next
<1>. QED  BY <1>1, <1>2, InitInv, InvStep, PTL DEF Spec
=============================================================================
