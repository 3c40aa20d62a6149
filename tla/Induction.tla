----------------------------- MODULE Induction -----------------------------
(***************************************************************************)
(* Facts about recursion and induction that the proofs of this project     *)
(* need.  They are first-order: where a theorem of the library takes an    *)
(* operator, these take a set or a function, so that every prover can      *)
(* instantiate them.                                                       *)
(***************************************************************************)
EXTENDS Integers, FiniteSetsExt, FiniteSetTheorems, WellFoundedInduction, TLAPS

\* A set of natural numbers has a least one.
LEMMA LeastNatural ==
    ASSUME NEW S \in SUBSET Nat, S # {}
    PROVE  \E m \in S : \A k \in S : m <= k
<1>1. PICK m \in S : \A k \in S : ~(<<k, m>> \in OpToRel(<, Nat))
  BY NatLessThanWellFounded, WFMin, Zenon
<1>2. \A k \in S : ~(k < m)
  BY <1>1 DEF OpToRel
<1> QED
  BY <1>2

\* What holds of 0, and of n + 1 if of n, holds of all natural numbers.
LEMMA NaturalsInSet ==
    ASSUME NEW S, 0 \in S, \A n \in Nat : n \in S => n + 1 \in S
    PROVE  Nat \subseteq S
<1> SUFFICES ASSUME Nat \ S # {} PROVE FALSE
  OBVIOUS
<1>1. PICK m \in Nat \ S : \A k \in Nat \ S : m <= k
  BY LeastNatural, Nat \ S \in SUBSET Nat
<1>2. m - 1 \in Nat /\ m - 1 \in S
  BY <1>1
<1> QED
  BY <1>1, <1>2

\* Of sets of a finite set, one has none of the others within it.
LEMMA MinimalSubset ==
    ASSUME NEW D, IsFiniteSet(D), NEW T \in SUBSET (SUBSET D), T # {}
    PROVE  \E m \in T : \A k \in T : k \subseteq m => k = m
<1>1. IsWellFoundedOn(StrictSubsetOrdering(D), SUBSET D)
  BY FS_StrictSubsetOrderingWellFounded, FS_FiniteSubsetsOfFinite
<1>2. PICK m \in T : \A k \in T : ~(<<k, m>> \in StrictSubsetOrdering(D))
  BY <1>1, WFMin, Zenon
<1> QED
  BY <1>2 DEF StrictSubsetOrdering

-----------------------------------------------------------------------------
\* Each element of S other than the first has a predecessor in a relation that
\* leads back only finitely often.
Descends(R, S, first, pred) ==
    /\ IsWellFoundedOn(R, S)
    /\ first \in S
    /\ pred \in [S -> S]
    /\ \A s \in S \ {first} : <<pred[s], s>> \in R

\* What f has first, and has of an element if of its predecessor.
Inductive(f, S, first, pred, V) ==
    /\ f[first] \in V
    /\ \A s \in S \ {first} : f[pred[s]] \in V => f[s] \in V

\* f is defined by recursion.
Recursion(f, S, first, pred, base, step) ==
    f = [s \in S |-> IF s = first THEN base ELSE step[s, f[pred[s]]]]

\* A recursion along a well-founded relation defines a function.
LEMMA RecursionDefines ==
    ASSUME NEW R, NEW S, NEW first, NEW pred, Descends(R, S, first, pred),
           NEW V, NEW base \in V, NEW step \in [S \X V -> V]
    PROVE  \E f \in [S -> V] : Recursion(f, S, first, pred, base, step)
<1> USE DEF Descends
<1> DEFINE Closed(C) ==
             /\ <<first, base>> \in C
             /\ \A s \in S \ {first} : \A v \in V :
                  <<pred[s], v>> \in C => <<s, step[s, v]>> \in C
           G == {p \in S \X V : \A C \in SUBSET (S \X V) : Closed(C) => p \in C}
           Unique(s) == \E v \in V : <<s, v>> \in G /\ \A w \in V : <<s, w>> \in G => w = v
           Bad == {s \in S : ~Unique(s)}
<1>1. Closed(G)
  <2>1. <<first, base>> \in G
    OBVIOUS
  <2>2. ASSUME NEW s \in S \ {first}, NEW v \in V, <<pred[s], v>> \in G
        PROVE  <<s, step[s, v]>> \in G
    <3>1. <<s, step[s, v]>> \in S \X V
      OBVIOUS
    <3>2. ASSUME NEW C \in SUBSET (S \X V), Closed(C) PROVE <<s, step[s, v]>> \in C
      BY <2>2, <3>2
    <3> QED
      BY <3>1, <3>2
  <2> QED
    BY <2>1, <2>2
<1>2. \A C \in SUBSET (S \X V) : Closed(C) => G \subseteq C
  OBVIOUS
<1>3. G \subseteq S \X V
  OBVIOUS
<1>4. Unique(first)
  <2>1. ASSUME NEW w \in V, <<first, w>> \in G PROVE w = base
    <3> SUFFICES ASSUME w # base PROVE FALSE
      OBVIOUS
    <3> DEFINE C == G \ {<<first, w>>}
    <3>1. C \in SUBSET (S \X V)
      BY <1>3
    <3>2. Closed(C)
      BY <1>1
    <3>3. <<first, w>> \in C
      BY <1>2, <2>1, <3>1, <3>2
    <3> QED
      BY <3>3
  <2> QED
    BY <1>1, <2>1
<1>5. ASSUME NEW s \in S \ {first}, Unique(pred[s])
      PROVE  Unique(s) /\ \A v \in V : <<pred[s], v>> \in G => <<s, step[s, v]>> \in G
  <2>1. PICK v \in V : <<pred[s], v>> \in G /\ \A w \in V : <<pred[s], w>> \in G => w = v
    BY <1>5
  <2>2. <<s, step[s, v]>> \in G /\ step[s, v] \in V
    BY <1>1, <2>1
  <2>3. ASSUME NEW w \in V, <<s, w>> \in G PROVE w = step[s, v]
    <3> SUFFICES ASSUME w # step[s, v] PROVE FALSE
      OBVIOUS
    <3> DEFINE C == G \ {<<s, w>>}
    <3>1. C \in SUBSET (S \X V)
      BY <1>3
    <3>2. Closed(C)
      <4>1. <<first, base>> \in C
        BY <1>1
      <4>2. ASSUME NEW t \in S \ {first}, NEW u \in V, <<pred[t], u>> \in C
            PROVE  <<t, step[t, u]>> \in C
        <5>1. <<t, step[t, u]>> \in G
          BY <1>1, <4>2
        <5>2. t = s => u = v
          BY <2>1, <4>2
        <5> QED
          BY <5>1, <5>2
      <4> QED
        BY <4>1, <4>2
    <3>3. <<s, w>> \in C
      BY <1>2, <2>3, <3>1, <3>2
    <3> QED
      BY <3>3
  <2> HIDE DEF G
  <2> QED
    BY <1>1, <2>2, <2>3
<1> HIDE DEF G
<1>6. Bad = {}
  <2> SUFFICES ASSUME Bad # {} PROVE FALSE
    OBVIOUS
  <2>1. PICK s \in Bad : \A t \in Bad : ~(<<t, s>> \in R)
    <3>1. Bad \subseteq S
      OBVIOUS
    <3> HIDE DEF Bad
    <3> QED
      BY <3>1, WFMin, Zenon
  <2>2. s \in S \ {first}
    BY <1>4
  <2>3. pred[s] \in S /\ <<pred[s], s>> \in R
    BY <2>2
  <2>4. Unique(pred[s])
    BY <2>1, <2>3
  <2> QED
    BY <1>5, <2>2, <2>4
<1>7. \A s \in S : Unique(s)
  BY <1>6
<1> DEFINE f == [s \in S |-> CHOOSE v \in V : <<s, v>> \in G]
<1>8. \A s \in S : f[s] \in V /\ <<s, f[s]>> \in G /\ \A w \in V : <<s, w>> \in G => w = f[s]
  BY <1>7
<1>9. f \in [S -> V]
  BY <1>8
<1> HIDE DEF f
<1>10. f[first] = base
  BY <1>1, <1>8
<1>11. ASSUME NEW s \in S \ {first} PROVE f[s] = step[s, f[pred[s]]]
  <2>1. pred[s] \in S /\ f[pred[s]] \in V /\ <<pred[s], f[pred[s]]>> \in G
    BY <1>8
  <2>2. <<s, step[s, f[pred[s]]]>> \in G /\ step[s, f[pred[s]]] \in V
    BY <1>1, <2>1
  <2> QED
    BY <1>8, <2>2
<1>12. Recursion(f, S, first, pred, base, step)
  BY <1>9, <1>10, <1>11 DEF Recursion
<1> QED
  BY <1>9, <1>12

\* What a function has first, and each time it has it before, it has everywhere.
LEMMA RecursionTyped ==
    ASSUME NEW R, NEW S, NEW first, NEW pred, Descends(R, S, first, pred),
           NEW V, NEW f, Inductive(f, S, first, pred, V)
    PROVE  \A s \in S : f[s] \in V
<1> USE DEF Descends, Inductive
<1> DEFINE Bad == {s \in S : f[s] \notin V}
<1> SUFFICES ASSUME Bad # {} PROVE FALSE
  OBVIOUS
<1>1. PICK s \in Bad : \A t \in Bad : ~(<<t, s>> \in R)
  <2>1. Bad \subseteq S
    OBVIOUS
  <2> HIDE DEF Bad
  <2> QED
    BY <2>1, WFMin, Zenon
<1>2. s \in S \ {first} /\ pred[s] \in S /\ <<pred[s], s>> \in R
  BY <1>1
<1>3. f[pred[s]] \in V
  BY <1>1, <1>2
<1> QED
  BY <1>1, <1>2, <1>3

-----------------------------------------------------------------------------
\* f is defined by recursion over the natural numbers.
NatRecursion(f, base, step) ==
    f = [n \in Nat |-> IF n = 0 THEN base ELSE step[n, f[n - 1]]]

\* A recursion over the natural numbers defines a function.
LEMMA NatRecursionDefines ==
    ASSUME NEW V, NEW base \in V, NEW step \in [Nat \X V -> V]
    PROVE  \E f \in [Nat -> V] : NatRecursion(f, base, step)
<1> DEFINE R == OpToRel(<, Nat)
           pred == [n \in Nat |-> IF n = 0 THEN 0 ELSE n - 1]
<1>1. IsWellFoundedOn(R, Nat)
  BY NatLessThanWellFounded
<1>2. /\ 0 \in Nat /\ pred \in [Nat -> Nat]
      /\ \A n \in Nat \ {0} : pred[n] = n - 1
  OBVIOUS
<1>3. Descends(R, Nat, 0, pred)
  BY <1>1, <1>2 DEF OpToRel, Descends
<1> HIDE DEF R, pred
<1>4. PICK f \in [Nat -> V] : Recursion(f, Nat, 0, pred, base, step)
  BY <1>3, RecursionDefines
<1>5. \A n \in Nat : f[n] = IF n = 0 THEN base ELSE step[n, f[n - 1]]
  BY <1>2, <1>4 DEF Recursion
<1> QED
  BY <1>5 DEF NatRecursion

\* The function so defined.
Recursively(base, step) == CHOOSE f : NatRecursion(f, base, step)

Follows(f, V, base, step) ==
    /\ f \in [Nat -> V]
    /\ f[0] = base
    /\ \A n \in Nat : f[n + 1] = step[<<n + 1, f[n]>>]

LEMMA RecursionFollows ==
    ASSUME NEW V, NEW base \in V, NEW step \in [Nat \X V -> V]
    PROVE  Follows(Recursively(base, step), V, base, step)
<1> DEFINE f == Recursively(base, step)
<1>1. PICK g \in [Nat -> V] : NatRecursion(g, base, step)
  BY NatRecursionDefines
<1>2. NatRecursion(f, base, step)
  BY <1>1 DEF Recursively
<1> HIDE DEF f
<1>3. /\ f[0] = base
      /\ \A n \in Nat : f[n + 1] = step[<<n + 1, f[n]>>]
  <2>1. f = [n \in Nat |-> IF n = 0 THEN base ELSE step[n, f[n - 1]]]
    BY <1>2, Zenon DEF NatRecursion
  <2>2. f[0] = base
    BY <2>1
  <2>3. ASSUME NEW n \in Nat PROVE f[n + 1] = step[<<n + 1, f[n]>>]
    <3>1. n + 1 \in Nat /\ n + 1 # 0 /\ (n + 1) - 1 = n
      OBVIOUS
    <3>2. f[n + 1] = IF n + 1 = 0 THEN base ELSE step[n + 1, f[(n + 1) - 1]]
      BY <2>1, <3>1, Zenon
    <3> QED
      BY <3>1, <3>2
  <2> QED
    BY <2>1, <2>2, <2>3
<1> DEFINE S == {n \in Nat : f[n] \in V}
<1>4. 0 \in S
  BY <1>3
<1>5. \A n \in Nat : n \in S => n + 1 \in S
  <2>1. \A k \in Nat, v \in V : step[<<k, v>>] \in V
    OBVIOUS
  <2> SUFFICES ASSUME NEW n \in Nat, f[n] \in V PROVE f[n + 1] \in V
    OBVIOUS
  <2>2. n + 1 \in Nat
    OBVIOUS
  <2>3. f[n + 1] = step[<<n + 1, f[n]>>]
    BY <1>3
  <2> QED
    BY <2>1, <2>2, <2>3
<1> HIDE DEF S
<1>6. Nat \subseteq S
  BY <1>4, <1>5, NaturalsInSet
<1>7. f \in [Nat -> V]
  <2>1. f = [n \in Nat |-> f[n]]
    BY <1>2 DEF NatRecursion
  <2> QED
    BY <1>6, <2>1 DEF S
<1> QED
  BY <1>3, <1>7 DEF Follows, f

\* w[1] + ... + w[n], for every n.
Totals(w) == Recursively(0, [x \in Nat \X Nat |-> x[2] + w[x[1]]])

LEMMA TotalsDef ==
    ASSUME NEW w \in [Nat -> Nat]
    PROVE  /\ Totals(w) \in [Nat -> Nat]
           /\ Totals(w)[0] = 0
           /\ \A n \in Nat : Totals(w)[n + 1] = Totals(w)[n] + w[n + 1]
<1> DEFINE step == [x \in Nat \X Nat |-> x[2] + w[x[1]]]
           t == Totals(w)
           N == Nat
           zero == 0
<1>1. /\ zero \in N
      /\ step \in [Nat \X N -> N]
      /\ \A n, v \in Nat : step[<<n, v>>] = v + w[n]
      /\ t = Recursively(zero, step)
  <2>1. \A n, v \in Nat : v + w[n] \in Nat
    OBVIOUS
  <2> QED
    BY <2>1 DEF Totals
<1> HIDE DEF step, t, N, zero
<1>2. Follows(t, N, zero, step)
  BY <1>1, RecursionFollows
<1>3. t \in [Nat -> Nat] /\ t[0] = 0
  BY <1>2 DEF N, zero, Follows
<1>4. ASSUME NEW n \in Nat PROVE t[n + 1] = t[n] + w[n + 1]
  <2>1. n + 1 \in Nat /\ t[n] \in Nat
    BY <1>3
  <2> QED
    BY <1>1, <1>2, <2>1 DEF Follows
<1> QED
  BY <1>3, <1>4 DEF t

\* Only the numbers added matter.
LEMMA TotalsAgree ==
    ASSUME NEW w \in [Nat -> Nat], NEW v \in [Nat -> Nat], NEW n \in Nat,
           \A i \in 1 .. n : w[i] = v[i]
    PROVE  Totals(w)[n] = Totals(v)[n]
<1> DEFINE S == {k \in Nat : k <= n => Totals(w)[k] = Totals(v)[k]}
<1>1. 0 \in S
  BY TotalsDef
<1>2. ASSUME NEW k \in Nat, k \in S PROVE k + 1 \in S
  <2>1. k + 1 <= n => Totals(w)[k] = Totals(v)[k] /\ w[k + 1] = v[k + 1]
    BY <1>2
  <2>2. /\ Totals(w)[k + 1] = Totals(w)[k] + w[k + 1]
        /\ Totals(v)[k + 1] = Totals(v)[k] + v[k + 1]
    BY TotalsDef
  <2> QED
    BY <2>1, <2>2
<1> HIDE DEF S
<1>3. n \in S
  BY <1>1, <1>2, NaturalsInSet
<1> QED
  BY <1>3 DEF S

-----------------------------------------------------------------------------
\* A set of numbers up to n has a largest one.
LEMMA Largest ==
    ASSUME NEW n \in Nat, NEW T \in SUBSET (1 .. n), T # {}
    PROVE  Max(T) \in T /\ \A x \in T : x <= Max(T)
<1>1. PICK k \in {n - x : x \in T} : \A j \in {n - x : x \in T} : k <= j
  <2>1. \A x \in T : n - x \in Nat
    OBVIOUS
  <2>2. {n - x : x \in T} \in SUBSET Nat /\ {n - x : x \in T} # {}
    BY <2>1, Zenon
  <2> QED
    BY <2>2, LeastNatural
<1>2. PICK m \in T : k = n - m
  OBVIOUS
<1>3. \A x \in T : m >= x
  BY <1>1, <1>2
<1> QED
  BY <1>3 DEF Max

\* What is without its largest number is a smaller set.
WithoutMax(n) == [T \in SUBSET (1 .. n) |-> T \ {Max(T)}]

LEMMA WithoutLargest ==
    ASSUME NEW n \in Nat
    PROVE  Descends(StrictSubsetOrdering(1 .. n), SUBSET (1 .. n), {}, WithoutMax(n))
<1>1. IsWellFoundedOn(StrictSubsetOrdering(1 .. n), SUBSET (1 .. n))
  <2>1. IsFiniteSet(1 .. n)
    BY FS_Interval
  <2> QED
    BY <2>1, FS_StrictSubsetOrderingWellFounded, FS_FiniteSubsetsOfFinite
<1>2. \A T \in (SUBSET (1 .. n)) \ {{}} : <<T \ {Max(T)}, T>> \in StrictSubsetOrdering(1 .. n)
  BY Largest DEF StrictSubsetOrdering
<1> QED
  BY <1>1, <1>2 DEF WithoutMax, Descends

\* f is defined by recursion over the sets of numbers up to n, from the largest
\* down, as FoldLeft is.
FoldRecursion(f, n, base, step) ==
    \A T \in SUBSET (1 .. n) :
       f[T] = IF T = {} THEN base ELSE step[Max(T), f[T \ {Max(T)}]]

\* f stays in V at each step of such a recursion.
FoldInductive(f, n, V) ==
    /\ f[{}] \in V
    /\ \A T \in (SUBSET (1 .. n)) \ {{}} : f[T \ {Max(T)}] \in V => f[T] \in V

\* A recursion over the sets of numbers up to n defines a function.
LEMMA FoldDefines ==
    ASSUME NEW n \in Nat, NEW V, NEW base \in V, NEW step \in [(1 .. n) \X V -> V]
    PROVE  \E f \in [SUBSET (1 .. n) -> V] : FoldRecursion(f, n, base, step)
<1> DEFINE D == SUBSET (1 .. n)
           pred == WithoutMax(n)
           next == [x \in D \X V |-> IF x[1] = {} THEN base ELSE step[Max(x[1]), x[2]]]
<1>1. Descends(StrictSubsetOrdering(1 .. n), D, {}, pred)
  BY WithoutLargest
<1>2. next \in [D \X V -> V]
  BY Largest
<1>3. \A T \in D : pred[T] = T \ {Max(T)}
  BY DEF WithoutMax
<1>4. \A T \in D, v \in V : T # {} => next[T, v] = step[Max(T), v]
  OBVIOUS
<1> HIDE DEF D, pred, next
<1>6. PICK f \in [D -> V] : Recursion(f, D, {}, pred, base, next)
  BY <1>1, <1>2, RecursionDefines
<1>7. \A T \in D : f[T] = IF T = {} THEN base ELSE next[T, f[T \ {Max(T)}]]
  BY <1>3, <1>6 DEF Recursion
<1>8. \A T \in D : pred[T] \in D
  BY <1>1 DEF Descends
<1>9. \A T \in D : T # {} => f[T] = step[Max(T), f[T \ {Max(T)}]]
  <2> SUFFICES ASSUME NEW T \in D, T # {} PROVE f[T] = step[Max(T), f[T \ {Max(T)}]]
    OBVIOUS
  <2>1. f[T \ {Max(T)}] \in V
    BY <1>3, <1>8
  <2>2. next[T, f[T \ {Max(T)}]] = step[Max(T), f[T \ {Max(T)}]]
    BY <1>4, <2>1
  <2> QED
    BY <1>7, <2>2
<1>10. \A T \in SUBSET (1 .. n) :
          f[T] = IF T = {} THEN base ELSE step[Max(T), f[T \ {Max(T)}]]
  BY <1>7, <1>9 DEF D
<1>11. FoldRecursion(f, n, base, step)
  BY <1>10 DEF FoldRecursion
<1> QED
  BY <1>6, <1>11 DEF D

\* Folding from the left stays among the values that each step stays among.
LEMMA FoldTyped ==
    ASSUME NEW n \in Nat, NEW V, NEW f, FoldInductive(f, n, V)
    PROVE  f[1 .. n] \in V
<1> DEFINE D == SUBSET (1 .. n)
           pred == WithoutMax(n)
<1>1. Descends(StrictSubsetOrdering(1 .. n), D, {}, pred)
  BY WithoutLargest
<1>2. Inductive(f, D, {}, pred, V)
  BY DEF WithoutMax, Inductive, FoldInductive
<1>3. 1 .. n \in D
  OBVIOUS
<1> HIDE DEF D, pred
<1> QED
  BY <1>1, <1>2, <1>3, RecursionTyped

\* The numbers up to k + 1 are those up to k and their largest.
LEMMA LargestOfInterval ==
    ASSUME NEW k \in Nat
    PROVE  Max(1 .. k + 1) = k + 1 /\ (1 .. k + 1) \ {k + 1} = 1 .. k
<1>1. 1 .. k + 1 \in SUBSET (1 .. k + 1) /\ 1 .. k + 1 # {} /\ k + 1 \in Nat
  OBVIOUS
<1>2. Max(1 .. k + 1) \in 1 .. k + 1 /\ \A x \in 1 .. k + 1 : x <= Max(1 .. k + 1)
  BY <1>1, Largest
<1>3. k + 1 \in 1 .. k + 1
  OBVIOUS
<1>4. k + 1 <= Max(1 .. k + 1) /\ Max(1 .. k + 1) <= k + 1 /\ Max(1 .. k + 1) \in Int
  BY <1>2, <1>3
<1>5. Max(1 .. k + 1) = k + 1
  BY <1>4
<1> QED
  BY <1>5

-----------------------------------------------------------------------------
\* s lists the elements of N, each once, none of them before one with an edge to it.
Ordering(s, N, E) ==
    LET D == 1 .. Cardinality(N) IN
    /\ s \in [D -> N]
    /\ \A i, j \in D : i # j => s[i] # s[j]
    /\ \A p \in N : \E i \in D : s[i] = p
    /\ \A i, j \in D : i < j => <<s[j], s[i]>> \notin E

\* Each set of elements has one that no other of the set has an edge to.
Acyclic(N, E) ==
    \A S \in SUBSET N : S # {} => \E f \in S : \A g \in S \ {f} : <<g, f>> \notin E

\* An ordering of P goes on with an element that has no edge to those of P.
LEMMA OrderingGrows ==
    ASSUME NEW P, IsFiniteSet(P), NEW E, NEW s, Ordering(s, P, E), NEW f, f \notin P,
           \A p \in P : <<f, p>> \notin E
    PROVE  \E t : Ordering(t, P \cup {f}, E)
<1> DEFINE c == Cardinality(P)
           Q == P \cup {f}
           t == [i \in 1 .. c + 1 |-> IF i = c + 1 THEN f ELSE s[i]]
<1>1. c \in Nat /\ Cardinality(Q) = c + 1
  BY FS_AddElement, FS_CardinalityType
<1>2. /\ s \in [1 .. c -> P]
      /\ \A i, j \in 1 .. c : i # j => s[i] # s[j]
      /\ \A p \in P : \E i \in 1 .. c : s[i] = p
      /\ \A i, j \in 1 .. c : i < j => <<s[j], s[i]>> \notin E
  BY DEF Ordering
<1> HIDE DEF c
<1>3. t[c + 1] = f /\ \A i \in 1 .. c : t[i] = s[i] /\ t[i] \in P /\ i \in 1 .. c + 1
  BY <1>1, <1>2
<1>4. \A i \in 1 .. c + 1 : i \in 1 .. c \/ i = c + 1
  BY <1>1
<1>5. t \in [1 .. c + 1 -> Q]
  BY <1>3, <1>4
<1> HIDE DEF t
<1>6. \A i, j \in 1 .. c + 1 : i # j => t[i] # t[j]
  BY <1>2, <1>3, <1>4
<1>7. \A p \in Q : \E i \in 1 .. c + 1 : t[i] = p
  <2>1. c + 1 \in 1 .. c + 1
    BY <1>1
  <2> QED
    BY <1>2, <1>3, <2>1
<1>8. ASSUME NEW i \in 1 .. c + 1, NEW j \in 1 .. c + 1, i < j
      PROVE  <<t[j], t[i]>> \notin E
  <2>1. i \in 1 .. c
    BY <1>1, <1>8
  <2> QED
    BY <1>2, <1>3, <1>4, <1>8, <2>1
<1>9. Ordering(t, Q, E)
  BY <1>1, <1>5, <1>6, <1>7, <1>8 DEF Ordering
<1> QED
  BY <1>9

\* What has no cycle can be ordered.
LEMMA TopologicalOrder ==
    ASSUME NEW N, IsFiniteSet(N), NEW E, Acyclic(N, E)
    PROVE  \E s : Ordering(s, N, E)
<1> DEFINE Left(R) == /\ \E s : Ordering(s, N \ R, E)
                      /\ \A p \in N \ R : \A r \in R : <<r, p>> \notin E
           T == {R \in SUBSET N : Left(R)}
<1>1. N \in T
  <2>1. N \ N = {} /\ Cardinality({}) = 0 /\ 1 .. 0 = {}
    BY FS_EmptySet
  <2>2. \A s : s \in [{} -> {}] => Ordering(s, N \ N, E)
    BY <2>1 DEF Ordering
  <2>3. [i \in {} |-> 0] \in [{} -> {}]
    OBVIOUS
  <2>4. \E s : Ordering(s, N \ N, E)
    BY <2>2, <2>3
  <2> QED
    BY <2>1, <2>4
<1>2. PICK R \in T : \A k \in T : k \subseteq R => k = R
  <2>1. T \in SUBSET (SUBSET N) /\ T # {}
    BY <1>1
  <2> HIDE DEF T
  <2> QED
    BY <2>1, MinimalSubset
<1>3. R = {}
  <2> SUFFICES ASSUME R # {} PROVE FALSE
    OBVIOUS
  <2>1. PICK f \in R : \A g \in R \ {f} : <<g, f>> \notin E
    BY <1>2 DEF Acyclic
  <2>2. PICK s : Ordering(s, N \ R, E)
    BY <1>2
  <2>3. \A p \in N \ R : \A r \in R : <<r, p>> \notin E
    BY <1>2
  <2>4. f \in N /\ N \ (R \ {f}) = (N \ R) \cup {f} /\ f \notin N \ R
    BY <1>2
  <2>5. \E t : Ordering(t, (N \ R) \cup {f}, E)
    <3>1. IsFiniteSet(N \ R)
      BY FS_Difference
    <3> QED
      BY <2>2, <2>3, <2>4, <3>1, OrderingGrows
  <2>6. \A p \in N \ (R \ {f}) : \A r \in R \ {f} : <<r, p>> \notin E
    BY <2>1, <2>3, <2>4
  <2>7. R \ {f} \in T
    BY <2>4, <2>5, <2>6, <1>2
  <2> HIDE DEF T
  <2>8. R \ {f} = R
    BY <1>2, <2>7
  <2> QED
    BY <2>8
<1>4. N \ R = N
  BY <1>3
<1> QED
  BY <1>2, <1>4
=============================================================================
