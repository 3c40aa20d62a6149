------------------------ MODULE CallTraversal_proofs ------------------------
(***************************************************************************)
(* Proofs about Traverser, for any graph and depth.  Both properties need  *)
(* to know what the frames on the stack stand for: Within places them, and *)
(* what was found, in the sets of FoundWithinDepth; Pending says that a    *)
(* callee which was not found is still to be followed.                     *)
(***************************************************************************)
EXTENDS Preparation, Induction, SequenceTheorems

Frame == [fn : Functions, depth : 1 .. Depth, todo : SUBSET Names]

\* The frames on a stack.
On(s) == {s[i] : i \in DOMAIN s}

Types ==
    /\ calls \in [Functions -> SUBSET Names]
    /\ traversal \in {"idle", "searching", "done"}
    /\ start \in SUBSET Functions
    /\ DOMAIN seen \subseteq Functions
    /\ seen \in [DOMAIN seen -> 0 .. Depth]
    /\ frames \in Seq(Frame)

Idle == traversal = "idle" => DOMAIN seen = {} /\ frames = <<>> /\ start = {}

Within(W) ==
    /\ \A fn \in DOMAIN seen : fn \in Level(W, Depth - seen[fn])
    /\ \A x \in On(frames) :
         x.fn \in Level(W, Depth - x.depth) /\ x.todo \subseteq calls[x.fn]

Pending ==
    /\ traversal # "idle" => start \subseteq DOMAIN seen
    /\ traversal = "done" => frames = <<>>
    /\ \A fn \in DOMAIN seen : \A n \in calls[fn] \cap Functions :
         seen[fn] > 0 =>
            n \in DOMAIN seen \/ \E x \in On(frames) : x.fn = fn /\ n \in x.todo

-----------------------------------------------------------------------------
(* Stacks.                                                                 *)

LEMMA Top ==
    ASSUME NEW F, NEW s \in Seq(F), s # <<>>
    PROVE  /\ Head(s) \in F
           /\ Tail(s) \in Seq(F)
           /\ On(s) = {Head(s)} \cup On(Tail(s))
<1>1. /\ Head(s) \in F /\ Tail(s) \in Seq(F) /\ Head(s) = s[1] /\ Len(s) \in Nat \ {0}
      /\ DOMAIN s = 1 .. Len(s) /\ DOMAIN Tail(s) = 1 .. Len(s) - 1
      /\ \A i \in DOMAIN Tail(s) : Tail(s)[i] = s[i + 1]
  OBVIOUS
<1>2. On(s) \subseteq {Head(s)} \cup On(Tail(s))
  <2> SUFFICES ASSUME NEW i \in DOMAIN s, i # 1 PROVE s[i] \in On(Tail(s))
    BY <1>1 DEF On
  <2>1. i - 1 \in DOMAIN Tail(s) /\ Tail(s)[i - 1] = s[i]
    BY <1>1
  <2> QED
    BY <2>1 DEF On
<1>3. \A i \in DOMAIN Tail(s) : i + 1 \in DOMAIN s
  BY <1>1
<1>4. On(Tail(s)) \subseteq On(s)
  BY <1>1, <1>3 DEF On
<1>5. Head(s) \in On(s)
  BY <1>1 DEF On
<1> QED
  BY <1>1, <1>2, <1>4, <1>5

LEMMA Push ==
    ASSUME NEW F, NEW s \in Seq(F), NEW x \in F
    PROVE  /\ <<x>> \o s \in Seq(F)
           /\ On(<<x>> \o s) = {x} \cup On(s)
<1> DEFINE t == <<x>> \o s
<1>1. /\ t \in Seq(F) /\ t # <<>> /\ Head(t) = x /\ Tail(t) = s
  OBVIOUS
<1> QED
  BY <1>1, Top

LEMMA Empty == On(<<>>) = {}
  BY DEF On

-----------------------------------------------------------------------------
(* A visit, with frames below it.                                          *)

LEMMA Visited ==
    ASSUME Types, NEW fn \in Functions, NEW d \in 0 .. Depth, NEW below \in Seq(Frame),
           Visit(fn, d, below)
    PROVE  /\ DOMAIN seen' = DOMAIN seen \cup {fn}
           /\ \A n \in DOMAIN seen' : seen'[n] = IF n = fn THEN d ELSE seen[n]
           /\ seen' \in [DOMAIN seen' -> 0 .. Depth]
           /\ frames' \in Seq(Frame)
           /\ On(frames') = On(below) \cup
                 (IF d > 0 THEN {[fn |-> fn, depth |-> d, todo |-> calls[fn]]} ELSE {})
<1>1. /\ DOMAIN seen' = DOMAIN seen \cup {fn}
      /\ \A n \in DOMAIN seen' : seen'[n] = IF n = fn THEN d ELSE seen[n]
  BY DEF Visit
<1>2. seen' \in [DOMAIN seen' -> 0 .. Depth]
  <2>1. seen' = [n \in DOMAIN seen' |-> seen'[n]]
    BY DEF Visit
  <2>2. \A n \in DOMAIN seen' : seen'[n] \in 0 .. Depth
    BY <1>1 DEF Types
  <2> QED
    BY <2>1, <2>2
<1>3. AtBottom(d) <=> ~(d > 0)
  BY TraversalAssumption DEF AtBottom
<1>4. CASE d > 0
  <2> DEFINE new == [fn |-> fn, depth |-> d, todo |-> calls[fn]]
  <2>1. new \in Frame
    BY <1>4, TraversalAssumption DEF Types, Frame
  <2>2. frames' = <<new>> \o below
    BY <1>3, <1>4 DEF Visit
  <2> QED
    BY <1>1, <1>2, <1>4, <2>1, <2>2, Push
<1>5. CASE ~(d > 0)
  BY <1>1, <1>2, <1>3, <1>5 DEF Visit
<1> QED
  BY <1>4, <1>5

\* A step for a callee: what is below it, and what it does.
LEMMA CalleeStep ==
    ASSUME Types, NEW n \in Names, Callee(n)
    PROVE  \E top \in Frame, rest \in Seq(Frame), below \in Seq(Frame) :
             /\ On(frames) = {top} \cup On(rest)
             /\ On(below) = {[top EXCEPT !.todo = @ \ {n}]} \cup On(rest)
             /\ [top EXCEPT !.todo = @ \ {n}] \in Frame
             /\ n \in top.todo
             /\ \/ Enters(top, n) /\ Visit(n, Deeper(top.depth), below)
                \/ ~Enters(top, n) /\ frames' = below /\ seen' = seen
<1> DEFINE top == Head(frames)
           rest == Tail(frames)
           less == [top EXCEPT !.todo = @ \ {n}]
           below == <<less>> \o rest
<1>1. frames \in Seq(Frame) /\ frames # <<>>
  BY DEF Types, Callee
<1>2. top \in Frame /\ rest \in Seq(Frame) /\ On(frames) = {top} \cup On(rest)
  BY <1>1, Top
<1>3. less \in Frame
  BY <1>2 DEF Frame
<1>4. below \in Seq(Frame) /\ On(below) = {less} \cup On(rest)
  BY <1>2, <1>3, Push
<1>5. /\ n \in top.todo
      /\ \/ Enters(top, n) /\ Visit(n, Deeper(top.depth), below)
         \/ ~Enters(top, n) /\ frames' = below /\ seen' = seen
  BY DEF Callee
<1> QED
  BY <1>2, <1>3, <1>4, <1>5

-----------------------------------------------------------------------------
(* Types.                                                                  *)

LEMMA InitTypes == TraversalInit => Types /\ Idle
  BY TraversalAssumption DEF TraversalInit, Types, Idle

LEMMA NextTypes == Types /\ Idle /\ [TraversalNext]_traversalVars => (Types /\ Idle)'
<1> SUFFICES ASSUME Types, Idle, [TraversalNext]_traversalVars PROVE (Types /\ Idle)'
  OBVIOUS
<1>1. ASSUME NEW fn \in Functions, Traverse(fn) PROVE (Types /\ Idle)'
  <2>1. /\ Visit(fn, Depth, <<>>) /\ calls' = calls /\ start' = {fn}
        /\ traversal' = "searching"
    BY <1>1 DEF Traverse
  <2>2. <<>> \in Seq(Frame) /\ Depth \in 0 .. Depth
    BY TraversalAssumption
  <2>3. /\ DOMAIN seen' = DOMAIN seen \cup {fn}
        /\ seen' \in [DOMAIN seen' -> 0 .. Depth]
        /\ frames' \in Seq(Frame)
    BY <2>1, <2>2, Visited
  <2> QED
    BY <2>1, <2>3 DEF Types, Idle
<1>2. ASSUME NEW n \in Names, Callee(n) PROVE (Types /\ Idle)'
  <2>1. /\ calls' = calls /\ start' = start /\ traversal' = traversal
        /\ traversal = "searching"
    BY <1>2 DEF Callee
  <2>2. PICK top \in Frame, below \in Seq(Frame) :
          \/ Enters(top, n) /\ Visit(n, Deeper(top.depth), below)
          \/ ~Enters(top, n) /\ frames' = below /\ seen' = seen
    BY <1>2, CalleeStep
  <2>3. CASE Enters(top, n)
    <3>1. n \in Functions /\ Deeper(top.depth) \in 0 .. Depth
      BY <2>3, TraversalAssumption DEF Enters, Frame, Deeper
    <3>2. /\ DOMAIN seen' = DOMAIN seen \cup {n}
          /\ seen' \in [DOMAIN seen' -> 0 .. Depth]
          /\ frames' \in Seq(Frame)
      BY <2>2, <2>3, <3>1, Visited
    <3> QED
      BY <2>1, <3>1, <3>2 DEF Types, Idle
  <2>4. CASE ~Enters(top, n)
    BY <2>1, <2>2, <2>4 DEF Types, Idle
  <2> QED
    BY <2>3, <2>4
<1>3. CASE Return
  <2>1. Tail(frames) \in Seq(Frame)
    BY <1>3, Top DEF Types, Return
  <2> QED
    BY <1>3, <2>1 DEF Return, Types, Idle
<1>4. CASE Found
  BY <1>4 DEF Found, Types, Idle
<1>5. CASE UNCHANGED traversalVars
  BY <1>5 DEF traversalVars, Types, Idle
<1> QED
  BY <1>1, <1>2, <1>3, <1>4, <1>5 DEF TraversalNext, TraversalStep

\* Type correctness of the traversal.
THEOREM TraversalTyped == TraversalSpec => []TraversalTypeOK
<1>1. Types => TraversalTypeOK
  BY DEF Types, TraversalTypeOK, Frame
<1> QED
  BY <1>1, InitTypes, NextTypes, PTL DEF TraversalSpec

-----------------------------------------------------------------------------
(* Depth.                                                                  *)

\* What is visited is within the depth if its caller was.
LEMMA VisitWithin ==
    ASSUME Types, NEW fn \in Functions, NEW d \in 0 .. Depth, NEW below \in Seq(Frame),
           Visit(fn, d, below), calls' = calls, NEW W,
           \A n \in DOMAIN seen : \A e : e = Depth - seen[n] => n \in Level(W, e)',
           fn \in Level(W, Depth - d)',
           \A x \in On(below) :
              x.fn \in Level(W, Depth - x.depth)' /\ x.todo \subseteq calls[x.fn]
    PROVE  Within(W)'
<1>1. /\ DOMAIN seen' = DOMAIN seen \cup {fn}
      /\ \A n \in DOMAIN seen' : seen'[n] = IF n = fn THEN d ELSE seen[n]
  BY Visited
<1>2. \A x \in On(frames') :
         x \in On(below) \/ x = [fn |-> fn, depth |-> d, todo |-> calls[fn]]
  <2>1. On(frames') = On(below) \cup
          (IF d > 0 THEN {[fn |-> fn, depth |-> d, todo |-> calls[fn]]} ELSE {})
    BY Visited
  <2> QED
    BY <2>1
<1>3. \A n \in DOMAIN seen' : n \in Level(W, Depth - seen[n])'
  <2> SUFFICES ASSUME NEW n \in DOMAIN seen' PROVE n \in Level(W, Depth - seen[n])'
    OBVIOUS
  <2>1. CASE n = fn
    BY <1>1, <2>1
  <2>2. CASE n # fn
    BY <1>1, <2>2
  <2> QED
    BY <2>1, <2>2
<1>4. \A x \in On(frames') :
         x.fn \in Level(W, Depth - x.depth)' /\ x.todo \subseteq calls'[x.fn]
  BY <1>2
<1> QED
  BY <1>3, <1>4 DEF Within

AllWithin == \A W \in [1 .. Depth -> SUBSET Functions] : Levels(W) => Within(W)

LEMMA InitWithin == TraversalInit => AllWithin
  BY Empty DEF TraversalInit, AllWithin, Within

LEMMA NextWithin ==
    Types /\ Idle /\ AllWithin /\ [TraversalNext]_traversalVars => AllWithin'
<1> SUFFICES ASSUME Types, Idle, AllWithin, [TraversalNext]_traversalVars,
                    NEW W \in [1 .. Depth -> SUBSET Functions], Levels(W)'
             PROVE  Within(W)'
  BY DEF AllWithin
<1>1. ASSUME NEW fn \in Functions, Traverse(fn) PROVE Within(W)'
  <2>1. /\ Visit(fn, Depth, <<>>) /\ calls' = calls /\ start' = {fn}
        /\ DOMAIN seen = {}
    BY <1>1 DEF Traverse, Idle
  <2>2. <<>> \in Seq(Frame) /\ Depth \in 0 .. Depth /\ Depth - Depth = 0
    BY TraversalAssumption
  <2>3. fn \in Level(W, Depth - Depth)'
    BY <2>1, <2>2 DEF Level
  <2> QED
    BY <2>1, <2>2, <2>3, Empty, VisitWithin
<1>2. ASSUME NEW n \in Names, Callee(n) PROVE Within(W)'
  <2>1. calls' = calls /\ start' = start
    BY <1>2 DEF Callee
  <2>2. Levels(W) /\ Within(W)
    BY <2>1 DEF Levels, Level, AllWithin
  <2>3. PICK top \in Frame, rest \in Seq(Frame), below \in Seq(Frame) :
          /\ On(frames) = {top} \cup On(rest)
          /\ On(below) = {[top EXCEPT !.todo = @ \ {n}]} \cup On(rest)
          /\ n \in top.todo
          /\ \/ Enters(top, n) /\ Visit(n, Deeper(top.depth), below)
             \/ ~Enters(top, n) /\ frames' = below /\ seen' = seen
    BY <1>2, CalleeStep
  <2>4. /\ top.fn \in Level(W, Depth - top.depth) /\ top.todo \subseteq calls[top.fn]
        /\ \A x \in On(rest) :
              x.fn \in Level(W, Depth - x.depth) /\ x.todo \subseteq calls[x.fn]
    BY <2>2, <2>3 DEF Within
  <2>5. \A d : Level(W, d)' = Level(W, d)
    BY <2>1 DEF Level
  <2>6. \A x \in On(below) :
           x.fn \in Level(W, Depth - x.depth)' /\ x.todo \subseteq calls[x.fn]
    <3>1. LET less == [top EXCEPT !.todo = @ \ {n}]
          IN  less.fn = top.fn /\ less.depth = top.depth /\ less.todo \subseteq top.todo
      BY DEF Frame
    <3> QED
      BY <2>3, <2>4, <2>5, <3>1
  <2>7. CASE Enters(top, n)
    <3>1. n \in Functions /\ Deeper(top.depth) \in 0 .. Depth
      BY <2>7, TraversalAssumption DEF Enters, Frame, Deeper
    <3>2. Depth - Deeper(top.depth) \in 1 .. Depth
          /\ (Depth - Deeper(top.depth)) - 1 = Depth - top.depth
      BY TraversalAssumption DEF Frame, Deeper
    <3>3. n \in calls[top.fn] \cap Functions
      BY <2>3, <2>4, <3>1
    <3>4. n \in Level(W, Depth - Deeper(top.depth))'
      <4> DEFINE e == Depth - Deeper(top.depth)
      <4>1. top.fn \in Level(W, e - 1) /\ e \in 1 .. Depth
        BY <2>4, <3>2
      <4>2. calls[top.fn] \cap Functions \subseteq W[e]
        BY <2>2, <4>1 DEF Levels
      <4>3. Level(W, e)' = W[e]
        BY <4>1 DEF Level
      <4> QED
        BY <3>3, <4>2, <4>3
    <3>5. \A m \in DOMAIN seen : m \in Level(W, Depth - seen[m])
      BY <2>2 DEF Within
    <3>6. \A m \in DOMAIN seen : \A e : e = Depth - seen[m] => m \in Level(W, e)'
      BY <2>5, <3>5
    <3> QED
      BY <2>1, <2>3, <2>6, <2>7, <3>1, <3>4, <3>6, VisitWithin
  <2>8. CASE ~Enters(top, n)
    BY <2>1, <2>2, <2>3, <2>5, <2>6, <2>8 DEF Within
  <2> QED
    BY <2>7, <2>8
<1>3. CASE Return
  <2>1. /\ calls' = calls /\ start' = start /\ seen' = seen
        /\ On(frames') \subseteq On(frames)
    BY <1>3, Top DEF Types, Return
  <2>2. Within(W)
    BY <2>1 DEF Levels, Level, AllWithin
  <2> QED
    BY <2>1, <2>2 DEF Within, Level
<1>4. CASE Found \/ UNCHANGED traversalVars
  <2>1. calls' = calls /\ start' = start /\ seen' = seen /\ frames' = frames
    BY <1>4 DEF Found, traversalVars
  <2>2. Within(W)
    BY <2>1 DEF Levels, Level, AllWithin
  <2> QED
    BY <2>1, <2>2 DEF Within, Level
<1> QED
  BY <1>1, <1>2, <1>3, <1>4 DEF TraversalNext, TraversalStep

\* Nothing is found that is further away than the depth asked for.
THEOREM StaysWithinDepth == TraversalSpec => []FoundWithinDepth
<1>1. AllWithin => FoundWithinDepth
  BY DEF AllWithin, Within, FoundWithinDepth
<1>2. TraversalInit => Types /\ Idle /\ AllWithin
  BY InitTypes, InitWithin
<1>3. (Types /\ Idle /\ AllWithin) /\ [TraversalNext]_traversalVars
        => (Types /\ Idle /\ AllWithin)'
  BY NextTypes, NextWithin
<1> QED
  BY <1>1, <1>2, <1>3, PTL DEF TraversalSpec

-----------------------------------------------------------------------------
(* Callees.                                                                *)

LEMMA InitPending == TraversalInit => Pending
  BY DEF TraversalInit, Pending

LEMMA NextPending ==
    Types /\ Idle /\ Pending /\ [TraversalNext]_traversalVars => Pending'
<1> SUFFICES ASSUME Types, Idle, Pending, [TraversalNext]_traversalVars PROVE Pending'
  OBVIOUS
<1>1. ASSUME NEW fn \in Functions, Traverse(fn) PROVE Pending'
  <2>1. /\ Visit(fn, Depth, <<>>) /\ calls' = calls /\ start' = {fn}
        /\ DOMAIN seen = {} /\ traversal' = "searching"
    BY <1>1 DEF Traverse, Idle
  <2>2. <<>> \in Seq(Frame) /\ Depth \in 0 .. Depth
    BY TraversalAssumption
  <2>3. /\ DOMAIN seen' = {fn}
        /\ seen'[fn] = Depth
        /\ On(frames') = On(<<>>) \cup
              (IF Depth > 0 THEN {[fn |-> fn, depth |-> Depth, todo |-> calls[fn]]} ELSE {})
    BY <2>1, <2>2, Visited
  <2> DEFINE new == [fn |-> fn, depth |-> Depth, todo |-> calls[fn]]
  <2>4. Depth > 0 => new \in On(frames') /\ new.fn = fn /\ new.todo = calls[fn]
    BY <2>3
  <2>5. ASSUME NEW g \in DOMAIN seen', NEW m \in calls[g] \cap Functions, seen'[g] > 0
        PROVE  \E x \in On(frames') : x.fn = g /\ m \in x.todo
    <3>1. g = fn /\ Depth > 0
      BY <2>3, <2>5
    <3> HIDE DEF new
    <3> QED
      BY <2>4, <2>5, <3>1
  <2> QED
    BY <2>1, <2>3, <2>5 DEF Pending
<1>2. ASSUME NEW n \in Names, Callee(n) PROVE Pending'
  <2>1. calls' = calls /\ start' = start /\ traversal' = traversal /\ traversal = "searching"
    BY <1>2 DEF Callee
  <2>2. PICK top \in Frame, rest \in Seq(Frame), below \in Seq(Frame) :
          /\ On(frames) = {top} \cup On(rest)
          /\ On(below) = {[top EXCEPT !.todo = @ \ {n}]} \cup On(rest)
          /\ n \in top.todo
          /\ \/ Enters(top, n) /\ Visit(n, Deeper(top.depth), below)
             \/ ~Enters(top, n) /\ frames' = below /\ seen' = seen
    BY <1>2, CalleeStep
  <2>3. LET less == [top EXCEPT !.todo = @ \ {n}]
        IN  less.fn = top.fn /\ less.todo = top.todo \ {n}
    BY DEF Frame
  <2>4. \A x \in On(frames) : \A m \in x.todo \ {n} :
           \E y \in On(below) : y.fn = x.fn /\ m \in y.todo
    BY <2>2, <2>3
  <2>5. CASE Enters(top, n)
    <3>1. n \in Functions /\ Deeper(top.depth) \in 0 .. Depth
      BY <2>5, TraversalAssumption DEF Enters, Frame, Deeper
    <3> DEFINE d == Deeper(top.depth)
    <3>2. /\ DOMAIN seen' = DOMAIN seen \cup {n}
          /\ \A m \in DOMAIN seen' : seen'[m] = IF m = n THEN d ELSE seen[m]
          /\ On(frames') = On(below) \cup
                (IF d > 0 THEN {[fn |-> n, depth |-> d, todo |-> calls[n]]} ELSE {})
      BY <2>2, <2>5, <3>1, Visited
    <3>3. ASSUME NEW fn \in DOMAIN seen', NEW m \in calls[fn] \cap Functions, seen'[fn] > 0
          PROVE  m \in DOMAIN seen' \/ \E x \in On(frames') : x.fn = fn /\ m \in x.todo
      <4>1. CASE fn = n
        <5> DEFINE new == [fn |-> n, depth |-> d, todo |-> calls[n]]
        <5>1. d > 0
          BY <3>2, <3>3, <4>1
        <5>2. new \in On(frames') /\ new.fn = n /\ new.todo = calls[n]
          BY <3>2, <5>1
        <5> HIDE DEF new
        <5> QED
          BY <3>3, <4>1, <5>2
      <4>2. CASE fn # n
        <5>1. fn \in DOMAIN seen /\ seen[fn] > 0
          BY <3>2, <3>3, <4>2
        <5>2. m \in DOMAIN seen \/ \E x \in On(frames) : x.fn = fn /\ m \in x.todo
          BY <3>3, <5>1 DEF Pending
        <5> QED
          BY <2>4, <3>2, <5>2
      <4> QED
        BY <4>1, <4>2
    <3> QED
      BY <2>1, <3>2, <3>3 DEF Pending
  <2>6. CASE ~Enters(top, n)
    <3>1. n \in Functions => n \in DOMAIN seen
      BY <2>6 DEF Enters
    <3> QED
      BY <2>1, <2>2, <2>4, <2>6, <3>1 DEF Pending
  <2> QED
    BY <2>5, <2>6
<1>3. CASE Return
  <2>1. /\ calls' = calls /\ start' = start /\ seen' = seen /\ traversal' = traversal
        /\ traversal = "searching"
    BY <1>3 DEF Return
  <2>2. /\ Head(frames).todo = {} /\ On(frames) = {Head(frames)} \cup On(Tail(frames))
        /\ frames' = Tail(frames)
    BY <1>3, Top DEF Return, Types
  <2> QED
    BY <2>1, <2>2 DEF Pending
<1>4. CASE Found
  BY <1>4 DEF Found, Pending
<1>5. CASE UNCHANGED traversalVars
  BY <1>5 DEF traversalVars, Pending
<1> QED
  BY <1>1, <1>2, <1>3, <1>4, <1>5 DEF TraversalNext, TraversalStep

\* A callee is missed only behind a function that was first met at the bottom.
THEOREM FindsCallees == TraversalSpec => []CalleesFound
<1>1. Pending => CalleesFound
  BY Empty DEF Pending, CalleesFound
<1>2. TraversalInit => Types /\ Idle /\ Pending
  BY InitTypes, InitPending
<1>3. (Types /\ Idle /\ Pending) /\ [TraversalNext]_traversalVars
        => (Types /\ Idle /\ Pending)'
  BY NextTypes, NextPending
<1> QED
  BY <1>1, <1>2, <1>3, PTL DEF TraversalSpec

-----------------------------------------------------------------------------
(* The end of the search.  It may come to a function many times, whenever   *)
(* its frame has been overtaken; the depth bounds the steps all the same.   *)

\* The steps a visit with depth d may take: for each callee one to look at it and
\* those of a visit, and one to return.
Steps == Recursively(0, [x \in Nat \X Nat |-> Cardinality(Names) * (1 + x[2]) + 1])

\* The steps a frame still may take.
StepsOf(x) == Cardinality(x.todo) * (1 + Steps[x.depth - 1]) + 1

\* And those of all on a stack, outermost first.
Weights(s) == [i \in Nat |-> IF i \in 1 .. Len(s) THEN StepsOf(s[Len(s) + 1 - i]) ELSE 0]
Weight(s) == Totals(Weights(s))[Len(s)]

LEMMA StepsDef ==
    /\ Steps \in [Nat -> Nat]
    /\ Steps[0] = 0
    /\ \A d \in Nat : Steps[d + 1] = Cardinality(Names) * (1 + Steps[d]) + 1
<1> DEFINE V == Nat
           zero == 0
           step == [x \in Nat \X V |-> Cardinality(Names) * (1 + x[2]) + 1]
<1>1. \A n, v \in Nat : n * (1 + v) + 1 \in Nat
  OBVIOUS
<1>2. Cardinality(Names) \in Nat
  BY TraversalAssumption, FS_CardinalityType
<1>3. /\ zero \in V
      /\ step \in [Nat \X V -> V]
      /\ \A d, v \in Nat : step[<<d, v>>] = Cardinality(Names) * (1 + v) + 1
  BY <1>1, <1>2
<1>4. Steps = Recursively(zero, step)
  BY DEF Steps
<1> HIDE DEF V, zero, step
<1>5. Follows(Steps, V, zero, step)
  BY <1>3, <1>4, RecursionFollows
<1> QED
  <2>1. ASSUME NEW d \in Nat
        PROVE  Steps[d + 1] = Cardinality(Names) * (1 + Steps[d]) + 1
    <3>1. d + 1 \in Nat /\ Steps[d] \in Nat
      BY <1>5 DEF Follows, V
    <3> QED
      BY <1>3, <1>5, <3>1 DEF Follows
  <2> QED
    BY <1>5, <2>1 DEF Follows, V, zero

LEMMA StepsOfFrame == \A x \in Frame : StepsOf(x) \in Nat \ {0}
<1> SUFFICES ASSUME NEW x \in Frame PROVE StepsOf(x) \in Nat \ {0}
  OBVIOUS
<1>1. Cardinality(x.todo) \in Nat
  BY TraversalAssumption, FS_Subset, FS_CardinalityType DEF Frame
<1>2. Steps[x.depth - 1] \in Nat
  <2>1. x.depth - 1 \in Nat
    BY TraversalAssumption DEF Frame
  <2> QED
    BY <2>1, StepsDef
<1>3. \A m, n \in Nat : m * (1 + n) + 1 \in Nat \ {0}
  OBVIOUS
<1> QED
  BY <1>1, <1>2, <1>3 DEF StepsOf

\* The weight of a stack is that of its top and that of the rest.
LEMMA WeightOfStack ==
    /\ Weight(<<>>) = 0
    /\ \A s \in Seq(Frame) : Weight(s) \in Nat
    /\ \A s \in Seq(Frame) : s # <<>> => Weight(s) = StepsOf(Head(s)) + Weight(Tail(s))
<1>1. ASSUME NEW s \in Seq(Frame)
      PROVE  /\ Len(s) \in Nat
             /\ Weights(s) \in [Nat -> Nat]
             /\ \A i \in 1 .. Len(s) : Weights(s)[i] = StepsOf(s[Len(s) + 1 - i])
  <2>1. Len(s) \in Nat /\ \A i \in 1 .. Len(s) : s[Len(s) + 1 - i] \in Frame
    OBVIOUS
  <2>2. \A i \in 1 .. Len(s) : StepsOf(s[Len(s) + 1 - i]) \in Nat
    BY <2>1, StepsOfFrame
  <2> QED
    BY <2>1, <2>2 DEF Weights
<1>2. ASSUME NEW s \in Seq(Frame) PROVE Weight(s) \in Nat
  BY <1>1, TotalsDef DEF Weight
<1>3. Weight(<<>>) = 0
  <2>1. <<>> \in Seq(Frame) /\ Len(<<>>) = 0
    OBVIOUS
  <2> QED
    BY <1>1, <2>1, TotalsDef DEF Weight
<1>4. ASSUME NEW s \in Seq(Frame), s # <<>>
      PROVE  Weight(s) = StepsOf(Head(s)) + Weight(Tail(s))
  <2> DEFINE t == Tail(s)
             n == Len(t)
  <2>1. /\ t \in Seq(Frame) /\ n \in Nat /\ Len(s) = n + 1 /\ Head(s) = s[1]
        /\ \A i \in 1 .. n : t[i] = s[i + 1]
    <3>1. Head(s) = s[1] /\ Len(s) \in Nat \ {0}
      BY <1>4
    <3>2. /\ Tail(s) \in Seq(Frame) /\ Len(Tail(s)) = Len(s) - 1
          /\ \A i \in 1 .. Len(Tail(s)) : Tail(s)[i] = s[i + 1]
      BY <1>4, HeadTailProperties
    <3> QED
      BY <3>1, <3>2
  <2>2. \A i \in 1 .. n : Weights(s)[i] = Weights(t)[i]
    <3> SUFFICES ASSUME NEW i \in 1 .. n PROVE Weights(s)[i] = Weights(t)[i]
      OBVIOUS
    <3>1. Weights(s)[i] = StepsOf(s[Len(s) + 1 - i]) /\ Weights(t)[i] = StepsOf(t[n + 1 - i])
      <4>1. i \in 1 .. Len(s) /\ i \in 1 .. Len(t)
        BY <2>1
      <4> QED
        BY <1>1, <2>1, <4>1
    <3>2. t[n + 1 - i] = s[Len(s) + 1 - i]
      BY <2>1
    <3> QED
      BY <3>1, <3>2
  <2>3. Weights(s)[n + 1] = StepsOf(Head(s))
    <3>1. n + 1 \in 1 .. Len(s) /\ Len(s) + 1 - (n + 1) = 1
      BY <2>1
    <3> QED
      BY <1>1, <2>1, <3>1
  <2> HIDE DEF t, n
  <2>4. Weights(s) \in [Nat -> Nat] /\ Weights(t) \in [Nat -> Nat]
    BY <1>1, <2>1
  <2>5. Totals(Weights(s))[n] = Totals(Weights(t))[n]
    BY <2>1, <2>2, <2>4, TotalsAgree
  <2>6. Totals(Weights(s))[n + 1] = Totals(Weights(s))[n] + Weights(s)[n + 1]
    BY <2>1, <2>4, TotalsDef
  <2>7. Weight(s) = Totals(Weights(s))[n + 1] /\ Weight(t) = Totals(Weights(t))[n]
    BY <2>1 DEF Weight, n
  <2>8. Weight(s) = Weight(t) + StepsOf(Head(s)) /\ Weight(t) \in Nat /\ StepsOf(Head(s)) \in Nat
    BY <1>2, <1>4, <2>1, <2>3, <2>5, <2>6, <2>7, StepsOfFrame, Top
  <2> QED
    BY <2>8 DEF t
<1> QED
  BY <1>2, <1>3, <1>4

\* What the search has left: its frames, and to return what it found.
Left == Weight(frames) + (IF traversal = "searching" THEN 1 ELSE 0)

LEMMA LeftTyped ==
    ASSUME Types
    PROVE  Left \in Nat /\ Weight(frames) \in Nat
  BY WeightOfStack DEF Types, Left

\* Every step of a search takes something off what it has left, a natural number.
THEOREM TraversalCountsDown ==
    TraversalSpec => /\ [](Left \in Nat)
                     /\ [][TraversalStep => Left' < Left]_traversalVars
<1>1. ASSUME Types, Types', TraversalStep PROVE Left' < Left
  <2>1. ASSUME NEW n \in Names, Callee(n) PROVE Left' < Left
    <3> DEFINE top == Head(frames)
               rest == Tail(frames)
               less == [top EXCEPT !.todo = @ \ {n}]
               below == <<less>> \o rest
               d == top.depth
               new == [fn |-> n, depth |-> d - 1, todo |-> calls[n]]
    <3>1. /\ frames \in Seq(Frame) /\ frames # <<>> /\ n \in top.todo
          /\ top \in Frame /\ rest \in Seq(Frame)
      BY <1>1, <2>1, Top DEF Types, Callee
    <3>2. less \in Frame /\ less.depth = d /\ less.todo = top.todo \ {n} /\ d \in 1 .. Depth
      BY <3>1 DEF Frame
    <3>3. /\ below \in Seq(Frame) /\ below # <<>> /\ Head(below) = less /\ Tail(below) = rest
      BY <3>1, <3>2
    <3>4. Steps[d - 1] \in Nat /\ StepsOf(top) = StepsOf(less) + 1 + Steps[d - 1]
      <4>1. d - 1 \in Nat /\ Steps[d - 1] \in Nat
        BY <3>2, TraversalAssumption, StepsDef
      <4>2. IsFiniteSet(top.todo)
        BY <3>1, TraversalAssumption, FS_Subset DEF Frame
      <4>3. Cardinality(top.todo) \in Nat /\ Cardinality(less.todo) = Cardinality(top.todo) - 1
        BY <3>1, <3>2, <4>2, FS_CardinalityType, FS_RemoveElement
      <4>4. \A m, c \in Nat : m * (1 + c) + 1 = ((m - 1) * (1 + c) + 1) + 1 + c
        OBVIOUS
      <4> QED
        BY <3>2, <4>1, <4>3, <4>4 DEF StepsOf
    <3>5. /\ Weight(below) + 1 + Steps[d - 1] = Weight(frames)
          /\ Weight(below) \in Nat /\ Weight(frames) \in Nat
      <4>1. /\ Weight(frames) = StepsOf(top) + Weight(rest)
            /\ Weight(below) = StepsOf(less) + Weight(rest)
            /\ Weight(rest) \in Nat /\ Weight(below) \in Nat /\ Weight(frames) \in Nat
        BY <3>1, <3>3, WeightOfStack
      <4>2. StepsOf(less) \in Nat /\ StepsOf(top) \in Nat
        BY <3>1, <3>2, StepsOfFrame
      <4> QED
        BY <3>4, <4>1, <4>2
    <3>6. ASSUME Weight(frames') <= Weight(below) + Steps[d - 1], Weight(frames') \in Nat
          PROVE  Left' < Left
      <4>1. traversal' = traversal
        BY <2>1 DEF Callee
      <4> QED
        BY <3>4, <3>5, <3>6, <4>1 DEF Left
    <3>7. CASE frames' = below
      BY <3>4, <3>5, <3>6, <3>7
    <3>8. CASE Enters(top, n) /\ Visit(n, Deeper(d), below) /\ frames' # below
      <4>1. frames' = <<new>> \o below /\ d - 1 \in 1 .. Depth /\ n \in Functions
        BY <3>2, <3>8, TraversalAssumption DEF Visit, Deeper, AtBottom, Enters
      <4>2. new \in Frame
        BY <1>1, <4>1 DEF Types, Frame
      <4>3. StepsOf(new) <= Steps[d - 1] /\ StepsOf(new) \in Nat
        <5>1. /\ Cardinality(calls[n]) \in Nat /\ Cardinality(Names) \in Nat
              /\ Cardinality(calls[n]) <= Cardinality(Names)
          BY <4>2, TraversalAssumption, FS_Subset, FS_CardinalityType DEF Frame
        <5>2. d - 2 \in Nat /\ Steps[d - 2] \in Nat /\ (d - 2) + 1 = d - 1 /\ (d - 1) - 1 = d - 2
          <6>1. d \in Int /\ d - 2 \in Nat
            BY <3>2, <4>1, TraversalAssumption
          <6> QED
            BY <6>1, StepsDef
        <5>3. Steps[d - 1] = Cardinality(Names) * (1 + Steps[d - 2]) + 1
          <6>1. Steps[(d - 2) + 1] = Cardinality(Names) * (1 + Steps[d - 2]) + 1
            BY <5>2, StepsDef
          <6> QED
            BY <5>2, <6>1
        <5>4. StepsOf(new) = Cardinality(calls[n]) * (1 + Steps[d - 2]) + 1
          BY <5>2 DEF StepsOf
        <5>5. \A m, k, c \in Nat : m <= k => m * (1 + c) + 1 <= k * (1 + c) + 1
          OBVIOUS
        <5> QED
          BY <4>2, <5>1, <5>2, <5>3, <5>4, <5>5, StepsOfFrame
      <4>4. Weight(frames') = StepsOf(new) + Weight(below)
        <5>1. frames' \in Seq(Frame) /\ frames' # <<>> /\ Head(frames') = new /\ Tail(frames') = below
          BY <3>3, <4>1, <4>2
        <5> QED
          BY <5>1, WeightOfStack
      <4> QED
        BY <3>4, <3>5, <3>6, <4>3, <4>4
    <3> QED
      BY <2>1, <3>7, <3>8 DEF Callee
  <2>2. CASE Return
    <3>1. frames \in Seq(Frame) /\ frames # <<>> /\ frames' = Tail(frames) /\ traversal' = traversal
      BY <1>1, <2>2 DEF Types, Return
    <3>2. /\ Weight(frames) = StepsOf(Head(frames)) + Weight(frames') /\ Weight(frames') \in Nat
          /\ StepsOf(Head(frames)) \in Nat \ {0}
      BY <3>1, WeightOfStack, StepsOfFrame, Top
    <3> QED
      BY <3>1, <3>2 DEF Left
  <2>3. CASE Found
    BY <1>1, <2>3, LeftTyped DEF Found, Left
  <2> QED
    BY <1>1, <2>1, <2>2, <2>3 DEF TraversalStep
<1>2. Types => Left \in Nat
  BY LeftTyped
<1> QED
  BY <1>1, <1>2, InitTypes, NextTypes, PTL DEF TraversalSpec

-----------------------------------------------------------------------------
(* The agent.                                                              *)

\* The nodes of the agent do to the traversal what it does by itself.
THEOREM PreparationTraverses == Spec => TraversalSpec
<1>1. Init => TraversalInit
  BY DEF Init
<1>2. [Next]_vars => [TraversalNext]_traversalVars
  <2> SUFFICES ASSUME [Next]_vars PROVE [TraversalNext]_traversalVars
    OBVIOUS
  <2>1. CASE ScanFile
    BY <2>1 DEF ScanFile, TraversalNext
  <2>2. CASE TraverseFile
    BY <2>2 DEF TraverseFile, TraversalNext
  <2>3. CASE FatalError \/ ImpliedGraph \/ CallGraph \/ Code2flow \/ NotSupported
    BY <2>3 DEF FatalError, ImpliedGraph, CallGraph, Code2flow, NotSupported
  <2>4. CASE ExternInterface \/ ReadSource \/ NoSymbolic \/ NoParameters \/ Esbmc
    BY <2>4 DEF ExternInterface, ReadSource, NoSymbolic, NoParameters, Esbmc
  <2>5. CASE NoTestCases \/ SymbolicTest \/ Over \/ UNCHANGED vars
    BY <2>5 DEF NoTestCases, SymbolicTest, Over, vars
  <2> QED
    BY <2>1, <2>2, <2>3, <2>4, <2>5 DEF Next
<1> QED
  BY <1>1, <1>2, PTL DEF Spec, TraversalSpec

\* So what is proved of the traversal holds of what the agent is given.
THEOREM ImpliedWithinDepth == Spec => []FoundWithinDepth /\ []CalleesFound
  BY PreparationTraverses, StaysWithinDepth, FindsCallees, PTL

-----------------------------------------------------------------------------
(* The counterexamples.                                                    *)

CexOf(o) == {Cex(o.traces[k]) : k \in DOMAIN o.traces}

\* Lists of members of S, each at most once.
Distinct(S) == {l \in Seq(S) : \A i, j \in DOMAIN l : l[i] = l[j] => i = j}

LEMMA DistinctAppend ==
    ASSUME NEW S, NEW l \in Distinct(S), NEW x \in S, ~Contains(l, x)
    PROVE  Append(l, x) \in Distinct(S)
<1>1. l \in Seq(S) /\ Len(l) \in Nat /\ DOMAIN l = 1 .. Len(l)
  BY DEF Distinct
<1>2. /\ Append(l, x) \in Seq(S)
      /\ DOMAIN Append(l, x) = 1 .. Len(l) + 1
      /\ Append(l, x)[Len(l) + 1] = x
      /\ \A i \in 1 .. Len(l) : Append(l, x)[i] = l[i]
  BY <1>1
<1>3. \A i \in 1 .. Len(l) : l[i] # x
  BY DEF Contains
<1>4. ASSUME NEW i \in DOMAIN Append(l, x), NEW j \in DOMAIN Append(l, x),
             Append(l, x)[i] = Append(l, x)[j]
      PROVE  i = j
  BY <1>1, <1>2, <1>3, <1>4 DEF Distinct
<1> QED
  BY <1>2, <1>4 DEF Distinct

LEMMA WithTraceDistinct ==
    ASSUME NEW S, NEW l \in Distinct(S), NEW trace, Cex(trace) \in S
    PROVE  WithTrace(l, trace) \in Distinct(S)
  BY DistinctAppend DEF WithTrace

\* What parse_examples makes of a list without repetition has none either, and
\* holds nothing but what was in the list or is in the output.
LEMMA ParseDistinct ==
    ASSUME NEW S, NEW list \in Distinct(S), NEW o, o.traces \in Seq(ToSet(o.traces)),
           CexOf(o) \subseteq S
    PROVE  ParseExamples(o, list) \in Distinct(S)
<1> DEFINE n == Len(o.traces)
           V == Distinct(S)
           step == [x \in (1 .. n) \X V |-> WithTrace(x[2], o.traces[x[1]])]
           parsed == CHOOSE iter : iter =
             [T \in SUBSET DOMAIN o.traces |->
                IF T = {} THEN list ELSE WithTrace(iter[T \ {Max(T)}], o.traces[Max(T)])]
<1>1. ParseExamples(o, list) = parsed[DOMAIN o.traces]
  BY Zenon DEF ParseExamples, FoldLeft, MapThenFoldSet
<1>2. n \in Nat /\ DOMAIN o.traces = 1 .. n
  OBVIOUS
<1>3. ASSUME NEW i \in 1 .. n, NEW l \in V PROVE WithTrace(l, o.traces[i]) \in V
  <2>1. Cex(o.traces[i]) \in S
    BY <1>2 DEF CexOf
  <2> QED
    BY <2>1, WithTraceDistinct
<1>4. \A i \in 1 .. n, l \in V : step[i, l] = WithTrace(l, o.traces[i])
  OBVIOUS
<1>5. step \in [(1 .. n) \X V -> V]
  BY <1>3
<1> HIDE DEF n, V, step
<1>6. PICK f \in [SUBSET (1 .. n) -> V] : FoldRecursion(f, n, list, step)
  <2>1. list \in V
    BY DEF V
  <2> QED
    BY <1>2, <1>5, <2>1, FoldDefines
<1>7. f = [T \in SUBSET (1 .. n) |->
             IF T = {} THEN list ELSE WithTrace(f[T \ {Max(T)}], o.traces[Max(T)])]
  <2>1. ASSUME NEW T \in SUBSET (1 .. n), T # {}
        PROVE  f[T] = WithTrace(f[T \ {Max(T)}], o.traces[Max(T)])
    <3>1. Max(T) \in 1 .. n
      BY <1>2, <2>1, Largest
    <3>2. T \ {Max(T)} \in SUBSET (1 .. n) /\ f[T \ {Max(T)}] \in V
      OBVIOUS
    <3> QED
      BY <1>4, <1>6, <2>1, <3>1, <3>2 DEF FoldRecursion
  <2> QED
    BY <1>6, <2>1 DEF FoldRecursion
<1>8. parsed = [T \in SUBSET (1 .. n) |->
                  IF T = {} THEN list ELSE WithTrace(parsed[T \ {Max(T)}], o.traces[Max(T)])]
  BY <1>2, <1>7, Zenon
<1> HIDE DEF parsed
<1>9. parsed[{}] \in V
  BY <1>8 DEF V
<1>10. ASSUME NEW T \in (SUBSET (1 .. n)) \ {{}}, parsed[T \ {Max(T)}] \in V
       PROVE  parsed[T] \in V
  <2>1. Max(T) \in 1 .. n
    BY <1>2, Largest
  <2>2. parsed[T] = WithTrace(parsed[T \ {Max(T)}], o.traces[Max(T)])
    BY <1>8
  <2> QED
    BY <1>3, <1>10, <2>1, <2>2
<1>11. FoldInductive(parsed, n, V)
  BY <1>9, <1>10 DEF FoldInductive
<1>12. parsed[1 .. n] \in V
  BY <1>2, <1>11, FoldTyped
<1> QED
  BY <1>1, <1>2, <1>12 DEF V

\* The counterexamples in the outputs so far.
Reported(outs) == UNION {CexOf(outs[r]) : r \in DOMAIN outs}

\* No line with ERROR: that counts.
Untroubled(outs) ==
    /\ ~Contains(outs[1].errors, "other")
    /\ \A k \in DOMAIN outs[2].errors :
          outs[2].errors[k] = "other" => outs[2].cut /\ k = Len(outs[2].errors)

\* has_symbolic_failed passes nothing else: a line of either log is one of both,
\* but for the last of a log that is cut off.
LEMMA NotFailed ==
    ASSUME NEW outs \in Seq(Outputs), Len(outs) = 2, ~HasSymbolicFailed(outs[1], outs[2])
    PROVE  Untroubled(outs)
<1> DEFINE first == outs[1].errors
           all == outs[2].errors
           Lines == {"timeout", "other"}
           second == IF outs[2].cut THEN Front(all) ELSE all
<1>1. first \in Seq(Lines) /\ all \in Seq(Lines) /\ (outs[2].cut => all # <<>>)
  <2>1. outs[1] \in Outputs /\ outs[2] \in Outputs
    OBVIOUS
  <2> QED
    BY <2>1, PreparationAssumption
<1>2. /\ second \in Seq(Lines)
      /\ Len(second) = IF outs[2].cut THEN Len(all) - 1 ELSE Len(all)
      /\ \A k \in 1 .. Len(second) : second[k] = all[k]
  BY <1>1 DEF Front
<1>3. ~Contains(first \o second, "other")
  BY Zenon DEF HasSymbolicFailed
<1> HIDE DEF first, all, second
<1>4. /\ Len(first \o second) = Len(first) + Len(second)
      /\ \A k \in 1 .. Len(first) : (first \o second)[k] = first[k]
      /\ \A k \in 1 .. Len(second) : (first \o second)[Len(first) + k] = second[k]
  <2> HIDE DEF Lines
  <2>1. first \in Seq(Lines) /\ second \in Seq(Lines)
    BY <1>1, <1>2
  <2>2. Len(first) \in Nat /\ Len(second) \in Nat
    BY <2>1
  <2>3. Len(first \o second) = Len(first) + Len(second)
    BY <2>1, ConcatProperties, Zenon
  <2>4. \A k \in 1 .. Len(first) + Len(second) :
           (first \o second)[k] =
              IF k <= Len(first) THEN first[k] ELSE second[k - Len(first)]
    BY <2>1, ConcatProperties, Zenon
  <2>5. \A k \in 1 .. Len(first) : (first \o second)[k] = first[k]
    BY <2>2, <2>4
  <2>6. ASSUME NEW k \in 1 .. Len(second)
        PROVE  (first \o second)[Len(first) + k] = second[k]
    <3>1. /\ Len(first) + k \in 1 .. Len(first) + Len(second)
          /\ ~(Len(first) + k <= Len(first))
          /\ (Len(first) + k) - Len(first) = k
      BY <2>2
    <3> QED
      BY <2>4, <3>1
  <2> QED
    BY <2>3, <2>5, <2>6
<1>5. \A k \in 1 .. Len(first) + Len(second) : (first \o second)[k] # "other"
  BY <1>1, <1>2, <1>3, <1>4 DEF Contains
<1>6. \A k \in 1 .. Len(first) : first[k] # "other"
  BY <1>1, <1>2, <1>4, <1>5
<1>7. \A k \in 1 .. Len(second) : second[k] # "other"
  <2> SUFFICES ASSUME NEW k \in 1 .. Len(second) PROVE second[k] # "other"
    OBVIOUS
  <2>1. Len(first) + k \in 1 .. Len(first) + Len(second)
    BY <1>1, <1>2
  <2> QED
    BY <1>4, <1>5, <2>1
<1>8. \A k \in 1 .. Len(all) : all[k] = "other" => outs[2].cut /\ k = Len(all)
  BY <1>1, <1>2, <1>7
<1> QED
  BY <1>1, <1>6, <1>8 DEF Untroubled, Contains, first, all

PrepTypes ==
    /\ name \in Targets
    /\ language \in Languages
    /\ node \in {"implied_functions", "traverse", "extern_interface", "read_source",
                 "symbolic", "unit_test", "coverage"} \cup Stopped
    /\ implied \subseteq Functions
    /\ interface \in {"none", "code", "model"}
    /\ toInclude \in BOOLEAN
    /\ outputs \in Seq(Outputs) /\ Len(outputs) <= 2

\* Until the agent goes on with the test cases there are none, and then the
\* outputs they come from stay as they are.
PrepCases ==
    /\ cexList \in Distinct(Reported(outputs))
    /\ DOMAIN cases \subseteq DOMAIN cexList
    /\ node \in {"implied_functions", "traverse", "extern_interface", "read_source",
                 "symbolic"} => cases = <<>>
    /\ cases # <<>> \/ node = "coverage" => Untroubled(outputs)

LEMMA InitPrep == Init => PrepTypes /\ PrepCases
<1> SUFFICES ASSUME Init PROVE PrepTypes /\ PrepCases
  OBVIOUS
<1>1. PrepTypes
  <2>1. <<>> \in Seq(Outputs) /\ Len(<<>>) <= 2
    OBVIOUS
  <2> QED
    BY <2>1 DEF Init, PrepTypes
<1>2. PrepCases
  <2>1. <<>> \in Distinct(Reported(outputs))
    BY DEF Distinct
  <2> QED
    BY <2>1 DEF Init, PrepCases
<1> QED
  BY <1>1, <1>2

LEMMA NextPrepTypes ==
    TraversalTypeOK /\ PrepTypes /\ [Next]_vars => PrepTypes'
<1> SUFFICES ASSUME TraversalTypeOK, PrepTypes, [Next]_vars PROVE PrepTypes'
  OBVIOUS
<1> USE DEF PrepTypes, request, nodeVars, Stopped
<1>1. CASE ScanFile \/ FatalError \/ TraverseFile \/ CallGraph \/ NotSupported
  BY <1>1 DEF ScanFile, FatalError, TraverseFile, CallGraph, NotSupported
<1>2. CASE ImpliedGraph
  <2>1. DOMAIN seen \subseteq Functions
    BY DEF TraversalTypeOK
  <2> QED
    BY <1>2, <2>1 DEF ImpliedGraph
<1>3. CASE Code2flow
  BY <1>3 DEF Code2flow
<1>4. CASE ExternInterface \/ ReadSource
  BY <1>4 DEF ExternInterface, ReadSource
<1>5. CASE NoSymbolic \/ NoParameters \/ NoTestCases
  BY <1>5 DEF NoSymbolic, NoParameters, NoTestCases
<1>6. CASE Esbmc
  BY <1>6 DEF Esbmc
<1>7. CASE SymbolicTest
  BY <1>7 DEF SymbolicTest
<1>8. CASE Over \/ UNCHANGED vars
  BY <1>8 DEF Over, vars
<1> QED
  BY <1>1, <1>2, <1>3, <1>4, <1>5, <1>6, <1>7, <1>8 DEF Next

LEMMA NextPrepCases == PrepTypes /\ PrepCases /\ [Next]_vars => PrepCases'
<1> SUFFICES ASSUME PrepTypes, PrepCases, [Next]_vars PROVE PrepCases'
  OBVIOUS
<1> USE DEF PrepCases, nodeVars
<1>1. CASE ScanFile \/ FatalError \/ TraverseFile \/ ImpliedGraph \/ CallGraph
  BY <1>1 DEF ScanFile, FatalError, TraverseFile, ImpliedGraph, CallGraph
<1>2. CASE Code2flow \/ NotSupported
  BY <1>2 DEF Code2flow, NotSupported
<1>3. CASE ExternInterface \/ ReadSource
  BY <1>3 DEF ExternInterface, ReadSource
<1>4. CASE NoSymbolic \/ NoParameters \/ NoTestCases
  BY <1>4 DEF NoSymbolic, NoParameters, NoTestCases
<1>5. CASE Esbmc
  <2>1. PICK o \in Outputs :
          /\ outputs' = Append(outputs, o)
          /\ cexList' = ParseExamples(o, cexList)
    BY <1>5 DEF Esbmc
  <2>2. /\ node = "symbolic" /\ node' = node /\ cases' = cases
    BY <1>5 DEF Esbmc
  <2>3. /\ outputs \in Seq(Outputs)
        /\ DOMAIN outputs' = (DOMAIN outputs) \cup {Len(outputs) + 1}
        /\ \A r \in DOMAIN outputs : outputs'[r] = outputs[r]
        /\ outputs'[Len(outputs) + 1] = o
    BY <2>1 DEF PrepTypes
  <2>4. Reported(outputs) \subseteq Reported(outputs') /\ CexOf(o) \subseteq Reported(outputs')
    BY <2>3 DEF Reported
  <2>5. cexList \in Distinct(Reported(outputs'))
    BY <2>4 DEF Distinct
  <2>6. o.traces \in Seq(ToSet(o.traces))
    BY PreparationAssumption
  <2>7. cexList' \in Distinct(Reported(outputs'))
    BY <2>1, <2>4, <2>5, <2>6, ParseDistinct
  <2>8. cases' = <<>> /\ DOMAIN cases' = {}
    BY <2>2
  <2> QED
    BY <2>2, <2>7, <2>8
<1>6. CASE SymbolicTest
  <2>1. /\ node = "symbolic" /\ Len(outputs) = 2 /\ outputs' = outputs /\ cexList' = cexList
        /\ ~HasSymbolicFailed(outputs[1], outputs[2])
    BY <1>6 DEF SymbolicTest
  <2>2. Untroubled(outputs')
    BY <2>1, NotFailed DEF PrepTypes
  <2>3. \/ cases' = TestCases(cexList) /\ node' \in {"coverage", "unit_test"}
        \/ node' \in {"fatal", "raised"} /\ cases' = cases
    BY <1>6 DEF SymbolicTest
  <2>4. DOMAIN TestCases(cexList) \subseteq DOMAIN cexList
    BY DEF TestCases
  <2> QED
    BY <2>1, <2>2, <2>3, <2>4
<1>7. CASE Over \/ UNCHANGED vars
  BY <1>7 DEF Over, vars
<1> QED
  BY <1>1, <1>2, <1>3, <1>4, <1>5, <1>6, <1>7 DEF Next

\* All the invariants of the two nodes.
LEMMA Prepared == Spec => []TraversalTypeOK /\ []PrepTypes /\ []PrepCases
<1>1. Spec => []TraversalTypeOK
  BY PreparationTraverses, TraversalTyped, PTL
<1>2. Init => PrepTypes /\ PrepCases
  BY InitPrep
<1>3. TraversalTypeOK /\ PrepTypes /\ PrepCases /\ [Next]_vars => (PrepTypes /\ PrepCases)'
  BY NextPrepTypes, NextPrepCases
<1> QED
  BY <1>1, <1>2, <1>3, PTL DEF Spec

\* An element of a list without repetition is in one of the outputs.
LEMMA IsReported ==
    ASSUME PrepCases, NEW i \in DOMAIN cexList
    PROVE  \E r \in DOMAIN outputs : cexList[i] \in CexOf(outputs[r])
<1>1. cexList[i] \in Reported(outputs)
  BY DEF PrepCases, Distinct
<1> QED
  BY <1>1 DEF Reported

\* Type correctness of what implied_functions and symbolic prepare.
THEOREM PreparationTyped == Spec => []TypeOK
<1>1. TraversalTypeOK /\ PrepTypes /\ PrepCases => TypeOK
  <2> SUFFICES ASSUME TraversalTypeOK, PrepTypes, PrepCases PROVE TypeOK
    OBVIOUS
  <2>1. ASSUME NEW i \in DOMAIN cexList
        PROVE  DOMAIN cexList[i] = {"params", "locals", "inputs"}
    <3>1. PICK trace : cexList[i] = Cex(trace)
      BY IsReported DEF CexOf
    <3> QED
      BY <3>1 DEF Cex
  <2> QED
    BY <2>1 DEF TypeOK, PrepTypes, PrepCases
<1> QED
  BY <1>1, Prepared, PTL

\* Test cases are counterexamples that ESBMC reported in a run without trouble,
\* each once, whatever the runs print.
THEOREM TestCasesTrusted == Spec => []CasesTrusted
<1>1. PrepCases => CasesTrusted
  <2> SUFFICES ASSUME PrepCases PROVE CasesTrusted
    OBVIOUS
  <2>1. \A i, j \in DOMAIN cexList : cexList[i] = cexList[j] => i = j
    BY DEF PrepCases, Distinct
  <2>2. cases # <<>> \/ node = "coverage" => Untroubled(outputs)
    BY DEF PrepCases
  <2> QED
    BY <2>1, <2>2, IsReported DEF CasesTrusted, CexOf, Untroubled
<1> QED
  BY <1>1, Prepared, PTL
=============================================================================
