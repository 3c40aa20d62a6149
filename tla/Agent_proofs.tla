---------------------------- MODULE Agent_proofs ----------------------------
(***************************************************************************)
(* What holds of the workflow of Agent for every budget, every recursion   *)
(* limit and every choice of languages.                                    *)
(***************************************************************************)
EXTENDS Agent, FiniteSetTheorems, SequenceTheorems, TLAPS

USE MaxIterationsAssumption, RecursionLimitAssumption, LanguagesAssumption

-----------------------------------------------------------------------------
(* Lemmas about the operators of the model.                                *)

\* Every log a coverage handler returns is a log of the test it was given.
LEMMA CoverageLogsType ==
    ASSUME NEW t \in Nat, NEW log \in CoverageLogs(t)
    PROVE  log \in LogSet /\ log.of = t
BY DEF CoverageLogs, LogSet

\* A call of the model adds two messages.
LEMMA ExchangeType ==
    ASSUME NEW n \in Nodes
    PROVE  Exchange(n) \in Seq(MessageSet)
BY DEF Exchange, MessageSet

\* The files written under logs/ are taken from the messages.
LEMMA PromptsType ==
    ASSUME NEW m \in Seq(MessageSet)
    PROVE  Prompts(m) \in Seq(MessageSet)
<1>. DEFINE k == (Len(m) + 1) \div 2
<1>1. k \in Nat /\ 2 * k <= Len(m) + 1
  OBVIOUS
<1>2. \A i \in 1 .. k : 2 * i - 1 \in 1 .. Len(m)
  <2>1. SUFFICES ASSUME NEW i \in 1 .. k PROVE 2 * i - 1 \in 1 .. Len(m)
    OBVIOUS
  <2>2. 2 * i <= 2 * k
    BY <1>1
  <2>. QED  BY <1>1, <2>2
<1>3. [i \in 1 .. k |-> m[2 * i - 1]] \in [1 .. k -> MessageSet]
  BY <1>2
<1>4. [i \in 1 .. k |-> m[2 * i - 1]] \in Seq(MessageSet)
  BY <1>1, <1>3
<1>. QED  BY <1>4 DEF Prompts

\* One more review counts if and only if its log need not be fixed.
LEMMA CountedAppend ==
    ASSUME NEW r \in Seq(ReviewSet), NEW x \in ReviewSet
    PROVE  /\ IsFiniteSet(Counted(r))
           /\ Cardinality(Counted(r)) \in Nat
           /\ Cardinality(Counted(Append(r, x)))
                = Cardinality(Counted(r)) + (IF x.log.fix THEN 0 ELSE 1)
<1>1. IsFiniteSet(Counted(r))
  <2>1. IsFiniteSet(1 .. Len(r))
    BY FS_Interval
  <2>2. Counted(r) \subseteq 1 .. Len(r)
    BY DEF Counted
  <2>. QED  BY <2>1, <2>2, FS_Subset
<1>2. Cardinality(Counted(r)) \in Nat
  BY <1>1, FS_CardinalityType
<1>3. CASE x.log.fix
  <2>1. Counted(Append(r, x)) = Counted(r)
    BY <1>3 DEF Counted
  <2>. QED  BY <1>1, <1>2, <1>3, <2>1
<1>4. CASE ~x.log.fix
  <2>1. Counted(Append(r, x)) = Counted(r) \cup {Len(r) + 1}
    BY <1>4 DEF Counted
  <2>2. Len(r) + 1 \notin Counted(r)
    BY DEF Counted
  <2>. QED  BY <1>1, <1>2, <1>4, <2>1, <2>2, FS_AddElement
<1>. QED  BY <1>1, <1>2, <1>3, <1>4

-----------------------------------------------------------------------------
(* Type correctness.                                                       *)

\* No step of the workflow breaks the types.
LEMMA TypeStep == TypeOK /\ [Next]_vars => TypeOK'
<1>. SUFFICES ASSUME TypeOK, [Next]_vars PROVE TypeOK'
  OBVIOUS
<1>. USE DEF TypeOK
<1>1. CASE ImpliedFunctions
  BY <1>1 DEF ImpliedFunctions, Enter, config, Nodes
<1>2. CASE Symbolic
  <2>1. messages' \in Seq(MessageSet)
    <3>1. Exchange("symbolic") \in Seq(MessageSet)
      BY ExchangeType DEF Nodes
    <3>2. CASE UNCHANGED messages
      BY <3>2
    <3>3. CASE messages' = messages \o Exchange("symbolic")
      BY <3>1, <3>3
    <3>. QED  BY <1>2, <3>2, <3>3 DEF Symbolic
  <2>. QED  BY <1>2, <2>1 DEF Symbolic, Enter, config, Nodes
<1>3. CASE UnitTest
  <2>1. messages' \in Seq(MessageSet)
    <3>1. Exchange("unit_test") \in Seq(MessageSet)
      BY ExchangeType DEF Nodes
    <3>. QED  BY <1>3, <3>1 DEF UnitTest
  <2>. QED  BY <1>3, <2>1 DEF UnitTest, Enter, config, Nodes
<1>4. CASE Coverage
  <2>1. coverage_output' \in LogSet
    BY <1>4, CoverageLogsType DEF Coverage
  <2>. QED  BY <1>4, <2>1 DEF Coverage, Enter, NewMaximum, Nodes
<1>5. CASE Reflection
  <2>1. messages' \in Seq(MessageSet)
    <3>1. Exchange("reflection") \in Seq(MessageSet)
      BY ExchangeType DEF Nodes
    <3>. QED  BY <1>5, <3>1 DEF Reflection
  <2>2. review' \in Seq(ReviewSet)
    BY <1>5 DEF Reflection, Reflect, ReviewSet
  <2>. QED  BY <1>5, <2>1, <2>2 DEF Reflection, Enter, Nodes
<1>6. CASE Finish
  BY <1>6 DEF Finish, config
<1>7. CASE GraphRecursion
  BY <1>7 DEF GraphRecursion, config
<1>8. CASE Abort
  BY <1>8 DEF Abort, config
<1>9. CASE WriteLogs
  <2>1. FinalState \in [review : Seq(ReviewSet), messages : Seq(MessageSet)]
    BY DEF FinalState
  <2>2. logs' \in [written : BOOLEAN, review : Seq(ReviewSet), prompts : Seq(MessageSet)]
    BY <1>9, <2>1, PromptsType DEF WriteLogs
  <2>. QED  BY <1>9, <2>2 DEF WriteLogs, config
<1>10. CASE UNCHANGED vars
  BY <1>10 DEF vars, config, graph
<1>. QED
  BY <1>1, <1>2, <1>3, <1>4, <1>5, <1>6, <1>7, <1>8, <1>9, <1>10 DEF Next

\* AgentState and the graph's bookkeeping always have their types, and no
\* more nodes run than the recursion limit allows.
THEOREM TypeCorrect == Spec => []TypeOK
<1>1. Init => TypeOK
  BY DEF Init, TypeOK, Nodes, NoLog, Log, LogSet
<1>. QED  BY <1>1, TypeStep, PTL DEF Spec

-----------------------------------------------------------------------------
(* The budget of iterations.                                               *)

\* Why BudgetKept holds.  It is not inductive: it speaks of the end only.
\* BudgetInv accounts, at every step, for the iterations paid from the budget:
\* those reviewed (number_of_iterations - 1), less those the maximum was
\* raised for, the one still under way excepted.  At END the loop's test has
\* just been made.
LastReviewGood ==
    /\ review # <<>>
    /\ ~review[Len(review)].log.fix
    /\ ~review[Len(review)].log.core

Paid == number_of_iterations - 1 - (max_number_of_iterations - UnderWay - MaxIterations)

BudgetInv ==
    /\ Cardinality(Counted(review)) = Paid
    /\ pc = "END" => LastReviewGood /\ number_of_iterations > max_number_of_iterations
    /\ status = "finished" => pc = "END"

\* Nothing BudgetInv speaks of changes, or only the node to run does.
LEMMA BudgetUnchanged ==
    ASSUME BudgetInv,
           UNCHANGED <<review, number_of_iterations, max_number_of_iterations,
                       coverage_output>>,
           status' \in {status, "recursion", "aborted"}
             \/ (status' = "finished" /\ pc = "END"),
           \/ pc' = pc
           \/ {pc, pc'} \cap {"reflection", "END"} = {} /\ status = "running"
    PROVE  BudgetInv'
<1>1. UnderWay' = UnderWay
  BY DEF UnderWay
<1>2. Counted(review)' = Counted(review)
  BY DEF Counted
<1>3. Paid' = Paid
  BY <1>1 DEF Paid
<1>. QED  BY <1>2, <1>3 DEF BudgetInv, LastReviewGood

LEMMA BudgetStep == TypeOK /\ BudgetInv /\ [Next]_vars => BudgetInv'
<1>. SUFFICES ASSUME TypeOK, BudgetInv, [Next]_vars PROVE BudgetInv'
  OBVIOUS
<1>1. CASE ImpliedFunctions
  BY <1>1, BudgetUnchanged DEF ImpliedFunctions, Enter, config
<1>2. CASE Symbolic
  BY <1>2, BudgetUnchanged DEF Symbolic, Enter, config
<1>3. CASE UnitTest
  BY <1>3, BudgetUnchanged DEF UnitTest, Enter, config
<1>4. CASE Coverage
  <2>1. pc' = "reflection" /\ pc = "coverage" /\ review' = review /\ status' = "running"
    BY <1>4 DEF Coverage, Enter
  <2>2. coverage_output' \in LogSet
    BY <1>4, CoverageLogsType DEF Coverage, TypeOK
  <2>3. Paid' = Paid
    <3>1. UnderWay = 0
      BY <2>1 DEF UnderWay
    <3>2. max_number_of_iterations' - UnderWay' = max_number_of_iterations
      BY <1>4, <2>1, <2>2 DEF Coverage, NewMaximum, UnderWay, LogSet, TypeOK
    <3>3. number_of_iterations' = number_of_iterations
      BY <1>4 DEF Coverage
    <3>. QED  BY <3>1, <3>2, <3>3 DEF Paid, TypeOK
  <2>. QED  BY <2>1, <2>3 DEF BudgetInv
<1>5. CASE Reflection
  <2>. DEFINE r == [test |-> test, log |-> coverage_output]
  <2>1. r \in ReviewSet /\ r.log = coverage_output
    BY DEF TypeOK, ReviewSet
  <2>2. review' = Append(review, r) /\ review \in Seq(ReviewSet)
    BY <1>5 DEF Reflection, Reflect, TypeOK
  <2>3. review'[Len(review')] = r /\ review' # <<>>
    BY <2>1, <2>2
  <2>4. /\ pc = "reflection" /\ status' = "running"
        /\ number_of_iterations' = number_of_iterations + 1
        /\ max_number_of_iterations' = max_number_of_iterations
        /\ coverage_output' = coverage_output
        /\ pc' \in {"END", "unit_test"}
    BY <1>5 DEF Reflection, Enter
  <2>5. Cardinality(Counted(review')) = Paid'
    <3>1. Cardinality(Counted(review'))
            = Cardinality(Counted(review)) + (IF coverage_output.fix THEN 0 ELSE 1)
      BY <2>1, <2>2, CountedAppend
    <3>2. Paid' = Paid + 1 - (IF coverage_output.fix THEN 1 ELSE 0)
      BY <2>4 DEF Paid, UnderWay, TypeOK
    <3>3. Paid \in Int
      BY DEF Paid, UnderWay, TypeOK
    <3>. QED  BY <3>1, <3>2, <3>3 DEF BudgetInv
  <2>6. ASSUME pc' = "END"
        PROVE  LastReviewGood' /\ number_of_iterations' > max_number_of_iterations'
    <3>1. MayEnd(number_of_iterations', max_number_of_iterations, coverage_output)
      BY <1>5, <2>6 DEF Reflection
    <3>. QED  BY <2>1, <2>3, <2>4, <3>1 DEF MayEnd, LastReviewGood
  <2>. QED  BY <2>4, <2>5, <2>6 DEF BudgetInv
<1>6. CASE Finish
  BY <1>6, BudgetUnchanged DEF Finish, config
<1>7. CASE GraphRecursion
  BY <1>7, BudgetUnchanged DEF GraphRecursion, config
<1>8. CASE Abort
  BY <1>8, BudgetUnchanged DEF Abort, config
<1>9. CASE WriteLogs
  BY <1>9, BudgetUnchanged DEF WriteLogs, config
<1>10. CASE UNCHANGED vars
  BY <1>10, BudgetUnchanged DEF vars, config, graph
<1>. QED
  BY <1>1, <1>2, <1>3, <1>4, <1>5, <1>6, <1>7, <1>8, <1>9, <1>10 DEF Next

-----------------------------------------------------------------------------
(* The order of tests, logs and reviews.                                   *)

\* Where the number of the current test stands at each node.
OrderInv ==
    /\ \A i \in DOMAIN review : review[i].test = i /\ review[i].log.of = i
    /\ pc \in {"implied_functions", "symbolic"} => review = <<>>
    /\ pc \in {"implied_functions", "unit_test"} => test = Len(review)
    /\ pc \in {"coverage", "reflection"} => test = Len(review) + 1
    /\ pc = "reflection" => coverage_output.of = test

LEMMA OrderStep == TypeOK /\ OrderInv /\ [Next]_vars => OrderInv'
<1>. SUFFICES ASSUME TypeOK, OrderInv, [Next]_vars PROVE OrderInv'
  OBVIOUS
<1>1. CASE ImpliedFunctions
  BY <1>1 DEF ImpliedFunctions, Enter, OrderInv
<1>2. CASE Symbolic
  BY <1>2 DEF Symbolic, Enter, OrderInv
<1>3. CASE UnitTest
  BY <1>3 DEF UnitTest, Enter, OrderInv
<1>4. CASE Coverage
  <2>1. coverage_output'.of = test
    BY <1>4, CoverageLogsType DEF Coverage, TypeOK
  <2>. QED  BY <1>4, <2>1 DEF Coverage, Enter, OrderInv
<1>5. CASE Reflection
  <2>. DEFINE r == [test |-> test, log |-> coverage_output]
  <2>1. /\ review' = Append(review, r) /\ review \in Seq(ReviewSet)
        /\ test' = test /\ pc' \in {"END", "unit_test"}
        /\ r.test = Len(review) + 1 /\ r.log.of = Len(review) + 1
    BY <1>5 DEF Reflection, Reflect, Enter, OrderInv, TypeOK
  <2>2. Len(review') = Len(review) + 1
    BY <2>1
  <2>3. ASSUME NEW i \in DOMAIN review'
        PROVE  review'[i].test = i /\ review'[i].log.of = i
    <3>1. CASE i = Len(review) + 1
      BY <2>1, <3>1
    <3>2. CASE i # Len(review) + 1
      <4>1. i \in DOMAIN review /\ review'[i] = review[i]
        BY <2>1, <3>2
      <4>. QED  BY <4>1 DEF OrderInv
    <3>. QED  BY <3>1, <3>2
  <2>4. test' = Len(review')
    BY <1>5, <2>1, <2>2 DEF Reflection, Enter, OrderInv
  <2>. QED  BY <2>1, <2>3, <2>4 DEF OrderInv
<1>6. CASE Finish
  BY <1>6 DEF Finish, OrderInv
<1>7. CASE GraphRecursion
  BY <1>7 DEF GraphRecursion, OrderInv
<1>8. CASE Abort
  BY <1>8 DEF Abort, OrderInv
<1>9. CASE WriteLogs
  BY <1>9 DEF WriteLogs, OrderInv
<1>10. CASE UNCHANGED vars
  BY <1>10 DEF vars, graph, OrderInv
<1>. QED
  BY <1>1, <1>2, <1>3, <1>4, <1>5, <1>6, <1>7, <1>8, <1>9, <1>10 DEF Next

\* The initial state satisfies the invariants the theorems rest on.
LEMMA InitInv == Init => TypeOK /\ BudgetInv /\ OrderInv
<1>1. Init => TypeOK
  BY DEF Init, TypeOK, Nodes, NoLog, Log, LogSet
<1>2. Init => OrderInv
  BY DEF Init, OrderInv
<1>3. ASSUME Init PROVE BudgetInv
  <2>1. Counted(<<>>) = {}
    BY DEF Counted
  <2>2. Cardinality(Counted(review)) = 0
    BY <1>3, <2>1, FS_EmptySet DEF Init
  <2>3. Paid = 0
    BY <1>3 DEF Init, Paid, UnderWay
  <2>. QED  BY <1>3, <2>2, <2>3 DEF Init, BudgetInv
<1>. QED  BY <1>1, <1>2, <1>3

\* For every budget: a run that ends by itself has made all the iterations it
\* was asked for beside the disregarded ones, and its last test is good.
THEOREM BudgetIsKept == Spec => []BudgetKept
<1>1. TypeOK /\ BudgetInv => BudgetKept
  <2>. SUFFICES ASSUME TypeOK, BudgetInv, status = "finished"
                PROVE  /\ Cardinality(Counted(review)) >= MaxIterations
                       /\ LastReviewGood
    BY DEF BudgetKept, LastReviewGood
  <2>1. UnderWay = 0
    BY DEF BudgetInv, UnderWay
  <2>. QED  BY <2>1 DEF BudgetInv, Paid, TypeOK
<1>. QED  BY <1>1, InitInv, TypeStep, BudgetStep, PTL DEF Spec

\* Every generated test is run and reviewed, once, with its own log, before
\* the next one is generated.
THEOREM ReviewsInOrder == Spec => []ReviewedInOrder
<1>1. OrderInv => ReviewedInOrder
  BY DEF OrderInv, ReviewedInOrder
<1>. QED  BY <1>1, InitInv, TypeStep, OrderStep, PTL DEF Spec

-----------------------------------------------------------------------------
(* The files under logs/.                                                  *)

Reflections(p) == {i \in DOMAIN p : p[i].node = "reflection"}

\* The messages m hold prompts and responses in turn, and one prompt of
\* reflection for each review in r.
Paired(m, r) ==
    /\ m \in Seq(MessageSet)
    /\ \E k \in Nat : Len(m) = 2 * k
    /\ \A i \in DOMAIN Prompts(m) : Prompts(m)[i].role = "user"
    /\ Cardinality(Reflections(Prompts(m))) = Len(r)

\* What may be written, and what has been: the reviews no longer change then.
LogsInv ==
    /\ Paired(messages, review)
    /\ Paired(oldest.messages, oldest.review) /\ oldest.review = <<>>
    /\ logs.written => status \in {"finished", "recursion"}
    /\ LogsTogether

\* A sequence of two after another one.
LEMMA ConcatPair ==
    ASSUME NEW S, NEW s \in Seq(S), NEW t \in Seq(S), Len(t) = 2
    PROVE  /\ s \o t \in Seq(S) /\ Len(s \o t) = Len(s) + 2
           /\ \A i \in 1 .. Len(s) : (s \o t)[i] = s[i]
           /\ (s \o t)[Len(s) + 1] = t[1]
<1>1. s \o t \in Seq(S) /\ Len(s \o t) = Len(s) + 2
  <2>1. s \o t \in Seq(S) /\ Len(s \o t) = Len(s) + Len(t)
    BY ConcatProperties, Zenon
  <2>. QED  BY <2>1
<1>2. \A i \in 1 .. Len(s) + Len(t) :
        (s \o t)[i] = IF i <= Len(s) THEN s[i] ELSE t[i - Len(s)]
  BY ConcatProperties, Zenon
<1>3. Len(s) \in Nat
  OBVIOUS
<1>4. \A i \in 1 .. Len(s) : (s \o t)[i] = s[i]
  BY <1>2, <1>3
<1>5. (s \o t)[Len(s) + 1] = t[1]
  <2>. DEFINE j == Len(s) + 1
  <2>1. j \in 1 .. Len(s) + 2 /\ ~(j <= Len(s)) /\ j - Len(s) = 1
    BY <1>3
  <2>. HIDE DEF j
  <2>2. (s \o t)[j] = t[j - Len(s)]
    BY <1>2, <2>1
  <2>. QED  BY <2>1, <2>2 DEF j
<1>. QED  BY <1>1, <1>4, <1>5

\* A call of the model adds one prompt to those there are.
LEMMA PromptsExchange ==
    ASSUME NEW m \in Seq(MessageSet), NEW k \in Nat, Len(m) = 2 * k, NEW n \in Nodes
    PROVE  LET e == m \o Exchange(n)
               p == [role |-> "user", node |-> n]
           IN  /\ e \in Seq(MessageSet) /\ Len(e) = 2 * (k + 1)
               /\ Prompts(e) = Append(Prompts(m), p)
<1>. DEFINE e == m \o Exchange(n)
            p == [role |-> "user", node |-> n]
<1>1. Exchange(n) \in Seq(MessageSet) /\ Len(Exchange(n)) = 2 /\ Exchange(n)[1] = p
  BY ExchangeType DEF Exchange
<1>2. e \in Seq(MessageSet) /\ Len(e) = 2 * k + 2
  BY <1>1, ConcatPair
<1>3. \A i \in 1 .. 2 * k : e[i] = m[i]
  BY <1>1, ConcatPair
<1>4. e[2 * k + 1] = p
  BY <1>1, ConcatPair
<1>5. (Len(m) + 1) \div 2 = k /\ (Len(e) + 1) \div 2 = k + 1
  BY <1>2
<1>6. Prompts(m) = [i \in 1 .. k |-> m[2 * i - 1]]
  BY <1>5 DEF Prompts
<1>7. Prompts(e) = [i \in 1 .. k + 1 |-> e[2 * i - 1]]
  BY <1>5 DEF Prompts
<1>8. Prompts(m) \in Seq(MessageSet) /\ Len(Prompts(m)) = k
  BY <1>6, PromptsType
<1>9. p \in MessageSet
  BY DEF MessageSet
<1>10. \A i \in 1 .. k + 1 : Prompts(e)[i] = Append(Prompts(m), p)[i]
  <2>1. SUFFICES ASSUME NEW i \in 1 .. k + 1
                 PROVE  Prompts(e)[i] = Append(Prompts(m), p)[i]
    OBVIOUS
  <2>2. CASE i = k + 1
    <3>1. 2 * i - 1 = 2 * k + 1
      BY <2>2
    <3>2. Prompts(e)[i] = e[2 * i - 1]
      BY <1>7
    <3>3. Append(Prompts(m), p)[k + 1] = p
      BY <1>8
    <3>. QED  BY <1>4, <2>2, <3>1, <3>2, <3>3
  <2>3. CASE i # k + 1
    <3>1. i \in 1 .. k /\ 2 * i - 1 \in 1 .. 2 * k
      BY <2>3
    <3>2. Prompts(e)[i] = m[2 * i - 1]
      BY <1>3, <1>7, <3>1
    <3>. QED  BY <1>6, <1>8, <3>1, <3>2
  <2>. QED  BY <2>2, <2>3
<1>11. Prompts(e) \in Seq(MessageSet) /\ Len(Prompts(e)) = k + 1
  BY <1>2, <1>7, PromptsType
<1>12. Append(Prompts(m), p) \in Seq(MessageSet) /\ Len(Append(Prompts(m), p)) = k + 1
  BY <1>8, <1>9
<1>13. Prompts(e) = Append(Prompts(m), p)
  BY <1>10, <1>11, <1>12
<1>. QED  BY <1>2, <1>13

\* One more prompt is one of reflection if and only if that node sent it.
LEMMA ReflectionsAppend ==
    ASSUME NEW q \in Seq(MessageSet), NEW p \in MessageSet
    PROVE  Cardinality(Reflections(Append(q, p)))
             = Cardinality(Reflections(q)) + (IF p.node = "reflection" THEN 1 ELSE 0)
<1>1. Reflections(q) \subseteq 1 .. Len(q)
  BY DEF Reflections
<1>2. IsFiniteSet(Reflections(q)) /\ Cardinality(Reflections(q)) \in Nat
  <2>1. IsFiniteSet(1 .. Len(q))
    BY FS_Interval
  <2>. QED  BY <1>1, <2>1, FS_Subset, FS_CardinalityType
<1>3. CASE p.node = "reflection"
  <2>1. Reflections(Append(q, p)) = Reflections(q) \cup {Len(q) + 1}
    BY <1>3 DEF Reflections
  <2>2. Len(q) + 1 \notin Reflections(q)
    BY <1>1
  <2>. QED  BY <1>2, <1>3, <2>1, <2>2, FS_AddElement
<1>4. CASE p.node # "reflection"
  <2>1. Reflections(Append(q, p)) = Reflections(q)
    BY <1>4 DEF Reflections
  <2>. QED  BY <1>2, <1>4, <2>1
<1>. QED  BY <1>3, <1>4

\* A call of the model keeps messages and reviews paired, if a review comes with
\* each call of reflection.
LEMMA PairedExchange ==
    ASSUME NEW m, NEW r \in Seq(ReviewSet), Paired(m, r), NEW n \in Nodes,
           NEW s \in Seq(ReviewSet),
           Len(s) = Len(r) + (IF n = "reflection" THEN 1 ELSE 0)
    PROVE  Paired(m \o Exchange(n), s)
<1>. DEFINE e == m \o Exchange(n)
            p == [role |-> "user", node |-> n]
<1>1. PICK k \in Nat : Len(m) = 2 * k
  BY DEF Paired
<1>2. m \in Seq(MessageSet) /\ p \in MessageSet /\ p.role = "user" /\ p.node = n
  BY DEF Paired, MessageSet
<1>3. e \in Seq(MessageSet) /\ Len(e) = 2 * (k + 1) /\ Prompts(e) = Append(Prompts(m), p)
  BY <1>1, <1>2, PromptsExchange
<1>4. Prompts(m) \in Seq(MessageSet)
  BY <1>2, PromptsType
<1>5. \A i \in DOMAIN Prompts(e) : Prompts(e)[i].role = "user"
  <2>1. SUFFICES ASSUME NEW i \in DOMAIN Append(Prompts(m), p)
                 PROVE  Append(Prompts(m), p)[i].role = "user"
    BY <1>3
  <2>2. CASE i = Len(Prompts(m)) + 1
    BY <1>2, <1>4, <2>2
  <2>3. CASE i # Len(Prompts(m)) + 1
    <3>1. i \in DOMAIN Prompts(m) /\ Append(Prompts(m), p)[i] = Prompts(m)[i]
      BY <1>2, <1>4, <2>3
    <3>. QED  BY <3>1 DEF Paired
  <2>. QED  BY <2>2, <2>3
<1>6. Cardinality(Reflections(Prompts(e))) = Len(s)
  BY <1>2, <1>3, <1>4, ReflectionsAppend DEF Paired
<1>7. k + 1 \in Nat
  OBVIOUS
<1>. QED  BY <1>3, <1>5, <1>6, <1>7 DEF Paired

LEMMA LogsInit == Init => LogsInv
<1>. SUFFICES ASSUME Init PROVE LogsInv
  OBVIOUS
<1>1. Paired(<<>>, <<>>)
  <2>1. Len(<<>>) = 2 * 0 /\ <<>> \in Seq(MessageSet)
    OBVIOUS
  <2>2. DOMAIN Prompts(<<>>) = {}
    BY DEF Prompts
  <2>3. Reflections(Prompts(<<>>)) = {}
    BY <2>2 DEF Reflections
  <2>. QED  BY <2>1, <2>2, <2>3, FS_EmptySet DEF Paired
<1>. QED  BY <1>1 DEF Init, LogsInv, LogsTogether

\* Nothing LogsInv speaks of changes but the status, which ends.
LEMMA LogsUnchanged ==
    ASSUME LogsInv, UNCHANGED <<messages, review, oldest, logs>>,
           \/ status' = status
           \/ status = "running"
    PROVE  LogsInv'
BY DEF LogsInv, LogsTogether

LEMMA LogsStep == TypeOK /\ TypeOK' /\ LogsInv /\ [Next]_vars => LogsInv'
<1>. SUFFICES ASSUME TypeOK, TypeOK', LogsInv, [Next]_vars PROVE LogsInv'
  OBVIOUS
<1>0. review \in Seq(ReviewSet) /\ review' \in Seq(ReviewSet)
  BY DEF TypeOK
\* A node that calls the model.
<1>1. ASSUME NEW n \in Nodes, status = "running", status' = "running",
             UNCHANGED <<logs, oldest>>, messages' = messages \o Exchange(n),
             Len(review') = Len(review) + (IF n = "reflection" THEN 1 ELSE 0)
      PROVE  LogsInv'
  <2>1. Paired(messages, review)
    BY DEF LogsInv
  <2>2. Paired(messages', review')
    BY <1>0, <1>1, <2>1, PairedExchange
  <2>3. ~logs'.written
    BY <1>1 DEF LogsInv
  <2>. QED  BY <1>1, <2>2, <2>3 DEF LogsInv, LogsTogether
<1>2. CASE ImpliedFunctions
  BY <1>2, LogsUnchanged DEF ImpliedFunctions, Enter
<1>3. CASE Symbolic
  <2>1. CASE UNCHANGED messages
    BY <1>3, <2>1, LogsUnchanged DEF Symbolic, Enter
  <2>2. CASE messages' = messages \o Exchange("symbolic")
    BY <1>0, <1>1, <1>3, <2>2 DEF Symbolic, Enter, Nodes
  <2>. QED  BY <1>3, <2>1, <2>2 DEF Symbolic
<1>4. CASE UnitTest
  BY <1>0, <1>1, <1>4 DEF UnitTest, Enter, Nodes
<1>5. CASE Coverage
  <2>1. /\ status' = "running" /\ status = "running"
        /\ UNCHANGED <<logs, messages, review>>
        /\ oldest' = IF review = <<>> THEN [review |-> review, messages |-> messages]
                     ELSE oldest
    BY <1>5 DEF Coverage, Enter
  <2>2. Paired(oldest'.messages, oldest'.review) /\ oldest'.review = <<>>
    BY <2>1 DEF LogsInv
  <2>3. ~logs'.written
    BY <2>1 DEF LogsInv
  <2>. QED  BY <2>1, <2>2, <2>3 DEF LogsInv, LogsTogether
<1>6. CASE Reflection
  <2>1. Len(review') = Len(review) + 1
    BY <1>0, <1>6 DEF Reflection, Reflect
  <2>. QED  BY <1>1, <1>6, <2>1 DEF Reflection, Enter, Nodes
<1>7. CASE Finish \/ GraphRecursion \/ Abort
  BY <1>7, LogsUnchanged DEF Finish, GraphRecursion, Abort
<1>8. CASE WriteLogs
  <2>1. /\ status' = status /\ status \in {"finished", "recursion"}
        /\ UNCHANGED <<messages, review, oldest>>
        /\ logs' = [written |-> TRUE, review |-> FinalState.review,
                    prompts |-> Prompts(FinalState.messages)]
    BY <1>8 DEF WriteLogs, HasFinalState
  <2>2. Paired(FinalState.messages, FinalState.review)
    BY DEF LogsInv, FinalState
  <2>3. \A i \in DOMAIN FinalState.review : FinalState.review[i] = review[i]
    BY DEF LogsInv, FinalState
  <2>4. LogsTogether'
    BY <2>1, <2>2, <2>3 DEF LogsTogether, Paired, Reflections
  <2>. QED  BY <2>1, <2>4 DEF LogsInv
<1>9. CASE UNCHANGED vars
  BY <1>9, LogsUnchanged DEF vars, graph
<1>. QED
  BY <1>2, <1>3, <1>4, <1>5, <1>6, <1>7, <1>8, <1>9 DEF Next

\* Prompts and reviews written under logs/ belong to one state of the run, also
\* when it is recovered from GraphRecursionError: a prompt of reflection for each
\* review, and no review that the run did not come to.
THEOREM LogsAreTogether == Spec => []LogsTogether
<1>1. LogsInv => LogsTogether
  BY DEF LogsInv
<1>. QED  BY <1>1, InitInv, TypeStep, LogsInit, LogsStep, PTL DEF Spec

-----------------------------------------------------------------------------
(* Refinement of IterationBudget.                                          *)

\* While a node is still to run there is a reason for another iteration.
WantedInv == pc # "END" => Promise!Wanted

LEMMA WantedStep == TypeOK /\ WantedInv /\ [Next]_vars => WantedInv'
<1>. SUFFICES ASSUME TypeOK, WantedInv, [Next]_vars PROVE WantedInv'
  OBVIOUS
<1>. USE DEF WantedInv, Promise!Wanted, UnderWay
<1>1. CASE ImpliedFunctions
  BY <1>1 DEF ImpliedFunctions, Enter, config
<1>2. CASE Symbolic
  BY <1>2 DEF Symbolic, Enter, config
<1>3. CASE UnitTest
  BY <1>3 DEF UnitTest, Enter, config
<1>4. CASE Coverage
  <2>1. coverage_output' \in LogSet
    BY <1>4, CoverageLogsType DEF Coverage, TypeOK
  <2>. QED  BY <1>4, <2>1 DEF Coverage, NewMaximum, Enter, TypeOK, LogSet
<1>5. CASE Reflection
  <2>. DEFINE r == [test |-> test, log |-> coverage_output]
  <2>1. review' = Append(review, r) /\ review'[Len(review')] = r
    BY <1>5 DEF Reflection, Reflect, TypeOK
  <2>2. ASSUME pc' # "END"
        PROVE  ~MayEnd(number_of_iterations', max_number_of_iterations, coverage_output)
    BY <1>5, <2>2 DEF Reflection
  <2>. QED  BY <1>5, <2>1, <2>2 DEF Reflection, Enter, MayEnd, TypeOK
<1>6. CASE Finish
  BY <1>6 DEF Finish, config
<1>7. CASE GraphRecursion
  BY <1>7 DEF GraphRecursion, config
<1>8. CASE Abort
  BY <1>8 DEF Abort, config
<1>9. CASE WriteLogs
  BY <1>9 DEF WriteLogs, config
<1>10. CASE UNCHANGED vars
  BY <1>10 DEF vars, config, graph
<1>. QED
  BY <1>1, <1>2, <1>3, <1>4, <1>5, <1>6, <1>7, <1>8, <1>9, <1>10 DEF Next

\* Only Reflection pays or disregards an iteration; Finish closes the loop.
LEMMA PromiseStep ==
    TypeOK /\ BudgetInv /\ WantedInv /\ [Next]_vars => [Promise!Next]_(Promise!vars)
<1>. SUFFICES ASSUME TypeOK, BudgetInv, WantedInv, [Next]_vars
              PROVE  [Promise!Next]_(Promise!vars)
  OBVIOUS
<1>. USE DEF Promise!vars, UnderWay
<1>1. CASE ImpliedFunctions
  BY <1>1 DEF ImpliedFunctions, Enter, config
<1>2. CASE Symbolic
  BY <1>2 DEF Symbolic, Enter, config
<1>3. CASE UnitTest
  BY <1>3 DEF UnitTest, Enter, config
<1>4. CASE Coverage
  <2>1. coverage_output' \in LogSet
    BY <1>4, CoverageLogsType DEF Coverage, TypeOK
  <2>2. max_number_of_iterations' - UnderWay' = max_number_of_iterations - UnderWay
    BY <1>4, <2>1 DEF Coverage, NewMaximum, Enter, TypeOK, LogSet
  <2>. QED  BY <1>4, <2>2 DEF Coverage, Enter
<1>5. CASE Reflection
  <2>. DEFINE r == [test |-> test, log |-> coverage_output]
  <2>1. review' # <<>> /\ review'[Len(review')].log = coverage_output
    <3>1. review' = Append(review, r) /\ review \in Seq(ReviewSet)
      BY <1>5 DEF Reflection, Reflect, TypeOK
    <3>2. review' # <<>> /\ review'[Len(review')] = r
      BY <3>1
    <3>. QED  BY <3>2
  <2>2. /\ status = "running" /\ status' = "running"
        /\ pc = "reflection" /\ pc' # "reflection"
        /\ number_of_iterations' = number_of_iterations + 1
        /\ max_number_of_iterations' = max_number_of_iterations
    BY <1>5 DEF Reflection, Enter
  <2>3. Promise!Wanted
    BY <2>2 DEF WantedInv
  <2>4. CASE coverage_output.fix
    <3>1. (review # <<>> /\ ~review[Len(review)].log.fix
                         /\ ~review[Len(review)].log.core)' = FALSE
      BY <2>1, <2>4
    <3>2. (max_number_of_iterations - UnderWay - (number_of_iterations - 1))'
            = max_number_of_iterations - UnderWay - (number_of_iterations - 1)
      BY <2>2, <2>4 DEF TypeOK
    <3>3. Promise!Disregard
      BY <2>2, <2>3, <3>1, <3>2 DEF Promise!Disregard
    <3>. QED  BY <3>3 DEF Promise!Next
  <2>5. CASE ~coverage_output.fix
    <3>1. Promise!Count
      BY <2>1, <2>2, <2>3, <2>5 DEF Promise!Count, TypeOK
    <3>. QED  BY <3>1 DEF Promise!Next
  <2>. QED  BY <2>4, <2>5
<1>6. CASE Finish
  <2>1. Promise!Close
    BY <1>6 DEF Finish, config, Promise!Close, Promise!Wanted, BudgetInv,
                LastReviewGood, TypeOK
  <2>. QED  BY <2>1 DEF Promise!Next
<1>7. CASE GraphRecursion
  <2>1. Promise!Abort
    BY <1>7 DEF GraphRecursion, config, Promise!Abort
  <2>. QED  BY <2>1 DEF Promise!Next
<1>8. CASE Abort
  <2>1. Promise!Abort
    BY <1>8 DEF Abort, config, Promise!Abort
  <2>. QED  BY <2>1 DEF Promise!Next
<1>9. CASE WriteLogs
  BY <1>9 DEF WriteLogs, config
<1>10. CASE UNCHANGED vars
  BY <1>10 DEF vars, config, graph
<1>. QED
  BY <1>1, <1>2, <1>3, <1>4, <1>5, <1>6, <1>7, <1>8, <1>9, <1>10 DEF Next

\* The workflow implements IterationBudget: it closes only when the budget is
\* paid and the last test is good, and never iterates without need.
THEOREM ImplementsPromise == Spec => KeepsPromise
<1>1. Init => Promise!Init
  BY DEF Init, Promise!Init, UnderWay
<1>2. Init => WantedInv
  BY DEF Init, WantedInv, Promise!Wanted
<1>. QED
  BY <1>1, <1>2, InitInv, TypeStep, BudgetStep, WantedStep, PromiseStep, PTL
  DEF Spec, KeepsPromise, Promise!Spec

-----------------------------------------------------------------------------
(* Termination rests on fairness, and TLC checks it.  That the loop cannot   *)
(* go on for ever, whatever is disregarded, is a matter of its steps alone.  *)

\* The nodes that may still run, the end of the graph, and the logs.
Left ==
    (RecursionLimit - nodes) + (IF status = "running" THEN 1 ELSE 0)
        + (IF logs.written THEN 0 ELSE 1)

\* Every step takes something off what is left, a natural number: raising the
\* maximum for a test that did not build never makes the run any longer than
\* LangGraph's limit.
THEOREM AgentCountsDown ==
    Spec => /\ [](Left \in Nat)
            /\ [][Left' < Left]_vars
<1>1. TypeOK => Left \in Nat
  BY DEF TypeOK, Left
<1>2. ASSUME TypeOK, Next PROVE Left' < Left
  <2>1. /\ nodes \in 0 .. RecursionLimit
        /\ logs.written \in BOOLEAN
    BY <1>2 DEF TypeOK
  <2>2. ASSUME NEW n, Enter(n) PROVE Left' < Left
    BY <2>1, <2>2 DEF Enter, Left
  <2>3. CASE ImpliedFunctions \/ Symbolic \/ UnitTest \/ Coverage \/ Reflection
    BY <2>2, <2>3 DEF ImpliedFunctions, Symbolic, UnitTest, Coverage, Reflection
  <2>4. CASE Finish \/ GraphRecursion \/ Abort
    BY <2>1, <2>4 DEF Finish, GraphRecursion, Abort, Left
  <2>5. CASE WriteLogs
    <3>1. logs'.written = TRUE /\ logs.written = FALSE /\ UNCHANGED <<nodes, status>>
      BY <2>1, <2>5 DEF WriteLogs
    <3>. QED  BY <2>1, <3>1 DEF Left
  <2>. QED  BY <1>2, <2>3, <2>4, <2>5 DEF Next
<1>3. Init => TypeOK
  BY InitInv
<1>. QED  BY <1>1, <1>2, <1>3, TypeStep, PTL DEF Spec
=============================================================================
