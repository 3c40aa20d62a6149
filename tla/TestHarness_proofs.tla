------------------------- MODULE TestHarness_proofs -------------------------
(***************************************************************************)
(* What holds of every test, whatever the number of its cases and the way  *)
(* their threads interleave.                                               *)
(***************************************************************************)
EXTENDS TestHarness, FiniteSetTheorems, TLAPS

\* The types, but for the bound on what is counted; main waits for a case, and
\* has caught something of one that came before the one it is at.
TypeInv ==
    /\ main \in {"next", "wait", "catch", "count", "exiting"} \cup Over
    /\ cur \in 1 .. NumCases + 1
    /\ case \in [Cases -> {"none", "running", "failing", "returned", "threw", "failed"}]
    /\ late \subseteq Cases
    /\ failures \in Nat
    /\ read \in [Cases \cup {MainThread} -> Nat]
    /\ printed \in Nat \cup {None}
    /\ said \in Cases \cup {None, Garbled}
    /\ crashed \in Cases \cup {None}
    /\ blamed \in Cases \cup {None}
    /\ masked \subseteq Cases
    /\ runs \in Nat /\ dumps \in Nat
    /\ slow \in BOOLEAN
    /\ main = "wait" => cur \in Cases
    /\ main \in {"catch", "count"} => cur - 1 \in Cases

\* A case that runs is the one main waits for, or one that is late; and the
\* last line of the log is that of the last case main has started.
OrderInv ==
    /\ \A c \in Cases :
         case[c] \in {"running", "failing"} /\ main \notin Over =>
            (main = "wait" /\ c = cur) \/ (c \in late /\ c < cur)
    /\ main = "wait" => said \in {cur, Garbled}
    /\ main \in {"next", "catch", "count", "exiting"} => said \in {cur - 1, None, Garbled}
    /\ main \in {"dumped", "blamed"} /\ said \in Cases /\ said # crashed =>
            crashed \in late /\ crashed < said
    /\ main = "blamed" => blamed = said /\ said \in Cases

LEMMA TypeInit == Init => TypeInv
<1>. SUFFICES ASSUME Init PROVE TypeInv
  OBVIOUS
<1>1. case \in [Cases -> {"none", "running", "failing", "returned", "threw", "failed"}]
  BY DEF Init
<1>2. cur \in 1 .. NumCases + 1 /\ failures \in Nat
  BY HarnessAssumption DEF Init
<1>3. read \in [Cases \cup {MainThread} -> Nat]
  BY DEF Init
<1>4. printed = None /\ said = None /\ crashed = None /\ blamed = None
  BY DEF Init
<1>5. main = "next" /\ late = {} /\ masked = {} /\ runs = 1 /\ dumps = 0 /\ slow = FALSE
  BY DEF Init
<1>. QED
  BY <1>1, <1>2, <1>3, <1>4, <1>5 DEF TypeInv

LEMMA TypeStep == TypeInv /\ [Next]_vars => TypeInv'
<1>. SUFFICES ASSUME TypeInv, [Next]_vars PROVE TypeInv'
  OBVIOUS
<1>. USE HarnessAssumption DEF TypeInv, Cases, None, Garbled,
         Over, MainThread, process, counter, verdict, ghosts, Running, Failing
<1>1. CASE Start
  <2>1. said' \in Cases \cup {None, Garbled}
    BY <1>1 DEF Start, Said
  <2>2. CASE IsRun(cur)
    BY <1>1, <2>1, <2>2 DEF Start
  <2>3. CASE ~IsRun(cur)
    BY <1>1, <2>1, <2>3 DEF Start, Leave
  <2>. QED  BY <2>2, <2>3
<1>2. CASE Join
  BY <1>2 DEF Join, Leave
<1>3. CASE TimeOut
  BY <1>3 DEF TimeOut, MayTimeOut, AfterTimeOut, Leave
<1>4. CASE Count
  BY <1>4 DEF Count
<1>5. CASE Exit
  BY <1>5 DEF Exit
<1>6. ASSUME NEW c \in Cases, Complete(c) PROVE TypeInv'
  BY <1>6 DEF Complete
<1>12. CASE CatchReads
  BY <1>12 DEF CatchReads, ReadCounter
<1>13. CASE CatchWrites
  BY <1>13 DEF CatchWrites, WriteCounter, Increment
<1>14. ASSUME NEW c \in Cases, CheckReads(c) PROVE TypeInv'
  BY <1>14 DEF CheckReads, ReadCounter
<1>15. ASSUME NEW c \in Cases, CheckWrites(c) PROVE TypeInv'
  BY <1>15 DEF CheckWrites, WriteCounter, Increment
<1>7. ASSUME NEW c \in Cases, Quit(c) PROVE TypeInv'
  BY <1>7 DEF Quit
<1>8. ASSUME NEW c \in Cases, Crash(c) PROVE TypeInv'
  BY <1>8 DEF Crash
<1>9. CASE Blame
  BY <1>9 DEF Blame, Found, NotFound
<1>10. CASE RunAgain
  BY <1>10 DEF RunAgain
<1>11. CASE UNCHANGED vars
  BY <1>11 DEF vars
<1>. QED
  BY <1>1, <1>2, <1>3, <1>4, <1>5, <1>6, <1>7, <1>8, <1>9, <1>10, <1>11,
     <1>12, <1>13, <1>14, <1>15
  DEF Next, Main, Thread

LEMMA OrderInit == Init => OrderInv
BY DEF Init, OrderInv, Over, Cases

LEMMA OrderStep == TypeInv /\ OrderInv /\ [Next]_vars => OrderInv'
<1>. SUFFICES ASSUME TypeInv, OrderInv, [Next]_vars PROVE OrderInv'
  OBVIOUS
<1>. USE HarnessAssumption DEF TypeInv, OrderInv, Cases, None, Garbled,
         Over, MainThread, process, counter, verdict, ghosts, Running, Failing
<1>1. CASE Start
  BY <1>1 DEF Start, Said, Leave
<1>2. CASE Join
  BY <1>2 DEF Join, Leave
<1>3. CASE TimeOut
  BY <1>3 DEF TimeOut, AfterTimeOut, Leave
<1>4. CASE Count
  BY <1>4 DEF Count
<1>5. CASE Exit
  BY <1>5 DEF Exit
<1>6. ASSUME NEW c \in Cases, Complete(c) PROVE OrderInv'
  BY <1>6 DEF Complete
<1>12. CASE CatchReads
  BY <1>12 DEF CatchReads, ReadCounter
<1>13. CASE CatchWrites
  BY <1>13 DEF CatchWrites, WriteCounter, Increment
<1>14. ASSUME NEW c \in Cases, CheckReads(c) PROVE OrderInv'
  BY <1>14 DEF CheckReads, ReadCounter
<1>15. ASSUME NEW c \in Cases, CheckWrites(c) PROVE OrderInv'
  BY <1>15 DEF CheckWrites, WriteCounter, Increment
<1>7. ASSUME NEW c \in Cases, Quit(c) PROVE OrderInv'
  BY <1>7 DEF Quit
<1>8. ASSUME NEW c \in Cases, Crash(c) PROVE OrderInv'
  BY <1>8 DEF Crash
<1>9. CASE Blame
  BY <1>9 DEF Blame, Found, NotFound
<1>10. CASE RunAgain
  BY <1>10 DEF RunAgain
<1>11. CASE UNCHANGED vars
  BY <1>11 DEF vars
<1>. QED
  BY <1>1, <1>2, <1>3, <1>4, <1>5, <1>6, <1>7, <1>8, <1>9, <1>10, <1>11,
     <1>12, <1>13, <1>14, <1>15
  DEF Next, Main, Thread

\* While no case is late, none runs beside main: the last line is that of the
\* case that crashes, which was not tagged, and Blame tags it.
DumpInv ==
    /\ ~slow => late = {}
    /\ \A c \in Cases : case[c] = "running" => c \notin masked \/ main \in Over
    /\ ~slow /\ main # "dumped" => dumps = Cardinality(masked)
    /\ ~slow /\ main \in {"wait", "dumped"} => said \in Cases \ masked
    /\ ~slow /\ main = "dumped" => dumps = Cardinality(masked) + 1

LEMMA MaskedFinite ==
    ASSUME TypeInv
    PROVE  IsFiniteSet(masked) /\ Cardinality(masked) \in Nat
<1>1. IsFiniteSet(Cases)
  BY HarnessAssumption, FS_Interval DEF Cases
<1>2. masked \subseteq Cases
  BY DEF TypeInv
<1>. QED
  BY <1>1, <1>2, FS_Subset, FS_CardinalityType

LEMMA DumpInit == Init => DumpInv
BY FS_EmptySet DEF Init, DumpInv, Over, Cases

LEMMA DumpStep == TypeInv /\ OrderInv /\ DumpInv /\ [Next]_vars => DumpInv'
<1>. SUFFICES ASSUME TypeInv, OrderInv, DumpInv, [Next]_vars PROVE DumpInv'
  OBVIOUS
<1>. USE HarnessAssumption DEF TypeInv, DumpInv, Cases, None, Garbled,
         Over, MainThread, process, counter, verdict, ghosts, Running, Failing
<1>1. CASE Start
  <2>1. ~slow => Running = {}
    BY <1>1 DEF Start, OrderInv, Running
  <2>. QED  BY <1>1, <2>1 DEF Start, Said, IsRun, Leave
<1>2. CASE Join
  BY <1>2 DEF Join, Leave
<1>3. CASE TimeOut
  BY <1>3 DEF TimeOut, AfterTimeOut, Leave
<1>4. CASE Count
  BY <1>4 DEF Count
<1>5. CASE Exit
  BY <1>5 DEF Exit
<1>6. ASSUME NEW c \in Cases, Complete(c) PROVE DumpInv'
  BY <1>6 DEF Complete
<1>12. CASE CatchReads
  BY <1>12 DEF CatchReads, ReadCounter
<1>13. CASE CatchWrites
  BY <1>13 DEF CatchWrites, WriteCounter, Increment
<1>14. ASSUME NEW c \in Cases, CheckReads(c) PROVE DumpInv'
  BY <1>14 DEF CheckReads, ReadCounter
<1>15. ASSUME NEW c \in Cases, CheckWrites(c) PROVE DumpInv'
  BY <1>15 DEF CheckWrites, WriteCounter, Increment
<1>7. ASSUME NEW c \in Cases, Quit(c) PROVE DumpInv'
  BY <1>7 DEF Quit
<1>8. ASSUME NEW c \in Cases, Crash(c) PROVE DumpInv'
  <2>1. ~slow => main = "wait"
    BY <1>8 DEF Crash, OrderInv
  <2>. QED  BY <1>8, <2>1 DEF Crash
<1>9. CASE Blame
  <2>1. ~slow => /\ said \notin masked
                 /\ Found
                 /\ Cardinality(masked \cup {said}) = Cardinality(masked) + 1
    BY <1>9, MaskedFinite, FS_AddElement DEF Blame, NotFound
  <2>. QED  BY <1>9, <2>1 DEF Blame, Found, NotFound
<1>10. CASE RunAgain
  BY <1>10 DEF RunAgain
<1>11. CASE UNCHANGED vars
  BY <1>11 DEF vars
<1>. QED
  BY <1>1, <1>2, <1>3, <1>4, <1>5, <1>6, <1>7, <1>8, <1>9, <1>10, <1>11,
     <1>12, <1>13, <1>14, <1>15
  DEF Next, Main, Thread

\* The wrong case is blamed for a core dump only if the right one was late.
THEOREM BlameIsRight == Spec => []BlameRightUnlessLate
<1>1. OrderInv => BlameRightUnlessLate
  BY DEF OrderInv, BlameRightUnlessLate
<1>. QED  BY <1>1, TypeInit, TypeStep, OrderInit, OrderStep, PTL DEF Spec

\* While no case times out, each core dump has one more case commented out.
THEOREM DumpsAreMasked == Spec => []DumpsMaskCases
<1>1. DumpInv => DumpsMaskCases
  BY DEF DumpInv, DumpsMaskCases
<1>. QED
  BY <1>1, TypeInit, TypeStep, OrderInit, OrderStep, DumpInit, DumpStep, PTL DEF Spec
-----------------------------------------------------------------------------
(* The number of failures.                                                 *)

\* The cases main is past and has caught something of, and counted.
Caught ==
    (late \cup {c \in Cases : c < cur /\ case[c] \in {"none", "threw", "failed"}})
      \ (IF main \in {"catch", "count"} THEN {cur - 1} ELSE {})

\* What has been written to the counter, if no increment was lost.
Counted == Cardinality(Caught) + Cardinality(Failed)

\* Cases to come have not been started, and main catches what came of a case.
Waiting ==
    /\ \A c \in late : c < cur
    /\ \A c \in Cases :
         c >= cur => \/ case[c] = "none"
                     \/ main \notin {"next", "catch", "count", "exiting"} /\ c = cur
    /\ main \in {"catch", "count"} =>
         cur - 1 \in late \/ case[cur - 1] \in {"none", "threw", "failed"}

\* No thread has read more than what was counted; once something was, the counter
\* is never 0 again; and while no case is late, it is exact.
CountInv ==
    /\ failures <= Counted
    /\ \A t \in Cases \cup {MainThread} : read[t] <= Counted
    /\ main \notin Over /\ failures = 0 => Caught = {} /\ Failed = {}
    /\ main \notin Over /\ late = {} =>
         /\ failures = Counted
         /\ main = "count" => read[MainThread] = Counted
         /\ \A c \in Failing : read[c] = Counted

\* What main has printed stays right.
PrintInv ==
    printed # None =>
        /\ main \in {"exiting"} \cup Over
        /\ cur \notin Cases
        /\ FailuresCounted

CountedInv == Waiting /\ CountInv /\ PrintInv

LEMMA CountedFinite ==
    ASSUME TypeInv
    PROVE  /\ IsFiniteSet(Caught) /\ IsFiniteSet(Failed)
           /\ Cardinality(Caught) \in 0 .. NumCases
           /\ Cardinality(Failed) \in 0 .. NumCases
           /\ Counted \in 0 .. 2 * NumCases
<1>1. IsFiniteSet(Cases) /\ Cardinality(Cases) = NumCases
  BY HarnessAssumption, FS_Interval DEF Cases
<1>2. Caught \subseteq Cases /\ Failed \subseteq Cases
  BY DEF TypeInv, Caught, Failed
<1>3. /\ IsFiniteSet(Caught) /\ Cardinality(Caught) \in Nat /\ Cardinality(Caught) <= NumCases
      /\ IsFiniteSet(Failed) /\ Cardinality(Failed) \in Nat /\ Cardinality(Failed) <= NumCases
  BY <1>1, <1>2, FS_Subset, FS_CardinalityType
<1>. QED
  BY <1>3, HarnessAssumption DEF Counted

\* One case more in either account.
LEMMA OneMore ==
    ASSUME TypeInv
    PROVE  /\ Cardinality(Caught) \in Nat /\ Cardinality(Failed) \in Nat
           /\ \A c : c \notin Caught => Cardinality(Caught \cup {c}) = Cardinality(Caught) + 1
           /\ \A c : c \notin Failed => Cardinality(Failed \cup {c}) = Cardinality(Failed) + 1
BY CountedFinite, FS_AddElement

LEMMA CountedInit == Init => CountedInv
<1>. SUFFICES ASSUME Init PROVE CountedInv
  OBVIOUS
<1>1. Caught = {} /\ Failed = {} /\ Failing = {}
  BY DEF Init, Caught, Failed, Failing, Cases
<1>2. Counted = 0
  BY <1>1, FS_EmptySet DEF Counted
<1>. QED
  BY <1>1, <1>2 DEF Init, CountedInv, Waiting, CountInv, PrintInv

\* A step that counts nothing and reads nothing.
LEMMA NothingCounted ==
    ASSUME TypeInv, CountInv, UNCHANGED counter,
           Caught' = Caught, Failed' = Failed,
           main' \notin Over /\ late' = {} => /\ main \notin Over /\ late = {}
                                             /\ Failing' \subseteq Failing
                                             /\ main' # "count",
           main' \notin Over => main \notin Over
    PROVE  CountInv'
<1>1. Counted' = Counted
  BY DEF Counted
<1>. QED  BY <1>1 DEF CountInv, counter

\* The process ends, and what main has caught and not counted is dropped.
LEMMA NoMoreCounted ==
    ASSUME TypeInv, CountInv, UNCHANGED <<cur, case, late, counter>>, main' \in Over
    PROVE  CountInv'
<1>1. Failed' = Failed
  BY DEF Failed
<1>2. Caught' = Caught \/ Caught' = Caught \cup {cur - 1}
  BY DEF Caught, Over
<1>3. Cardinality(Caught') \in Nat /\ Cardinality(Caught') >= Cardinality(Caught)
  BY <1>2, CountedFinite, FS_AddElement
<1>4. Counted' \in Nat /\ Counted' >= Counted
  BY <1>1, <1>3, CountedFinite DEF Counted
<1>. QED
  BY <1>4, CountedFinite DEF CountInv, TypeInv, counter

LEMMA WaitingStep == TypeInv /\ OrderInv /\ Waiting /\ [Next]_vars => Waiting'
<1>. SUFFICES ASSUME TypeInv, OrderInv, Waiting, [Next]_vars PROVE Waiting'
  OBVIOUS
<1>. USE HarnessAssumption DEF TypeInv, Waiting, Cases, None, Over, MainThread,
         process, counter, verdict, ghosts, Running, Failing
<1>1. CASE Start
  BY <1>1 DEF Start, Leave
<1>2. CASE Join
  BY <1>2 DEF Join, Leave
<1>3. CASE TimeOut
  BY <1>3 DEF TimeOut, AfterTimeOut, Leave
<1>4. CASE CatchReads \/ CatchWrites \/ Count \/ Exit
  BY <1>4 DEF CatchReads, CatchWrites, Count, Exit
<1>5. ASSUME NEW c \in Cases, Complete(c) \/ CheckReads(c) \/ CheckWrites(c) PROVE Waiting'
  <2>1. c \in late \/ (main = "wait" /\ c = cur)
    BY <1>5 DEF Complete, CheckReads, CheckWrites, OrderInv
  <2>. QED  BY <1>5, <2>1 DEF Complete, CheckReads, CheckWrites
<1>6. ASSUME NEW c \in Cases, Quit(c) \/ Crash(c) PROVE Waiting'
  BY <1>6 DEF Quit, Crash
<1>7. CASE Blame
  BY <1>7 DEF Blame, Found, NotFound
<1>8. CASE RunAgain
  BY <1>8 DEF RunAgain
<1>9. CASE UNCHANGED vars
  BY <1>9 DEF vars
<1>. QED
  BY <1>1, <1>2, <1>3, <1>4, <1>5, <1>6, <1>7, <1>8, <1>9 DEF Next, Main, Thread

LEMMA CountStep == TypeInv /\ OrderInv /\ Waiting /\ CountInv /\ [Next]_vars => CountInv'
<1>. SUFFICES ASSUME TypeInv, OrderInv, Waiting, CountInv, [Next]_vars PROVE CountInv'
  OBVIOUS
<1>. USE HarnessAssumption DEF Cases, None, Over, MainThread, process, verdict, ghosts
<1>1. CASE Start
  <2>1. Caught' = Caught /\ Failed' = Failed /\ Failing' = Failing
    BY <1>1 DEF Start, Leave, Caught, Failed, Failing, Waiting, TypeInv
  <2>. QED  BY <1>1, <2>1, NothingCounted DEF Start, Leave
<1>2. CASE Join
  <2>1. Caught' = Caught /\ Failed' = Failed /\ Failing' = Failing
    BY <1>2 DEF Join, Leave, Caught, Failed, Failing, Waiting, TypeInv
  <2>. QED  BY <1>2, <2>1, NothingCounted DEF Join, Leave
<1>3. CASE TimeOut
  <2>1. Caught' = Caught /\ Failed' = Failed /\ Failing' = Failing
    BY <1>3 DEF TimeOut, MayTimeOut, AfterTimeOut, Leave, Caught, Failed, Failing,
                Waiting, TypeInv
  <2>2. late' # {} /\ main \notin Over
    BY <1>3 DEF TimeOut
  <2>. QED  BY <1>3, <2>1, <2>2, NothingCounted DEF TimeOut
<1>4. CASE CatchReads
  <2>1. Caught' = Caught /\ Failed' = Failed /\ Failing' = Failing
    BY <1>4 DEF CatchReads, Caught, Failed, Failing
  <2>2. Counted' = Counted
    BY <2>1 DEF Counted
  <2>. QED
    BY <1>4, <2>1, <2>2 DEF CatchReads, ReadCounter, CountInv, TypeInv, Failing
<1>5. CASE CatchWrites
  <2>1. Caught' = Caught \cup {cur - 1} /\ cur - 1 \notin Caught
    BY <1>5 DEF CatchWrites, Caught, Waiting, TypeInv
  <2>2. Failed' = Failed /\ Failing' = Failing /\ (late = {} => Failing = {})
    BY <1>5 DEF CatchWrites, Failed, Failing, OrderInv
  <2>3. Counted' = Counted + 1 /\ Counted \in Nat
    BY <2>1, <2>2, OneMore DEF Counted
  <2>. QED
    BY <1>5, <2>2, <2>3 DEF CatchWrites, WriteCounter, Increment, CountInv, TypeInv
<1>6. CASE Count
  <2>1. Caught' = Caught /\ Failed' = Failed /\ Failing' = Failing
    BY <1>6 DEF Count, Caught, Failed, Failing
  <2>. QED  BY <1>6, <2>1, NothingCounted DEF Count
<1>7. ASSUME NEW c \in Cases, Complete(c) PROVE CountInv'
  <2>1. c \in late \/ (main = "wait" /\ c = cur)
    BY <1>7 DEF Complete, OrderInv, Running
  <2>2. Caught' = Caught /\ Failed' = Failed /\ Failing' = Failing
    BY <1>7, <2>1 DEF Complete, Caught, Failed, Failing, Running, TypeInv
  <2>3. main' = "count" => late' # {}
    BY <1>7, <2>1 DEF Complete
  <2>. QED  BY <1>7, <2>2, <2>3, NothingCounted DEF Complete
<1>8. ASSUME NEW c \in Cases, CheckReads(c) PROVE CountInv'
  <2>1. c \in late \/ (main = "wait" /\ c = cur)
    BY <1>8 DEF CheckReads, OrderInv, Running
  <2>2. Caught' = Caught /\ Failed' = Failed /\ Failing' = Failing \cup {c}
    BY <1>8, <2>1 DEF CheckReads, Caught, Failed, Failing, Running, TypeInv
  <2>3. Counted' = Counted
    BY <2>2 DEF Counted
  <2>. QED
    BY <1>8, <2>2, <2>3 DEF CheckReads, ReadCounter, CountInv, TypeInv, Failing
<1>9. ASSUME NEW c \in Cases, CheckWrites(c) PROVE CountInv'
  <2>1. c \in late \/ (main = "wait" /\ c = cur)
    BY <1>9 DEF CheckWrites, OrderInv, Failing
  <2>2. Caught' = Caught
    BY <1>9, <2>1 DEF CheckWrites, Caught, Failing, TypeInv
  <2>3. Failed' = Failed \cup {c} /\ c \notin Failed /\ Failing' = Failing \ {c}
    BY <1>9 DEF CheckWrites, Failed, Failing, TypeInv
  <2>4. late = {} => Failing' = {} /\ main = "wait"
    BY <1>9, <2>1, <2>3 DEF CheckWrites, Failing, OrderInv
  <2>5. Counted' = Counted + 1 /\ Counted \in Nat
    BY <2>2, <2>3, OneMore DEF Counted
  <2>6. /\ failures' = read[c] + 1 /\ read[c] \in Nat
        /\ \A t \in Cases \cup {MainThread} : read'[t] = 0 \/ read'[t] = read[t]
    BY <1>9 DEF CheckWrites, WriteCounter, Increment, TypeInv
  <2>7. failures' <= Counted' /\ \A t \in Cases \cup {MainThread} : read'[t] <= Counted'
    BY <2>5, <2>6 DEF CountInv, TypeInv
  <2>8. main' \notin Over /\ late' = {} => failures' = Counted' /\ main' = "wait"
    BY <1>9, <2>4, <2>5, <2>6 DEF CheckWrites, CountInv
  <2>. QED  BY <1>9, <2>4, <2>6, <2>7, <2>8 DEF CheckWrites, CountInv
<1>10. ASSUME NEW c \in Cases, Quit(c) \/ Crash(c) PROVE CountInv'
  BY <1>10, NoMoreCounted DEF Quit, Crash
<1>11. CASE Exit
  BY <1>11, NoMoreCounted DEF Exit
<1>12. CASE Blame
  BY <1>12, NoMoreCounted DEF Blame, Found, NotFound
<1>13. CASE RunAgain
  <2>1. Caught' = {} /\ Failed' = {} /\ Failing' = {}
    BY <1>13 DEF RunAgain, Caught, Failed, Failing
  <2>2. Counted' = 0
    BY <2>1, FS_EmptySet DEF Counted
  <2>. QED  BY <1>13, <2>1, <2>2 DEF RunAgain, CountInv
<1>14. CASE UNCHANGED vars
  <2>1. Caught' = Caught /\ Failed' = Failed /\ Failing' = Failing
    BY <1>14 DEF vars, Caught, Failed, Failing
  <2>2. Counted' = Counted
    BY <2>1 DEF Counted
  <2>. QED  BY <1>14, <2>1, <2>2 DEF vars, counter, CountInv
<1>. QED
  BY <1>1, <1>2, <1>3, <1>4, <1>5, <1>6, <1>7, <1>8, <1>9, <1>10, <1>11, <1>12,
     <1>13, <1>14
  DEF Next, Main, Thread

LEMMA PrintStep == TypeInv /\ OrderInv /\ CountedInv /\ [Next]_vars => PrintInv'
<1>. SUFFICES ASSUME TypeInv, OrderInv, CountedInv, [Next]_vars, printed' # None
              PROVE  PrintInv'
  BY DEF PrintInv
<1>. USE HarnessAssumption DEF Cases, None, Over, MainThread, process, counter, verdict,
         ghosts
<1>1. CASE Count
  <2>1. NotPassed' = Caught /\ Failed' = Failed
    BY <1>1 DEF Count, NotPassed, Caught, Failed, CountedInv, Waiting, TypeInv
  <2>2. Failed \subseteq Caught
    BY <1>1, <2>1 DEF Count, NotPassed, Failed
  <2>3. failures = 0 <=> Caught = {}
    <3>1. Caught # {} => Cardinality(Caught) # 0
      BY CountedFinite, FS_EmptySet
    <3>2. Caught = {} => Counted = 0
      BY <2>2, FS_EmptySet DEF Counted
    <3>. QED  BY <1>1, <3>1, <3>2 DEF Count, CountedInv, CountInv, TypeInv
  <2>. QED
    BY <1>1, <2>1, <2>3
    DEF Count, PrintInv, FailuresCounted, CountedInv, CountInv, Counted
<1>2. ASSUME NEW c \in Cases, Complete(c) \/ CheckReads(c) PROVE PrintInv'
  <2>1. c \in late /\ printed' = printed /\ late' = late /\ main' = main /\ cur' = cur
    BY <1>2 DEF Complete, CheckReads, OrderInv, Running, CountedInv, PrintInv
  <2>2. NotPassed' = NotPassed /\ Failed' = Failed
    BY <1>2, <2>1 DEF Complete, CheckReads, NotPassed, Failed, Running, TypeInv
  <2>. QED  BY <2>1, <2>2 DEF CountedInv, PrintInv, FailuresCounted
<1>3. ASSUME NEW c \in Cases, CheckWrites(c) PROVE PrintInv'
  <2>1. c \in late /\ printed' = printed /\ late' = late /\ main' = main /\ cur' = cur
    BY <1>3 DEF CheckWrites, OrderInv, Failing, CountedInv, PrintInv
  <2>2. NotPassed' = NotPassed /\ Failed' = Failed \cup {c} /\ c \notin Failed
    BY <1>3, <2>1 DEF CheckWrites, NotPassed, Failed, Failing, TypeInv
  <2>3. Cardinality(Failed') = Cardinality(Failed) + 1 /\ Cardinality(Failed) \in Nat
    BY <2>2, OneMore
  <2>4. Cardinality(NotPassed) \in Nat
    <3>1. IsFiniteSet(1 .. NumCases)
      BY FS_Interval
    <3>2. NotPassed \subseteq 1 .. NumCases
      BY DEF NotPassed, TypeInv
    <3>. QED  BY <3>1, <3>2, FS_Subset, FS_CardinalityType
  <2>. QED
    BY <2>1, <2>2, <2>3, <2>4 DEF CountedInv, PrintInv, FailuresCounted, TypeInv
<1>4. ASSUME UNCHANGED <<cur, case, late, printed>>, main' \in Over PROVE PrintInv'
  <2>1. NotPassed' = NotPassed /\ Failed' = Failed
    BY <1>4 DEF NotPassed, Failed
  <2>. QED  BY <1>4, <2>1 DEF CountedInv, PrintInv, FailuresCounted
<1>5. ASSUME NEW c \in Cases, Quit(c) \/ Crash(c) PROVE PrintInv'
  BY <1>4, <1>5 DEF Quit, Crash
<1>6. CASE Exit \/ Blame
  BY <1>4, <1>6 DEF Exit, Blame, Found, NotFound
<1>7. CASE UNCHANGED vars
  <2>1. NotPassed' = NotPassed /\ Failed' = Failed
    BY <1>7 DEF vars, NotPassed, Failed
  <2>. QED  BY <1>7, <2>1 DEF vars, CountedInv, PrintInv, FailuresCounted
<1>8. CASE Start \/ Join \/ TimeOut \/ CatchReads \/ CatchWrites \/ RunAgain
  BY <1>8
  DEF Start, Join, TimeOut, CatchReads, CatchWrites, RunAgain, CountedInv, PrintInv
<1>. QED
  BY <1>1, <1>2, <1>3, <1>5, <1>6, <1>7, <1>8 DEF Next, Main, Thread

LEMMA CountedStep == TypeInv /\ OrderInv /\ CountedInv /\ [Next]_vars => CountedInv'
BY WaitingStep, CountStep, PrintStep DEF CountedInv

\* The process, the log and the accounts keep their types, and no case is counted
\* more than twice: once by main and once by its own check.
THEOREM TypeCorrect == Spec => []TypeOK
<1>1. TypeInv /\ CountedInv => TypeOK
  <2>. SUFFICES ASSUME TypeInv, CountedInv PROVE TypeOK
    OBVIOUS
  <2>1. failures \in 0 .. 2 * NumCases
    BY CountedFinite, HarnessAssumption DEF CountedInv, CountInv, TypeInv
  <2>2. read \in [Cases \cup {MainThread} -> 0 .. 2 * NumCases]
    <3>1. \A t \in Cases \cup {MainThread} : read[t] \in 0 .. 2 * NumCases
      BY CountedFinite, HarnessAssumption DEF CountedInv, CountInv, TypeInv
    <3>. QED  BY <3>1 DEF TypeInv
  <2>3. printed \in 0 .. 2 * NumCases \cup {None}
    <3>1. CASE printed = None
      BY <3>1
    <3>2. CASE printed # None
      <4>1. IsFiniteSet(Cases) /\ Cardinality(Cases) = NumCases
        BY HarnessAssumption, FS_Interval DEF Cases
      <4>2. NotPassed \subseteq Cases
        BY DEF NotPassed, TypeInv
      <4>3. Cardinality(NotPassed) \in Nat /\ Cardinality(NotPassed) <= NumCases
        BY <4>1, <4>2, FS_Subset, FS_CardinalityType
      <4>. QED
        BY <3>2, <4>3, CountedFinite, HarnessAssumption
        DEF CountedInv, PrintInv, FailuresCounted, TypeInv
    <3>. QED  BY <3>1, <3>2
  <2>. QED  BY <2>1, <2>2, <2>3 DEF TypeInv, TypeOK
<1>. QED
  BY <1>1, TypeInit, TypeStep, OrderInit, OrderStep, CountedInit, CountedStep, PTL DEF Spec

\* The number of failures printed is 0 if and only if all cases have passed, and
\* exact while no case is late, whatever late threads do to the counter.
THEOREM CountsFailures == Spec => []FailuresCounted
<1>1. CountedInv => FailuresCounted
  BY DEF CountedInv, PrintInv, FailuresCounted
<1>. QED
  BY <1>1, TypeInit, TypeStep, OrderInit, OrderStep, CountedInit, CountedStep, PTL DEF Spec
-----------------------------------------------------------------------------
(* RunEnds rests on fairness, and TLC checks it.  What a run of the test has *)
(* ahead of it is a matter of main's steps alone.                            *)

\* The steps main has yet to make, five for a case at most, and to count and to exit.
Ahead ==
    IF main \in Over THEN 0
    ELSE 5 * (NumCases + 1 - cur)
           + (CASE main = "catch" -> 4 [] main = "count" -> 3 [] main = "next" -> 2
                [] OTHER -> 1)

\* Each step of main takes something off what it has ahead, a natural number, and
\* no case, however late or long, nor the search for a culprit adds to it.
THEOREM RunCountsDown ==
    Spec => /\ [](Ahead \in Nat)
            /\ [][(Main => Ahead' < Ahead) /\ (Thread \/ Blame => Ahead' <= Ahead)]_vars
<1>. USE DEF Over
<1>1. TypeInv => Ahead \in Nat
  BY HarnessAssumption DEF TypeInv, Ahead
<1>2. ASSUME TypeInv, Main PROVE Ahead' < Ahead
  <2>1. NumCases \in Nat /\ cur \in 1 .. NumCases + 1 /\ main \notin Over
    BY <1>2, HarnessAssumption
    DEF TypeInv, Main, Start, Join, TimeOut, CatchReads, CatchWrites, Count, Exit
  <2>2. CASE main = "next" /\ cur \in Cases /\ main' = "wait" /\ cur' = cur
    BY <2>1, <2>2 DEF Ahead, Cases
  <2>3. CASE /\ cur \in Cases /\ main \in {"next", "wait"}
             /\ main' \in {"next", "catch"} /\ cur' = cur + 1
    BY <2>1, <2>3 DEF Ahead, Cases
  <2>4. CASE main = "catch" /\ main' = "count" /\ cur' = cur
    BY <2>1, <2>4 DEF Ahead
  <2>5. CASE main = "count" /\ main' = "next" /\ cur' = cur
    BY <2>1, <2>5 DEF Ahead
  <2>6. CASE main = "next" /\ main' = "exiting" /\ cur' = cur
    BY <2>1, <2>6 DEF Ahead
  <2>7. CASE main = "exiting" /\ main' = "ended"
    BY <2>1, <2>7 DEF Ahead
  <2>. QED
    BY <1>2, <2>2, <2>3, <2>4, <2>5, <2>6, <2>7
    DEF Main, Start, Join, TimeOut, AfterTimeOut, Leave, CatchReads, CatchWrites, Count,
        Exit, TypeInv
<1>3. ASSUME TypeInv, Thread \/ Blame PROVE Ahead' <= Ahead
  <2>1. CASE main' \in Over
    BY <1>1, <1>3, <2>1 DEF Ahead
  <2>2. CASE UNCHANGED <<main, cur>>
    <3>1. Ahead' = Ahead
      BY <2>2 DEF Ahead
    <3>. QED  BY <1>1, <1>3, <3>1
  <2>. QED
    BY <1>3, <2>1, <2>2
    DEF Thread, Complete, CheckReads, CheckWrites, Quit, Crash, Blame, Found, NotFound
<1>. QED  BY <1>1, <1>2, <1>3, TypeInit, TypeStep, PTL DEF Spec
=============================================================================
