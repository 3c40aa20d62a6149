-------------------------- MODULE CoverageCC_proofs --------------------------
(***************************************************************************)
(* What holds of the calls of get_coverage_cc, however many are made and   *)
(* in whichever modes, and whatever they read in coverage.info.            *)
(***************************************************************************)
EXTENDS CoverageReport, Induction

\* The process leaves its directory for the make targets only.
CwdInv == pc \in {"idle", "mktemp", "copy", "clean", "blame"} => cwd = "home"

\* A remote directory that is left behind is one of a call in trouble.
LeakInv == leaked \subseteq trouble

\* The work directory holds a coverage.info once a remote call has copied one, or
\* a call stopped or raised beside the one it made, or for the moment between make
\* coverage and process_coverage_info.
InfoInv ==
    /\ info # NoFile => fetched \/ info.of.call \in trouble \/ (~ssh /\ pc = "process")
    /\ pc = "process" /\ ~ssh => info.of = test
    /\ pc \notin {"idle", "raised", "blame"} => test.call = calls
    /\ pc \in {"mktemp", "copy", "ls", "fetch", "rm"} => ssh
    /\ ssh \in BOOLEAN

StaleInv ==
    pc \in {"blame", "idle"} /\ Measured /\ result.of # result.log =>
        ssh /\ (fetched \/ result.of.call \in trouble)

Inv == CwdInv /\ LeakInv /\ InfoInv /\ StaleInv

\* An early return goes home and counts as trouble: a coverage.info it leaves is
\* one that was there or its own.
LEMMA ReturnKeepsInv ==
    ASSUME Inv, NEW fix, NEW core, Return(fix, core), test' = test, pc # "process",
           info' = info \/ (info'.of = test /\ test.call = calls)
    PROVE  Inv'
<1>1. calls' = calls /\ pc' = "blame" /\ cwd' = "home" /\ ssh' = ssh /\ fetched' = fetched
      /\ trouble' = trouble \cup {calls} /\ leaked' \subseteq leaked \cup {calls}
      /\ result'.of = NoTest
  BY DEF Return, LeaveRemote, Report
<1>2. info' # NoFile => fetched' \/ info'.of.call \in trouble'
  BY <1>1 DEF Inv, InfoInv
<1>3. CwdInv' /\ LeakInv'
  BY <1>1 DEF Inv, CwdInv, LeakInv
<1>4. InfoInv'
  BY <1>1, <1>2 DEF Inv, InfoInv
<1>5. StaleInv'
  BY <1>1 DEF StaleInv, Measured
<1>. QED
  BY <1>3, <1>4, <1>5 DEF Inv

LEMMA StopKeepsInv ==
    ASSUME Inv, NEW fix, NEW core, Stop(fix, core), pc # "process"
    PROVE  Inv'
BY ReturnKeepsInv DEF Stop, files

\* So does an exception, wherever the process is then.
LEMMA RaiseKeepsInv ==
    ASSUME Inv, Raise
    PROVE  Inv'
BY DEF Inv, CwdInv, LeakInv, InfoInv, StaleInv, Raise, LeaveRemote, files

LEMMA InvStep == Inv /\ [Next]_vars => Inv'
<1>. SUFFICES ASSUME Inv, [Next]_vars PROVE Inv'
  OBVIOUS
<1>. USE DEF Inv, CwdInv, LeakInv, InfoInv, StaleInv, Measured, files, dirs, ghosts
<1>1. CASE Call
  BY <1>1, CallsAssumption DEF Call
<1>2. CASE MakeTemp
  BY <1>2, StopKeepsInv DEF MakeTemp, Go
<1>3. CASE CopyToTemp
  BY <1>3, StopKeepsInv DEF CopyToTemp, Go
<1>4. CASE Clean
  BY <1>4, StopKeepsInv, RaiseKeepsInv DEF Clean, Lost, Go, SetBuilt
<1>5. CASE Compile
  BY <1>5, StopKeepsInv, RaiseKeepsInv DEF Compile, Lost, Go
<1>6. CASE Run
  BY <1>6, StopKeepsInv, RaiseKeepsInv DEF Run, StopByWords, Lost, Go
<1>7. CASE MakeCoverage
  <2>1. ASSUME NEW good, SetBuilt(Info(test, good)),
               Go(IF ssh THEN "ls" ELSE "process"), UNCHANGED <<cwd, dirs, ghosts>>
        PROVE  Inv'
    <3>1. CASE ssh
      BY <1>7, <2>1, <3>1 DEF MakeCoverage, Go, SetBuilt
    <3>2. CASE ~ssh
      <4>1. info'.of = test /\ pc' = "process" /\ ssh' = ssh
        BY <2>1, <3>2 DEF SetBuilt, Info, Go
      <4>. QED
        BY <1>7, <2>1, <3>2, <4>1 DEF MakeCoverage, Go, SetBuilt
    <3>. QED  BY <3>1, <3>2
  <2>2. ASSUME NEW good, SetBuilt(Info(test, good)), NEW core, Return(TRUE, core)
        PROVE  Inv'
    <3>1. test' = test /\ (info' = info \/ info'.of = test)
      BY <2>2 DEF SetBuilt, Info
    <3>2. test.call = calls
      BY <1>7 DEF MakeCoverage
    <3>. QED  BY <1>7, <2>2, <3>1, <3>2, ReturnKeepsInv DEF MakeCoverage
  <2>3. ASSUME NEW core, Stop(TRUE, core) PROVE Inv'
    BY <1>7, <2>3, StopKeepsInv DEF MakeCoverage
  <2>4. CASE Raise
    BY <1>7, <2>4, RaiseKeepsInv DEF MakeCoverage
  <2>. QED  BY <1>7, <2>1, <2>2, <2>3, <2>4 DEF MakeCoverage, Lost
<1>8. CASE List
  BY <1>8, StopKeepsInv, RaiseKeepsInv DEF List, StopByWords, Go
<1>9. CASE Fetch
  BY <1>9 DEF Fetch, Go
<1>10. CASE RemoveTemp
  <2>1. /\ pc = "rm" /\ pc' = "process" /\ ssh' = ssh
        /\ UNCHANGED <<calls, cwd, test, info, fetched, result>>
        /\ trouble \subseteq trouble'
    BY <1>10 DEF RemoveTemp, Go
  <2>2. LeakInv'
    BY <1>10 DEF RemoveTemp, LeakedAfterRemoval
  <2>3. CwdInv' /\ InfoInv' /\ StaleInv'
    BY <2>1
  <2>. QED  BY <2>2, <2>3
<1>11. CASE Process
  <2>1. CASE Processed
    <3>1. /\ pc = "process" /\ pc' = "blame" /\ cwd' = "home" /\ ssh' = ssh
          /\ info' \in {info, NoFile} /\ UNCHANGED <<leaked, trouble, fetched, test>>
      BY <2>1 DEF Processed, InfoAfter, CwdAfter
    <3>2. result'.of = info.of /\ result'.log = test /\ info # NoFile
      BY <2>1 DEF Processed, Report, NoFile, Info
    <3>3. ~ssh => info' = NoFile
      BY <2>1 DEF Processed, InfoAfter
    <3>. QED  BY <3>1, <3>2, <3>3
  <2>. QED  BY <1>11, <2>1, RaiseKeepsInv DEF Process, NotProcessed
<1>12. CASE Blame
  <2>1. CASE result.core /\ Raise
    BY <1>12, <2>1, RaiseKeepsInv DEF Blame
  <2>2. CASE /\ pc' = "idle"
             /\ UNCHANGED <<ssh, cwd, info, leaked, result, trouble, fetched>>
    <3>. SUFFICES ASSUME /\ pc = "blame" /\ pc' = "idle"
                         /\ UNCHANGED <<ssh, cwd, info, leaked, result, trouble, fetched>>
         PROVE  Inv'
      BY <1>12, <2>2 DEF Blame
    <3>. QED  OBVIOUS
  <2>. QED
    BY <1>12, <2>1, <2>2 DEF Blame, RunOnceMore
<1>13. CASE UNCHANGED vars
  BY <1>13 DEF vars
<1>. QED
  BY <1>1, <1>2, <1>3, <1>4, <1>5, <1>6, <1>7, <1>8, <1>9, <1>10, <1>11, <1>12,
     <1>13 DEF Next, Step

LEMMA InitInv == Init => Inv
<1>. SUFFICES ASSUME Init PROVE Inv
  OBVIOUS
<1>1. CwdInv /\ LeakInv /\ InfoInv
  <2>1. CwdInv
    BY DEF Init, CwdInv
  <2>2. LeakInv
    BY DEF Init, LeakInv
  <2>3. InfoInv
    BY DEF Init, InfoInv
  <2>. QED  BY <2>1, <2>2, <2>3
<1>2. result.of = result.log
  BY DEF Init, NoReport, Report
<1>. QED
  BY <1>1, <1>2 DEF Inv, StaleInv

\* However a call returns, the process is back in the directory it was in.
THEOREM ReturnsHome == Spec => []CwdRestored
<1>1. Inv => CwdRestored
  BY DEF Inv, CwdInv, CwdRestored
<1>. QED  BY <1>1, InitInv, InvStep, PTL DEF Spec

\* Only remote calls report the coverage of another test, and only after a
\* coverage.info was left behind, by a remote call that copied it or by a call that
\* stopped beside it at make coverage: local calls never do.
THEOREM LocalIsFresh == Spec => []StaleOnlyAfterRemote
<1>1. Inv => StaleOnlyAfterRemote
  BY DEF Inv, StaleInv, StaleOnlyAfterRemote, Returned
<1>. QED  BY <1>1, InitInv, InvStep, PTL DEF Spec

\* Each remote directory left behind is one of a call that failed or lost a
\* command.
THEOREM LeaksAreTrouble == Spec => []LeakOnlyInTrouble
<1>1. Inv => LeakOnlyInTrouble
  BY DEF Inv, LeakInv, LeakOnlyInTrouble
<1>. QED  BY <1>1, InitInv, InvStep, PTL DEF Spec

-----------------------------------------------------------------------------
(* Types: a call under way is one that was counted.                        *)

ReportSet == [of : TestSet, log : TestSet, fix : BOOLEAN, core : BOOLEAN]

\* The flags, and where a call can have a remote directory.
Flags ==
    /\ ssh \in BOOLEAN /\ remote \in BOOLEAN /\ fetched \in BOOLEAN
    /\ remote => ssh /\ pc \notin {"idle", "raised", "mktemp", "process", "blame"}
    /\ pc = "mktemp" => ssh

Files ==
    /\ pc \in {"idle", "raised", "mktemp", "copy", "clean", "compile", "run",
               "coverage", "ls", "fetch", "rm", "process", "blame"}
    /\ cwd \in {"home", "work"}
    /\ test \in TestSet /\ info \in InfoSet /\ temp \in InfoSet
    /\ result \in ReportSet

\* A call under way has been counted.
Accounts ==
    /\ calls \in 0 .. MaxCalls
    /\ pc # "idle" => calls \in 1 .. MaxCalls
    /\ leaked \subseteq 1 .. MaxCalls
    /\ trouble \subseteq 1 .. MaxCalls

TypeInv == Flags /\ Files /\ Accounts

LEMMA NoTestTyped == NoTest \in TestSet
BY CallsAssumption DEF NoTest, TestSet

LEMMA InfoTyped ==
    ASSUME NEW of \in TestSet, NEW good \in BOOLEAN
    PROVE  Info(of, good) \in InfoSet
BY DEF Info, InfoSet

LEMMA NoFileTyped == NoFile \in InfoSet
BY NoTestTyped, InfoTyped DEF NoFile

LEMMA ReportTyped ==
    ASSUME NEW of \in TestSet, NEW log \in TestSet, NEW fix \in BOOLEAN,
           NEW core \in BOOLEAN
    PROVE  Report(of, log, fix, core) \in ReportSet
BY DEF Report, ReportSet

LEMMA TypeInit == Init => TypeInv
<1>. SUFFICES ASSUME Init PROVE TypeInv
  OBVIOUS
<1>1. Flags
  BY DEF Init, Flags
<1>2. Files
  BY NoTestTyped, NoFileTyped, ReportTyped DEF Init, NoReport, Files
<1>3. Accounts
  BY CallsAssumption DEF Init, Accounts
<1>. QED  BY <1>1, <1>2, <1>3 DEF TypeInv

LEMMA FlagsStep == Flags /\ [Next]_vars => Flags'
<1>. SUFFICES ASSUME Flags, [Next]_vars PROVE Flags'
  OBVIOUS
<1>. USE DEF files, dirs, ghosts
<1>1. ASSUME NEW fix, NEW core, Return(fix, core) PROVE Flags'
  BY <1>1 DEF Flags, Return, LeaveRemote
<1>2. ASSUME Raise PROVE Flags'
  BY <1>2 DEF Flags, Raise, LeaveRemote
<1>3. ASSUME UNCHANGED <<ssh, remote, fetched>>,
             pc' \notin {"idle", "raised", "mktemp", "process", "blame"}
      PROVE  Flags'
  BY <1>3 DEF Flags
<1>4. CASE Call
  BY <1>4, CallsAssumption DEF Flags, Call
<1>5. CASE MakeTemp \/ CopyToTemp
  <2>1. CASE /\ pc = "mktemp" /\ pc' = "copy"
             /\ remote' = TRUE /\ UNCHANGED <<ssh, fetched>>
    BY <2>1 DEF Flags
  <2>2. CASE pc = "copy" /\ pc' = "clean" /\ UNCHANGED <<ssh, remote, fetched>>
    BY <2>2, <1>3
  <2>. QED
    BY <1>5, <1>1, <2>1, <2>2 DEF MakeTemp, CopyToTemp, Stop, Go
<1>6. CASE Clean
  BY <1>6, <1>1, <1>2, <1>3 DEF Clean, Lost, SetBuilt, Stop, Go
<1>7. CASE Compile \/ Run
  BY <1>7, <1>1, <1>2, <1>3 DEF Compile, Run, StopByWords, Lost, Stop, Go
<1>8. CASE MakeCoverage
  <2>1. CASE /\ ssh' = ssh /\ remote' = remote /\ fetched' = fetched
             /\ pc' = IF ssh THEN "ls" ELSE "process"
    BY <2>1 DEF Flags
  <2>. QED
    BY <1>8, <1>1, <1>2, <2>1 DEF MakeCoverage, Lost, Stop, Go
<1>9. CASE List
  BY <1>9, <1>1, <1>2, <1>3 DEF List, StopByWords, Stop, Go
<1>10. CASE Fetch
  <2>1. ssh' = ssh /\ remote' = remote /\ fetched' \in {fetched, TRUE} /\ pc' = "rm"
        /\ pc = "fetch"
    BY <1>10 DEF Fetch, Go
  <2>. QED  BY <2>1 DEF Flags
<1>11. CASE RemoveTemp
  BY <1>11 DEF Flags, RemoveTemp, Go
<1>12. CASE Process
  <2>1. CASE pc = "process" /\ pc' = "blame" /\ UNCHANGED <<ssh, remote, fetched>>
    BY <2>1 DEF Flags
  <2>. QED
    BY <1>12, <1>2, <2>1 DEF Process, Processed, NotProcessed
<1>13. CASE Blame
  <2>1. CASE pc = "blame" /\ pc' = "idle" /\ UNCHANGED <<ssh, remote, fetched>>
    BY <2>1 DEF Flags
  <2>. QED
    BY <1>13, <1>2, <2>1 DEF Blame, RunOnceMore
<1>14. CASE UNCHANGED vars
  BY <1>14 DEF Flags, vars
<1>. QED
  BY <1>4, <1>5, <1>6, <1>7, <1>8, <1>9, <1>10, <1>11, <1>12, <1>13, <1>14
  DEF Next, Step

LEMMA AccountsStep == Accounts /\ [Next]_vars => Accounts'
<1>. SUFFICES ASSUME Accounts, [Next]_vars PROVE Accounts'
  OBVIOUS
<1>. USE CallsAssumption DEF Accounts, files, dirs, ghosts
<1>1. ASSUME pc # "idle", NEW fix, NEW core, Return(fix, core) PROVE Accounts'
  BY <1>1 DEF Return, LeaveRemote
<1>2. ASSUME pc # "idle", Raise PROVE Accounts'
  BY <1>2 DEF Raise, LeaveRemote
<1>3. CASE Call
  BY <1>3 DEF Call
<1>4. CASE MakeTemp \/ CopyToTemp
  BY <1>4, <1>1 DEF MakeTemp, CopyToTemp, Stop, Go
<1>5. CASE Clean \/ Compile \/ Run \/ MakeCoverage
  BY <1>5, <1>1, <1>2 DEF Clean, Compile, Run, MakeCoverage, StopByWords, Lost, SetBuilt, Stop, Go
<1>6. CASE List \/ Fetch
  BY <1>6, <1>1, <1>2 DEF List, Fetch, StopByWords, Stop, Go
<1>7. CASE RemoveTemp
  BY <1>7 DEF RemoveTemp, LeakedAfterRemoval, Go
<1>8. CASE Process
  BY <1>8, <1>2 DEF Process, Processed, NotProcessed
<1>9. CASE Blame
  BY <1>9, <1>2 DEF Blame, RunOnceMore
<1>10. CASE UNCHANGED vars
  BY <1>10 DEF vars
<1>. QED
  BY <1>3, <1>4, <1>5, <1>6, <1>7, <1>8, <1>9, <1>10 DEF Next, Step

LEMMA FilesStep == Files /\ Accounts' /\ [Next]_vars => Files'
<1>. SUFFICES ASSUME Files, Accounts', [Next]_vars PROVE Files'
  OBVIOUS
<1>. USE NoTestTyped, NoFileTyped DEF Files, files
<1>1. ASSUME NEW fix \in BOOLEAN, NEW core \in BOOLEAN, Return(fix, core),
             test' = test, info' \in InfoSet, temp' \in InfoSet
      PROVE  Files'
  BY <1>1, ReportTyped DEF Return
<1>2. ASSUME Raise PROVE Files'
  BY <1>2, ReportTyped DEF Raise, NoReport
<1>3. CASE Call
  <2>1. pc' # "idle"
    BY <1>3 DEF Call
  <2>2. test' \in TestSet
    BY <1>3, <2>1 DEF Call, Accounts, TestSet
  <2>. QED  BY <1>3, <2>2 DEF Call
<1>4. CASE MakeTemp \/ CopyToTemp
  BY <1>4, <1>1 DEF MakeTemp, CopyToTemp, Stop, Go
<1>5. CASE Clean
  BY <1>5, <1>1, <1>2 DEF Clean, Lost, SetBuilt, Stop, Go
<1>6. CASE Compile \/ Run
  BY <1>6, <1>1, <1>2 DEF Compile, Run, StopByWords, Lost, Stop, Go
<1>7. CASE MakeCoverage
  BY <1>7, <1>1, <1>2, InfoTyped DEF MakeCoverage, Lost, SetBuilt, Stop, Go
<1>8. CASE List \/ Fetch \/ RemoveTemp
  BY <1>8, <1>1, <1>2 DEF List, Fetch, RemoveTemp, StopByWords, Stop, Go
<1>9. CASE Process
  <2>1. info.of \in TestSet
    BY DEF InfoSet
  <2>. QED
    BY <1>9, <1>2, <2>1, ReportTyped
    DEF Process, Processed, NotProcessed, InfoAfter, CwdAfter
<1>10. CASE Blame
  <2>1. [test EXCEPT !.masked = TRUE] \in TestSet
    BY DEF TestSet
  <2>. QED  BY <1>10, <1>2, <2>1 DEF Blame, RunOnceMore
<1>11. CASE UNCHANGED vars
  BY <1>11 DEF vars
<1>. QED
  BY <1>3, <1>4, <1>5, <1>6, <1>7, <1>8, <1>9, <1>10, <1>11 DEF Next, Step

LEMMA TypeStep == TypeInv /\ [Next]_vars => TypeInv'
BY FlagsStep, FilesStep, AccountsStep DEF TypeInv

\* The accounts of a directory: calls in trouble and directories left behind are
\* those of calls made, and a call that is over has no remote directory at hand.
THEOREM CallsTyped == Spec => []TypeOK
<1>1. TypeInv => TypeOK
  BY DEF TypeInv, Flags, Files, Accounts, ReportSet, TypeOK
<1>. QED  BY <1>1, TypeInit, TypeStep, PTL DEF Spec

-----------------------------------------------------------------------------
(* The calls with what they read and report.                               *)

\* Reading coverage.info and reporting lines adds nothing to the steps of a call.
THEOREM ReportsAreCalls == ReportSpec => Init /\ [][Next]_vars
<1>1. ReportInit => Init
  BY DEF ReportInit
<1>2. [ReportNext]_allVars => [Next]_vars
  BY DEF allVars, ReportNext, ReportCall, ReportStep, ReadInfo, Next, Step, Process
<1>. QED  BY <1>1, <1>2, PTL DEF ReportSpec

\* So what is proved of the calls holds of those that report lines: the directory
\* is restored, stale coverage is of remote calls, and what is left behind is of
\* calls in trouble.
THEOREM ReportsKeep ==
    ReportSpec => [](CwdRestored /\ StaleOnlyAfterRemote /\ LeakOnlyInTrouble)
<1>1. Inv => CwdRestored /\ StaleOnlyAfterRemote /\ LeakOnlyInTrouble
  BY DEF Inv, CwdInv, LeakInv, StaleInv, CwdRestored, StaleOnlyAfterRemote,
         LeakOnlyInTrouble, Returned
<1>. QED  BY <1>1, InitInv, InvStep, ReportsAreCalls, PTL

-----------------------------------------------------------------------------
(* The lines reported.                                                     *)

\* Once coverage.info was read, the report is that of what it contains.
Told ==
    /\ content \in DOMAIN Lines \cup {NoInfo}
    /\ lcov = NoInfo \/ (lcov \in DOMAIN Lines /\ missing = Lines[lcov])

LEMMA ToldStep == Told /\ [ReportNext]_allVars => Told'
<1> SUFFICES ASSUME Told, [ReportNext]_allVars PROVE Told'
  OBVIOUS
<1>1. CASE ReadInfo
  BY <1>1 DEF ReadInfo, Contents, Told
<1>2. CASE ReportCall
  BY <1>2 DEF ReportCall, Told
<1>3. CASE UNCHANGED reportVars /\ content' \in {content, NoInfo}
  BY <1>3 DEF reportVars, Told
<1> QED
  BY <1>1, <1>2, <1>3 DEF ReportNext, ReportStep, allVars

\* The list of entries as functions are read: made[T] for those at places T.
Chain(out, made) ==
    LET n == Len(out.order) IN
    /\ Entries(out) = made[1 .. n]
    /\ made[1 .. 0] = <<>>
    /\ \A k \in Nat : k < n =>
          LET es == made[1 .. k]
              e == Entry[out.order[k + 1]]
          IN  made[1 .. k + 1] = IF Contains(es, e) THEN es ELSE Append(es, e)

LEMMA EntriesChain ==
    ASSUME NEW out, out.order \in Seq(DOMAIN Extent)
    PROVE  \E made : Chain(out, made)
<1> DEFINE n == Len(out.order)
           E == {Entry[fn] : fn \in DOMAIN Extent}
           V == Seq(E)
           entry(i) == Entry[out.order[i]]
           with(es, e) == IF Contains(es, e) THEN es ELSE Append(es, e)
           step == [x \in (1 .. n) \X V |-> with(x[2], entry(x[1]))]
           made == CHOOSE iter : iter =
             [T \in SUBSET DOMAIN out.order |->
                IF T = {} THEN <<>> ELSE with(iter[T \ {Max(T)}], entry(Max(T)))]
<1>1. Entries(out) = made[DOMAIN out.order]
  BY Zenon DEF Entries, FoldLeft, MapThenFoldSet
<1>2. n \in Nat /\ DOMAIN out.order = 1 .. n /\ \A i \in 1 .. n : entry(i) \in E
  OBVIOUS
<1>3. \A i \in 1 .. n : \A es \in V : with(es, entry(i)) \in V
  BY <1>2
<1>4. \A i \in 1 .. n, es \in V : step[i, es] = with(es, entry(i))
  OBVIOUS
<1>5. step \in [(1 .. n) \X V -> V]
  BY <1>3
<1>6. <<>> \in V
  OBVIOUS
<1> HIDE DEF n, V, step, entry, with
<1>7. PICK f \in [SUBSET (1 .. n) -> V] : FoldRecursion(f, n, <<>>, step)
  BY <1>2, <1>5, <1>6, FoldDefines
<1>8. f = [T \in SUBSET (1 .. n) |->
             IF T = {} THEN <<>> ELSE with(f[T \ {Max(T)}], entry(Max(T)))]
  <2>1. ASSUME NEW T \in SUBSET (1 .. n), T # {}
        PROVE  f[T] = with(f[T \ {Max(T)}], entry(Max(T)))
    <3>1. Max(T) \in 1 .. n
      BY <1>2, <2>1, Largest
    <3>2. T \ {Max(T)} \in SUBSET (1 .. n) /\ f[T \ {Max(T)}] \in V
      OBVIOUS
    <3> QED
      BY <1>4, <1>7, <2>1, <3>1, <3>2 DEF FoldRecursion
  <2> QED
    BY <1>7, <2>1 DEF FoldRecursion
<1>9. made = [T \in SUBSET (1 .. n) |->
                IF T = {} THEN <<>> ELSE with(made[T \ {Max(T)}], entry(Max(T)))]
  BY <1>2, <1>8, Zenon
<1> HIDE DEF made
<1>10. made[1 .. 0] = <<>>
  BY <1>2, <1>9
<1>11. ASSUME NEW k \in Nat, k < n
       PROVE  made[1 .. k + 1] = with(made[1 .. k], entry(k + 1))
  <2>1. 1 .. k + 1 \in SUBSET (1 .. n) /\ 1 .. k + 1 # {}
    <3>1. n \in Nat
      BY <1>2
    <3>2. \A x \in 1 .. k + 1 : x \in 1 .. n
      BY <1>11, <3>1
    <3>3. 1 \in 1 .. k + 1
      OBVIOUS
    <3> QED
      BY <3>2, <3>3
  <2>2. Max(1 .. k + 1) = k + 1 /\ (1 .. k + 1) \ {k + 1} = 1 .. k
    BY LargestOfInterval
  <2> QED
    BY <1>9, <2>1, <2>2
<1>12. Chain(out, made)
  BY <1>1, <1>2, <1>10, <1>11 DEF Chain, n, entry, with
<1> QED
  BY <1>12

\* Every function has its entry made.
LEMMA EntriesComplete ==
    ASSUME NEW out, out.order \in Seq(DOMAIN Extent), NEW i \in DOMAIN out.order
    PROVE  Entry[out.order[i]] \in ToSet(Entries(out))
<1> DEFINE n == Len(out.order)
           entry(j) == Entry[out.order[j]]
           E == {Entry[fn] : fn \in DOMAIN Extent}
<1>1. PICK made : Chain(out, made)
  BY EntriesChain
<1>2. n \in Nat /\ DOMAIN out.order = 1 .. n /\ \A j \in 1 .. n : entry(j) \in E
  OBVIOUS
<1> DEFINE Complete(k) == /\ made[1 .. k] \in Seq(E)
                          /\ \A j \in 1 .. k : Contains(made[1 .. k], entry(j))
           S == {k \in Nat : k <= n => Complete(k)}
<1>3. /\ Entries(out) = made[1 .. n] /\ made[1 .. 0] = <<>>
      /\ \A k \in Nat : k < n =>
            made[1 .. k + 1] = IF Contains(made[1 .. k], entry(k + 1)) THEN made[1 .. k]
                               ELSE Append(made[1 .. k], entry(k + 1))
  BY <1>1 DEF Chain
<1> HIDE DEF n, entry, E
<1>4. 0 \in S
  <2>1. <<>> \in Seq(E) /\ \A j \in 1 .. 0 : FALSE
    OBVIOUS
  <2>2. Complete(0)
    BY <1>3, <2>1
  <2> QED
    BY <2>2
<1>5. ASSUME NEW k \in Nat, k \in S PROVE k + 1 \in S
  <2> SUFFICES ASSUME k + 1 <= n PROVE Complete(k + 1)
    OBVIOUS
  <2>1. k < n /\ k <= n /\ k + 1 \in 1 .. n
    BY <1>2
  <2>2. Complete(k) /\ entry(k + 1) \in E
    BY <1>2, <1>5, <2>1
  <2> DEFINE es == made[1 .. k]
             more == made[1 .. k + 1]
  <2>3. es \in Seq(E) /\ \A j \in 1 .. k : Contains(es, entry(j))
    BY <2>2
  <2>4. more = IF Contains(es, entry(k + 1)) THEN es ELSE Append(es, entry(k + 1))
    BY <1>3, <2>1
  <2> HIDE DEF es, more
  <2>5. more \in Seq(E)
    BY <2>2, <2>3, <2>4
  <2>6. /\ Contains(more, entry(k + 1))
        /\ \A e : Contains(es, e) => Contains(more, e)
    <3>1. CASE Contains(es, entry(k + 1))
      BY <2>4, <3>1
    <3>2. CASE ~Contains(es, entry(k + 1))
      <4>1. /\ more = Append(es, entry(k + 1)) /\ Len(es) \in Nat
            /\ DOMAIN more = 1 .. Len(es) + 1 /\ Len(es) + 1 \in DOMAIN more
            /\ Len(more) = Len(es) + 1
            /\ more[Len(es) + 1] = entry(k + 1)
            /\ \A j \in 1 .. Len(es) : more[j] = es[j]
        BY <2>2, <2>3, <2>4, <3>2
      <4> QED
        BY <4>1 DEF Contains
    <3> QED
      BY <3>1, <3>2
  <2>7. \A j \in 1 .. k + 1 : j \in 1 .. k \/ j = k + 1
    OBVIOUS
  <2> QED
    BY <2>3, <2>5, <2>6, <2>7 DEF es, more
<1>6. n \in S
  BY <1>2, <1>4, <1>5, NaturalsInSet
<1>7. Contains(Entries(out), entry(i)) /\ Entries(out) \in Seq(E)
  BY <1>2, <1>3, <1>6
<1> QED
  BY <1>7 DEF Contains, ToSet, entry

\* Functions that differ and are their own entries, none of them read twice, are
\* the entries in the order they are read in.
LEMMA EntriesAsRead ==
    ASSUME NEW out, out.order \in Seq(DOMAIN Extent),
           \A i \in DOMAIN out.order : Entry[out.order[i]] = out.order[i],
           \A i, j \in DOMAIN out.order : i < j => out.order[i] # out.order[j]
    PROVE  Entries(out) = out.order
<1> DEFINE n == Len(out.order)
           s == out.order
<1>1. PICK made : Chain(out, made)
  BY EntriesChain
<1>2. n \in Nat /\ DOMAIN s = 1 .. n /\ s \in Seq(DOMAIN Extent)
  OBVIOUS
<1> DEFINE S == {k \in Nat : k <= n => made[1 .. k] = SubSeq(s, 1, k)}
<1>3. /\ Entries(out) = made[1 .. n] /\ made[1 .. 0] = <<>>
      /\ \A k \in Nat : k < n =>
            made[1 .. k + 1] = IF Contains(made[1 .. k], Entry[s[k + 1]]) THEN made[1 .. k]
                               ELSE Append(made[1 .. k], Entry[s[k + 1]])
  BY <1>1 DEF Chain
<1>4. \A i \in 1 .. n : Entry[s[i]] = s[i]
  BY <1>2
<1>5. \A i, j \in 1 .. n : i < j => s[i] # s[j]
  BY <1>2
<1> HIDE DEF n, s
<1>6. 0 \in S
  <2>1. SubSeq(s, 1, 0) = <<>>
    BY <1>2
  <2>2. made[1 .. 0] = SubSeq(s, 1, 0)
    BY <1>3, <2>1
  <2> QED
    BY <2>2
<1>7. ASSUME NEW k \in Nat, k \in S PROVE k + 1 \in S
  <2> SUFFICES ASSUME k + 1 <= n PROVE made[1 .. k + 1] = SubSeq(s, 1, k + 1)
    OBVIOUS
  <2>1. k < n /\ k <= n /\ k + 1 \in 1 .. n
    BY <1>2
  <2>2. made[1 .. k] = SubSeq(s, 1, k)
    BY <1>7, <2>1
  <2>3. /\ Len(SubSeq(s, 1, k)) = k /\ \A j \in 1 .. k : SubSeq(s, 1, k)[j] = s[j]
        /\ SubSeq(s, 1, k) \in Seq(DOMAIN Extent)
    BY <1>2, <2>1 DEF n
  <2>4. \A j \in 1 .. k : s[j] # s[k + 1]
    BY <1>2, <1>5, <2>1
  <2>5. ~Contains(SubSeq(s, 1, k), s[k + 1])
    BY <2>3, <2>4 DEF Contains
  <2>6. made[1 .. k + 1] = Append(SubSeq(s, 1, k), s[k + 1])
    BY <1>3, <1>4, <2>1, <2>2, <2>5
  <2> QED
    BY <1>2, <2>1, <2>6 DEF n
<1>8. n \in S
  BY <1>2, <1>6, <1>7, NaturalsInSet
<1>9. SubSeq(s, 1, n) = s
  BY <1>2 DEF n
<1> QED
  BY <1>2, <1>3, <1>8, <1>9 DEF s

\* An entry that is of one function only stands for it.
LEMMA FunctionOf ==
    ASSUME NEW out, out.order \in Seq(DOMAIN Extent), NEW fn \in ToSet(out.order),
           \A g \in ToSet(out.order) \ {fn} : Entry[g] # Entry[fn]
    PROVE  Function(out, Entry[fn]) = fn
<1> DEFINE T == {i \in DOMAIN out.order : Entry[out.order[i]] = Entry[fn]}
<1>1. Len(out.order) \in Nat /\ DOMAIN out.order = 1 .. Len(out.order)
  OBVIOUS
<1>2. T \in SUBSET (1 .. Len(out.order)) /\ T # {}
  BY <1>1 DEF ToSet
<1>3. Max(T) \in T
  BY <1>1, <1>2, Largest
<1>4. out.order[Max(T)] = fn
  BY <1>3 DEF ToSet
<1> QED
  BY <1>4 DEF Function

\* The functions of an output as they stand in the file.
Sorted(out) ==
    \A i, j \in DOMAIN out.order :
        i < j => Extent[out.order[i]][1] < Extent[out.order[j]][1]

\* Of functions that are sorted, the one at place k has place k among the first
\* lines, and its end is estimated from the one after it.
LEMMA PlaceOf ==
    ASSUME OwnLines, NEW out, out.order \in Seq(DOMAIN Extent), Sorted(out),
           \A i \in DOMAIN out.order : Entry[out.order[i]] = out.order[i],
           NEW k \in DOMAIN out.order
    PROVE  /\ Place(out, out.order[k]) = k
           /\ Estimate(out, k) = IF k < Len(out.order) THEN Extent[out.order[k + 1]][1] - 1
                                 ELSE NumLines
<1> DEFINE s == out.order
           n == Len(s)
           first(i) == Extent[s[i]][1]
<1>1. n \in Nat /\ DOMAIN s = 1 .. n /\ k \in 1 .. n
  OBVIOUS
<1>2. \A i \in 1 .. n : s[i] \in DOMAIN Extent
  OBVIOUS
<1>3. \A i \in 1 .. n : first(i) \in Int
  BY <1>2, ReportAssumption
<1>4. \A i, j \in 1 .. n : i < j => first(i) < first(j)
  BY <1>1 DEF Sorted
<1>5. \A i, j \in 1 .. n : i < j => s[i] # s[j]
  BY <1>1, <1>3, <1>4
<1>6. Entries(out) = s
  BY <1>1, <1>5, EntriesAsRead
<1>7. \A i \in 1 .. n : First(out, s[i]) = first(i)
  <2> SUFFICES ASSUME NEW i \in 1 .. n PROVE First(out, s[i]) = first(i)
    OBVIOUS
  <2>1. s[i] \in ToSet(s) /\ Entry[s[i]] = s[i] /\ \A g \in ToSet(s) : Entry[g] = g
    BY <1>1 DEF ToSet
  <2>2. Function(out, Entry[s[i]]) = s[i]
    BY <2>1, FunctionOf
  <2> QED
    BY <2>1, <2>2 DEF First
<1> HIDE DEF first
<1>8. {i \in DOMAIN Entries(out) : First(out, Entries(out)[i]) < First(out, s[k])} = 1 .. k - 1
  <2>1. \A i \in 1 .. n : first(i) < first(k) <=> i < k
    <3> SUFFICES ASSUME NEW i \in 1 .. n PROVE first(i) < first(k) <=> i < k
      OBVIOUS
    <3>1. i < k \/ i = k \/ k < i
      BY <1>1
    <3>2. (i < k => first(i) < first(k)) /\ (k < i => first(k) < first(i))
      BY <1>1, <1>4
    <3>3. first(i) \in Int /\ first(k) \in Int /\ i \in Int /\ k \in Int
      BY <1>1, <1>3
    <3> QED
      BY <3>1, <3>2, <3>3
  <2>2. {i \in 1 .. n : first(i) < first(k)} = 1 .. k - 1
    BY <1>1, <2>1
  <2>3. {i \in DOMAIN Entries(out) : First(out, Entries(out)[i]) < First(out, s[k])}
          = {i \in 1 .. n : first(i) < first(k)}
    BY <1>1, <1>6, <1>7
  <2> QED
    BY <2>2, <2>3
<1>9. Cardinality(1 .. k - 1) = k - 1
  BY <1>1, FS_Interval
<1>10. Place(out, s[k]) = k
  <2>1. Place(out, s[k]) = Cardinality(1 .. k - 1) + 1
    BY <1>8, Zenon DEF Place
  <2> QED
    BY <1>1, <1>9, <2>1
<1>11. Estimate(out, k) = IF k < n THEN first(k + 1) - 1 ELSE NumLines
  <2>1. CASE k < n
    <3>1. k + 1 \in 1 .. n
      BY <1>1, <2>1
    <3> QED
      BY <1>6, <1>7, <2>1, <3>1 DEF Estimate
  <2>2. CASE ~(k < n)
    BY <1>6, <2>2 DEF Estimate
  <2> QED
    BY <2>1, <2>2
<1> QED
  BY <1>10, <1>11 DEF first

\* Where a function ends, for the report: not above its last line, and above any
\* that begins further down.
LEMMA EndOf ==
    ASSUME OwnLines, NEW out \in Infos, Readable(out), NEW fn \in ToSet(out.order),
           \A g \in ToSet(out.order) \ {fn} : Entry[g] # Entry[fn],
           out.ends \/ Sorted(out)
    PROVE  LET end == End(out, Entry[fn]) IN
           /\ end \in Extent[fn][2] .. NumLines
           /\ \A g \in ToSet(out.order) : Extent[fn][1] < Extent[g][1] => end < Extent[g][1]
<1> DEFINE s == out.order
           n == Len(s)
<1>0. s \in Seq(DOMAIN Extent)
  BY ReportAssumption
<1>1. n \in Nat /\ DOMAIN s = 1 .. n /\ \A i \in 1 .. n : s[i] \in DOMAIN Extent
  BY <1>0
<1>2. fn \in DOMAIN Extent /\ \A g \in ToSet(s) : g \in DOMAIN Extent
  BY <1>1 DEF ToSet
<1>3. \A g \in DOMAIN Extent : Extent[g][1] \in 1 .. Extent[g][2] /\ Extent[g][2] \in 1 .. NumLines
  BY ReportAssumption DEF OwnLines
<1>4. NumLines \in Nat
  BY ReportAssumption
<1>5. CASE out.ends
  <2>1. End(out, Entry[fn]) = Extent[fn][2]
    BY <1>0, <1>5, FunctionOf DEF End
  <2> QED
    BY <1>2, <1>3, <1>4, <2>1 DEF OwnLines
<1>6. CASE ~out.ends
  <2>1. Sorted(out) /\ \A i \in DOMAIN s : Entry[s[i]] = s[i]
    BY <1>6 DEF Readable
  <2>2. PICK k \in 1 .. n : fn = s[k]
    BY <1>1 DEF ToSet
  <2>3. Entry[fn] = s[k]
    BY <1>1, <2>1, <2>2
  <2>4. Place(out, s[k]) = k
        /\ Estimate(out, k) = IF k < n THEN Extent[s[k + 1]][1] - 1 ELSE NumLines
    BY <1>0, <1>1, <2>1, PlaceOf
  <2>5. End(out, Entry[fn]) = IF k < n THEN Extent[s[k + 1]][1] - 1 ELSE NumLines
    BY <1>6, <2>3, <2>4 DEF End
  <2>6. CASE k < n
    <3> DEFINE h == s[k + 1]
    <3>1. k + 1 \in 1 .. n /\ h \in DOMAIN Extent
      BY <1>1, <2>6
    <3>2. Extent[fn][1] < Extent[h][1]
      BY <1>1, <2>1, <2>2, <3>1 DEF Sorted
    <3>3. Extent[fn][2] < Extent[h][1]
      BY <1>2, <3>1, <3>2 DEF OwnLines
    <3>4. ASSUME NEW g \in ToSet(s), Extent[fn][1] < Extent[g][1]
          PROVE  Extent[h][1] <= Extent[g][1]
      <4>1. PICK j \in 1 .. n : g = s[j]
        BY <1>1 DEF ToSet
      <4>2. Extent[fn][1] \in Int /\ Extent[g][1] \in Int /\ Extent[h][1] \in Int
        BY <1>2, <1>3, <3>1
      <4>3. ~(j < k) /\ j # k
        BY <1>1, <2>1, <2>2, <3>4, <4>1, <4>2 DEF Sorted
      <4>4. j = k + 1 \/ k + 1 < j
        BY <1>1, <4>3
      <4> QED
        BY <1>1, <2>1, <3>1, <4>1, <4>2, <4>4 DEF Sorted
    <3> HIDE DEF h
    <3>5. End(out, Entry[fn]) = Extent[h][1] - 1
      BY <2>5, <2>6 DEF h
    <3>6. Extent[h][1] \in Int /\ Extent[h][2] \in Int /\ Extent[fn][2] \in Int
          /\ Extent[h][1] <= Extent[h][2] /\ Extent[h][2] <= NumLines
      BY <1>2, <1>3, <1>4, <3>1
    <3>7. \A g \in ToSet(s) : Extent[g][1] \in Int
      BY <1>2, <1>3
    <3>8. \A g \in ToSet(s) : Extent[fn][1] < Extent[g][1] => Extent[h][1] - 1 < Extent[g][1]
      BY <3>4, <3>6, <3>7
    <3>9. Extent[h][1] - 1 \in Extent[fn][2] .. NumLines
      BY <1>4, <3>3, <3>6
    <3> QED
      BY <3>5, <3>8, <3>9
  <2>7. CASE ~(k < n)
    <3>1. End(out, Entry[fn]) = NumLines
      BY <2>5, <2>7
    <3>2. ASSUME NEW g \in ToSet(s), Extent[fn][1] < Extent[g][1] PROVE FALSE
      <4>1. PICK j \in 1 .. n : g = s[j]
        BY <1>1 DEF ToSet
      <4>2. Extent[fn][1] \in Int /\ Extent[g][1] \in Int
        BY <1>2, <1>3
      <4>3. j < k \/ j = k
        BY <1>1, <2>7
      <4> QED
        BY <1>1, <2>1, <2>2, <3>2, <4>1, <4>2, <4>3 DEF Sorted
    <3> QED
      BY <1>2, <1>3, <1>4, <3>1, <3>2
  <2> QED
    BY <2>6, <2>7
<1> QED
  BY <1>5, <1>6

\* Whatever coverage.info contains, the lines reported of a function are its own,
\* if functions stand on lines of their own, further conditions being those of the
\* property.
THEOREM LinesAreOwn ==
    ASSUME OwnLines
    PROVE  ReportSpec => []ReportsOwnLines
<1>1. ASSUME Told PROVE ReportsOwnLines
  <2> SUFFICES ASSUME NEW fn \in Functions, Entry[fn] \in Asked,
                      \A g \in Functions \ {fn} : Entry[g] # Entry[fn],
                      lcov.ends \/ InOrder
               PROVE  LET e == Entry[fn]
                          lines == IF e \in DOMAIN missing THEN missing[e] ELSE {}
                          reached == IF fn \in lcov.called THEN {l \in DOMAIN lcov.hits : lcov.hits[l]}
                                     ELSE {}
                      IN  /\ lines \subseteq Section(fn) \ reached
                          /\ ((Extent[fn][1] .. Extent[fn][2] - 1) \cap Telling) \ reached
                                \subseteq lines
    BY DEF ReportsOwnLines
  <2> DEFINE e == Entry[fn]
             first == Extent[fn][1]
             end == End(lcov, e)
             lines == IF e \in DOMAIN missing THEN missing[e] ELSE {}
             reached == IF fn \in lcov.called THEN {l \in DOMAIN lcov.hits : lcov.hits[l]} ELSE {}
  <2>1. fn \in ToSet(lcov.order)
    BY DEF Functions
  <2>2. lcov # NoInfo
    BY <2>1 DEF NoInfo, ToSet
  <2>3. lcov \in Infos /\ Readable(lcov)
        /\ missing = [x \in Reported(lcov) |-> Missing(lcov, x)]
    BY <1>1, <2>2 DEF Told, Lines
  <2>4. lcov.order \in Seq(DOMAIN Extent)
    BY <2>3, ReportAssumption
  <2>5. fn \in DOMAIN Extent /\ \A g \in Functions : g \in DOMAIN Extent
    BY <2>4 DEF Functions, ToSet
  <2>6. Function(lcov, e) = fn
    BY <2>1, <2>4, FunctionOf DEF Functions
  <2>7. First(lcov, e) = first
    BY <2>6 DEF First
  <2>8. /\ end \in Extent[fn][2] .. NumLines
        /\ \A g \in Functions : first < Extent[g][1] => end < Extent[g][1]
    BY <2>1, <2>3, EndOf DEF InOrder, Sorted, Functions
  <2>9. first \in 1 .. Extent[fn][2] /\ Extent[fn][2] \in 1 .. NumLines /\ NumLines \in Nat
    BY <2>5, ReportAssumption DEF OwnLines
  <2>10. \A g \in Functions : Extent[g][1] \in Int
    BY <2>5, ReportAssumption DEF OwnLines
  <2>11. e \in ToSet(Entries(lcov))
    <3>1. PICK i \in DOMAIN lcov.order : fn = lcov.order[i]
      BY <2>1 DEF ToSet
    <3> QED
      BY <2>4, <3>1, EntriesComplete
  <2> HIDE DEF first, end
  <2>12. lines = Missing(lcov, e)
    <3>1. e \in Reported(lcov) => lines = Missing(lcov, e)
      BY <2>3
    <3>2. e \notin Reported(lcov) => lines = {} /\ Missing(lcov, e) = {}
      BY <2>3, <2>11 DEF Reported
    <3> QED
      BY <3>1, <3>2
  <2>13. \A l \in first .. end : l \in Section(fn)
    <3> SUFFICES ASSUME NEW l \in first .. end PROVE l \in Section(fn)
      OBVIOUS
    <3>1. l \in first .. NumLines /\ l \in Int /\ l <= end /\ end \in Int
      BY <2>8, <2>9
    <3>2. ASSUME NEW g \in Functions, Extent[g][1] \in first + 1 .. NumLines
          PROVE  l < Extent[g][1]
      BY <2>8, <2>9, <2>10, <3>1, <3>2
    <3> QED
      BY <3>1, <3>2 DEF Section, first
  <2>14. \A l : l \in reached => fn \in lcov.called /\ ~NotReached(lcov, l)
    BY DEF NotReached
  <2>15. \A l : fn \in lcov.called /\ ~NotReached(lcov, l) => l \in reached
    BY DEF NotReached
  <2> HIDE DEF reached, lines, e
  <2>16. CASE fn \notin lcov.called
    <3>1. lines = (first .. end) \cap Telling
      BY <2>6, <2>7, <2>12, <2>16 DEF Missing, end
    <3>2. \A l \in first .. Extent[fn][2] - 1 : l \in first .. end
      BY <2>8, <2>9
    <3>3. lines \subseteq Section(fn) \ reached
      BY <2>13, <2>14, <2>16, <3>1
    <3>4. ((first .. Extent[fn][2] - 1) \cap Telling) \ reached \subseteq lines
      BY <3>1, <3>2
    <3> QED
      BY <3>3, <3>4 DEF first, lines, reached, e
  <2>17. CASE fn \in lcov.called
    <3>1. lines = {l \in (first .. end - 1) \cap Telling : NotReached(lcov, l)}
      BY <2>6, <2>7, <2>12, <2>17 DEF Missing, end
    <3>2. /\ \A l \in first .. Extent[fn][2] - 1 : l \in first .. end - 1
          /\ \A l \in first .. end - 1 : l \in first .. end
      BY <2>8, <2>9
    <3>3. lines \subseteq Section(fn) \ reached
      BY <2>13, <2>14, <3>1, <3>2
    <3>4. ((first .. Extent[fn][2] - 1) \cap Telling) \ reached \subseteq lines
      BY <2>15, <2>17, <3>1, <3>2
    <3> QED
      BY <3>3, <3>4 DEF first, lines, reached, e
  <2> QED
    BY <2>16, <2>17
<1>2. ReportInit => Told
  BY DEF ReportInit, Told
<1> QED
  BY <1>1, <1>2, ToldStep, PTL DEF ReportSpec
-----------------------------------------------------------------------------
(* CallsEnd rests on fairness, and TLC checks it.  That a call does not go   *)
(* round in circles is a matter of its steps alone.                          *)

\* The steps of a call that goes all the way, last first.
Path == <<"blame", "process", "rm", "fetch", "ls", "coverage", "run", "compile",
          "clean", "copy", "mktemp">>

\* The steps a call has ahead of it at most, at the step at.
AheadAt(at) ==
    IF \E i \in DOMAIN Path : Path[i] = at THEN CHOOSE i \in DOMAIN Path : Path[i] = at
    ELSE 0
Ahead == AheadAt(pc)

LEMMA AheadOf ==
    ASSUME NEW at
    PROVE  /\ AheadAt(at) \in 0 .. 11
           /\ \A i \in DOMAIN Path : at = Path[i] => AheadAt(at) = i
           /\ (\A i \in DOMAIN Path : at # Path[i]) => AheadAt(at) = 0
<1>1. \A i, j \in DOMAIN Path : Path[i] = Path[j] => i = j
  BY DEF Path
<1>2. DOMAIN Path = 1 .. 11
  BY DEF Path
<1>. HIDE DEF Path
<1>. QED  BY <1>1, <1>2 DEF AheadAt

\* Each step of a call leads on, to the end of the call or to a step further on,
\* and none but the next call adds to it.
THEOREM CallCountsDown ==
    Spec => /\ [](Ahead \in 0 .. 11)
            /\ [][Step => Ahead' < Ahead]_vars
<1>1. Ahead \in 0 .. 11
  BY AheadOf DEF Ahead
<1>2. ASSUME Step PROVE Ahead' < Ahead
  <2>. DEFINE Leads(from, to) ==
                 /\ pc = Path[from]
                 /\ pc' \in {Path[i] : i \in 1 .. to} \cup {"idle", "raised"}
  <2>1. ASSUME NEW from \in 1 .. 11, NEW to \in 0 .. from - 1, Leads(from, to)
        PROVE  Ahead' < Ahead
    <3>1. DOMAIN Path = 1 .. 11 /\ \A i \in 1 .. 11 : Path[i] \notin {"idle", "raised"}
      BY DEF Path
    <3>. HIDE DEF Path
    <3>2. Ahead = from
      BY <2>1, <3>1, AheadOf DEF Ahead
    <3>3. CASE pc' \in {"idle", "raised"}
      <4>1. Ahead' = 0
        BY <3>1, <3>3, AheadOf DEF Ahead
      <4>. QED  BY <3>2, <4>1
    <3>4. ASSUME NEW i \in 1 .. to, pc' = Path[i] PROVE Ahead' < Ahead
      <4>1. Ahead' = i
        BY <3>1, <3>4, AheadOf DEF Ahead
      <4>. QED  BY <3>2, <4>1
    <3>. QED  BY <2>1, <3>3, <3>4
  <2>2. ASSUME pc' \in {"blame", "raised"}, NEW from \in 2 .. 11, pc = Path[from]
        PROVE  Ahead' < Ahead
    <3>1. Leads(from, 1)
      BY <2>2 DEF Path
    <3>. HIDE DEF Leads
    <3>. QED  BY <2>1, <3>1
  <2>3. ASSUME (\E fix, core \in BOOLEAN : Return(fix, core)) \/ Raise
        PROVE  pc' \in {"blame", "raised"}
    BY <2>3 DEF Return, Raise
  <2>4. ASSUME NEW from \in 1 .. 11, pc = Path[from],
               NEW to \in 1 .. from - 1, Go(Path[to])
        PROVE  Ahead' < Ahead
    <3>1. Leads(from, to)
      BY <2>4 DEF Go
    <3>. HIDE DEF Leads
    <3>. QED  BY <2>1, <2>4, <3>1
  <2>. HIDE DEF Ahead, Leads
  <2>5. /\ Path[1] = "blame" /\ Path[2] = "process" /\ Path[3] = "rm" /\ Path[4] = "fetch"
        /\ Path[5] = "ls" /\ Path[6] = "coverage" /\ Path[7] = "run" /\ Path[8] = "compile"
        /\ Path[9] = "clean" /\ Path[10] = "copy" /\ Path[11] = "mktemp"
    BY DEF Path
  <2>. HIDE DEF Path
  <2>6. ASSUME NEW from \in 2 .. 11, pc = Path[from],
               \/ pc' \in {"blame", "raised"}
               \/ \E to \in 1 .. from - 1 : Go(Path[to])
        PROVE  Ahead' < Ahead
    BY <2>2, <2>4, <2>6
  <2>7. CASE MakeTemp
    <3>1. pc = Path[11] /\ (pc' \in {"blame", "raised"} \/ Go(Path[10]))
      BY <2>3, <2>5, <2>7 DEF MakeTemp, Stop
    <3>. QED  BY <2>6, <3>1
  <2>8. CASE CopyToTemp
    <3>1. pc = Path[10] /\ (pc' \in {"blame", "raised"} \/ Go(Path[9]))
      BY <2>3, <2>5, <2>8 DEF CopyToTemp, Stop
    <3>. QED  BY <2>6, <3>1
  <2>9. CASE Clean
    <3>1. pc = Path[9] /\ (pc' \in {"blame", "raised"} \/ Go(Path[8]))
      BY <2>3, <2>5, <2>9 DEF Clean, Lost, Stop
    <3>. QED  BY <2>6, <3>1
  <2>10. CASE Compile
    <3>1. pc = Path[8] /\ (pc' \in {"blame", "raised"} \/ Go(Path[7]))
      BY <2>3, <2>5, <2>10 DEF Compile, Lost, Stop
    <3>. QED  BY <2>6, <3>1
  <2>11. CASE Run
    <3>1. pc = Path[7] /\ (pc' \in {"blame", "raised"} \/ Go(Path[6]))
      BY <2>3, <2>5, <2>11 DEF Run, Lost, StopByWords, Stop
    <3>. QED  BY <2>6, <3>1
  <2>12. CASE MakeCoverage
    <3>1. pc = Path[6] /\ (pc' \in {"blame", "raised"} \/ Go(Path[5]) \/ Go(Path[2]))
      BY <2>3, <2>5, <2>12 DEF MakeCoverage, Lost, Stop
    <3>. QED  BY <2>6, <3>1
  <2>13. CASE List
    <3>1. pc = Path[5] /\ (pc' \in {"blame", "raised"} \/ Go(Path[4]))
      BY <2>3, <2>5, <2>13 DEF List, StopByWords, Stop
    <3>. QED  BY <2>6, <3>1
  <2>14. CASE Fetch
    <3>1. pc = Path[4] /\ (pc' \in {"blame", "raised"} \/ Go(Path[3]))
      BY <2>3, <2>5, <2>14 DEF Fetch
    <3>. QED  BY <2>6, <3>1
  <2>15. CASE RemoveTemp
    <3>1. pc = Path[3] /\ (pc' \in {"blame", "raised"} \/ Go(Path[2]))
      BY <2>3, <2>5, <2>15 DEF RemoveTemp
    <3>. QED  BY <2>6, <3>1
  <2>16. CASE Process
    <3>1. pc = Path[2] /\ pc' \in {"blame", "raised"}
      BY <2>3, <2>5, <2>16 DEF Process, Processed, NotProcessed
    <3>. QED  BY <2>6, <3>1
  <2>17. CASE Blame
    <3>1. Leads(1, 0)
      BY <2>5, <2>17 DEF Blame, RunOnceMore, Raise, Leads
    <3>. QED  BY <2>1, <3>1
  <2>. QED  BY <1>2, <2>7, <2>8, <2>9, <2>10, <2>11, <2>12,
               <2>13, <2>14, <2>15, <2>16, <2>17 DEF Step
<1>. QED  BY <1>1, <1>2, PTL DEF Spec
=============================================================================
