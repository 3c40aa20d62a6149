----------------------------- MODULE CoverageCC -----------------------------
(***************************************************************************)
(* Measuring C and C++ tests: the calls of get_coverage_cc, with           *)
(* _get_coverage_cc and execute_makefile (utils/get_coverage_cc.py), in    *)
(* one work directory.                                                     *)
(*                                                                         *)
(* A call runs the make targets clean, compile, run and coverage either in *)
(* the work directory itself or, with --ssh, in a temporary directory of   *)
(* another machine; there every command can also lose its connection.      *)
(* Calls come one after the other, of the same agent or of later ones on   *)
(* the same directory, so each chooses its mode.  A call that raises ends  *)
(* its agent; the next one starts in a process of its own.                 *)
(*                                                                         *)
(* A test is the number of the call that brought it and whether the code   *)
(* has since commented a crashing case out of it.  A coverage.info file is *)
(* the test whose run it records, and whether process_coverage_info can    *)
(* read it.                                                                *)
(***************************************************************************)
EXTENDS Integers

CONSTANTS
    MaxCalls,   \* bound: calls considered
    Modes       \* values of ssh a call may have

ASSUME CallsAssumption == MaxCalls \in Nat /\ Modes \subseteq BOOLEAN

VARIABLES
    calls,    \* calls made so far
    ssh,      \* the mode of the call under way
    pc,       \* what execute_makefile and get_coverage_cc do next
    cwd,      \* "home" or "work": the process' current directory
    test,     \* the test file in the work directory
    info,     \* coverage.info in the work directory, or NoFile
    temp,     \* coverage.info in the call's remote directory, or NoFile
    remote,   \* the call has a remote directory
    leaked,   \* calls whose remote directory was left behind
    result,   \* what the last call reported
    trouble,  \* calls that failed or lost a command
    fetched   \* some call has copied a remote coverage.info here

files == <<test, info, temp>>
dirs == <<remote, leaked>>
ghosts == <<trouble, fetched>>
vars == <<calls, ssh, pc, cwd, files, dirs, result, ghosts>>

NoTest == [call |-> 0, masked |-> FALSE]

Info(of, good) == [of |-> of, good |-> good]
NoFile == Info(NoTest, FALSE)

\* A report: the test its coverage is of (NoTest: none), the test its log is
\* of, whether the log was recognised as an error to fix (fix_this), and
\* whether it tells of a core dump.
Report(of, log, fix, core) == [of |-> of, log |-> log, fix |-> fix, core |-> core]
NoReport == Report(NoTest, NoTest, FALSE, FALSE)

Init ==
    /\ calls = 0
    /\ ssh = FALSE
    /\ pc = "idle"
    /\ cwd = "home"
    /\ test = NoTest /\ info = NoFile /\ temp = NoFile
    /\ remote = FALSE
    /\ leaked = {}
    /\ result = NoReport
    /\ trouble = {}
    /\ fetched = FALSE

\* Mutated form of LeaveRemote: an early return keeps its directory at hand.
LeaveRemoteAtHand == UNCHANGED <<remote, leaked>>

\* The call found out nothing about coverage.  A remote directory is left
\* behind: only the end of execute_makefile removes it.
LeaveRemote ==
    /\ remote' = FALSE
    /\ leaked' = IF remote THEN leaked \cup {calls} ELSE leaked

\* Return {} and the logs: on to the search for a core dump.
Return(fix, core) ==
    /\ result' = Report(NoTest, test, fix, core)
    /\ pc' = "blame"
    /\ cwd' = "home"
    /\ LeaveRemote
    /\ trouble' = trouble \cup {calls}
    /\ UNCHANGED <<calls, ssh, fetched>>

Stop(fix, core) == Return(fix, core) /\ UNCHANGED files

\* fix_this is looked for in the words of the log, a core dump, too: where it
\* holds what the test wrote, they may say anything.
StopByWords == \E fix, core \in BOOLEAN : Stop(fix, core)

\* An exception nobody catches, or fatal_error, ends the agent.
Raise ==
    /\ result' = NoReport
    /\ pc' = "raised"
    /\ LeaveRemote
    /\ trouble' = trouble \cup {calls}
    /\ UNCHANGED <<calls, ssh, cwd, files, fetched>>

\* On to the next step.
Go(step) == pc' = step /\ UNCHANGED <<calls, ssh, result>>

\* coverage.info where the make targets run becomes i.
SetBuilt(i) ==
    /\ temp' = IF ssh THEN i ELSE temp
    /\ info' = IF ssh THEN info ELSE i
    /\ UNCHANGED test

-----------------------------------------------------------------------------
(* The call, and the remote directory it works in.                         *)

\* The coverage node writes the test of this iteration and makes the call.
Call ==
    /\ pc \in {"idle", "raised"}
    /\ calls < MaxCalls
    /\ calls' = calls + 1
    /\ ssh' \in Modes
    /\ test' = [call |-> calls', masked |-> FALSE]
    /\ cwd' = IF pc = "raised" THEN "home" ELSE cwd
    /\ pc' = IF ssh' THEN "mktemp" ELSE "clean"
    /\ UNCHANGED <<info, temp, dirs, result, ghosts>>

MakeTemp ==
    /\ pc = "mktemp"
    /\ \/ /\ remote' = TRUE
          /\ Go("copy")
          /\ UNCHANGED <<cwd, files, leaked, ghosts>>
       \/ Stop(FALSE, FALSE)

\* cp -rf of the work directory, with what it holds.
CopyToTemp ==
    /\ pc = "copy"
    /\ \/ /\ temp' = info
          /\ Go("clean")
          /\ UNCHANGED <<cwd, test, info, dirs, ghosts>>
       \/ Stop(FALSE, FALSE)

-----------------------------------------------------------------------------
(* The make targets, in the work directory.                                *)

\* A command that cannot be run: over ssh its output is None then, and the test
\* for "Number of failures" in it raises TypeError; locally subprocess.run raises,
\* and fatal_error exits.
Lost == Raise

Clean ==
    /\ pc = "clean"
    /\ \/ /\ SetBuilt(NoFile)
          /\ cwd' = "work"
          /\ Go("compile")
          /\ UNCHANGED <<dirs, ghosts>>
       \/ Stop(FALSE, FALSE)
       \/ Lost

\* An error of the makefile is to be fixed; "error" in a warning stops, too.
Compile ==
    /\ pc = "compile"
    /\ \/ Go("run") /\ UNCHANGED <<cwd, files, dirs, ghosts>>
       \/ \E fix \in BOOLEAN : Stop(fix, FALSE)
       \/ Lost

\* The test ends, dumps core, or stops before it prints "Number of failures";
\* the makefile ignores its status.
Run ==
    /\ pc = "run"
    /\ \/ Go("coverage") /\ UNCHANGED <<cwd, files, dirs, ghosts>>
       \/ StopByWords
       \/ Lost

\* gcov and lcov make coverage.info.  An "error" in what they warn of stops the
\* call beside the file; the message "stopping at make coverage because of an
\* error" is itself a line that asks for a fix.
MakeCoverage ==
    /\ pc = "coverage"
    /\ \/ /\ \E good \in BOOLEAN : SetBuilt(Info(test, good))
          /\ \/ /\ Go(IF ssh THEN "ls" ELSE "process")
                /\ UNCHANGED <<cwd, dirs, ghosts>>
             \/ \E core \in BOOLEAN : Return(TRUE, core)
       \/ \E core \in BOOLEAN : Stop(TRUE, core)
       \/ Lost

-----------------------------------------------------------------------------
(* Back from the remote directory.                                         *)

\* Joining the logs raises TypeError when the connection was lost.
List ==
    /\ pc = "ls"
    /\ \/ Go("fetch") /\ UNCHANGED <<cwd, files, dirs, ghosts>>
       \/ StopByWords
       \/ Raise

\* Only files the work directory does not have are copied, and the result of
\* copy_from_remote is not looked at.
Fetch ==
    /\ pc = "fetch"
    /\ Go("rm")
    /\ \/ info # NoFile /\ UNCHANGED <<info, ghosts>>
       \/ info = NoFile /\ info' = temp /\ fetched' = TRUE /\ UNCHANGED trouble
       \/ info = NoFile /\ UNCHANGED <<info, fetched>> /\ trouble' = trouble \cup {calls}
    /\ UNCHANGED <<cwd, test, temp, dirs>>

\* Mutated form of LeakedAfterRemoval: the remote directory is kept.
LeakedAfterNoRemoval == leaked \cup {calls}

\* rm -rf of the remote directory leaves none behind.
LeakedAfterRemoval == leaked

\* The result of the command is not looked at, either.
RemoveTemp ==
    /\ pc = "rm"
    /\ remote' = FALSE
    /\ \/ leaked' = LeakedAfterRemoval /\ UNCHANGED trouble
       \/ leaked' = leaked \cup {calls} /\ trouble' = trouble \cup {calls}
    /\ Go("process")
    /\ UNCHANGED <<cwd, files, fetched>>

-----------------------------------------------------------------------------
(* The report.                                                             *)

\* Mutated form of InfoAfter: the work directory is not cleaned at the end.
InfoAfterKept == info

\* A local call ends with make clean; a remote one leaves what it copied.
InfoAfter == IF ssh THEN info ELSE NoFile

\* Mutated form of CwdAfter: the current directory is restored on errors only.
CwdAfterWork == "work"

CwdAfter == "home"

\* process_coverage_info has read coverage.info.  The log of a test that ended
\* may hold the words of an error or a core dump, too.
Processed ==
    /\ pc = "process"
    /\ info.good
    /\ \E fix, core \in BOOLEAN : result' = Report(info.of, test, fix, core)
    /\ info' = InfoAfter
    /\ cwd' = CwdAfter
    /\ pc' = "blame"
    /\ UNCHANGED <<calls, ssh, test, temp, dirs, ghosts>>

\* There is none, or it cannot be read: FileNotFoundError or ValueError.
NotProcessed ==
    /\ pc = "process"
    /\ ~info.good
    /\ Raise

Process == Processed \/ NotProcessed

\* Mutated form of RunOnceMore: the call starts again after a core dump.
RunOnceMoreOnCore(core) == core

\* run_once_more is set to FALSE before it is looked at.
RunOnceMore(core) == FALSE

\* After a core dump get_coverage_cc comments the case out that printed the
\* last "Test ...:" line, unless a CRASH stands there already; when it finds
\* no such line or no call after it, it raises NameError (verbose).
Blame ==
    /\ pc = "blame"
    /\ \/ /\ result.core => test' \in {test, [test EXCEPT !.masked = TRUE]}
          /\ ~result.core => test' = test
          /\ pc' = IF ~RunOnceMore(result.core) THEN "idle"
                   ELSE IF ssh THEN "mktemp" ELSE "clean"
          /\ UNCHANGED <<calls, ssh, cwd, info, temp, dirs, result, ghosts>>
       \/ result.core /\ Raise

Step ==
    \/ MakeTemp \/ CopyToTemp \/ Clean \/ Compile \/ Run \/ MakeCoverage
    \/ List \/ Fetch \/ RemoveTemp \/ Process \/ Blame

Next == Call \/ Step

\* Commands end; whether another call is made is up to the agent.
Spec == Init /\ [][Next]_vars /\ WF_vars(Step)

-----------------------------------------------------------------------------
(* Properties.                                                             *)

TestSet == [call : 0 .. MaxCalls, masked : BOOLEAN]
InfoSet == [of : TestSet, good : BOOLEAN]
Returned == pc = "idle" /\ calls > 0
Measured == result.of # NoTest

\* Type invariant: the files, the report and the accounts of a directory; a
\* call that is over has no remote directory at hand.
TypeOK ==
    /\ calls \in 0 .. MaxCalls
    /\ ssh \in BOOLEAN
    /\ pc \in {"idle", "raised", "mktemp", "copy", "clean", "compile", "run",
               "coverage", "ls", "fetch", "rm", "process", "blame"}
    /\ cwd \in {"home", "work"}
    /\ test \in TestSet /\ info \in InfoSet /\ temp \in InfoSet
    /\ remote \in BOOLEAN
    /\ remote => ssh /\ pc \notin {"idle", "raised", "mktemp", "process", "blame"}
    /\ leaked \subseteq 1 .. MaxCalls
    /\ result \in [of : TestSet, log : TestSet, fix : BOOLEAN, core : BOOLEAN]
    /\ trouble \subseteq 1 .. MaxCalls
    /\ fetched \in BOOLEAN

\* However a call returns, from whichever of its early returns, the process is
\* back in the directory it was in: the agent goes on with relative paths.
CwdRestored == pc = "idle" => cwd = "home"

\* Coverage of another test than the one just run is reported by a remote call
\* only, and it is of a coverage.info that nothing has removed: one a remote call
\* has copied, or one of a call that stopped beside it at make coverage.  Other
\* calls clean up behind them.
StaleOnlyAfterRemote ==
    Returned /\ Measured /\ result.of # result.log =>
        ssh /\ (fetched \/ result.of.call \in trouble)

\* Remote directories are left behind only by calls that failed or lost a
\* command.
LeakOnlyInTrouble == leaked \subseteq trouble

\* Every call returns or raises.
CallsEnd == []<>(pc \in {"idle", "raised"})

\* What execute_makefile says it returns: which lines were covered by the run
\* whose logs it returns.
FreshCoverage == Returned /\ Measured => result.of = result.log

\* What get_coverage_cc says: after a core dump the test is commented out and
\* run again, so that the report is of the test file as it has become.
RunsMaskedTest == Returned => result.log = test
=============================================================================
