# UnitTenX in TLA+

UnitTenX is an agent that generates unit tests for legacy C, C++ and Python
code. A LangGraph workflow asks a language model for a test, builds and runs it,
measures its coverage, and asks the model for a review of the test, until a
number of iterations has been made. Around the workflow stand a client that
calls the model with timeouts, a runner that drives `make` locally or over ssh,
a generator of mock-ups that cuts a function out of its project, and wrappers
of static analysers.

This directory holds TLA+ modules of the parts of it that keep state, TLC
configurations that check them on small instances, and theorems about them with
proofs for TLAPS. Paths and line numbers below are those of the repository,
under `src/UnitTenX/` unless said otherwise. `PROJECT.json` maps every
definition to the lines it translates.

Contents: [inventory](#inventory), [modules](#the-modules),
[runs](#what-the-runs-show), [disagreements found](#disagreements-found),
[proofs](#what-is-proved), [only model-checked](#what-is-only-model-checked),
[not modelled](#what-is-not-modelled), [plan](#plan).

## Inventory

### Agent workflow: `agent.py`, `utils/state.py`, `utils/nodes.py`

- *State*: `AgentState`, a dictionary LangGraph passes from node to node, with
  the test, the log of its coverage run, the list of reviews, the messages
  exchanged with the model, `number_of_iterations` and
  `max_number_of_iterations`; a checkpoint of it after every node
  (`MemorySaver`); the files under `<work>/logs`.
- *Operations*: the nodes `implied_functions`, `symbolic`, `unit_test`,
  `coverage`, `reflection`; the edges `has_symbolic_test` and
  `should_continue`; `run`, which invokes the graph, recovers from
  `GraphRecursionError`, and writes the reviews and prompts.
- *Interactions*: all nodes but `coverage` call the model client; `coverage`
  writes the test file, calls `get_coverage_cc` or `get_coverage_python` and
  reads the test file back; `symbolic` runs ESBMC.
- *Hard*: the loop ends on three conditions at once, one of them read off words
  in a log; iterations that are "disregarded" move the bound; LangGraph's own
  limit cuts the loop anywhere; the recovery picks a checkpoint from a history.
- *Correct when*: the budget of iterations is kept; every test is reviewed once,
  with its own log; the run ends; what it writes belongs together.

### Model client: `utils/model.py`, `fatal_error` of `utils/utils.py`

- *State*: per call, a future of a worker thread, a count of retries, the time
  of the start.
- *Operations*: `GetModel.invoke`: submit, wait with a timeout, pause, give up;
  `fatal_error`, which raises `SystemExit` inside the executor's `with`.
- *Hard*: a caller, a worker and a clock; an answer that arrives while the wait
  times out; pauses that grow as powers; a request that never ends.
- *Correct when*: a call ends within its timeout, never returns `None` for a
  response, and tries again what it says it tries again.

### Coverage of C and C++: `utils/get_coverage_cc.py`

- *State*: the work directory (test file, `coverage.info`, objects), the
  process' current directory, with `--ssh` a temporary directory on another
  machine.
- *Operations*: `generate_makefile`, `execute_makefile` (clean, compile, run,
  coverage, each with an early return), `process_coverage_info`,
  `_get_coverage_cc` (the verdict `fix_this`), `get_coverage_cc` (core dumps:
  find the test case to blame and comment it out).
- *Hard*: one command of many failing; a lost connection half-way; files left by
  earlier calls; a report and a test file that must still agree.
- *Correct when*: the report is of the test just run, the current directory is
  restored on every path, nothing is left behind, lines are reported of the
  function they belong to.

### Coverage of Python: `utils/get_coverage.py`

`get_coverage_python` runs `coverage` in a shell, and reads `coverage.json`. No
state between calls. What its log can tell the workflow is part of `Agent`.

### The generated test at run time: prescribed in `utils/nodes.py` 489-805

- *State*: `main`'s position, one thread per test case, the number of failures,
  which all of them increment without a lock, the lines printed.
- *Operations*: announce a case, run it in a detached thread, wait with a
  timeout, count failures; after a crash, `get_coverage_cc` 608-673 finds the
  last case announced and comments it out.
- *Hard*: a case that timed out goes on beside the next ones and may crash,
  print, or end the process at any time.
- *Correct when*: the right case is blamed, a test that did not pass prints a
  number of failures that says so, the test ends though the function under test
  hangs.

### Auto mock-ups: `auto_mockup.py`, `scan_c_project.py`

- *State*: a project (functions, globals and callers per file), a YAML cache
  of it, a graph of files with the functions each must provide, the mock-up
  file while its link is being repaired.
- *Operations*: `find_all_functions_using_static_globals` (a fixpoint),
  `scan_recursively` (builds the graph of files), `nx.topological_sort`,
  `generate_code`, `add_to_file`, the loop that compiles and adds what the
  linker misses, `scan_project` with its cache, `update_project`.
- *Interactions*: the Makefile gets a rule per target, which starts the agent;
  the agent looks functions up in `db.yaml` and `info/...`.
- *Hard*: iteration in the order of a dictionary; a graph that may get cycles;
  a repair loop that must make progress; a cache that may be stale or torn; a
  `db.yaml` that holds other names at the start than at the end of a run.
- *Correct when*: the mock-up holds what is called and what shares state with
  the target and no more, callees before callers; a call that links goes where
  the search said; generation ends; `db.yaml` fits the rules.

### Implied graph: `utils/implied_graph.py`

`Traverser` walks the project's calls from the target down to a depth, and
records the functions met; the rest of the file builds call graphs with clang and
`opt`, or with code2flow for Python. Hard: the
bound of a depth-first search with a memory of what was visited. Correct when
all functions within the depth are found.

### Symbolic engine: `utils/symbolic.py`

Runs ESBMC twice, and `parse_examples` collects the counterexamples of both runs
in one list; `has_symbolic_failed` reads off the logs whether they can be
trusted, `parse_cex` makes test cases of them. Hard: two runs that repeat each
other, and errors in the middle of an output. Correct when no counterexample is
asked for twice, or taken from a run that failed.

### Others

- *Remote execution*, `utils/utils.py`: `execute_remote_command`,
  `copy_from_remote` over paramiko; a lost connection returns `None`.
- *VirtualBox control*, `virtualbox.py`: start, stop, ip and alive of a machine.
- *Interface extraction*, `utils/extern_headers.py`, `utils/cpp_flatten.py`,
  `utils/interfaces.py`: tree walks and text rewriting.
- *Prompts and token estimate*, `utils/prompts*.py`, `utils/estimate_tokens.py`.
- *Makefiles and batch tools*, `make_header.py`, `make_tail.py`,
  `get_all_coverage.py`, `scripts/`.
- *C++ to C translation*, `cxx2c.py`: one call of the model.
- *Analysis scripts* for a paper, and the vendored program `djbdns`.

## The modules

| Module | Of | Proofs |
| --- | --- | --- |
| `IterationBudget` | what the loop promises, abstractly | |
| `Agent` | the workflow | `Agent_proofs` |
| `ModelClient` | one call of the model | `ModelClient_proofs` |
| `CoverageCC` | the coverage calls on one work directory | `CoverageCC_proofs` |
| `CoverageReport` | the same, with the lines they report | (in `CoverageCC_proofs`) |
| `TestHarness` | a generated test and its crash handling | `TestHarness_proofs` |
| `StaticGlobals` | the fixpoint over static globals | `StaticGlobals_proofs` |
| `CSource` | what the scanner sees in a C file | |
| `ProjectScanner` | the scan of a project and its cache | (in `AutoMockup_proofs`) |
| `MockupOrder` | which functions of which files a mock-up needs | (in `AutoMockup_proofs`) |
| `AutoMockup` | runs of `auto_mockup.py`, with the two above inside | `AutoMockup_proofs` |
| `CallTraversal` | `Traverser`'s search | `CallTraversal_proofs` |
| `CounterExamples` | what is read in ESBMC's output (operators) | |
| `Preparation` | the nodes before the loop, with the two above inside | (in `CallTraversal_proofs`) |
| `Induction` | recursion and induction in a form the provers can use | (lemmas) |

`MC*` modules extend them for TLC; every bound and constant is set in a `.cfg`.
Operators named "Mutated form of ..." stand for a plausible mistake in the
code; `PROJECT.json` says which property each of them breaks.

### `IterationBudget` and `Agent`

One action per node: LangGraph runs one node at a time and a handler reads the
state its predecessor left, so a handler is one step. `Finish`,
`GraphRecursion`, `Abort` and `WriteLogs` are the ends of `graph.invoke` and
what `run` does then. The fields of `AgentState` the loop reads keep their
names. What a language model writes is abstracted: a test is the number of its
generation, a log is the record of what the handlers look for in it (of which
test, `fix`, `core`), a review is the test and log it was asked
about, a message its role and the node that sent it.

`CoverageLogs` lists the logs the two coverage functions can return. For C and
C++, `fix` and `core` are words looked for in a log that also holds what compiler
and test have written (`utils/get_coverage_cc.py` 554-562, 608), and for Python
whatever the shell prints to stderr counts: no combination is excluded, and
`CoverageCC` reports them all.

`RecursionLimit` is 25 in the runs: `agent.py` 190 passes `recursion_limit`
inside `"configurable"`, where LangGraph does not read it, so its default holds.
Whether a limit reached together with the end of the graph is reported as
recursion is left open.

`Agent` refines `IterationBudget` under the mapping `Promise`: `owed` is the
maximum minus the iterations made, corrected by one between `coverage` and
`reflection`, where the maximum has been raised for an iteration still under
way. A run cut by LangGraph maps to "aborted".

### `ModelClient`

The caller, the request and the clock. The request is sent once, in `Init`
(`executor.submit`), and may end in any way at any time, or never. `Tick` lets
a second go by unless somebody who is due is already `Slack` seconds late: the
urgency a scheduler gives. `Fatal` does not end the process: `SystemExit` is
raised inside `with ThreadPoolExecutor`, whose exit joins the worker (`Exit`).

### `CoverageCC`

The steps of `execute_makefile` and of what surrounds it, each of which may go
on, stop at an early return (`Stop`), or raise (`Raise`): over ssh a command
may lose its connection, locally it may not start (`Lost`). Calls follow each
other in one directory and choose their mode; the current directory, the test
file, `coverage.info`, and the remote directories live on between calls. A
call that raises ends its agent, and the next runs in a new process.

A `coverage.info` is the record of the test whose run it is of and of whether
`process_coverage_info` can read it (`Info`): that is settled when lcov writes the
file, so one that raised `ValueError` raises again. `MakeCoverage` may write
it and stop beside it: lcov's warnings hold the word "error". Whether a
report is to be fixed or tells of a core dump is read off words of the log, which
holds the output of the test too, and so is left open (`StopByWords`, `Processed`).

### `CoverageReport`

The same steps, and what the last of them makes of `coverage.info`. Its contents
are abstracted to the functions in the order lcov gives them, their first lines
and, with versions of lcov that give them, their last ones, which were called
and which lines were executed. `Entries` and `Function` are the dictionary of
`process_coverage_info`, where functions whose names agree up to the first
comma share an entry; `Estimate` and `Place` are the arithmetic of
`_get_coverage_cc` (487-521), which takes the estimate from the list of first
lines as made (`lo`) and looks it up in the sorted one (`los`). A name with
commas without last lines is read as a number, and raises `ValueError`
(`Readable`). What a file holds is chosen when it is first read, and stays as long
as the file does (`content`).

### `TestHarness`

`main` and a thread per case, from the skeleton the `unit_test` node gives the
model (`run_with_timeout`, `test_case_<n>`, `main`), for tests that follow it;
then `get_coverage_cc`'s search for the case to blame, and the next iteration's
test, which keeps what was commented out. Functions under test are external:
they return, throw, hang, exit, or crash. What they return is checked by their
case: a check that fails increments `number_of_failures` itself and throws
(`utils/nodes.py` 567-574), and `main` increments it again for what it catches
(640-643).

The counter is taken for the global variable that 567 speaks of; the example of
`main` declares one of its own (636), in which no case could count. It has no
lock, so that an increment is a read and a write (`CatchReads`, `CatchWrites`,
`CheckReads`, `CheckWrites`), and that of a late case may come between those of
`main`, or those of `main` between its own: one of the two is lost.

### `StaticGlobals`

The passes of `find_all_functions_using_static_globals` over a file, which is
arbitrary: any uses of any variables, any of them static. The order in a pass
is left open. `utils/symbolic.py` 442-476 has a copy of the function, which
differs in not starting from the target itself. `AutoMockup` does not run the
loop: it takes `SharingStatics`, and the theorem `LoopFindsSharing` is what
justifies that.

### `CSource`, `ProjectScanner`, `MockupOrder`, `AutoMockup`

Each extends the one before; `AutoMockup` is the program. Its `Step` holds the
scanner's steps and those of the search as they are, with the variables of the
others unchanged, so that it refines `ProjectScanner` without a mapping.

- `CSource` gives each file in each version as the record of what the visitors
  of `scan_c_project.py` look for, and what they make of it: `GlobalsUsed` is
  what `visit_ID` and `visit_Assignment` record (the latter does not look into
  `*p`, `a[i]` or `s.f` on the left side), `Outcome` how `get_functions` ends.
  `SharingStatics` is what the loop of `StaticGlobals` comes to (`LoopFindsSharing`).
- `ProjectScanner`: lookup, sanity check, reading of the files, and the cache
  written in place, part by part; the process may stop anywhere (`ScanOver`), and
  files change between runs (`Edit`; other flags count as another text). A
  database is the version each file was read in, and the names under
  `'functions'`, which an interrupted dump may lack (`CutOff`).
- `MockupOrder`: `scan_recursively` as a stack of frames, one step per callee,
  in any order, as callees come from a Python set; then the sort. Nodes of the
  graph are the files themselves.
- `AutoMockup`: `create_work`, then for each target search, paste, repair and
  rule; the end of a run with `update_project`. A mock-up is the functions
  pasted and how often each file was. `Symbol` is the name a name stands for
  after `generate_code` has replaced static names and `main` (`Replaced`: all of a
  file but a static target's own, unless the file is `Nested` in a directory
  below the project's). `redirect__globals` accumulates over the targets of a run as
  pairs of a file and a name, and `update_project` applies all of it to `db.yaml`
  at the end. Compiler and
  linker are external: they miss what is `Needed` and not `Defined`, and the
  compiler's complaints come before the linker's. If the database is of other
  texts than those on disk, lines are cut at the wrong places and anything may
  be reported (`Fits`).

  It is assumed that the program is started as its documentation does, from the
  directory above the project with a relative name: otherwise `find_c_files`
  and `scan_project` name the files differently, and targets end in a `KeyError`.

### `CallTraversal`, `CounterExamples`, `Preparation`

`Preparation` opens the two nodes that `Agent` takes as one step each.
`CallTraversal`'s `Visit` is `__traverse`, whose recursion is a stack.
`CounterExamples` holds operators on outputs of ESBMC: traces of assignments,
the lines with `ERROR:`, and whether the last line is cut off. The deep
comparison of counterexamples (`is_same`) is equality of values. `ReadSource`
keeps the interface of the code if the call of the model fails in any way: the
bare `except` at `utils/nodes.py` 359 takes `SystemExit` too.

## What the runs show

Every passing run explores its state space completely.

**`agent`** (`MCAgent.cfg`, 534,412 states). Budget 2, limit 25, targets in
C, C++ and Python. Eight iterations fit in 25 nodes, so that disregarded ones, iterations
that go beyond the budget because of a core dump, a symbolic test that skips
`unit_test`, and `GraphRecursionError` at every point of an iteration all
occur.
- `BudgetKept`: a run that ends by itself made its iterations, and its last test
  built and did not crash.
- `ReviewedInOrder`: no node sees a log of another test than the one at hand.
- `LogsTogether`: prompts and reviews written belong to one checkpoint.
- `Termination`: whatever the tests do, logs are written or the run has aborted.
- `KeepsPromise`: refinement of `IterationBudget`.

**`model_client`** (7,520 states). The defaults of `GetModel.__init__` (5
retries, factor 2, 60 s), with a slack of 2 s, so that pauses and waits end
late by different amounts.
- `GivesUpInTime`: past the timeout a call is over or giving up; the request that
  itself raises `TimeoutError` is excepted, as that handler compares only the
  time gone by.
- `NoneOnlyAfterTimeout`: `None` is returned after such a request only. It rests
  on numbers: with the defaults the pauses exceed the timeout before retries run
  out. A smaller factor or fewer retries would break it.
- `RetriesInVain`: only a call without retries returns an answer.
- `Ends`: the call ends, or the process waits for the worker's request alone.

**`coverage`** (`MCCoverageReport.cfg`, 1,097,699 states). Three calls in any mix of
modes: one that leaves something behind, one that meets it, and one of the
other mode; over a file of three to four functions, two of them instances of a
template on the same lines, or two of them overloads whose names have a comma,
in 36 orders, with last lines and without, called in three ways.
- `CwdRestored`: an early return goes home, whichever it is.
- `StaleOnlyAfterRemote`: coverage of another test is reported remotely only, and
  is of a file that was copied back or left by a call that stopped beside it.
- `LeakOnlyInTrouble`: a call without trouble leaves no remote directory. One that
  stops early does, and it may.
- `CallsEnd`: every call returns or raises.
- `ReportsOwnLines`: with last lines, or with the functions in the order of the
  file and none beginning on one line with another, what is reported of a
  function is its own, nothing of it that was reached, and all that was not
  above its last line. In other orders this does not hold, see below.

**`harness`** (102,604 states). Three cases (one late, one beside it, one between)
in three runs (two core dumps, and a run with both cases commented out).
- `BlameRightUnlessLate`: a wrong case is blamed only if the crashing one had
  timed out before.
- `DumpsMaskCases`: without timeouts, each core dump comments out one more case,
  so that the test comes to run.
- `FailuresCounted`: 0 is printed just if all cases passed, in spite of the data
  race; the number is at most one per case that did not pass and one per failed
  check, and exactly that if no case is late. It is not the number of test cases that
  failed: see below.
- `RunEnds`: `main` ends, or the process, though a case hangs. An exception of
  `get_coverage_cc` is an end too: see below.

**`static_globals`** (1,740,000 states). All files of three functions and three
variables; a variable two functions away takes two passes in the wrong order.
- `NothingTooMuch`, `NothingMissed`: what is found is the least closed set, in
  any order; `Terminates`.

**`auto_mockup`** (`MCAutoMockup.cfg`, 75,927 states). A project of three files in
two versions each: two files call each other in one version of one of them, two
have a function of the same name and conflicting declarations, one variable is
declared and never defined, one version of a file does not compile, and one trips
the scanner up. Any file is edited between runs; runs go over all files or one,
over all functions or one that was asked for (`Asked`: one that a single file
has, and one that calls others); each run may be interrupted anywhere; of the
functions a cut-off dump may have written there are two sets (`CutOff`: one that
ends within the functions of a mock-up, one that holds all its callees).
- `SaneAnswer`: what an answer of the scanner may be, after any interruptions.
- `KeptReachable`, `CalleesComeFirst`, `TargetComesLast`: nothing unneeded is
  kept, nothing needed missing, and what is called is pasted above its callers.
- `FailsForAReason`: targets are skipped for the listed reasons only, a circle of
  files being one; a graph with an edge too many would add others.
- `SharersKept`: unless a function only stores through a static variable, as
  `q` does in file A, those that share state with the target are in its mock-up.
- `LinksChosen`: of projects in which what is static in one file has not the name
  of a function or variable of another (`NamesApart`, which TLC evaluates for
  this project). In other projects a call may link with such a function.
- `NamesAgree`: a run that comes to its end leaves a `db.yaml` with the names that
  each of its mock-ups has, whatever targets came before; only a static target
  has two. It says nothing of runs that do not end so: see below.
- `RunEnds`: every run ends, or is stuck for good (`[]Stuck`): what the linker
  misses is a variable that one file declares and none defines, or
  the database is of other texts than those on disk. A repair that can bring what
  is missing is not stuck.

**`preparation`** (37,384 states). 64 call graphs of four functions, depth 2, so that
a function may be met at the bottom first and above it later, in a circle, or
not at all; every pair of six outputs of ESBMC.
- `FoundWithinDepth`, `CalleesFound`: what the traversal finds, and what it may
  miss.
- `CasesTrusted`: no counterexample twice, none made up, none of a failed run,
  but for the error line that ends an output without a newline.

The bounds `MaxCalls`, `MaxRuns` only end the exploration; `NumCases`,
`MaxIterations`, `RecursionLimit`, `MaxRetries`, `Timeout` are parameters of
the program. Where a theorem states the same property, it holds for all of
their values.

### Fairness

- `Agent`: `WF_vars(Next)`: `graph.invoke` calls node after node, and a node
  returns. That a node returns is an assumption: `ModelClient` shows where it
  may not, when a request hangs.
- `ModelClient`: weak fairness of the caller's thread and of time. None of the
  request: it may never end.
- `CoverageCC`: commands end (`WF_vars(Step)`). The generated test ends by
  `RunEnds`; compilers and ssh are assumed to. No fairness of `Call`.
- `TestHarness`: `main` runs and its timeouts expire (`WF_vars(Main)`), and
  `get_coverage_cc` runs after a core dump. None of the cases' threads.
- `StaticGlobals`: a sequential loop runs on.
- `AutoMockup`: `WF_vars(Step)`: a run goes on, and compilers end. None of `Run`,
  `Off` and `EditFile`: nobody needs to start, kill or edit anything. The choice
  of the target that comes next is fixed, as by the lists of the code.
- `Preparation` states no liveness.

## Disagreements found

Each has a run of its own, in which TLC shows the code do otherwise than a
comment or document says.

- `agent_core_dump`: `utils/nodes.py` 981-983 says an iteration that "failed
  compilation or caused core dump" is disregarded. In C and C++ a core dump
  leaves `fix_this` unset, and the iteration is paid for.
- `model_retry`: the retries announced in `RELEASE.txt` and in the message of
  `utils/model.py` 116 wait for the future that has already failed; nothing is
  sent again.
- `coverage_stale`: over ssh, only files the work directory lacks are copied
  back, and `coverage.info` is never removed: later remote calls report the
  coverage of the first test.
- `coverage_rerun`: the docstring of `get_coverage_cc` says that after a core
  dump the test is run again; `run_once_more` never becomes `True` again.
- `harness_blame`: a case that timed out crashes while the next one is under
  way, and the next one is commented out as the crash.

Of these only `coverage_stale` is listed as a bug of the code; the others are
listed as documents and code that disagree.

### Seen in the models, without a run of their own

These are consequences of the code as it is translated; the properties above
are stated so that they hold in spite of them.

- A mock-up that keeps `main` never links by itself: `generate_code` renames
  `main` (`auto_mockup.py` 247-253), and the command for it leaves out
  `i_main.c` (621-631). The repair pastes `main` again, and gives up.
- A variable that is declared in one file and defined in none is added for ever
  (620, 689): `Stuck`.
- A run that dies leaves rules in the Makefile and a `db.yaml` of source names:
  `exit()` for conflicting types (652), `AttributeError` for a variable declared
  in several files (362), the debugger's prompt for `config[name]` (667, where
  `config[fn][name]` was tested). A new run overwrites a good `db.yaml` with
  source names first (455) and renames at its end only what it has made itself.
- `stop_on_error` has no effect on an answer from the cache, and errors other
  than `ValueError` end the scan though it was not given.
- A static target in a directory below the project's is renamed in its mock-up,
  against the docstring (204): its new name, made with the base name of the file
  (249), is compared with the path that the rule asks for (250).
- A static target keeps its name in its own mock-up, while `db.yaml`, if any other
  target's mock-up has renamed it, holds the new one in the lists of its callers (253,
  533-535) and both at its own entry: the exception in `NamesAgree`.
- Stores through pointers, arrays and members are not seen as uses of a variable
  (`scan_c_project.py` 220).
- Without last lines from lcov, and functions not in the order of the file, a
  function's range is cut short, empty, or runs over the next ones
  (`utils/get_coverage_cc.py` 501: the estimate is taken from the list that is not
  sorted), against the docstring at 433; when two begin on one line, the first of
  them ends before it begins. C++ names with commas then raise `ValueError` (193),
  and with last lines overloads share an entry.
- A failed check counts twice, once by itself and once by `main`, while
  `utils/nodes.py` 583 asks for a count as in pytest.
- When the case of a core dump is not found, as after a garbled line, `verbose`, which
  `get_coverage_cc` does not have, raises `NameError` (655), where the comment
  leaves it to the model (654).
- A local call that stops at `make coverage`, because lcov warns of an "error",
  leaves the `coverage.info` it made; a later remote call copies it there and does
  not copy the new one back, and reports it as its own.
- A command that loses its connection raises `TypeError` (331), and one that cannot
  be started locally leads to `fatal_error`: either leaves things as they are, a
  remote directory among them.
- `Traverser` may miss functions within the depth (`utils/implied_graph.py` 184,
  against the docstring at 167): it compares the caller's depth with itself.
- Without a usable `db.yaml`, `get_implied_graph_cc` prints what it found and
  ends the process (326), against its docstring.

## What is proved

Every safety property that a passing run checks is stated by a theorem, for every
value of the constants that satisfies the named assumptions of the module; three
theorems have a hypothesis of their own, named below. The theorems are in the
`*_proofs` modules.

**Assumptions.** `MaxIterationsAssumption`, `RecursionLimitAssumption` (at least 4:
one pass up to reflection), `LanguagesAssumption`; `ClientAssumption` (the
parameters of the client are positive); `CallsAssumption`, `ReportAssumption` (a
`coverage.info` lists functions of the file); `HarnessAssumption`;
`FileAssumption`, `TraversalAssumption` (finitely many names); `SourceAssumption`
and those of the scanner and the search, on the shape of a project;
`PreparationAssumption` (the shape of ESBMC's outputs: `cut` only after a line with
`ERROR:`). TLC evaluates all of them.

**`Induction`** has the lemmas that the library states with an operator as a
parameter, which no prover here can instantiate, again for sets and functions:
`LeastNatural` and `NaturalsInSet` (induction on natural numbers),
`RecursionDefines` and `RecursionFollows` (recursion over a well-founded relation,
and over natural numbers, defines a function), `FoldDefines` and `FoldTyped` (so
does the fold of the community modules over an interval), `Totals` (sums), and
`TopologicalOrder`: a finite graph without a circle has an order. Their
hypotheses are behind names such as `Follows` and `FoldInductive`, so that SMT
meets one atom where it would have to guess a quantified formula.

**`Agent_proofs`**
- `TypeCorrect`: `[]TypeOK`.
- `BudgetIsKept`, `ReviewsInOrder`, by an inductive invariant that relates the
  counters to the reviews: `number_of_iterations` is one more than the reviews
  made; `max_number_of_iterations` is the budget plus the reviews marked `fix`
  (plus one between `coverage` and `reflection`); past the loop the last review
  is acceptable. `BudgetKept` alone is not inductive: it says nothing until the
  run is over. The count of reviews is a cardinality, and each append is one
  application of the theorems on finite sets.
- `LogsAreTogether`, by `LogsInv`: at every step the messages are prompts and
  responses in turn, with a prompt of reflection for each review (`Paired`), and
  so is the checkpoint that a recovery takes, which is one without reviews.
- `ImplementsPromise`: initial states and steps map to the promise's, so that
  `Spec => Promise!Spec`. It needs `WantedInv` besides: while a node is still to
  run, the promise has a reason for another iteration.

**`ModelClient_proofs`**
- `RetriesAreInVain`, by `VainInv`: once a retry has been made, the future has
  ended in a rate limit or a timeout, and a future that has ended does not
  change. A wait that times out by itself has used up all the time there is, and
  is never retried.
- `ClientTyped`, `GivesUp`, by `ClientInv`: who waits for a request under way has
  made no retry; a pause begins within the timeout, and is at most as long as
  the longest (`PowerGrows`); and the pauses made so far fit into the time gone
  by (`PausesUpTo`).
- `NoneAfterTimeoutOnly`, from the last part: if the pauses of all retries add up
  to more than the timeout (`PausesOutlastTimeout`), the time is over before the
  retries are. `DefaultsOutlastTimeout`: 2 + 4 + 8 + 16 + 32 > 60, so the defaults
  of `GetModel.__init__` satisfy it. With other values `None` may be returned.

**`CoverageCC_proofs`**
- `ReturnsHome`, `LocalIsFresh`, `LeaksAreTrouble`, `CallsTyped`;
  and `ReportsAreCalls`, by which what is proved of `CoverageCC` holds of
  `CoverageReport` (`ReportsKeep`). The inductive invariant has four named
  parts: where the process is while make does not run (`CwdInv`), the remote
  directories left behind (`LeakInv`), that a `coverage.info` in the work directory
  was fetched by a remote call, is that of a call that stopped or raised beside it,
  or is that of the local call just measured (`InfoInv`), and what a report can be
  of (`StaleInv`). `FreshCoverage` fails just where `InfoInv` has one of its first
  alternatives.
- `LinesAreOwn`, if functions without last lines begin on lines of their own,
  unless they share their range (`OwnLines`). The fold `Entries` is a chain of
  dictionaries, one for each line read (`EntriesChain`), and what the last
  says of a name is what was read of it last (`EntriesAsRead`, `FunctionOf`);
  `Place`, a cardinality, is the position of a first line among the sorted ones
  (`PlaceOf`), and the estimate there the line before the next function (`EndOf`).

**`TestHarness_proofs`**: `TypeCorrect`, `BlameIsRight`, `DumpsAreMasked`,
`CountsFailures`. The invariants: a thread that still runs is main's current case
or has timed out, and the last line printed is that of the case main is at, has
just left, or garbled (`OrderInv`); without timeouts the crashed case is the one
announced and was not masked before (`DumpInv`). Of the counter, `Counted` is what
has been written to it if no increment was lost: one for each case main is past
that did not pass, and one for each failed check. No thread has read more than
that, so none can write more than one above; once something was counted the
counter is not 0 again, as what is written is above what was read; and as long as no
case is late, no two increments overlap, and it is exact (`CountInv`). What is printed
stays right, as main then has left all cases, and late ones can only fail as well
(`PrintInv`). The bound in `TypeOK` follows, since no case is counted more than twice.

**`StaticGlobals_proofs`**: `TypeCorrect`, `FindsNothingTooMuch`,
`MissesNothing`. The last one needs `PassInv`: in a pass that has found nothing
new so far, all functions visited that share a variable are kept and lead
nowhere new. `LoopFindsSharing`: what is found lies in every closed set and is
one, hence it is the set that `SharingStatics` of `CSource` defines, and the
functions kept are those it gives.

**`AutoMockup_proofs`**
- `ScannerTyped`, `AnswersSanely`, of the scanner alone. The invariant says what
  a cache is, whatever was cut off: its files were read without trouble, and
  functions are listed only after all files, and are functions of these
  (`CacheInv`); and that a database on its way to the cache is that of the files
  as they are (`Fresh`).
- `MainUsesScanner`: `Spec => ScanSpec`, step by step, and hence
  `WorksOnSaneAnswers`.
- Most others rest on one inductive invariant, `MockInv`. Of the search
  (`OrderInv`) it says: kept functions are known (`OnlyKnown`); what the target
  shares state with is kept (`Started`); a callee of a kept function is kept or
  waits in the frame of its file (`Pending`); what waits in a frame is
  called in its file (`Called`); each node but the target's has an edge to
  another (`Leads`); every set of kept functions that holds those the target
  starts from, and that calls do not lead out of, holds all (`Reachable`). Of main it
  says that the search's answer is that for the target at hand (`Held`), and
  that the names replaced in a mock-up are among those recorded (`Recorded`).
- `KeepsReachable`, `CalleesAreFirst` and `TargetIsLast` follow when the stack is
  empty: nothing waits. `TargetIsLast` takes the last file of the order, from
  which an edge would lead further if it were not the target's.
  `KeepsSharers` and `MockupTyped` follow at once.
- `RecordsNames`. What is replaced in a file depends on the target, but only by the
  name of the target: `Renamable` is the rest, and does not change with it
  (`RenamableStays`). So the names a run has recorded for a file in any mock-up
  are, but for a static target's own, those replaced in each of them (`Recorded`, `RenamesStay`).
- `SearchFailsForAReason`. The search fails while it visits a file, for a reason
  that is read off its guards, or at the sort. There `Linked` says that edges
  join nodes and none joins a file to itself, and `TopologicalOrder` that a graph
  of which no order exists holds a circle.
- `CallsTheChosen`, under `NamesApart`. The text of a mock-up holds all kept
  functions, and what the repair added are functions of the pasted files
  (`TextKnown`). A mock-up that links has nothing undefined (`NeedsAreMet`); a name
  that is replaced is static in its file (`ReplacedIsStatic`), and so, as names
  are apart, a symbol that a call needs is defined in the file the search chose.

**`CallTraversal_proofs`**
- `TraversalTyped`, `StaysWithinDepth` (a frame with d calls left is that of a
  function within `Depth` - d calls, for any choice of level sets), `FindsCallees`
  (a function above the bottom has a frame in which its missing callees wait, or
  none is missing). `PreparationTraverses` carries them over to the nodes of the
  agent (`ImpliedWithinDepth`).
- `PreparationTyped`, `TestCasesTrusted`, by `PrepTypes` and `PrepCases`.
  `parse_examples` is a fold over the traces, and takes lists of different
  members to such lists (`ParseDistinct`); test cases exist only after two
  outputs, of which `HasSymbolicFailed` is false (`NotFailed`).

**Steps left.** Liveness is out of the prover's reach, but half of each argument is
not: in six theorems a natural number, `Left` or `Ahead`, gets smaller with every step of a
run, so that no run is infinite, and a liveness property can fail only by standing still.
- `AgentCountsDown`: nodes left under the recursion limit.
- `ClientCountsDown`: seconds, retries, and what the caller does next.
- `CallCountsDown`: the steps of a coverage call come in one order (`Path`).
- `RunCountsDown`: what `main` has left of a run of the test; threads of cases and
  the search for a culprit never add to it.
- `LoopCountsDown`: a pass for each variable not found, and the one under way; so
  there are at most as many passes as variables that were not found at the start, and one.
- `TraversalCountsDown`: the frames on the stack, each with the steps its callees
  may still cost at their depth (`Steps`, `Weight`). A function can be entered again
  and again, so what was seen bounds nothing: only the depth does. No run
  checks that this search ends; the theorem is all there is.

## What is only model-checked

Liveness under fairness (`Termination`, `Ends`, `CallsEnd`, `RunEnds`, `Terminates`):
out of reach of the prover, as is `ENABLED`, and with it the other half of the
arguments above. For the repair loop of `AutoMockup` there is no such number: while
it is `Stuck`, it does go on for ever.

No module uses a RECURSIVE operator.

## What is not modelled

- The text of prompts, tests and reviews, and what a language model knows.
- What ESBMC, gcov, lcov, pycparser and the compilers compute.
- The rewriting of C text by regular expressions, in `auto_mockup.py` and
  `utils/cpp_flatten.py`, but for which names it replaces; the call graphs that
  clang, `opt` and code2flow build.
- The types and constants `get_function_interface`
  reads in a syntax tree; VirtualBox; the scripts.
- The lines a function takes in a file: a database of the text on disk cuts them
  right, one of another text may cut anywhere.
- Two declarations of one variable in one mock-up: C allows them.
- `fatal_error` inside a node is `Abort` in `Agent`; where `implied_functions`
  swallows it, the node is a step like any other (`ReadSource` in
  `Preparation`).
- Files that an earlier run of the agent left under `logs/`.

## Plan

What was planned is done, from the agent's loop to the mock-ups and the nodes
before the loop, and all of its safety properties are proved. What is left, in the
order of its worth:

1. `Agent` composed with `Preparation` and `CoverageCC`, so that its logs and the
   two nodes that are one step there are consequences.
2. That the repair loop of `AutoMockup` ends unless it is `Stuck`: a number for the
   functions that it may still paste.
3. `VirtualBox`, if it proves worth a run.
