# A TLA+ model of AppFactory

AppFactory is a collection of Python programs. The large one, `src/Demo10`, is an
agent workbench: a Tk window in which a user turns words into specs and fills the slots of
a *spec queue*; a worker thread takes each spec through a pipeline (parse, policy, impact
preview, approval, task execution, validation, promotion) in a copy of the user's project,
and a durable ledger on disk remembers every run so that the next start can recover from a
crash. Beside it stand the single-file orchestrator `src/appfactory.py` that built the
others, a retrieval server with its web page (`Demo5`), a parallel disk scanner (`Demo8`),
a chess match between language models (`Demo3`), a messaging assistant (`Demo2`) and some
small demos.

This directory models the parts of those programs that are concurrent, that have to
survive failure, or whose order of steps matters. All definitions are translated from the
source; `PROJECT.json` names, for each definition, the lines it stands for, for each
component what is left out, and the hazards the properties are for.

## Inventory

| Component | State it keeps | Operations | What is hard | What makes it correct |
|---|---|---|---|---|
| Step engine, `services/execution` | the run, its step results, snapshots of files, compensation actions | execute a plan, retry, validate, roll back | I/O failures half way, other programs writing the same files, one snapshot per *name* | a rollback reported clean restored the files; no file the user had is deleted; writes never repeated |
| Orchestrator, `orchestrator/` | one `OrchestratorRun`: current stage, state and outputs of each stage | advance, fail, block, await, resume, and its own loop | callers in any order; a loop that stops, waits and is resumed; a resumption that asks nothing | one stage under way but for what a resumption left, none skipped but by a jump, the loop returns |
| Spec queue, `ui/main_window.py` | slots, flags, pending approvals, UI queue | 16 worker steps, 12 user actions, messages, startup recovery | GUI thread against worker thread; pauses for approval; stop; crash | one worker; stop is bounded; risky tasks need approval; crashed runs are found |
| Run ledger, queue store, `services/run_ledger` | `current_runs.json`, `events.jsonl`, queue files | update a run, record an event, save a queue, recover | unlocked files shared by two threads; crash between two files | no update lost, the store readable, log and store agree |
| Workspaces, `workspace/` | canonical files, execution copy, fingerprint, snapshot | isolate, capture, check drift, promote, restore | the user edits the same files meanwhile; copying is not atomic | no edit overwritten; promotion complete; restore brings the snapshot back |
| One-shot threads of the window | folder, tree, index, selection, flags and disabled buttons | load, build, select, restore, and eleven more | answers in any order, for a folder or slot the user left | panes show what the program will act on |
| Tasks and edits, `services/task_executor_service`, `attempts`, `file_ops`, `batch`, `testing`, `editing` | the file, attempts, results | create, edit, modify, delete, run, validate | three answers tried dry, one applied; a torn write; artifacts filed after it | no rejected answer touches the file |
| Compiled runs, `compiled_runtime`, `apply`, `preview` | task states, candidate operations, approval | preview, approve, run a graph, rerun a part | reuse of stale results, partial apply | the report is true; a rerun stands on what holds |
| Words to plans, `planning`, `input_compiler`, `planner`, `draft_spec`, `services/compiler` | intents and questions, operations, the draft and its editor | split, ask, complete, repair, expand, order | rules that look at the workspace of the moment, repairs that repeat | doubts settled; plans in order; repairs lose nothing |
| Macro library and optimizer, `macros/`, `optimization/` | fragments, candidates, macros, variants | analyse, propose, adopt, verify, activate, deprecate | one command, several files, interrupted between two | nothing unvetted is active or adopted |
| Policy and approvals, `services/policy`, `verification` | risks, the approvals file | judge, ask, decide, check outcomes | a file truncated and rewritten by two threads | nothing risky runs or is promoted against the user's word |
| Single command, golden runs, replay, promotion, `single_command`, `replay`, `verification`, `services/policy` | goldens, suites, results, history | execute, bless, replay, compare, decide, record | goldens that change, history cut short | what is promoted reproduces its goldens |
| Single-file orchestrator, `appfactory.py` | `state.json`, log, failure note, workspace | run specs, `--spec`, attempt, validate, escalate | interrupted between any two writes; writes the disk refuses | budgets hold, `main.py` keeps its entrypoint |
| Retrieval server (`Demo5`) | documents, chunks, copies, session | upload, search, ask, delete, reset | statements committed one by one; killed between two; awaits | no half document passes for a whole one |
| Its personal store | facts and inputs, one person | bootstrap, tell, ask | two inserts for a sentence | each told fact once, the best fact recalled |
| Its page, `static/app.js` | list, selection, chat document | load, select, remove, upload, ask | answers late, lost or out of order | what is shown is what is meant |
| Disk scanner and window (`Demo8`) | jobs, the growing tree, cancel events, an event queue, a poll timer | split, queue, inline, merge, cancel; open, poll | results out of order, a full pool, stale events | each directory once; only whole trees shown |
| Chess match (`Demo3`) | game state, board, controls, match thread | start, pause, resume, step, reset | two threads write one state; join in the GUI thread | moves answer the board; a pause holds |
| Messaging assistant (`Demo2`) | one browser page | send, read a history | coroutines share the page | a reply reaches its contact |
| Session memory, `services/session_memory` | one session per folder, its file | load, record, clear, reset, save | a save reads the current session twice, the other thread between; a second manager on the same file | a folder's memory is its own, bounded and saved |
| Spec parser, `services/spec_parser_service`, `planner` | none between calls | validate, order, map, read sentences | ids given twice, cycles, odd entries | the tasks run are the spec's, in the order of their dependencies |
| Regression runner, `verification/regression_runner` | baselines, run folders, workspaces | run a suite, write or compare baselines | folders named by the second; killed between two writes | a verdict is earned; no earlier run is touched |
| Operations console, `ops/` | five indices, trends, summary, alerts | rebuild file by file, show | rebuilt after every event in whichever thread, over each other, while worker and suites change what it reads | the console contradicts neither itself nor the runs |
| Targeting, reports, metrics, tools, drawing, other demos | little or none | translation, scoring, I/O | | not modelled, each with its reason in `PROJECT.json` |

How they interact. The window owns everything in Demo10. `start_queue` saves the queue
definition, sets `queue_active` and starts the worker thread. The worker reads the slots
the user edits, writes the ledger at the head of a stage, and talks back through `ui_queue`,
which a timer drains in the GUI thread; the one-shot threads answer through the same queue.
Approvals and ledger are files both threads rewrite. For a promote-mode run the worker calls
the workspace services on the user's own folder; a restore started by a button is a thread of
its own. The queue drives an orchestrator run per slot by hand; the orchestrator's own loop
and `resume_run` have no callers outside tests. The step engine executes the plans
of the single command and its replays, the macro library and the optimizer work on the plans
that path saves. The page of Demo5 talks to its server over HTTP, server and personal store share
one process. The other programs share nothing.

## Modules

| Module | Models |
|---|---|
| `Saga` | abstract: what a plan's run promises about its reversible steps; implemented by `ExecutionEngine` |
| `ExecutionEngine` | `services/execution` |
| `OrchestratorStages` | the stages, the transition table and the marks on a run: pure operators, shared by `Orchestrator` and `SpecQueue` |
| `OrchestratedRun` | the run's record, its type and `StagesInOrder`: what the orchestrator promises; `Orchestrator` EXTENDS it |
| `Orchestrator` | `OrchestratorController` and its loop |
| `SpecQueue` | the worker, the window's handlers, crash and startup; one ledger update is one step |
| `RunLedger` | `LedgerService`, `QueueStore`, the recovery scan and their callers: takes that one step apart into file accesses |
| `Workspaces` | `workspace/` and the worker's promotion gate |
| `Workbench` | the one-shot threads of the window, their flags and buttons, `_handle_ui_message` |
| `EditEngine` | the structured edits: anchors, operations, idempotency; operators on sequences of lines |
| `TaskExecutor` | EXTENDS `EditEngine`: the tasks of a spec, attempts, batches, checks, writes |
| `CompiledRun` | compiled plans: preview, approval, run, change sets, reruns |
| `Clarification` | intents, issues, questions, answers |
| `Intake` | extraction, default rules, validation, repairs, macro routing, plan |
| `DraftCompiler` | the draft editor, compiler and repair loop |
| `PolicyGate` | the policy gates, the approvals file, verification outcome |
| `Release` | single command, golden runs, replay, promotion, audit history |
| `MacroLibrary`, `Optimizer` | `macros/`, `optimization/` |
| `SessionMemory` | `services/session_memory` and its callers in the window and the worker |
| `SpecParser` | a spec's text to the tasks the worker runs: `dsl_parser`, `spec_parser_service`, `planner` |
| `RegressionRunner` | `verification/regression_runner`, `run_regression.py` |
| `OpsConsole` | `ops/`: indices, trends, alerts and what the console shows of them |
| `SpecFactory` | `appfactory.py` |
| `Retrieval`, `PersonalStore`, `WebPage` | Demo5: index and questions; personal mode; the page |
| `DiskScan`, `ScanWindow` | Demo8: the scanner; EXTENDS it with the window |
| `ChessGame`, `Messenger` | Demo3, Demo2 |
| `Programs` | the programs beside `Demo10`'s worker, composed |
| `ExecutionEngineProofs`, `SpecQueueProofs` | theorems about the module of the name, checked by TLAPS |
| `OrchestratorProofs` | the same for `Orchestrator` and `OpsConsole` |
| `DiskProofs` | for `RunLedger`, `Workspaces`, both together (`MCDisk`) and `RegressionRunner` |
| `RunsProofs`, `ReleaseProofs` | for `CompiledRun` and `TaskExecutor`; for `PolicyGate`, `Release`, `SpecParser`, `Clarification`, `MacroLibrary` and `Optimizer` |
| `ScanProofs` | for `ScanWindow` and the scanner below it, for any tree |
| `ProgramsProofs` | for `SpecFactory`, `ChessGame`, `Workbench`, `WebPage`, `Retrieval`, `PersonalStore` and `Messenger`, and for `Programs` as a whole; takes `ScanProofs` twice, once for each scanner there |

`MCExecutionEngine`, `MCSpecQueue` and `MCPrograms` give constants their values. `MCDisk`, `MCRuns`,
`MCPipeline` and `Programs` also check several modules in one run: a variable `which` says
whose behaviour this is, and the others keep their initial state, so the state space is the
sum of the parts and not their product. Some parts are EXTENDed there (`RunLedger` and `Workspaces` by `MCDisk`; `CompiledRun`,
`TaskExecutor` and `OrchestratedRun` by `MCRuns`; `PolicyGate`, `Release` and `SpecParser` by `MCPipeline`; `SpecFactory`, `ChessGame`
and `Workbench` by `Programs`), the others are instances, with names of their own for variables two parts share. `Programs` leaves its
constants open, so that the composition itself is proved about. The parts of such a run do not interact in the code (or
only through files and outcomes each part takes from a set); modules that do interact are
composed instead: the window above the scanner, the tasks above the edits, queue and
orchestrator over the stage table, the console above the folders of the regression runs, of which it takes the steps
`SuiteSteps` shows the runner to make.

### ExecutionEngine

One action is one call other programs can interleave with: `BeginStep` or `SkipStep`, an
attempt (preconditions and handler: `CreateFile`, `WriteFile`, `RunCommand`, …), the
`CheckPostconditions`, the sleep before a retry (`Backoff`, `Retry`), one compensation. `Interfere` is any
other program writing the files `Foreign`. A snapshot is stored under the *name* of its
target, so a second step on the file overwrites the first one's copy; the model keeps that
(`snapshot`), with the checksum in the rollback metadata that guards it. Plans are a
constant; a step is its position in the engine's topological order and depends on earlier
positions only. An interrupted write (`IOFaults`) may leave the file unchanged, empty or written.

### Orchestrator

A run is driven either by a caller, through the controller's methods in any order, or by
`run_orchestrator`, which holds its caller until it returns, so that a run it drives is resumed between two of its loops.
`resume_run` checks nothing: it may leave the stage it interrupts running, or go to a stage while others before it were never entered.
`trail` remembers both (`left`, `passed`), and what a run does when it goes on from waiting for its user, where the table allows a jump. The results of a stage are filed as `advance_stage` does it: with the stage
that is being left, not the one that produced them. The loop therefore never finds its
inputs and blocks each run when planning starts; the model shows that, it does not repair it.

### SpecQueue

The state of a slot is its spec, displayed status and run id. A worker step is one stage
from its entry (`BeginStage`, which advances the orchestrator and records the ledger state) or its
body (`IntakeSpec` … `LogRun`), the pauses for approval being `return`s of the worker. `Pass` is
the end of a stage with `check_stop()`. The spec is read twice, at Intake and at Parsing,
and the user may replace it between the two. The code that needs an attribute
`RunMetadata` does not have (`metadata.payload`, line 3798) raises: every promote-mode run
the ledger knows fails at `RecordBaseline`, after the policy let its tasks through and before any of them
is executed. The other behaviour a reader may not expect is kept too: `queue_active` stays
set when the gate pauses; a run is recorded COMPLETED when stage Outcome *begins*; a failed run is never recorded
FAILED, so the next start marks it INTERRUPTED; a preview judged "rejected" may still be
approved by the user; cleared slots leave an empty run id, which the ledger accepts as a key.
A slot cannot reach COMPLETED in the orchestrator (it is left behind at COMPILE), so the
`completed` branch of `LogRun` is never taken.

### RunLedger, Workspaces

Every access of a file or of the counter is a step: read the store, open the temporary
file (which empties it), write it, rename it; count, append to the log. Both threads share
the temporary file's name, so a rename may move what the other is writing (`fd` follows the
file through the rename) or find nothing. A crash is one of the process, also in the middle of a log line: what was
written stays. `overlapped` remembers that both threads have
been in the ledger at once; most properties are about the time before.
In `Workspaces` a file is a version. Copying, fingerprinting, capturing, promoting and restoring go file
by file, with the user's `Edit` between any two. `Local` files are those only the ignore list
of the baseline snapshot names (`venv`, `runtime_data`). `raced` collects the files written
while the run had read them and not yet acted on them, `origin` what the run was given.

### Workbench

A click starts a job of one of the kinds; the job's end puts its answer into `ui_queue`, and
`HandleUiMessage` takes the oldest. Kinds are told apart by what guards them: an `*_active` flag, a disabled
button, or nothing. `_handle_ui_message` ends at line 4869; the branches for the later
messages stand in `invalidate_stale_runs`, which nobody calls, so those answers are dropped and what they would clear
stays set (`DroppedAnswer`). A job carries what its thread was started with: the folder, and the slot its result is for.

### Tasks, compiled plans

`TaskExecutor` keeps one file, its text a sequence of kinds of lines that the resolver, the parser and the symbol
check tell apart. After a batch the task files its artifacts (before a deletion, a backup); when the disk refuses them the task is reported
failed over a file already changed (`ReportBatch`, `BackupFails`). An action is one task that has its content, one attempt of one that asks, or the write of what was accepted;
answers, tests, commands and the disk are choices. `CompiledRun` takes the tasks of a plan in graph order; each
adapter does what it does to the files and to the candidate operations the tasks share (a generating
adapter files its result object there, not an operation). A logged run is what a rerun starts from.

### From words to a release

`Clarification`, `Intake` and `DraftCompiler` are sequential; their inputs are sets of small
requests, operations and drafts that meet every rule, and what the model or the user may say in between is a choice. What one
pass of the default rules fills in depends on the files of that moment, and the passes repeat after each
repair. Operations are routed to a macro as a whole plan, or each on its own to the active macro of its kind, with the steps of
the operation as the fallback. The draft's editor is written by keys, by templates (which leave the spec's editor as it is) and by the slots of the queue; the
answer of a translation and the result of a request never reach it, since their branches stand in `invalidate_stale_runs`. `PolicyGate` keeps the approvals file apart from the memory of the process that
rewrites it: a save truncates, then writes, and two may overlap. `Release` replays each golden run of a suite with an engine
whose trace is a choice among `Traces`. `SpecParser` takes a text as what `yaml.safe_load` and the patterns find in it; one
action validates, each later one takes a task of the planner's queue, and the last one maps what was ordered. In `RegressionRunner` an action is one
file or folder a suite makes; a case may begin in the second of the one before, and so in its folder. `OpsConsole` rebuilds one index
per action while a suite goes on. Each event of the ledger starts a rebuild in the thread that recorded it, so two may overlap: they share the temporary file of each
index (`contested`), and write banners and health in place (`disturbed`). The window may be closed in between. In `SessionMemory` the window, the worker and the request
compiler's thread load and save one file; the compiler has a manager of its own, and its button stays disabled after the first request, so it looks once per start. In `MacroLibrary` and `Optimizer` an action is one file a
command writes; a command may be interrupted before each.

### The other programs

`SpecFactory`: one write of `appfactory.py` to state, log, failure note or workspace is a step (`pc`), and a
run may be cut before each, or told by the disk that the write failed. An attempt whose record or state is refused is caught and logged
once more (`Caught`, `HalfNoted`, `SaveRefused`). `Retrieval`: one SQL statement or file copy is a step; handlers keep the event loop while they
work on the index and give it up only where they await. A question is restricted to documents, and one for rows to the regions that are no summary
(`Eligible`); what the last attempt found decides whether the model is asked, before it is cut, so a prompt may hold no piece. `PersonalStore`: one insert is a step. `WebPage`: a handler goes on until it awaits; `Serve`, `Lose` and
the order of `Resume` are the network. `ChessGame`: each call of the match thread into Tk waits for the GUI thread.
`DiskScan`: workers visit one directory at a time, the coordinator merges results as they finish, splits
what was put off and scans inline above the cap; the window cancels without waiting. `Messenger`: one await of a
coroutine is a step on the page all of them share.

## Runs

| Run | States | Bounds | Properties |
|---|---|---|---|
| `engine_plans` | 1 941 687 | plans of 3 steps: 10 shapes on one file, 6 on two, of which others write the second; I/O faults | `CleanMeansRestored`, `PreexistingSurvives`, `WritesOnce`, `ImplementsSaga`, `Terminates` |
| `queue_worker` | 784 056 | 2 slots, 3 run ids, 2 starts, 1 crash | `SlotsApart`, `CrashFound`, `QueueReturns` |
| `queue_user` | 3 530 791 | 1 slot, 2 run ids, 2 starts, every button | `WorkerAccounted`, `StopBounded`, `TasksApproved` |
| `disk` | 6 333 065 | ledger: 1 run, 1 replay, 5 events, 2 crashes; workspaces: 2 files (one local), 2 runs, 1 edit, 1 restore | `StoreKept`, `LogKept`, `RecoverySettles`, `CanonicalKept` |
| `task_runs` | 660 871 | 2 tasks from 15 on 5 texts; plans of 3 tasks, 3 reruns; 3 stages to resume from, 2 calls that fail, block, ask or resume | `RunTruthful`, `ReuseIsSound`, `GateHolds`, `StagesInOrder`, `FilesKept`, `AppliedIsVerified`, `RunsEnd` |
| `pipeline` | 1 119 206 | see `MCPipeline`: up to 6 intents, 3 operations, 3 draft tasks, 2 gate tasks of 11, 2 goldens, 4 plans; 2 folders, 3 clicks, 2 runs, 1 crash and 1 request for the session memory; specs of 3 tasks; a suite of 2 cases; 1 run, 2 threads, 1 change and 2 rebuilds or exits for the console, which opens over a suite at work | `PartsSound`, `RepairKeeps`, `GatesHold`, `ReleaseSound`, `AuditKept`, `Ends` |
| `programs` | 580 530 | see `MCPrograms`: 3 plies and 4 clicks, 2 projects and 4 clicks on the window, 2 specs and 2 starts, 2 uploads, 2+1 documents, 2 scans of 4 directories and 2 workers on 7, 3 sentences, 3 messages | `TurnsHold`, `PanelsAgree`, `FactorySound`, `AnswersSound`, `ScanSound`, `Settles` |
| `queue_approval` | violated | 1 slot, a compiled plan | `ApprovalRestartsWorker` |
| `queue_resume` | violated | 1 slot, 1 crash | `ResumeKeepsSnapshot` |
| `queue_stages` | violated | 1 slot | `StagesStepThrough` |
| `ledger_shared` | violated | as `disk`, 6 events | `UpdatesKept` |
| `runs_success` | violated | as `task_runs` | `SuccessIsOnDisk` |

Each passing run also checks one type invariant (`TypeOK`, `DiskTypeOK`, `RunsTypeOK`, `PipelineTypeOK`, `ProgramsTypeOK`), which
for a run of several parts joins theirs. A property that names several parts joins these,
each stated and explained in its module:

| Property | Parts |
|---|---|
| `StoreKept` | `StoreReadable`, `SoloUpdatesKept` (no update of a lone thread is lost), `QueueBeforeRuns` |
| `LogKept` | `SeqNoGrows`, `LogKeepsUp`, `LogFollowsStore` |
| `CanonicalKept` | `PromotionKeepsEdits`, `PromotionComplete`, `RestoreRoundTrip` |
| `RunsEnd` | tasks and plans end; `ReturnsSettled` (the loop returns with no stage under way); `EnsureSettles` (an ensuring edit that asks only for what it ensures, repeated, writes nothing) |
| `PartsSound` | `ClarificationSettles`, `PlansOrdered`, `HarshNamed` (destructive words aim only where someone said), `PlanSound` (of a draft), `LibrarySound`, `VariantsSound`; `MemoryKept` (`OwnSession`, `SetSound`, `SavedAndWhole`); `PlanFollowsSpec`, `CycleIsReal` (of a spec's tasks); `VerdictEarned`; `ConsoleSound` |
| `RepairKeeps` | of the draft editor, and `SuiteSteps` of the regression runner |
| `ReleaseSound` | `LadderHolds`, `ApprovedReproduces` |
| `GatesHold` | `PromotedClean`, `ApprovalsHold` |
| `TurnsHold` | `MovesInTurn`, `PauseHolds`, `ForfeitsLate`, `ResetOffered` |
| `PanelsAgree` | `OneAtATime`, `TreeShowsFolder`, `SelectionKeepsSlot` |
| `FactorySound` | `AttemptsAccounted`, `EntrypointKept` |
| `AnswersSound` | of the page: `SelectionListed`, `ScopeShown`; of the server: `IndexSound`, `EvidenceSound`; `RemembersOnce`, `RecallsBest`; `RepliesReach` |
| `ScanSound` | `ScanWhole` (`EachDirOnce`, `NeverFails`, `ShownIsWhole`, `PollsOn`), `NewestWins` |
| `Settles`, `Ends` | what is under way in any part comes to an end |

Each property has at least one mutant: a change of one definition as a plausible bug would make it
(`Bug_…`, beside the definition), which the property must catch; a property of several parts
has one for most of them.

Why the bounds suffice. Three steps on one file are the fewest in which an
intermediate snapshot is overwritten twice and undone in the wrong order could show;
two files show that undoing one leaves the other. Two slots are needed for a slot after
the failed or paused one, and three run ids for a cleared and a replayed slot. With two starts there is a
pause, an approval and a restart; more repeat the same state. Two crashes in the ledger
are a crash and a crash of its recovery. One edit, at any of the steps, is what
opens each window between reading and acting, and two runs let the second start
from what the first one left. Two tasks show an edit repeated and a task after a failed one; three
tasks of a plan are a failed one, one before it and one after. Two golden runs are one that drifts and one
that does not. Two starts of `appfactory.py` are one that is cut and one that finds what it left, and the larger budget allows two attempts. Two uploads can be of the same file,
one removal and one crash cut either. Three tasks are the fewest with a cycle beside a task outside it; two cases let one start in the other's folder. Two folders and two runs let a session be saved under the other's name. Two handlers of the page that await at a time show an answer overtaken.
Four clicks on the match are a start, a pause, a resumption or a step, and a reset; four on the workbench are a folder,
its index, a selection from it and the change of slot before it answers, or two loads that cross. Two scans are a scan and its replacement, of a directory whose two
subdirectories are put off, with room for one of them: the coordinator queues one and scans the other inline. Two workers each split a
directory of their own with room for three jobs, so that results overtake each other and a result is merged while the pool is full. Three sentences are two facts and a question both
match (the answer then holds one memory); three messages let one be alone on the page after two that were not.

Deadlock checking is off: the bounds on starts, edits, events or clicks leave the idle
system nothing to do.

Fairness. Only threads that the program keeps running are fair: the engine's own thread
(not the other programs), the queue worker and the timer that drains the UI queue, the one-shot
threads, the GUI thread and the match thread of the chess window (for calls that do not wait for each other), the
handlers of the server and its model's answers, the page's event loop and a network that
answers or fails, the scanner's threads and the window's timer, the messaging loop (its waits have timeouts), a command, a compile or the reading of a spec once begun.
Nothing is assumed of users, of crashes or of interruptions: they end what is under way.
Each suite takes one weak fairness condition per kind of thread, a disjunction over its parts; only one part moves in a behaviour.
The chess match is excepted where the window waits in a join (`InTurn`): that deadlock is real, see below.

## Findings

Five runs end in a violation, each of a statement the code makes of itself:

- `main_window.py:4608` "Resume queue": approving a pending preview cannot restart the
  worker, since the gate's pause leaves `queue_active` set (`ApprovalRestartsWorker`).
- `main_window.py:616` "Resume the selected interrupted run from the last safe phase
  boundary": a resumed run gets a new workspace; Intake has overwritten the state (`ResumeKeepsSnapshot`).
- `main_window.py:3410` "ENFORCE transitions by stepping through intermediate stages":
  nothing steps, the orchestrator run stays at COMPILE (`StagesStepThrough`).
- `ledger.py:84` "Atomic update of current state store": with a replay in the GUI thread
  the store loses an update or becomes unreadable (`UpdatesKept`).
- `step_templates.py:61` "updated content written to disk": the result of the write of an accepted
  answer is not looked at (`task_executor_service.py:499`, `SuccessIsOnDisk`).

## Behaviour kept as it is

The models follow the code where a reader may expect otherwise. Each item below is in a model
(or is the reason why a model leaves something out); none is a run of its own.

Window and queue. With `_handle_ui_message` cut short (`main_window.py:4871`), `restore_active`,
`llm_run_active` and `translation_active` are never cleared and their buttons stay disabled; `current_draft`
stays `None`, so a compiled plan in the window fails at Spec Parsing (`is_plan_stale(plan, None)`, line 3599), which is why
`CompiledRun` models the run controller as written and not only its use by the window. `build_bundle` is never called: bundle
restore and edit are always blocked. `validate_restore_request` is never called either: a
snapshot is restored into whatever project is open. Undo always ends in "Undo failed". `ValueError("Malformed DSL")` near line 3490 is
raised inside the `try` that swallows it. Recording the baseline (line 3798) fails every
promote-mode run the ledger knows, which is why `Workspaces` takes promotions from runs it does not know.

Orchestrated runs. `resume_run` at a stage of a run that is under way leaves two stages running; nothing in the program calls it.

Session memory. `reset_session` reloads the file it meant to replace, so a reset keeps the session; the name of the file
and what is written to it are read apart, and a folder opened in between gets the other folder's session; the request compiler, which loads the file while it is
written, finds nothing and saves a blank session over it; no translation, template or restore is ever recorded.

Ledger and approvals. After a torn last line the numbering of events restarts at 1, and the next line is lost with the torn one.
A save of the approvals that is cut, or overlaps another, leaves a file that does not parse: all decisions are
forgotten and asked for again. A denied spec pauses again at every start.
A failed check of a failed task (`fail_fast` off) turns PARTIAL_FAILURE into
COMPLETED_WITH_WARNINGS (`outcome.py:41`). The regression status is a placeholder that passes.

Tasks and plans. A task whose artifacts cannot be filed is reported failed though its file is written or deleted. An ensuring edit asked for
two imports, or for a definition with its import, does not find its payload again and inserts it a second time (`AsksOnlyThat` says which requests settle). A failed symbol check returns its dry-run batch, which counts as a success. An `import json`
inside `_handle_run` makes the name local, so the timeout override is always ignored. Deletes are simulated
as empty files. The generating adapters file their result object as a candidate operation: APPLY_MUTATIONS then writes an empty
file for a new one and fails verification for a changed one, and a run whose artifacts hold such objects is never logged, so nothing can be rerun from
it. Lowering gives tasks of type MODIFY, which has no adapter. In a rerun, independent tasks that were
blocked stay PENDING and the run is a success; a rerun of a rerun is refused by its id. REPLACE_FILE, and
tasks that depend on a RUN or a VALIDATION, are not previewed, so a change of a critical file may be approved by default.

Specs and suites. Of two tasks with one id the last runs twice, or the spec is refused for a cycle it does not have. A bare target on an
`update_file` or `append_if_missing` passes validation and raises when it is mapped. The values of the settings are not looked at. The
execution workspace of a regression case is named by the second, so a case may start in what a failed one left, although a comment
promises each its own. A torn `approvals.json` or `summary.json` ends the rebuild half-way, with indices of two times. While a suite runs its folder has
no summary, and the alert for the failing suite before it vanishes. A run at work counts as recoverable, one marked INTERRUPTED does not.
The summary counts requests that are "PENDING" where the file says "pending": none is ever counted, and the alert for a backlog of approvals is never raised. Two rebuilds
that overlap may leave an index torn or old.

Words to plans. `depends_on` is honoured for the last operation of a name only. `search_code` has no
template and vanishes from the plan. Only consecutive operations on a target are checked for conflicts. The
repair `remove_operation` removes nothing. After a repair the warning about defaults is gone and the input counts as
clean. A `create_file` is redirected to an existing file whose path contains its name. Two `write_spec` operations get the same number. Steps of
macros are not ordered among each other. An empty draft compiles to an empty plan. Automatic repair turns blocking doubts into
information; a user's own `a_dup_1` may lose its name to a repair. A paste with the mouse does not invalidate the compiled plan (no key is
released), and a template replaces the draft while the
spec beside it stays. Intents that share an id: answers reach the first of them.

Release, macros, optimizer. Replay compares the source plan with itself, so `plan_drift` is never found, and a working plan
of the same name wins over the golden's copy. A run with an executed and a skipped step cannot be
compared (a date is sorted with ""). An empty suite passes. The promotion rules on counts read keys the summary
never has. A torn history makes every later promotion of that version fail after its first file. The single command changes
the workspace before the gate, and a rejection leaves the changes. "Recent plans" are the last ten by
name, and names are random; an analysis forgets earlier support. Adopting another fragment
under an active macro's name replaces it unverified; deprecating one writes two files, and between them the active macro is deprecated. A removed
terminal step's predecessors never become terminal, and step ids repeat across plans, so a candidate of one plan may remove a
step of another.

The other programs. `appfactory.py`: a spec left "in_progress" by an interruption is not chosen again; a torn `state.json` stops every later
run; `--spec` of a passed spec without budget left turns it "failed"; one spec's latest failure is in the next one's
prompt; an attempt whose record is written and whose state is not has two records, the second of a failure. Demo5: an upload cut between its inserts leaves a document without all its chunks, and a second upload is skipped as a duplicate;
deletion leaves the copy; a document question whose lookup fails is put to the model without evidence, one whose pieces all score too low with a prompt that announces evidence and holds none; a chat begun before a
reset counts in the new session, on the server and on the page; the weaker lexical hits that `_merge_candidates` would add stand after a `break`. A list asked for
earlier may overwrite a newer one; removing the last selected document widens the scope to everything before the page says
so. In personal mode a crash between the two bootstrap facts loses the second; "midwife" contains "wife", so a question about a midwife is taken to be about
the wife and finds nothing. Demo8: a cancelled scan can report `scan_complete` with a torn tree
(dropped, its id is stale), and a poll can stop with the last event in the queue. Demo3: `reset_game` and
`start_game` can wait in a join for a thread that waits for them; a running match may not
offer Pause, since the "idle" queued at the start lands after "running". Demo2: nothing keeps two operations apart on
the page, and "Message sent." is logged whatever Enter did; `RepliesReach` therefore speaks of those that were alone.

## Proofs

| Theorem | Shows | Property of |
|---|---|---|
| `TypeCorrect`, `WritingStepsRunOnce`, `CleanRestores`, `EngineIsSaga`, `FirstFailureStops`, `OriginalsSurvive` | types; `WritesOnce`; `CleanMeansRestored`; `Spec => ImplementsSaga`; no step begins after a failure; `PreexistingSurvives` | `engine_plans` |
| `OneWorker`, `StopIsHeeded`, `RiskIsApproved` | `WorkerAccounted`, `StopBounded`, `TasksApproved` | `queue_user` |
| `SlotsStayApart`, `CrashIsFound`, `QueueTypeCorrect` | `SlotsApart`, `CrashFound`, `TypeOK` | `queue_worker` |
| `RunTypeCorrect`, `StagesStayInOrder`, `LoopReturnsSettled` | types; `StagesInOrder`; `ReturnsSettled`, part of `RunsEnd` | `task_runs` |
| `PlanTypeCorrect`, `NothingPassesTheGate`, `RunSpeaksTruth`, `ReuseStandsOnSuccess`, `AppliedMeansVerified` | types of a plan's run; `GateHolds`; `RunTruthful`; `ReuseIsSound`; `AppliedIsVerified` | `task_runs` |
| `OnlyReportedChanges` | `FilesKept` | `task_runs` |
| `PromotionsAreClean`, `GatesAlwaysHold` | `PromotedClean`; `GatesHold` | `pipeline` |
| `ReleasesAreSound`, `AuditIsKept` | `ReleaseSound`; `AuditKept` | `pipeline` |
| `ParserTypeCorrect`, `PlansFollowSpecs`, `CyclesAreReal` | types of the parser; `PlanFollowsSpec`, `CycleIsReal`, parts of `PartsSound` | `pipeline` |
| `DoubtsAreSettled`, `SessionTypeCorrect` | `ClarificationSettles`, a part of `PartsSound`; types of a clarification | `pipeline` |
| `LibraryIsSound`, `LibraryTypeCorrect` | `LibrarySound`, a part of `PartsSound`; types of the macro library | `pipeline` |
| `AdoptionsOnRecord`, `OptimizerTypeCorrect` | `AdoptionsRecorded`, of `VariantsSound` in `PartsSound`; types of the optimizer | `pipeline` |
| `RunnerTypeCorrect`, `VerdictsAreEarned`, `SuitesAreSeenStepByStep` | types of the regression runner; `VerdictEarned`, a part of `PartsSound`; `SuiteSteps`, a part of `RepairKeeps` | `pipeline` |
| `ConsoleTypeCorrect`, `ConsoleIsSound` | types of the console; `ConsoleSound`, a part of `PartsSound` | `pipeline` |
| `StoreIsKept`, `RecoveryMarksAll`, `LogIsKept` | `StoreKept`; `RecoverySettles`; `LogKept` | `disk` |
| `EditsAreKept`, `AppliedIsComplete`, `RestoreBringsBack`, `CanonicalIsKept` | `PromotionKeepsEdits`, `PromotionComplete`, `RestoreRoundTrip`; together `CanonicalKept` | `disk` |
| `DiskTypeCorrect` | `DiskTypeOK`, of both parts | `disk` |
| `AccountsAgree`, `EntrypointStays`, `FactoryIsSound` | `AttemptsAccounted`, `EntrypointKept`; together `FactorySound` | `programs` |
| `ChessTypeCorrect`, `ChessTurnsHold`, `PanelsAlwaysAgree` | types of the match; `TurnsHold`; `PanelsAgree` | `programs` |
| `ScansAreWhole`, `NewestResultWins`, `ScanTypeCorrect` | `ScanWhole`, `NewestWins` and the types, for any tree | `programs` |
| `PageShowsItsScope`, `IndexIsSound`, `EvidenceIsSound` | `SelectionListed` and `ScopeShown`; `IndexSound`; `EvidenceSound` | `programs` |
| `StatementsAreKeptOnce`, `RecallIsBest`, `RepliesArrive` | `RemembersOnce`; `RecallsBest`; `RepliesReach` | `programs` |
| `AnswersAreSound`, `ScansAreSeenWhole`, `ProgramsAreSound`, `ProgramsTypeCorrect` | of the composition TLC runs: `AnswersSound`; `ScanSound`; `TurnsHold`, `PanelsAgree` and `FactorySound`; `ProgramsTypeOK` | `programs` |

They hold for every value of the constants: any number of steps, files, slots, run ids, starts, clicks and crashes, any set
of plans, specs, tasks, answers, documents, trees and stages to resume from. The assumptions, each of which TLC evaluates on the runs:

- `EngineAssumption`: a number of steps, distinct special values, well formed plans.
- The bounds of `SpecQueue`, `Workspaces`, `Workbench`, `TaskExecutor` and `ChessGame` are numbers, and the values that stand for
  nothing are none of the others. `LedgerConstants`: run ids are finitely many, and none is one of the marks of a line.
- `ResumesAtStages`: a caller resumes at a stage, of the pipeline or beside it.
- `PlansInOrder`: a task depends on tasks before it, which `compiler/dependency_graph.py` sees to (it sorts, and refuses a cycle);
  `ContentsAreText` and `RequestsNameTasks` for compiled plans.
- `SourcesAreTexts`: a spec's tasks and lines are sequences of what `yaml.safe_load` can return. `SuiteConstants`: a suite has a case, and no
  outcome looks like a missing or a torn file. `ConsoleConstants`: the ledger the console reads has finitely many runs, and the window is one of the threads.
- `RequestConstants`: a request is a sequence of intents, each of which says what it names. `LibraryConstants`: a recorded plan is a sequence of steps that
  depend on steps before them (`services/planner/dependency_resolver.py` makes no others), an id is its name and its version, and no version is "none".
- `ProgramsConstants`, for the composition: `SpecsGiven` (there is a spec, budgets are numbers, an answer is a sequence of files);
  documents are finitely many; a file has finitely many pieces with scores (`FilesInPieces`), and a mode's limits are numbers (`QuestionsAllowed`);
  the store starts with two different facts and a text has finitely many words (`BootstrapFacts`, `TextsAreFinite`); a message has a character
  (`MessagesAreTexts`); scans are of a tree, within limits that are numbers (`ScanConstants`, for each scanner). That the directories
  form a tree (`IsTree`) says that none is below itself; the scanner skips links.

**Engine.** The argument for `CleanRestores` is the invariant `EngineInv`, in five parts.
`Progress` says that the steps before `cur` are over, and those after it untouched.
`OneWrite` says that a writing step is in its only attempt; without it a retry could take
its own first attempt for the state to restore. `MetaInv` says what the rollback metadata
of a finished step may be. `Forward` is the heart: as long as everything done can be
undone, the *first* step that wrote a file holds the content the file had at the start;
the later ones hold intermediate contents and do not matter. `Backward` says that
after each successful compensation the file is as it was before the last step compensated;
when the last of them, the first writer, is compensated, the two parts meet. `CleanMeansRestored`
alone is not inductive: it speaks of the end only. Each part has a lemma `…Step` with a
case per action. `EngineIsSaga` uses `Progress`, `MetaInv` and `Backward` to map each engine step to
a step of `Saga` or to a stutter. `CleanMeansRestored`, and its proof, exclude what the code does not promise: what the failing
step itself left (`Residue`), files others write (`Foreign`), and plans that are
not `Disciplined` (a reversible file step must name the compensation its handler's metadata is for).
`OriginalsSurvive` has its own invariant, `OriginalsKept`: as long as no command of the shell runs, a file the user had is there at every
moment, no step that targets it counts it as created by itself, and a saved copy of it is a copy of a file, not of its absence.

**Queue.** `SpecQueueProofs` rests on `TypedInvariant` and one strengthening per theorem. `OneWorker`: between a worker's first
step and the message that ends it `queue_active` is set and no other end message is in the UI queue. `StopIsHeeded`: `Heeded` gives, for each place
the worker can be at, how many stages may still begin. `RiskIsApproved`: `Cleared` and `ClearedFor` tie the run the check was made for to the one
that executes; a pause, a resume, a replay and a crash each have to keep it. `SlotsStayApart`: `Solo` (one slot is under way) with
`RunsDisjoint` between slots and in the ledger a restart reads. `CrashIsFound`: `Tracked` and `CutKnown` say that the run under way
is unfinished in the ledger at every moment, which is what recovery looks for. `QueueTypeCorrect` takes the orchestrator's
record of a slot along: what `AdvancedTo` makes of a run is a run.

**Orchestrator.** `TrailInv`: a stage that is running is the current one or one a resumption left so (`Single`), and those behind the place the run has come to were
entered or passed over by a jump (`Behind`; repair stands at the place of the compilation, and a stage beside the pipeline keeps the place the run came from).

**Compiled plans.** `RunInv`. `Gated` ties the approval to where the run is, and before the gate let the plan through
nothing has begun. `Counting` bounds what was counted by the position in the graph, so that no task
is counted twice however the run stops. `FirstRun` says what the statuses of a first run are to each other: those before the position
are settled and those behind it wait, a blocked task has a failed one before it (`Explained`), a success stands on successes,
and each counter is the number of tasks with that status (`CountUnion`, `CountOneMore`: cardinalities of sets of positions). `Rerun` says it of
the tasks a rerun repeats: all that depend on the failed one, by the closure `Dependents`; what is reused was a
success of the base run. `RunTruthful` and `ReuseIsSound` alone speak of ended runs and are not inductive.

**Tasks.** `TasksInv`: there is one report for each task that is done with, and only a task that
writes a file has a model to ask. With it a step's report is the one at the position of the current task (`ReportStep`), a batch leaves the file, breaks
off or writes what no check refused (`BatchEnds`, `AcceptedParses`), and what it writes is what the report names, or the report is a failure (`WritesWhatItReports`). Nothing is used of what an edit computes.

**Gates.** `GateInv` is `StoreInv` (the file is the approvals or torn; at most one record per gate; each agrees with the user's last word) and `RunInv` (where
the run is tells which gates let it through). Without the middle conjunct an answer given twice could contradict itself.

**Release.** `EvidenceInv`: each result comes from a replay of the golden as it stands, or failed (`Evident`); while
suites are verified, what was replayed and what is queued are together all of their goldens; and a judgement is the one those
results give (`Judged`). The ladder of environments needs no invariant: what blocks dev blocks staging, and what
blocks staging blocks production (`LadderClimbs`). `HistoryInv`: while a promotion
is being recorded the file is torn and what is to be written continues what was read.

**Ledger.** `LedgerInv`. `Lone` says what a call that is alone knows at each of its steps: that what it read, or is about to write, is the
store with its own entry added. `Kept` carries this to the file, `Founded` says that before the queue is on disk there is no run in any file
and no call that could put one there, and `Settling` that during a recovery every run not settled is still among those to be looked at.
`Kept` and `Founded` speak of the files, which are all a new process has after a crash.
`LogIsKept` adds five parts (`LogInv`): where each thread can be (`Placed`), that what a call logs is what it stored (`Stated`), that every line's number is
below the counter while no line was cut (`Numbered`), that a run's lines have a last one (`HasLast`), and `Owing`, a balance: the runs whose last line
is behind the store are no more than the crashes and the lines lost behind a cut one. A cut line that is the last of
the file has cost nothing yet; the next line is lost with it, and pays. `LogKeepsUp` without this count is not inductive: after a crash it does not say which runs may still be behind.

**Workspaces.** `RunKnows` says, for each stage of a run, what it still knows of a file nobody wrote behind its back:
the recorded fingerprint is the version the run was given, the drift check has seen what is there, and a file of the user's is that version until it
is brought over and the run's from then on (`KnownInCopy`, `KnownInGate`); `Left` says which files are still to be brought over. The exceptions of `PromotionKeepsEdits` are the writes in `raced`; everything else is covered. `RestoreBringsBack` needs two more: `Capturing` (file by
file, the copy, the hash and the tree of a snapshot agree, unless the user wrote meanwhile, which marks it torn) and `Restoring` (for each phase of an undisturbed
restore, which files are already as the snapshot has them and which are as they were seen).

**The window.** `BenchInv`: an operation with a flag has one thread or one unread answer, of which the flag knows (`Alone`); while an index or a
selection is awaited the window has none (`Awaited`), so that no answer meets a newer result; unless two loads met, each load under way is of the open folder
(`TreeFresh`). The window's actions are first reduced to four forms, a thread that begins, one that ends, an answer taken, and none of these (`Moves`).

**Chess.** `ChessInv`: `Playing` (a turn is played at the ply it began at, its rejected answers are the attempts before), `Pausing` (while a pause holds,
the state is not RUNNING, whichever thread wrote last) and `Offering` (of the buttons' states under way to the window the last one offers the reset once the match is over).

**Single-file orchestrator.** `Accounts`: while a run is up, what it has in memory is sound (each request sent and each record
logged was counted, a count is within its budget, what is called passed has its record), and so is what is saved; a spec's records are no more than its
counted attempts and those the except clause logged again, at most one for each (`Beginning`, `trying` and `Counted` say where an attempt is between the two). `Held`: what is still to be written passed the guards and names no file twice, so that one write
cannot change what the guards said of the next (`GuardsOutlive`).

**Specs.** `ParserInv`, for ids that differ (with one given twice, what the code does is no order of the spec): a counter is the number of dependency entries not yet
taken off (`EntriesCounted`), the queue holds the tasks that wait for nothing and were not taken (`DueQueued`), what was taken stood
after what it needs (`DepsFirst`) and passed only tasks that still waited (`InTurn`). When the queue runs empty too early, each task left has an entry
left, of another task that is left: the cycle.

**Suites and console.** `RunnerInv`: where a suite is says which summary is under way (`SuitePlaced`), a case that passed has the baseline it was
compared with or wrote (`Earned`), and a folder with a workspace in it is a failed case's or that of the case under way (`Stained`). `ConsoleInv`: a rebuild that met no other is alone, and who has a
file open with another did meet it (`Met`); how far such a rebuild has come says which files are already those of the indices (`Underway`, `Follows`); one that went undisturbed to its end left
nothing the indices contradict (`Finished`), and tabs half filled show the dashboard of the indices the others will show (`Filling`). The other conjuncts are those of
`ConsoleSound` (`AlertsAgree`, `OnePicture`, `VerdictWasGiven`).

**Requests.** `SessionInv`: the questions divide the issues that block (`AskedOnce`: a group is found again from each of its members); answers only add to what an
intent names, so that what still blocks was found at the start (`IssuesPlaced`); and an answer reaches the intent it was asked about if ids tell
intents apart (`HolderIs`, `AnswersHeard`), which the property supposes because the code looks for the first of that id.

**Macros.** `LibraryInv`: what got further than a rejected proposal, on disk or still to be written, was held by three saved plans (`ProposalsFounded`,
`MacrosFounded`, `TodoFounded`), and more plans only add to them (`FoundedGrows`); an active macro whose history is clean is verified, in its file and in what the running
command will write to it, or about to be dropped from `library.json` (`ActiveKept`). `ActiveVetted` speaks of the time between commands and is not inductive. That
expansions are closed follows: a founded macro is a piece of a plan, and its dependencies are counted from its first step (`FragmentClosed`).

**Optimizer.** `OptimizerInv`: a candidate an adoption still has to mark is in a variant on record already (`InRecord`), wherever it is cut short; merging a new analysis moves
no listed candidate and lists none twice (`MergedIs`), so that the positions a variant was made from stay those of its candidates. What `_apply_optimization` does to a
plan is a fold over the candidates and stays with TLC.

**Scanner.** Every directory a serial scan finds is in the tree or below exactly one *claim*: a directory waiting in a queue, or the
directory of a job at work (`Shared`); a job's own directory is divided the same way into what it has, what it will visit and what it puts off (`Whole`). All
claims stand right below the tree, cancelled or not, so that no subtree comes before its parent (`Sound`). What is below a directory (`below`) is defined as the
least set closed under the children of what can be read, not by recursion: the prover has no induction over the tree, but it can take the least set
apart (`BelowIs`, and that the children divide what is below their parent). The window knows that a complete result of a scan
not cancelled is whole, and that its number is that of a scan it began (`WindowInv`). `ScanProofs` says this of any scanner; the composition takes it once for each of
its two instances, whose definitions it shows to be the same.

**Demo5.** Page: the count shown differs from the selection only while a handler is on its way that will set it right, a removal or a clearing
that has emptied the list and not yet loaded the new one, or once a load failed (`CountShown`). Index: `Ingesting` and `Clearing` say what is stored already where the
handler that holds the event loop has come to, `ToldWhole` that what was reported is whole. Store: `Bootstrapped` says, over all starts, how far the two
inserts of the first facts came; what was told stays a fact. *Evidence*: what is used is a prefix of the ranking of what is within the cap of its document
(`Leading`), so a piece that ranks higher is left out only when its document has as many stronger ones used; a question that needs coverage cuts the prefix
where a piece scores too low. *Recall*: an answer that stands is what the store finds for that text (`Replied`), and a fact that holds all words asked for
scores as much as any fact can, so that only newer ones can stand before it. The lists are sorted by rank, not with TLC's `SortSeq`, which the prover
does not know: `SortedBy` (an element's place is the number of those before it) and the lemmas of its section show that this puts
each element in one place, in order.

**Assistant.** An operation nobody crossed is the only one on the page and finds it as its last step left it (`AloneOnPage`, `ChatOpen`); the boxes of other
contacts hold only characters of crossed operations (`Leftovers`).

**Composition.** `Inv` joins the invariants of all programs; each takes its own steps and the others stand still (`OwnSteps`), so that each
part's lemma applies to its own variables.

## Only model-checked

Liveness (`Terminates`, `QueueReturns`, `RunsEnd`, `Ends`, `Settles`) needs ENABLED and stays with TLC, as do values
defined by recursion over data and the modules that declare it: `Intake` and `DraftCompiler` have RECURSIVE operators, which cost a module its SMT
backend, and what `SessionMemory` keeps of a run is a fold over its files. `PartsSound`, `RepairKeeps` and `PipelineTypeOK`, which join theirs with those of other modules, are therefore proved only in the parts named above; so is
`VariantsSound`, whose other parts (the order, the ends and the checks a variant keeps) speak of a fold. What an edit computes
(`EnsureSettles`, and that a file holds lines, part of `RunsTypeOK`) rests on folds and least elements of the text and is checked on 5 texts and 15 tasks;
the types of the other parts of `RunsTypeOK` are proved.

## Not modelled

Each with its reason in `PROJECT.json`: targeting and scoring, bundles (which nothing can make), reports and metrics over finished runs, the window's editing and chat panels, drawing,
Demo9 (image geometry in floating point), Demo6 (a game whose moves are distances per frame),
Demo4, Demo7 and Demo11 (pages, statistics, charts), and recorded data. The language models, subprocesses, tests, OCR and
the browser appear as nondeterministic outcomes. Left out of modelled parts: pruning to ten snapshots (more runs than the bounds have), batches of several operations (the
program builds single ones), the commands of `run_ops.py`, nested macros (the depth an adopted macro allows is one), the listener of Demo2 and the watchers of Demo5, which only read. Power loss
(lost renames) is not modelled; a process that dies is.
