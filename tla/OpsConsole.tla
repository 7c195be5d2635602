------------------------------ MODULE OpsConsole ------------------------------
(***************************************************************************)
(* The operations console (Demo10): the indices under runtime_data/ops,    *)
(* rebuilt one file after another by a button of the window and after      *)
(* every event of the ledger, in whatever thread recorded it, while the    *)
(* regression runner and the approvals change what they are read from; the *)
(* alerts drawn from them, and what the console shows.  Two rebuilds may   *)
(* overlap, through the same temporary files.  The commands of run_ops.py, *)
(* which rebuild from a process of their own, are left out.                *)
(***************************************************************************)
EXTENDS Integers, Sequences, FiniteSets

CONSTANTS
  Runs,         \* ids of runs in current_runs.json
  Threads,      \* the window's, and those of the queue and of a restore
  MaxChanges, MaxRebuilds    \* bounds: steps of the others; rebuilds and exits together

\* The runs' ledger is a finite file, and the window a thread.
ConsoleConstants == IsFiniteSet(Runs) /\ "window" \in Threads

VARIABLES
  run_dirs,                            \* the summary.json of every directory of regression_runs, the latest last
  queue_state, run_states,             \* the queue's file and current_runs.json, always whole
  pending, approvals_file,             \* requests nobody decided, how many approvals.json holds
  index,                               \* the five indices, each with what its rebuild read
  trends, summary, health,             \* trends.json, dashboard_summary.json, health_status.json
  building,                            \* what each thread does: the file it saves next, "tabs", "asking" or "nothing"
  contested,                           \* the threads that save a file another one has had open too
  evaluated,                           \* the summary a thread's HealthEvaluator has read
  shown,                               \* what the console's tabs were last filled with
  complete, cut,                       \* history: the last rebuild went undisturbed to its end; the alerts' last did not
  disturbed,                           \* history: the threads whose rebuild or tabs a rebuild of another one met
  changes, rebuilds, exits

sourceVars == <<run_dirs, queue_state, run_states, pending, approvals_file>>
alertVars == <<trends, summary, health, evaluated, cut>>
atWork == <<building, contested>>
opsVars == <<sourceVars, index, alertVars, atWork, shown, complete, disturbed, changes, rebuilds, exits>>

QueueStates == {"NONE", "RUNNING", "OVER"}
RunStates == {"EXECUTING", "INTERRUPTED", "PROMOTED"}
TornApprovals == -1                     \* a file that is not there holds no request
Backlog == 5

NoVerdict == [status |-> "none"]             \* no summary yet
TornVerdict == [status |-> "torn"]
Verdicts == {[status |-> "PASS"], [status |-> "FAIL"]}

NoIndex == [queue |-> "NONE", runs |-> [r \in Runs |-> "PROMOTED"], approvals |-> 0, regression |-> NoVerdict, recovery |-> {}]

-----------------------------------------------------------------------------
(* What the files say.                                                     *)

Live(states) == {r \in Runs : states[r] = "EXECUTING"}

\* The recovery scan takes every run that is neither over nor marked for one to recover, the one at work too.
Recoverable(states) == {r \in Runs : states[r] \notin {"PROMOTED", "INTERRUPTED"}}

\* Only the latest directory is looked at, and it has no summary while its suite runs.
LatestVerdict == IF run_dirs = <<>> THEN NoVerdict ELSE run_dirs[Len(run_dirs)]

Trends == [runs |-> index.runs, approvals |-> index.approvals, regression |-> index.regression]

\* The summary counts the requests that are "PENDING", approvals.json has them "pending" (policy/models.py): it finds
\* none, however many wait.
Waiting(at) == IF "pending" = "PENDING" THEN at.approvals ELSE 0
Counts(at) == [running |-> Cardinality(Live(at.runs)), queue |-> at.queue, pending |-> Waiting(at),
               failing |-> at.regression.status = "FAIL", interrupted |-> Cardinality(at.recovery)]

Banners(counts) ==
  (IF counts.pending > Backlog THEN {"APPROVAL_BACKLOG"} ELSE {})
  \union (IF counts.failing THEN {"REGRESSION_FAILING"} ELSE {})
  \union (IF counts.interrupted > 0 THEN {"RECOVERY_PENDING"} ELSE {})
Overall(counts) == CASE counts.failing -> "FAIL" [] ~counts.failing /\ counts.pending > Backlog -> "WARN" [] OTHER -> "OK"

\* A file: absent, torn, or whole with its content; _load_json takes a default for the first two.
Absent == [state |-> "absent"]
Half == [state |-> "torn"]
Whole(content) == [state |-> "whole", content |-> content]
Load(f, default) == IF f.state = "whole" THEN f.content ELSE default

NoSummary == [counts |-> Counts(NoIndex), banners |-> {}]
Blank == [complete |-> FALSE, index |-> NoIndex, dashboard |-> NoSummary, health |-> "UNKNOWN"]

-----------------------------------------------------------------------------
(* What others do meanwhile.                                               *)

Changed == changes < MaxChanges /\ changes' = changes + 1

\* run_regression.py in a process of its own (RegressionRunner): a directory, its summary opened, its summary written.
SuiteMoves ==
  /\ Changed
  /\ \/ run_dirs' = Append(run_dirs, NoVerdict)
     \/ LatestVerdict = NoVerdict /\ run_dirs # <<>> /\ run_dirs' = [run_dirs EXCEPT ![Len(run_dirs)] = TornVerdict]
     \/ LatestVerdict = TornVerdict /\ \E verdict \in Verdicts : run_dirs' = [run_dirs EXCEPT ![Len(run_dirs)] = verdict]
  /\ UNCHANGED <<queue_state, run_states, pending, approvals_file, index, alertVars, atWork, shown, complete, disturbed, rebuilds, exits>>

\* A thread saves the queue's state or a run's, and its event comes next (save_queue_definition, update_run_metadata).
RecordEvent(b) ==
  /\ Changed /\ building[b] = "nothing" /\ building' = [building EXCEPT ![b] = "event"]
  /\ \/ queue_state' \in QueueStates /\ UNCHANGED run_states
     \/ UNCHANGED queue_state /\ \E r \in Runs, state \in RunStates : run_states' = [run_states EXCEPT ![r] = state]
  /\ UNCHANGED <<run_dirs, pending, approvals_file, index, alertVars, contested, shown, complete, disturbed, rebuilds, exits>>

Asks(b, from, to) ==
  /\ building[b] = from /\ building' = [building EXCEPT ![b] = to]
  /\ UNCHANGED <<run_dirs, queue_state, run_states, index, alertVars, contested, shown, complete, disturbed, rebuilds, exits>>
NobodyAsks == \A b \in Threads : building[b] # "asking"

\* The worker asks: approvals.json is opened for writing, which empties it, and then written.
AskApproval(b) ==
  /\ b # "window" /\ NobodyAsks /\ Changed /\ Asks(b, "nothing", "asking")
  /\ pending' = pending + 1 /\ approvals_file' = TornApprovals
SaveApprovals(b) == Asks(b, "asking", "nothing") /\ approvals_file' = pending /\ UNCHANGED <<pending, changes>>

\* The user decides in the window, whose thread does nothing else then.
DecideApproval ==
  /\ NobodyAsks /\ pending > 0 /\ Changed /\ Asks("window", "nothing", "nothing")
  /\ pending' = pending - 1 /\ approvals_file' = pending'

-----------------------------------------------------------------------------
(* rebuild_all, a file at a time.                                          *)

Resting == {"nothing", "tabs", "asking", "event"}
Rebuilding(b) == building[b] \notin Resting
Others(b) == Threads \ {b}

\* The file a thread has open: an index, the trends and the summary through the one temporary file of their name until
\* it is put in place, the banners and the health in place.
Open(stage) ==
  IF stage \in Resting \union {"banners", "health"} THEN {}
  ELSE {IF stage = "saving banners" THEN "summary" ELSE stage}

\* A thread goes on to the next file; who has it open too may get in its way, and it in theirs.
Goes(b, to) ==
  /\ building' = [building EXCEPT ![b] = to]
  /\ LET met == {o \in Others(b) : Open(building[o]) \intersect Open(to) # {}}
     IN contested' = (contested \ {b}) \union met \union (IF met = {} THEN {} ELSE {b})
Onward(b, from, to) == building[b] = from /\ Goes(b, to) /\ UNCHANGED <<sourceVars, disturbed, changes, exits>>

\* A save of a file another one has had open leaves the new content, half of it or the old one, and may raise, when
\* the temporary file is gone: a rebuild that raises stops where it is, in the window's callback or in record_event.
Save(b, from, to) == Onward(b, from, to) \/ (b \in contested /\ Onward(b, from, "nothing"))
Saved(b, new, half, old) == IF b \in contested THEN {new, half, old} ELSE {new}

\* The rebuild that follows an event, or that of the button.
StartRebuild(b) ==
  /\ building[b] \in {"nothing", "event"} /\ Goes(b, "queue") /\ rebuilds + exits < MaxRebuilds /\ rebuilds' = rebuilds + 1
  /\ complete' = FALSE
  /\ disturbed' = {o \in Threads : IF o = b THEN \E w \in Others(b) : Rebuilding(w) ELSE o \in disturbed \/ building[o] # "nothing"}
  /\ UNCHANGED <<sourceVars, index, alertVars, shown, changes, exits>>

Indexed(b, part, to, content) ==
  /\ Save(b, part, to) /\ \E left \in Saved(b, content, NoIndex[part], index[part]) : index' = [index EXCEPT ![part] = left]
  /\ UNCHANGED <<alertVars, shown, complete, rebuilds>>

BuildQueue(b) == Indexed(b, "queue", "runs", queue_state)
BuildRuns(b) == Indexed(b, "runs", "approvals", run_states)
BuildApprovals(b) == approvals_file # TornApprovals /\ Indexed(b, "approvals", "regression", approvals_file)
BuildRegression(b) == LatestVerdict # TornVerdict /\ Indexed(b, "regression", "recovery", LatestVerdict)
BuildRecovery(b) == Indexed(b, "recovery", "trends", Recoverable(run_states))

\* json.load raises: what was rebuilt stays, nothing after it is, and nothing is shown.
RebuildFails(b) ==
  /\ \/ approvals_file = TornApprovals /\ Onward(b, "approvals", "nothing")
     \/ LatestVerdict = TornVerdict /\ Onward(b, "regression", "nothing")
     \/ summary = Half /\ Onward(b, "banners", "nothing")
  /\ UNCHANGED <<index, alertVars, shown, complete, rebuilds>>

BuildTrends(b) ==
  /\ Save(b, "trends", "summary") /\ trends' \in Saved(b, Whole(Trends), Half, trends)
  /\ UNCHANGED <<index, summary, health, evaluated, cut, shown, complete, rebuilds>>

\* The summary is saved without its banners; the evaluation reads it back, then rewrites it and the health in place.
Bug_BuildSummary(b) ==
  /\ Save(b, "summary", "banners")
  /\ summary' \in Saved(b, Whole([counts |-> Counts([index EXCEPT !.runs = run_states]), banners |-> {}]), Half, summary)
  /\ cut' = TRUE /\ UNCHANGED <<index, trends, health, evaluated, shown, complete, rebuilds>>
BuildSummary(b) ==
  /\ Save(b, "summary", "banners") /\ summary' \in Saved(b, Whole([counts |-> Counts(index), banners |-> {}]), Half, summary)
  /\ cut' = TRUE /\ UNCHANGED <<index, trends, health, evaluated, shown, complete, rebuilds>>

OpenBanners(b) ==
  /\ Onward(b, "banners", "saving banners") /\ summary # Half
  /\ evaluated' = [evaluated EXCEPT ![b] = Load(summary, NoSummary).counts] /\ summary' = Half
  /\ UNCHANGED <<index, trends, health, cut, shown, complete, rebuilds>>
WriteBanners(b) ==
  /\ Onward(b, "saving banners", "health")
  /\ summary' \in Saved(b, Whole([counts |-> evaluated[b], banners |-> Banners(evaluated[b])]), Half, summary)
  /\ UNCHANGED <<index, trends, health, evaluated, cut, shown, complete, rebuilds>>
OpenHealth(b) ==
  /\ Onward(b, "health", "saving health") /\ health' = Half
  /\ UNCHANGED <<index, trends, summary, evaluated, cut, shown, complete, rebuilds>>

\* The last write.
WriteHealth(b) ==
  /\ Onward(b, "saving health", "nothing") /\ health' \in Saved(b, Whole(Overall(evaluated[b])), Half, health)
  /\ complete' = (b \notin disturbed) /\ cut' = (b \in disturbed)
  /\ UNCHANGED <<index, trends, summary, evaluated, shown, rebuilds>>

\* The tabs are filled one after the other, by the button that rebuilt the indices or by the one that only refreshes:
\* the dashboard first, and those of the indices.
ShowDashboard ==
  /\ building["window"] = "nothing" /\ Goes("window", "tabs")
  /\ disturbed' = (disturbed \ {"window"}) \union (IF \E w \in Others("window") : Rebuilding(w) THEN {"window"} ELSE {})
  /\ shown' = [shown EXCEPT !.complete = FALSE, !.dashboard = Load(summary, NoSummary), !.health = Load(health, "UNKNOWN")]
  /\ UNCHANGED <<sourceVars, index, alertVars, complete, changes, rebuilds, exits>>
ShowIndices ==
  /\ Onward("window", "tabs", "nothing")
  /\ shown' = [shown EXCEPT !.complete = complete /\ "window" \notin disturbed, !.index = index]
  /\ UNCHANGED <<index, alertVars, complete, rebuilds>>

\* The window is closed or killed, in the middle of a rebuild or of a save of the approvals, and started again:
\* approvals that cannot be read are none, and the tabs are empty until they are filled.
Exit ==
  /\ rebuilds + exits < MaxRebuilds /\ exits' = exits + 1
  /\ building' = [b \in Threads |-> "nothing"] /\ contested' = {} /\ disturbed' = {} /\ shown' = Blank
  /\ pending' = IF approvals_file = TornApprovals THEN 0 ELSE approvals_file
  /\ UNCHANGED <<run_dirs, queue_state, run_states, approvals_file, index, alertVars, complete, rebuilds, changes>>

-----------------------------------------------------------------------------
ConsoleIdle ==
  /\ queue_state = "NONE" /\ run_states = [r \in Runs |-> "PROMOTED"]
  /\ pending = Backlog /\ approvals_file = pending
  /\ index = NoIndex /\ trends = Absent /\ summary = Absent /\ health = Absent
  /\ building = [b \in Threads |-> "nothing"] /\ contested = {} /\ disturbed = {}
  /\ evaluated = [b \in Threads |-> Counts(NoIndex)] /\ shown = Blank /\ complete = FALSE /\ cut = FALSE
  /\ changes = 0 /\ rebuilds = 0 /\ exits = 0
\* A suite has failed, and another one is at work when the window is opened.
OpsInit == ConsoleIdle /\ \E begun \in {NoVerdict, TornVerdict} : run_dirs = <<[status |-> "FAIL"], begun>>

Rebuild(b) ==
  \/ BuildQueue(b) \/ BuildRuns(b) \/ BuildApprovals(b) \/ BuildRegression(b) \/ BuildRecovery(b) \/ RebuildFails(b)
  \/ BuildTrends(b) \/ BuildSummary(b) \/ OpenBanners(b) \/ WriteBanners(b) \/ OpenHealth(b) \/ WriteHealth(b)
OpsNext ==
  \/ SuiteMoves \/ DecideApproval \/ ShowDashboard \/ ShowIndices \/ Exit
  \/ \E b \in Threads : RecordEvent(b) \/ AskApproval(b) \/ SaveApprovals(b) \/ StartRebuild(b) \/ Rebuild(b)
OpsSpec == OpsInit /\ [][OpsNext]_opsVars

-----------------------------------------------------------------------------
Indices == [queue : QueueStates, runs : [Runs -> RunStates], approvals : Nat,
            regression : {NoVerdict} \union Verdicts, recovery : SUBSET Runs]
AllCounts == [running : Nat, queue : QueueStates, pending : Nat, failing : BOOLEAN, interrupted : Nat]
Alerts == SUBSET {"APPROVAL_BACKLOG", "REGRESSION_FAILING", "RECOVERY_PENDING"}
Tabs == [complete : BOOLEAN, index : Indices, dashboard : [counts : AllCounts, banners : Alerts], health : {"UNKNOWN", "OK", "WARN", "FAIL"}]
Stages == {"nothing", "tabs", "asking", "event", "queue", "runs", "approvals", "regression", "recovery", "trends", "summary",
           "banners", "saving banners", "health", "saving health"}
FileOf(content, f) == f \in {Absent, Half} \/ (DOMAIN f = {"state", "content"} /\ f = Whole(f.content) /\ f.content \in content)

OpsTypeOK ==
  /\ run_dirs \in Seq({NoVerdict, TornVerdict} \union Verdicts) /\ queue_state \in QueueStates /\ run_states \in [Runs -> RunStates]
  /\ pending \in Nat /\ approvals_file \in Nat \union {TornApprovals}
  /\ index \in Indices /\ building \in [Threads -> Stages] /\ evaluated \in [Threads -> AllCounts]
  /\ contested \subseteq Threads /\ disturbed \subseteq Threads
  /\ FileOf([counts : AllCounts, banners : Alerts], summary) /\ FileOf({"OK", "WARN", "FAIL"}, health) /\ shown \in Tabs
  /\ complete \in BOOLEAN /\ cut \in BOOLEAN /\ changes \in Nat /\ rebuilds \in Nat /\ exits \in Nat

\* The console contradicts neither itself nor what was run (rebuild_all, evaluate, _refresh_ops_console): outside the
\* writing of the alerts their banners and the health are those of the summary beside them, unless the last to write
\* them was ended in the middle or met another rebuild; the numbers after a rebuild that went undisturbed to its end
\* are those of the indices on disk, and tabs filled then show one picture; and a verdict in the index is one some
\* suite ended with, whoever saved it over whom.
ConsoleSound ==
  /\ ~cut => \/ summary = Absent /\ health = Absent
             \/ \E counts \in {Load(summary, NoSummary).counts} :
                  summary = Whole([counts |-> counts, banners |-> Banners(counts)]) /\ health = Whole(Overall(counts))
  /\ complete => Load(summary, NoSummary).counts = Counts(index) /\ trends = Whole(Trends)
  /\ shown.complete => /\ shown.dashboard = [counts |-> Counts(shown.index), banners |-> Banners(Counts(shown.index))]
                       /\ shown.health = Overall(Counts(shown.index))
  /\ index.regression # NoVerdict => \E n \in DOMAIN run_dirs : run_dirs[n] = index.regression
=============================================================================
