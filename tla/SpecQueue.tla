------------------------------ MODULE SpecQueue ------------------------------
(***************************************************************************)
(* The spec queue of the agent workbench (ui/main_window.py): the worker   *)
(* thread _run_queue_worker, which takes the slots through thirteen        *)
(* stages, the user's buttons and the message loop, which run on the UI    *)
(* thread between any two of its steps, and the crash of the program       *)
(* followed by _startup_recovery.  What a stage computes is reduced to its *)
(* outcome; what it reads from the shared slot, the ledger, the approvals  *)
(* and the stop flag, and when, is kept.  An update of the ledger is one   *)
(* step here; RunLedger takes it apart.                                    *)
(***************************************************************************)
EXTENDS Integers, Sequences, FiniteSets, SequencesExt

CONSTANTS N,          \* number of slots
          MaxRuns,    \* bound: run ids are 1..MaxRuns (fresh uuids in the code)
          Specs,      \* specs a user may submit: [format, risk, dry]
          Initial,    \* the specs submitted before the first start
          Inputs,     \* kinds of user action and failure a configuration has
          MaxStarts, MaxCrashes  \* bounds on starts of the queue and on crashes

NoRun == 0            \* the empty run id, which the ledger accepts as a key
NoSpec == [format |-> "none", risk |-> "low", dry |-> FALSE]
Slots == 1..N
Runs == 1..MaxRuns
Keys == {NoRun} \cup Runs

\* A compiled plan and a legacy text always run in promote mode.
Spec == [format : {"legacy", "dsl", "plan"}, risk : {"low", "high", "denied"}, dry : BOOLEAN]

ASSUME QueueConstants ==
  /\ N \in Nat \ {0} /\ MaxRuns \in Nat /\ MaxRuns >= N
  /\ MaxStarts \in Nat /\ MaxCrashes \in Nat
  /\ Specs \subseteq {s \in Spec : s.dry => s.format = "dsl"}
  /\ Initial \in [Slots -> Specs \cup {NoSpec}]
  /\ Inputs \subseteq {"submit", "clear", "edit", "rerun", "resume", "replay",
                       "impact", "approvals", "stop", "crash"}

VARIABLES slots,        \* what the user sees of each slot: spec, status, run id
          orch,         \* the current stage of each slot's orchestrated run
          preview,      \* the impact preview of each slot and its approval
          shown,        \* the preview the approve buttons act on, and whether they are enabled
          queueActive, stopRequested,
          worker,       \* the worker thread and its local variables
          msgs,         \* the UI queue
          ledger, recent,       \* on disk: the runs, and their order by updated_at
          approvals, queueDef,  \* on disk: the approval requests, the queue
          alive, starts, crashes,
          cut,          \* history: what the last crash interrupted
          afterStop     \* history: stages begun since the stop request

memory == <<slots, orch, preview, shown, queueActive, stopRequested, worker, msgs>>
disk == <<ledger, recent, approvals, queueDef>>
history == <<alive, starts, crashes, cut, afterStop>>
vars == <<memory, disk, history>>

O == INSTANCE OrchestratorStages
---------------------------------------------------------------------------
(* The stages, in the order of the worker's list. *)

Intake == 1
Parsing == 2
PreExec == 3
Environment == 4
Impact == 5
Gate == 6
TaskExecution == 7
Structural == 8
Verification == 9
Regression == 10
Outcome == 11
PrePromote == 12
Logging == 13
Stages == Intake..Logging

\* _map_stage_to_durable_state: what the ledger records when a stage starts.
DurableState ==
  << "CREATED", "SNAPSHOT_PREPARING", "SNAPSHOT_PREPARING", "RUNTIME_RESOLVING",
     "none", "none", "EXECUTING", "STRUCTURAL_VALIDATING", "VERIFYING", "none",
     "COMPLETED", "PROMOTION_PENDING", "COMPLETED" >>

\* update_stage's mapping: the orchestrator stages a queue stage stands for.
Targets ==
  [k \in Stages |->
    CASE k = Intake  -> <<"REQUEST_RECEIVED", "NORMALIZATION", "INTENT_DECOMPOSITION">>
      [] k = Parsing -> <<"PLANNING_SKELETON", "CLARIFICATION_GATE", "DRAFT_SPEC_GENERATION", "COMPILE">>
      [] k = Impact  -> <<"PREVIEW_SIMULATION">>
      [] k = Gate    -> <<"APPROVAL_GATE">>
      [] k = TaskExecution -> <<"EXECUTION">>
      [] k = Logging -> <<"APPLY_CHANGESET", "POST_APPLY_VERIFICATION", "METRICS_AGGREGATION">>
      [] OTHER       -> <<>>]

\* advance_stage for the i-th target; an illegal transition is only logged.
AdvancedTo(cur, targets, i) ==
  IF i <= Len(targets) /\ O!CanTransition(cur, targets[i]) THEN targets[i] ELSE cur

\* ... for each target in turn, of which a stage has at most four.
Advanced(cur, targets) ==
  LET first == AdvancedTo(AdvancedTo(cur, targets, 1), targets, 2)
  IN  AdvancedTo(AdvancedTo(first, targets, 3), targets, 4)

\* Only a compiled plan has an impact preview and a gate.
NextStage(k, spec) == IF k = Environment /\ spec.format # "plan" THEN TaskExecution ELSE k + 1

\* The stages that end with check_stop().
ChecksStop(k) == k # Gate
---------------------------------------------------------------------------
(* The run ledger: update_run_metadata as one step. *)

NoEntry == [state |-> "none", slot |-> 0, ws |-> FALSE]
Known(r) == ledger[r] # NoEntry
Fresh == {r \in Runs : ~Known(r) /\ \A s \in Slots : slots[s].run # r}
NewRunId == CHOOSE r \in Fresh : TRUE
\* Bound: a run id remains for every slot that has none.
RunsToSpare == Cardinality(Fresh) > Cardinality({s \in Slots : slots[s].run = NoRun})

\* A run stands once in the order, at its last update.
Touch(r) ==
  LET at == {i \in DOMAIN recent : recent[i] = r}
  IN  Append(IF at = {} THEN recent ELSE RemoveAt(recent, CHOOSE i \in at : TRUE), r)

\* _record_run_transition.
RecordTransition(r, s, state) ==
  /\ ledger' = [ledger EXCEPT ![r] = IF Known(r) THEN [@ EXCEPT !.state = state]
                                     ELSE [state |-> state, slot |-> s, ws |-> FALSE]]
  /\ recent' = Touch(r)

Terminal == {"COMPLETED", "FAILED"}
---------------------------------------------------------------------------
Off == [pc |-> "off", slot |-> 0, stage |-> 0, spec |-> NoSpec, risk |-> "low",
        key |-> NoRun, home |-> NoRun, snap |-> "none", resumes |-> NoRun]
NotCut == [run |-> NoRun, stage |-> 0]
EmptySlot == [spec |-> NoSpec, status |-> "empty", run |-> NoRun]
NoPreview == [status |-> "none", held |-> FALSE]
Message(kind) == [kind |-> kind, slot |-> 0, required |-> FALSE]

\* Mutant: the status of a stage, not of a slot.
Bug_Status(spec) == IF spec = NoSpec THEN "empty" ELSE "pending"

Status(spec) == IF spec = NoSpec THEN "empty" ELSE "ready"

Init ==
  /\ slots = [s \in Slots |-> [EmptySlot EXCEPT !.spec = Initial[s], !.status = Status(Initial[s])]]
  /\ orch = [s \in Slots |-> "none"]
  /\ preview = [s \in Slots |-> NoPreview]
  /\ shown = [slot |-> 0, enabled |-> FALSE] /\ queueActive = FALSE /\ stopRequested = FALSE
  /\ worker = Off /\ msgs = <<>>
  /\ ledger = [r \in Keys |-> NoEntry] /\ recent = <<>>
  /\ approvals = [r \in Keys |-> [gate \in {"execution", "promotion"} |-> "none"]]
  /\ queueDef = [state |-> "none", specs |-> [s \in Slots |-> NoSpec]]
  /\ alive = TRUE /\ starts = 0 /\ crashes = 0 /\ cut = NotCut /\ afterStop = 0
---------------------------------------------------------------------------
(* The worker thread. *)

Here == worker.slot
Run == slots[Here].run

At(pc) == alive /\ worker.pc = pc
AtStage(k) == At("body") /\ worker.stage = k

\* Mutant: the slot keeps its status.
Bug_SlotEnds(status, stage) ==
  /\ UNCHANGED slots
  /\ orch' = [orch EXCEPT ![Here] = stage]
  /\ worker' = [Off EXCEPT !.pc = "loop", !.slot = Here + 1, !.resumes = worker.resumes]

SlotEnds(status, stage) ==
  /\ slots' = [slots EXCEPT ![Here].status = status]
  /\ orch' = [orch EXCEPT ![Here] = stage]
  /\ worker' = [Off EXCEPT !.pc = "loop", !.slot = Here + 1, !.resumes = worker.resumes]

\* The two except clauses of the worker; neither writes the ledger.
Stopped == SlotEnds("stopped", "BLOCKED")
Failed == SlotEnds("failed", "FAILED")

\* The end of a stage, check_stop() included; w carries the worker's locals.
Bug_Pass(w) ==
  \/ /\ stopRequested /\ ChecksStop(worker.stage) /\ worker.stage < TaskExecution
     /\ Stopped
  \/ /\ ~(stopRequested /\ ChecksStop(worker.stage) /\ worker.stage < TaskExecution)
     /\ worker' = [w EXCEPT !.stage = NextStage(@, w.spec),
                            !.pc = IF worker.stage = Intake THEN "snapshot" ELSE "enter"]
     /\ UNCHANGED <<slots, orch>>

Pass(w) ==
  \/ /\ stopRequested /\ ChecksStop(worker.stage)
     /\ Stopped
  \/ /\ ~(stopRequested /\ ChecksStop(worker.stage))
     /\ worker' = [w EXCEPT !.stage = NextStage(@, w.spec),
                            !.pc = IF worker.stage = Intake THEN "snapshot" ELSE "enter"]
     /\ UNCHANGED <<slots, orch>>

uiState == <<shown, queueActive, stopRequested>>

\* The head of the loop: a slot is left alone after a stop request...
SkipStoppedSlot ==
  /\ At("loop") /\ Here \in Slots /\ stopRequested
  /\ slots' = [slots EXCEPT ![Here].status = IF @ = "ready" THEN "stopped" ELSE @]
  /\ worker' = [worker EXCEPT !.slot = Here + 1]
  /\ UNCHANGED <<orch, preview, uiState, msgs, disk, history>>

\* ... or when it has no spec ...
SkipEmptySlot ==
  /\ At("loop") /\ Here \in Slots /\ ~stopRequested /\ slots[Here].spec = NoSpec
  /\ slots' = [slots EXCEPT ![Here].status = "empty"]
  /\ worker' = [worker EXCEPT !.slot = Here + 1]
  /\ UNCHANGED <<orch, preview, uiState, msgs, disk, history>>

\* ... and else is started, under the run id it has or a new one.  Its
\* orchestrated run is created once and kept for good.
StartSlot ==
  /\ At("loop") /\ Here \in Slots /\ ~stopRequested /\ slots[Here].spec # NoSpec
  /\ slots[Here].run # NoRun \/ Fresh # {}    \* bound
  /\ slots' = [slots EXCEPT ![Here].status = "running",
                            ![Here].run = IF @ = NoRun THEN NewRunId ELSE @]
  /\ orch' = [orch EXCEPT ![Here] = IF @ = "none" THEN "REQUEST_RECEIVED" ELSE @]
  /\ worker' = [worker EXCEPT !.pc = "enter", !.stage = Intake]
  /\ UNCHANGED <<preview, uiState, msgs, disk, history>>

\* update_stage(name, "running").
BeginStage ==
  /\ At("enter")
  /\ orch' = [orch EXCEPT ![Here] = Advanced(@, Targets[worker.stage])]
  /\ IF DurableState[worker.stage] = "none" THEN UNCHANGED <<ledger, recent>>
     ELSE RecordTransition(Run, Here, DurableState[worker.stage])
  /\ worker' = [worker EXCEPT !.pc = IF worker.stage = TaskExecution THEN "baseline" ELSE "body"]
  /\ afterStop' = IF stopRequested THEN afterStop + 1 ELSE 0
  /\ UNCHANGED <<slots, preview, uiState, msgs, approvals, queueDef, alive, starts, crashes, cut>>

\* Any call of a stage may raise; the handler marks the slot and goes on.
StageRaises ==
  /\ alive /\ worker.pc \in {"snapshot", "body"}
  /\ Failed
  /\ UNCHANGED <<preview, uiState, msgs, disk, history>>

\* Spec Intake: the spec's format and mode are read from the slot now.
IntakeSpec ==
  /\ AtStage(Intake)
  /\ \/ slots[Here].spec = NoSpec /\ Failed
     \/ slots[Here].spec # NoSpec /\ Pass([worker EXCEPT !.spec = slots[Here].spec])
  /\ UNCHANGED <<preview, uiState, msgs, disk, history>>

\* The workspace snapshot.  A run the ledger knows to be past
\* SNAPSHOT_PREPARING, with its workspace, is resumed from it.
Resuming(r) == Known(r) /\ ledger[r].state \notin {"CREATED", "SNAPSHOT_PREPARING"}

TakeSnapshot ==
  /\ At("snapshot")
  /\ worker' = [worker EXCEPT !.pc = "enter", !.home = Run,
                              !.snap = IF Resuming(Run) /\ ledger[Run].ws THEN "reused" ELSE "new"]
  /\ ledger' = IF Known(Run)
               THEN [ledger EXCEPT ![Run].state = "SNAPSHOT_READY", ![Run].ws = TRUE]
               ELSE ledger
  /\ UNCHANGED <<slots, orch, preview, uiState, msgs, recent, approvals, queueDef, history>>

\* Spec Parsing: the tasks come from what the slot holds by now.
ParseSpec ==
  /\ AtStage(Parsing)
  /\ Pass([worker EXCEPT !.risk = slots[Here].spec.risk])
  /\ UNCHANGED <<preview, uiState, msgs, disk, history>>

\* Mutant: any request for the run, decided or not, lets it pass.
Bug_Granted(r, gate) == approvals[r][gate] \in {"approved", "pending"}

\* find_latest_for_entity(...) is approved.
Granted(r, gate) == approvals[r][gate] = "approved"

\* The return statements that pause the queue for an approval request.
PauseForApproval(gate, stage) ==
  /\ approvals' = [approvals EXCEPT ![Run][gate] = IF @ = "none" THEN "pending" ELSE @]
  /\ orch' = [orch EXCEPT ![Here] = stage]
  /\ worker' = Off
  /\ msgs' = Append(msgs, Message("paused"))
  /\ UNCHANGED slots

\* Policy Check (Pre-Exec).
CheckPolicy ==
  /\ AtStage(PreExec)
  /\ \/ /\ worker.risk = "denied" /\ Failed
        /\ UNCHANGED <<msgs, approvals>>
     \/ /\ worker.risk = "low" \/ (worker.risk = "high" /\ Granted(Run, "execution"))
        /\ Pass([worker EXCEPT !.key = Run])
        /\ UNCHANGED <<msgs, approvals>>
     \/ /\ worker.risk = "high" /\ ~Granted(Run, "execution")
        /\ PauseForApproval("execution", "AWAITING_USER")
  /\ UNCHANGED <<preview, uiState, ledger, recent, queueDef, history>>

\* Impact Preview: simulated and judged once, then kept with the slot.  The
\* buttons, if they still show the slot's old preview, act on nothing now.
PreviewImpact ==
  /\ AtStage(Impact)
  /\ \/ /\ preview[Here].held
        /\ UNCHANGED <<preview, shown, msgs>>
     \/ /\ ~preview[Here].held
        /\ \E v \in {"auto", "pending", "rejected"} :
             /\ preview' = [preview EXCEPT ![Here] = [status |-> v, held |-> TRUE]]
             /\ msgs' = Append(msgs, [kind |-> "preview", slot |-> Here, required |-> v # "auto"])
        /\ shown' = IF shown.slot = Here THEN [shown EXCEPT !.slot = 0] ELSE shown
  /\ Pass(worker)
  /\ UNCHANGED <<queueActive, stopRequested, disk, history>>

\* Approval Gate.  A pending preview ends the worker without a message.
PassGate ==
  /\ AtStage(Gate)
  /\ \/ /\ preview[Here].status = "pending"
        /\ orch' = [orch EXCEPT ![Here] = "AWAITING_USER"]
        /\ worker' = Off
        /\ UNCHANGED slots
     \/ preview[Here].status = "rejected" /\ Failed
     \/ preview[Here].status \in {"auto", "approved"} /\ Pass(worker)
  /\ UNCHANGED <<preview, uiState, msgs, disk, history>>

\* Task Execution, first part: a promote-mode run captures a baseline and
\* writes its id to metadata.payload, a field RunMetadata does not have.
RecordBaseline ==
  /\ At("baseline")
  /\ \/ /\ ~worker.spec.dry /\ Known(Run) /\ Failed
     \/ /\ worker.spec.dry \/ ~Known(Run)
        /\ worker' = [worker EXCEPT !.pc = "body"]
        /\ UNCHANGED <<slots, orch>>
  /\ UNCHANGED <<preview, uiState, msgs, disk, history>>

\* Task Execution proper and the stages that only compute.
FinishStage ==
  /\ At("body")
  /\ worker.stage \in {Environment, TaskExecution, Structural, Verification, Regression, Outcome}
  /\ Pass(worker)
  /\ UNCHANGED <<preview, uiState, msgs, disk, history>>

\* Policy Check (Pre-Promote); a refusal turns the run into a dry run.
CheckPromotion ==
  /\ AtStage(PrePromote)
  /\ \/ /\ Pass(worker) \/ Pass([worker EXCEPT !.spec.dry = TRUE])
        /\ UNCHANGED <<msgs, approvals>>
     \/ ~Granted(Run, "promotion") /\ PauseForApproval("promotion", orch[Here])
  /\ UNCHANGED <<preview, uiState, ledger, recent, queueDef, history>>

\* Logging / Audit, the promotion and the retention policy; then the slot is
\* completed if the orchestrated run may be.
LogRun ==
  /\ AtStage(Logging)
  /\ \E keep \in BOOLEAN :
       ledger' = IF Known(worker.home) /\ ~keep
                 THEN [ledger EXCEPT ![worker.home].ws = FALSE] ELSE ledger
  /\ \/ stopRequested /\ Stopped
     \/ /\ ~stopRequested
        /\ \/ O!CanTransition(orch[Here], "COMPLETED") /\ SlotEnds("completed", "COMPLETED")
           \/ ~O!CanTransition(orch[Here], "COMPLETED") /\ Failed
  /\ UNCHANGED <<preview, uiState, msgs, recent, approvals, queueDef, history>>

\* Mutant: the worker ends without telling the UI.
Bug_FinishQueue ==
  /\ At("loop") /\ Here > N
  /\ queueDef' = [queueDef EXCEPT !.state = IF stopRequested THEN "INTERRUPTED" ELSE "COMPLETED"]
  /\ worker' = Off
  /\ UNCHANGED <<slots, orch, preview, uiState, msgs, ledger, recent, approvals, history>>

\* The end of the loop.
FinishQueue ==
  /\ At("loop") /\ Here > N
  /\ queueDef' = [queueDef EXCEPT !.state = IF stopRequested THEN "INTERRUPTED" ELSE "COMPLETED"]
  /\ worker' = Off
  /\ msgs' = Append(msgs, Message("finished"))
  /\ UNCHANGED <<slots, orch, preview, uiState, ledger, recent, approvals, history>>

WorkerStep ==
  \/ SkipStoppedSlot \/ SkipEmptySlot \/ StartSlot \/ BeginStage \/ StageRaises
  \/ IntakeSpec \/ TakeSnapshot \/ ParseSpec \/ CheckPolicy \/ PreviewImpact
  \/ PassGate \/ RecordBaseline \/ FinishStage \/ CheckPromotion \/ LogRun
  \/ FinishQueue
---------------------------------------------------------------------------
(* The UI thread. *)

\* start_queue, with sl for the slots it finds.
Started(sl, resumed) ==
  /\ slots' = [s \in Slots |-> [sl[s] EXCEPT !.status = Status(sl[s].spec)]]
  /\ queueDef' = [state |-> "RUNNING", specs |-> [s \in Slots |-> sl[s].spec]]
  /\ queueActive' = TRUE /\ stopRequested' = FALSE
  /\ worker' = [Off EXCEPT !.pc = "loop", !.slot = 1, !.resumes = resumed]
  /\ starts < MaxStarts /\ starts' = starts + 1    \* bound
  /\ afterStop' = 0

NotStarted(sl) ==
  /\ slots' = sl
  /\ UNCHANGED <<queueDef, queueActive, stopRequested, worker, starts, afterStop>>

StartQueueWith(sl, resumed) ==
  /\ \/ queueActive /\ NotStarted(sl)
     \/ ~queueActive /\ Started(sl, resumed)
  /\ UNCHANGED <<orch, msgs, ledger, recent, approvals, alive, crashes, cut>>

StartQueue == alive /\ ~queueActive /\ StartQueueWith(slots, NoRun) /\ UNCHANGED <<preview, shown>>

\* Mutant: the stop button gives the queue back at once.
Bug_StopQueue ==
  /\ alive /\ "stop" \in Inputs /\ queueActive
  /\ stopRequested' = TRUE /\ queueActive' = FALSE
  /\ UNCHANGED <<slots, orch, preview, shown, worker, msgs, disk, history>>

\* The button is enabled while the queue is active.
StopQueue ==
  /\ alive /\ "stop" \in Inputs /\ queueActive
  /\ stopRequested' = TRUE
  /\ UNCHANGED <<slots, orch, preview, shown, queueActive, worker, msgs, disk, history>>

SubmitSpec(s) ==
  /\ alive /\ "submit" \in Inputs
  /\ \E spec \in Specs : slots' = [slots EXCEPT ![s].spec = spec, ![s].status = "ready"]
  /\ UNCHANGED <<orch, preview, uiState, worker, msgs, disk, history>>

ClearSlot(s) ==
  /\ alive /\ "clear" \in Inputs
  /\ slots[s].run = NoRun \/ RunsToSpare
  /\ slots' = [slots EXCEPT ![s] = EmptySlot]
  /\ UNCHANGED <<orch, preview, uiState, worker, msgs, disk, history>>

\* _on_spec_changed: typing in the editor drops the selected slot's preview.
EditSpec(s) ==
  /\ alive /\ "edit" \in Inputs
  /\ preview' = [preview EXCEPT ![s].held = FALSE]
  /\ UNCHANGED <<slots, orch, uiState, worker, msgs, disk, history>>

TriggerRerun(s) ==
  /\ alive /\ "rerun" \in Inputs /\ slots[s].run # NoRun
  /\ StartQueueWith([slots EXCEPT ![s].status = "ready"], NoRun)
  /\ UNCHANGED <<preview, shown>>

\* resume_run, where prepare_resume accepts the run.
ResumeRun(s) ==
  /\ alive /\ "resume" \in Inputs /\ slots[s].run # NoRun
  /\ ledger[slots[s].run].state \notin Terminal /\ ledger[slots[s].run].ws
  /\ StartQueueWith(slots, slots[s].run)
  /\ UNCHANGED <<preview, shown>>

\* replay_run only registers a new run for the slot of the original.
ReplayRun(s) ==
  /\ alive /\ "replay" \in Inputs /\ slots[s].run # NoRun /\ Known(slots[s].run) /\ RunsToSpare
  /\ ledger' = [ledger EXCEPT ![NewRunId] =
                  [state |-> "CREATED", slot |-> ledger[slots[s].run].slot, ws |-> FALSE]]
  /\ recent' = Touch(NewRunId)
  /\ UNCHANGED <<memory, approvals, queueDef, history>>

\* What the buttons do to the preview they act on.
Judged(status) ==
  /\ alive /\ "impact" \in Inputs /\ shown.enabled
  /\ shown' = [shown EXCEPT !.enabled = FALSE]
  /\ preview' = IF shown.slot = 0 THEN preview
                ELSE [preview EXCEPT ![shown.slot].status = status]

ApproveImpact == Judged("approved") /\ StartQueueWith(slots, NoRun)

RejectImpact ==
  /\ Judged("rejected")
  /\ UNCHANGED <<slots, orch, queueActive, stopRequested, worker, msgs, disk, history>>

\* approve_selected and deny_selected.
Decide(r, gate) ==
  /\ alive /\ "approvals" \in Inputs /\ approvals[r][gate] = "pending"
  /\ \E d \in {"approved", "denied"} : approvals' = [approvals EXCEPT ![r][gate] = d]
  /\ UNCHANGED <<memory, ledger, recent, queueDef, history>>

\* _handle_ui_message.
HandleMessage ==
  /\ alive /\ msgs # <<>>
  /\ msgs' = Tail(msgs)
  /\ \/ Head(msgs).kind # "preview" /\ queueActive' = FALSE /\ UNCHANGED shown
     \/ /\ Head(msgs).kind = "preview"
        /\ shown' = [slot |-> Head(msgs).slot, enabled |-> shown.enabled \/ Head(msgs).required]
        /\ UNCHANGED queueActive
  /\ UNCHANGED <<slots, orch, preview, stopRequested, worker, disk, history>>
---------------------------------------------------------------------------
(* Crash and startup.  The memory goes, the disk stays. *)

Crash ==
  /\ alive /\ "crash" \in Inputs /\ crashes < MaxCrashes
  /\ alive' = FALSE /\ crashes' = crashes + 1
  /\ cut' = [run |-> IF worker.pc \in {"body", "baseline"} THEN Run ELSE NoRun,
             stage |-> worker.stage]
  /\ UNCHANGED <<memory, disk, starts, afterStop>>

\* Mutant: the scan overlooks runs that were executing tasks.
Bug_NotTerminal(entry) == entry.state \notin Terminal \cup {"none", "EXECUTING"}

\* scan_for_interrupted_runs; every run it finds is marked INTERRUPTED.
NotTerminal(entry) == entry.state \notin Terminal \cup {"none"}

\* Mutant: the latest run of the queue, whatever its slot.
Bug_LatestRun(s) == IF recent = <<>> THEN NoRun ELSE Last(recent)

\* The latest run the ledger has for a slot, by updated_at.
LatestRun(s) ==
  LET of == {i \in DOMAIN recent : ledger[recent[i]].slot = s}
  IN  IF of = {} THEN NoRun ELSE recent[CHOOSE i \in of : \A j \in of : j <= i]

SlotStatus(s) ==
  IF \A i \in DOMAIN recent : ledger[recent[i]].slot # s THEN "empty"
  ELSE IF ledger[LatestRun(s)].state = "COMPLETED" THEN "completed"
  ELSE IF ledger[LatestRun(s)].state = "INTERRUPTED" THEN "interrupted"
  ELSE Status(queueDef.specs[s])

\* _startup_recovery, which runs before the user can do anything.
StartupRecovery ==
  /\ ~alive /\ alive' = TRUE
  /\ slots' = [s \in Slots |->
                IF queueDef.state = "none" THEN EmptySlot
                ELSE [spec |-> queueDef.specs[s], status |-> SlotStatus(s), run |-> LatestRun(s)]]
  /\ orch' = [s \in Slots |-> "none"] /\ preview' = [s \in Slots |-> NoPreview]
  /\ shown' = [slot |-> 0, enabled |-> FALSE] /\ queueActive' = FALSE /\ stopRequested' = FALSE
  /\ worker' = Off /\ msgs' = <<>>
  /\ ledger' = [r \in Keys |-> IF NotTerminal(ledger[r])
                               THEN [ledger[r] EXCEPT !.state = "INTERRUPTED"] ELSE ledger[r]]
  /\ cut' = NotCut /\ afterStop' = 0
  /\ UNCHANGED <<recent, approvals, queueDef, starts, crashes>>

UserStep ==
  \/ StartQueue \/ StopQueue \/ ApproveImpact \/ RejectImpact
  \/ \E s \in Slots : SubmitSpec(s) \/ ClearSlot(s) \/ EditSpec(s) \/ TriggerRerun(s)
                      \/ ResumeRun(s) \/ ReplayRun(s)
  \/ \E r \in Keys, gate \in {"execution", "promotion"} : Decide(r, gate)

Next == WorkerStep \/ UserStep \/ HandleMessage \/ Crash \/ StartupRecovery

QueueSpec == Init /\ [][Next]_vars

\* The worker is a running thread and Tk calls _process_ui_queue every 100 ms.
FairSpec == QueueSpec /\ WF_vars(WorkerStep) /\ WF_vars(HandleMessage)
---------------------------------------------------------------------------
(* Correctness. *)

\* Every variable has its type.
TypeOK ==
  /\ slots \in [Slots -> [spec : Specs \cup {NoSpec}, run : Keys,
       status : {"empty", "ready", "running", "completed", "failed", "stopped", "interrupted"}]]
  /\ orch \in [Slots -> O!Stage \cup {"none"}]
  /\ preview \in [Slots -> [status : {"none", "auto", "pending", "approved", "rejected"}, held : BOOLEAN]]
  /\ shown \in [slot : 0..N, enabled : BOOLEAN]
  /\ queueActive \in BOOLEAN /\ stopRequested \in BOOLEAN
  /\ worker \in [pc : {"off", "loop", "enter", "snapshot", "baseline", "body"}, slot : 0..(N + 1),
                 stage : 0..Logging, spec : Spec \cup {NoSpec}, risk : {"low", "high", "denied"},
                 key : Keys, home : Keys, snap : {"none", "new", "reused"}, resumes : Keys]
  /\ worker.pc \in {"enter", "snapshot", "baseline", "body"} => Here \in Slots /\ worker.stage \in Stages
  /\ msgs \in Seq([kind : {"paused", "finished", "preview"}, slot : 0..N, required : BOOLEAN])
  /\ ledger \in [Keys -> [state : {DurableState[k] : k \in Stages} \cup {"SNAPSHOT_READY", "INTERRUPTED"},
                         slot : 0..N, ws : BOOLEAN]]
  /\ approvals \in [Keys -> [{"execution", "promotion"} -> {"none", "pending", "approved", "denied"}]]
  /\ queueDef \in [state : {"none", "RUNNING", "COMPLETED", "INTERRUPTED"},
                   specs : [Slots -> Specs \cup {NoSpec}]]
  /\ alive \in BOOLEAN /\ starts \in 0..MaxStarts /\ crashes \in 0..MaxCrashes

\* There is never a second worker: while one runs, the queue counts as active
\* and nothing in the UI queue will say otherwise (queue_active, the messages
\* queue_finished and queue_slot_paused_approval).
EndMessages == {i \in DOMAIN msgs : msgs[i].kind # "preview"}
WorkerAccounted ==
  /\ worker.pc # "off" => queueActive /\ EndMessages = {}
  /\ EndMessages # {} => queueActive
  /\ \A i, j \in EndMessages : i = j

\* At most one slot claims to be running, across pauses, stops and restarts.
OneSlotRunning == \A s, t \in Slots : slots[s].status = "running" /\ slots[t].status = "running" => s = t

\* No two slots share a run, and the ledger files a slot's run under it, also
\* after a restart picked the run from the ledger (current_run_id).
RunsDisjoint ==
  \A s \in Slots : slots[s].run # NoRun =>
    /\ \A t \in Slots \ {s} : slots[t].run # slots[s].run
    /\ Known(slots[s].run) => ledger[slots[s].run].slot = s

SlotsApart == RunsDisjoint /\ OneSlotRunning

\* Risky tasks are under way only with an approval on disk for the run the
\* policy check was made for, whatever was started, cleared or restarted since.
TasksApproved ==
  worker.pc \in {"baseline", "body"} /\ worker.stage \in TaskExecution..Logging =>
    /\ worker.risk # "denied"
    /\ worker.risk = "high" => Granted(worker.key, "execution")

\* "Stop execution after the current slot finishes or reaches a safe boundary":
\* at most two stages begin once the stop was requested (check_stop).
StopBounded == afterStop <= 2

\* A run that a crash cut in the middle of a stage is found at startup, unless
\* its stage had already declared it COMPLETED (_startup_recovery).
CrashFound ==
  [][~alive /\ alive' /\ cut.run # NoRun /\ cut.stage \notin {Outcome, Logging}
       => ledger'[cut.run].state = "INTERRUPTED"]_vars

\* The queue does not stay active forever (no compiled plan among the specs).
QueueReturns == queueActive ~> (~queueActive \/ ~alive)

\* main_window.py:4608, "self.start_queue() # Resume queue": approving a
\* pending preview has the worker run.  Violated: the gate's pause leaves
\* queue_active set, so start_queue returns at once.
ApprovalRestartsWorker ==
  [][shown.enabled /\ ~shown'.enabled /\ shown.slot # 0 /\ preview'[shown.slot].status = "approved"
       => ~alive' \/ worker'.pc # "off"]_vars

\* main_window.py:616, "Resume the selected interrupted run from the last safe
\* phase boundary": a resumed run keeps its workspace.  Violated: by the time
\* the worker asks the ledger, Spec Intake has recorded the run as CREATED.
ResumeKeepsSnapshot ==
  [][worker.pc = "snapshot" /\ worker'.pc = "enter" /\ worker.resumes = Run /\ ledger[Run].ws
       => worker'.snap = "reused"]_vars

\* main_window.py:3410, "ENFORCE transitions by stepping through intermediate
\* stages if needed": the orchestrated run is at EXECUTION when the tasks are
\* executed.  Violated: nothing steps, and illegal transitions are only logged.
StagesStepThrough == worker.pc = "body" /\ worker.stage = TaskExecution => orch[Here] = "EXECUTION"
===============================================================================
