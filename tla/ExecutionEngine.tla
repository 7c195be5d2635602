--------------------------- MODULE ExecutionEngine ---------------------------
(***************************************************************************)
(* Demo10's step engine (services/execution): it runs the steps of a plan  *)
(* in dependency order, retries what its policy calls retryable, stops at  *)
(* the first failure and then compensates the completed steps in reverse.  *)
(*                                                                         *)
(* A step is its position in the list _get_ordered_steps returns.  That    *)
(* list is a topological order, and every topological order is the list of *)
(* some plan (one whose steps are written in that order), so nothing is    *)
(* lost by fixing the positions and asking that a step depends on earlier  *)
(* positions only.                                                         *)
(*                                                                         *)
(* One action is one call of the engine that other programs can interleave *)
(* with: preconditions and handler of an attempt, its postconditions, the  *)
(* sleep before a retry, one compensation.  Other programs writing in the  *)
(* workspace are the action Interfere, limited to the files Foreign.       *)
(***************************************************************************)
EXTENDS Naturals, FiniteSets

CONSTANTS
    N,          \* number of steps of a plan
    Files,      \* workspace files the plans name
    Contents,   \* contents a file can have
    Empty,      \* the content of an empty or truncated file
    Absent,     \* what Path.exists() denies; also "no snapshot", "no content given"
    NoTarget,   \* target of a step that names no file
    IOFaults,   \* whether the operating system may refuse or cut short a write
    Foreign,    \* files other programs may write while a run is going
    Plans       \* the plans a run may be asked to execute

Steps      == 1..N
FileStates == Contents \cup {Absent}

FileTypes    == {"create_file", "write_file", "modify_file"}
CheckTypes   == {"validate_output", "verify_file_exists", "analyze_code"}
StepTypes    == FileTypes \cup CheckTypes \cup {"read_file", "run_command", "verify_changes"}
Templates    == {"none", "noop_record_only", "delete_created_file", "restore_file_backup", "other"}
Compensation == {"reversible", "compensatable", "non_reversible"}

\* services/planner/models.py: Step with its StepContract.
StepSpec == [type : StepTypes, target : Files \cup {NoTarget},
             content : FileStates, deps : SUBSET Steps,
             pre : SUBSET {"path_valid", "file_exists", "file_not_exists"},
             post : SUBSET {"file_created"},
             comp : Compensation, template : Templates]

PlanOK(p) == /\ p \in [Steps -> StepSpec]
             /\ \A k \in Steps :
                   /\ \A d \in p[k].deps : d < k
                   /\ p[k].target = NoTarget => /\ p[k].type = "run_command"
                                               /\ p[k].pre \subseteq {"path_valid"}
                                               /\ p[k].post = {}

ASSUME EngineAssumption ==
    /\ N \in Nat
    /\ Empty \in Contents
    /\ Absent \notin Contents
    /\ NoTarget \notin Files
    /\ IOFaults \in BOOLEAN
    /\ Foreign \subseteq Files
    /\ \A p \in Plans : PlanOK(p)

\* What get_retry_policy returns for a step type.
MaxAttempts(type) == CASE type \in {"run_command", "validate_output"} -> 3
                       [] type \in {"write_file", "modify_file"}      -> 1
                       [] OTHER                                       -> 2

RequiresRecheck(type) == type \notin {"write_file", "modify_file"}

Codes == {"OK", "PRECONDITION_FAILED", "POSTCONDITION_FAILED", "COMMAND_FAILED",
          "FILE_ACCESS_DENIED", "DEPENDENCY_NOT_SATISFIED", "IO_ERROR", "EXECUTION_ERROR"}

Bug_PostconditionRetryable(code, type) == code \in {"COMMAND_FAILED", "POSTCONDITION_FAILED"}

\* classify_failure, for handlers that never flag a failure as transient (none does).
Retryable(code, type) ==
    \/ code \in {"COMMAND_FAILED", "FILE_ACCESS_DENIED", "DEPENDENCY_NOT_SATISFIED"}
    \/ /\ code = "POSTCONDITION_FAILED"
       /\ type \in CheckTypes \cup {"verify_changes"}

-----------------------------------------------------------------------------
VARIABLES
    plan,       \* the plan being executed
    disk0,      \* the workspace when the run started (history)
    disk,       \* the workspace: file -> its content, or Absent
    snapshot,   \* runtime_data/runs/<run>/snapshots: one copy per target name
    pc,         \* where the engine is
    cur,        \* position of the current step
    attempt,    \* attempt_index of the current step
    code,       \* error_code of the current attempt
    failed,     \* the engine's flag
    status,     \* StepResult.status
    attempts,   \* StepResult.final_attempt_count
    meta,       \* StepResult.rollback_metadata
    action,     \* status of the CompensationAction of a step, "none" if it has none
    runStatus,  \* Run.status
    rollback,   \* Run.rollback_status
    outcome     \* Run.consistency_outcome

stepVars == <<cur, attempt, code>>
fileVars == <<disk, snapshot>>
runVars  == <<runStatus, rollback, outcome>>
vars == <<plan, disk0, disk, snapshot, pc, cur, attempt, code, failed, status,
          attempts, meta, action, runStatus, rollback, outcome>>

Meta   == [created : BOOLEAN, saved : BOOLEAN, sum : FileStates]
NoMeta == [created |-> FALSE, saved |-> FALSE, sum |-> Absent]

TypeOK ==
    /\ PlanOK(plan)
    /\ disk0 \in [Files -> FileStates]
    /\ disk \in [Files -> FileStates]
    /\ snapshot \in [Files -> FileStates]
    /\ pc \in {"next", "attempt", "post", "failure", "sleep", "rollback", "done"}
    /\ cur \in 1..(N + 1)
    /\ attempt \in 0..3
    /\ code \in Codes
    /\ failed \in BOOLEAN
    /\ status \in [Steps -> {"pending", "running", "completed", "failed", "skipped"}]
    /\ attempts \in [Steps -> 0..3]
    /\ meta \in [Steps -> Meta]
    /\ action \in [Steps -> {"none", "pending", "completed", "failed"}]
    /\ runStatus \in {"running", "completed", "failed"}
    /\ rollback \in {"not_needed", "running", "completed", "failed"}
    /\ outcome \in {"clean", "partially_restored", "not_restored"}
    /\ pc \in {"attempt", "post", "failure", "sleep"} => cur \in Steps
    /\ pc = "sleep" => attempt < MaxAttempts(plan[cur].type)

Init ==
    /\ plan \in Plans
    /\ disk0 \in [Files -> FileStates]
    /\ disk = disk0
    /\ snapshot = [f \in Files |-> Absent]
    /\ pc = "next"
    /\ cur = 1
    /\ attempt = 0
    /\ code = "OK"
    /\ failed = FALSE
    /\ status = [k \in Steps |-> "pending"]
    /\ attempts = [k \in Steps |-> 0]
    /\ meta = [k \in Steps |-> NoMeta]
    /\ action = [k \in Steps |-> "none"]
    /\ runStatus = "running"
    /\ rollback = "not_needed"
    /\ outcome = "clean"

-----------------------------------------------------------------------------
(* The forward pass: execute and _execute_step_with_retry.                 *)

step   == plan[cur]
Exists(f) == disk[f] # Absent

\* The rest of the plan is skipped.
Halted == failed

DependenciesSatisfied(k) == \A d \in plan[k].deps : status[d] = "completed"

\* evaluate_preconditions; names the evaluator does not know are ignored.
PreconditionsHold ==
    /\ "path_valid" \in step.pre => step.target # NoTarget
    /\ "file_exists" \in step.pre => Exists(step.target)
    /\ "file_not_exists" \in step.pre => ~Exists(step.target)

PostconditionsHold == "file_created" \in step.post => Exists(step.target)

\* The step ends with result s; the loop of execute goes to the next one.
EndStep(s) ==
    /\ status' = [status EXCEPT ![cur] = s]
    /\ failed' = (failed \/ s = "failed")
    /\ cur' = cur + 1
    /\ pc' = "next"

BeginStep ==
    /\ pc = "next" /\ cur \in Steps /\ ~Halted
    /\ IF DependenciesSatisfied(cur)
       THEN /\ status' = [status EXCEPT ![cur] = "running"]
            /\ attempt' = 1
            /\ attempts' = [attempts EXCEPT ![cur] = 1]
            /\ pc' = "attempt"
            /\ UNCHANGED <<cur, failed>>
       ELSE /\ EndStep("failed")
            /\ UNCHANGED <<attempt, attempts>>
    /\ UNCHANGED <<plan, disk0, fileVars, code, meta, action, runVars>>

SkipStep ==
    /\ pc = "next" /\ cur \in Steps /\ Halted
    /\ EndStep("skipped")
    /\ UNCHANGED <<plan, disk0, fileVars, attempt, code, attempts, meta, action, runVars>>

RefuseAttempt ==
    /\ pc = "attempt" /\ ~PreconditionsHold
    /\ code' = "PRECONDITION_FAILED"
    /\ EndStep("failed")
    /\ UNCHANGED <<plan, disk0, fileVars, attempt, attempts, meta, action, runVars>>

\* The handler of the current attempt returned (code OK) or raised.
HandlerDone(c) ==
    /\ code' = c
    /\ pc' = IF c = "OK" THEN "post" ELSE "failure"
    /\ UNCHANGED <<plan, disk0, cur, attempt, failed, status, attempts, action, runVars>>

Handling(types) == pc = "attempt" /\ PreconditionsHold /\ step.type \in types

\* open(path, "w") and write: done, refused, or cut short after the truncation.
Write(f, content) ==
    \/ disk' = [disk EXCEPT ![f] = content] /\ HandlerDone("OK")
    \/ /\ IOFaults
       /\ disk' \in {disk, [disk EXCEPT ![f] = Empty]}
       /\ HandlerDone("IO_ERROR")

Given == IF step.content = Absent THEN Empty ELSE step.content

Bug_AlwaysCreated(f) == [NoMeta EXCEPT !.created = TRUE]
CreatedMeta(f) == [NoMeta EXCEPT !.created = ~Exists(f)]

CreateFile ==
    /\ Handling({"create_file"})
    /\ meta' = [meta EXCEPT ![cur] = CreatedMeta(step.target)]
    /\ Write(step.target, Given)
    /\ UNCHANGED snapshot

\* capture_snapshot files the copy under a hash of the target, so the last one wins.
SavedMeta(f) == [created |-> FALSE, saved |-> TRUE, sum |-> disk[f]]

WriteFile ==
    /\ Handling({"write_file"})
    /\ IF Exists(step.target)
       THEN /\ snapshot' = [snapshot EXCEPT ![step.target] = disk[step.target]]
            /\ meta' = [meta EXCEPT ![cur] = SavedMeta(step.target)]
       ELSE /\ meta' = [meta EXCEPT ![cur] = CreatedMeta(step.target)]
            /\ UNCHANGED snapshot
    /\ Write(step.target, Given)

ModifyFile ==
    /\ Handling({"modify_file"})
    /\ Exists(step.target)
    /\ snapshot' = [snapshot EXCEPT ![step.target] = disk[step.target]]
    /\ meta' = [meta EXCEPT ![cur] = SavedMeta(step.target)]
    /\ Write(step.target, IF step.content = Absent THEN disk[step.target] ELSE step.content)

\* read_file and modify_file raise on a missing file, verify_changes has no handler.
HandlerRaises ==
    /\ \/ Handling({"read_file", "modify_file"}) /\ ~Exists(step.target)
          /\ HandlerDone("IO_ERROR")
       \/ Handling({"verify_changes"}) /\ HandlerDone("EXECUTION_ERROR")
    /\ UNCHANGED <<fileVars, meta>>

ReadOnlyHandler ==
    /\ \/ Handling(CheckTypes)
       \/ Handling({"read_file"}) /\ Exists(step.target)
    /\ HandlerDone("OK")
    /\ UNCHANGED <<fileVars, meta>>

\* A shell command does what it likes to the workspace, whether or not it fails.
RunCommand ==
    /\ Handling({"run_command"})
    /\ disk' \in [Files -> FileStates]
    /\ HandlerDone("OK") \/ HandlerDone("COMMAND_FAILED")
    /\ UNCHANGED <<snapshot, meta>>

CheckPostconditions ==
    /\ pc = "post"
    /\ IF PostconditionsHold
       THEN EndStep("completed") /\ UNCHANGED code
       ELSE /\ code' = "POSTCONDITION_FAILED"
            /\ pc' = "failure"
            /\ UNCHANGED <<cur, failed, status>>
    /\ UNCHANGED <<plan, disk0, fileVars, attempt, attempts, meta, action, runVars>>

Bug_OneAttemptMore == attempt > MaxAttempts(step.type)
LastAttempt == attempt >= MaxAttempts(step.type)

GiveUp ==
    /\ pc = "failure"
    /\ LastAttempt \/ ~Retryable(code, step.type)
    /\ EndStep("failed")
    /\ UNCHANGED <<plan, disk0, fileVars, attempt, code, attempts, meta, action, runVars>>

Backoff ==
    /\ pc = "failure"
    /\ ~LastAttempt /\ Retryable(code, step.type)
    /\ pc' = "sleep"
    /\ UNCHANGED <<plan, disk0, fileVars, stepVars, failed, status, attempts, meta, action, runVars>>

\* _recheck_step: the steps that read a file want it to be there still.
RecheckHolds ==
    step.type \in {"read_file", "modify_file", "verify_file_exists", "validate_output"}
        => Exists(step.target)

Bug_SameAttempt == attempt
NextAttempt == attempt + 1

Retry ==
    /\ pc = "sleep"
    /\ IF RequiresRecheck(step.type) /\ ~RecheckHolds
       THEN EndStep("failed") /\ UNCHANGED <<attempt, attempts>>
       ELSE /\ attempt' = NextAttempt
            /\ attempts' = [attempts EXCEPT ![cur] = NextAttempt]
            /\ pc' = "attempt"
            /\ UNCHANGED <<cur, failed, status>>
    /\ UNCHANGED <<plan, disk0, fileVars, code, meta, action, runVars>>

-----------------------------------------------------------------------------
(* The end of the run: _handle_rollback, RollbackPlanner, RollbackEngine.  *)

Completed    == {k \in Steps : status[k] = "completed"}
Reversible   == {k \in Completed : plan[k].comp # "non_reversible"}
Irreversible == Completed \ Reversible

Finish ==
    /\ pc = "next" /\ cur = N + 1
    /\ runStatus' = IF failed THEN "failed" ELSE "completed"
    /\ IF failed /\ Reversible # {}
       THEN /\ action' = [k \in Steps |-> IF k \in Reversible THEN "pending" ELSE "none"]
            /\ rollback' = "running"
            /\ pc' = "rollback"
            /\ UNCHANGED outcome
       ELSE /\ outcome' = IF failed /\ Irreversible # {} THEN "not_restored" ELSE outcome
            /\ pc' = "done"
            /\ UNCHANGED <<action, rollback>>
    /\ UNCHANGED <<plan, disk0, fileVars, stepVars, failed, status, attempts, meta>>

Pending == {k \in Steps : action[k] = "pending"}

Bug_OldestFirst(k) == \A j \in Pending : k <= j

\* The planner lists the completed steps in reverse, the engine takes the list in order.
IsNext(k) == \A j \in Pending : j <= k

Compensating(k, templates) == pc = "rollback" /\ IsNext(k) /\ plan[k].template \in templates

ActionDone(k, s) ==
    /\ action' = [action EXCEPT ![k] = s]
    /\ UNCHANGED <<plan, disk0, snapshot, pc, stepVars, failed, status, attempts, meta, runVars>>

NoopRecordOnly(k) ==
    /\ Compensating(k, {"none", "noop_record_only"})
    /\ ActionDone(k, "completed")
    /\ UNCHANGED disk

\* delete_created_file returns quietly when the step had found the file there.
DeleteCreatedFile(k) ==
    /\ Compensating(k, {"delete_created_file"})
    /\ plan[k].target # NoTarget
    /\ disk' = IF meta[k].created THEN [disk EXCEPT ![plan[k].target] = Absent] ELSE disk
    /\ ActionDone(k, "completed")

\* restore_file_backup copies first and compares the checksum afterwards.
RestoreFileBackup(k) ==
    /\ Compensating(k, {"restore_file_backup"})
    /\ plan[k].target # NoTarget /\ meta[k].saved
    /\ disk' = [disk EXCEPT ![plan[k].target] = snapshot[plan[k].target]]
    /\ ActionDone(k, IF snapshot[plan[k].target] = meta[k].sum THEN "completed" ELSE "failed")

\* No target, no snapshot, no handler, or the operating system refuses.
CompensationRaises(k) ==
    /\ \/ Compensating(k, {"other"})
       \/ Compensating(k, {"restore_file_backup"}) /\ ~meta[k].saved
       \/ /\ Compensating(k, {"delete_created_file", "restore_file_backup"})
          /\ plan[k].target = NoTarget \/ IOFaults
    /\ ActionDone(k, "failed")
    /\ UNCHANGED disk

ActionFailed == \E k \in Steps : action[k] = "failed"
AllUndone    == \A k \in Reversible : action[k] = "completed"

ConcludeRollback ==
    /\ pc = "rollback" /\ Pending = {}
    /\ rollback' = IF ActionFailed THEN "failed" ELSE "completed"
    /\ outcome' = IF ActionFailed THEN "not_restored"
                  ELSE IF AllUndone /\ Irreversible = {} THEN "clean"
                  ELSE "partially_restored"
    /\ pc' = "done"
    /\ UNCHANGED <<plan, disk0, fileVars, stepVars, failed, status, attempts, meta, action, runStatus>>

-----------------------------------------------------------------------------
Handlers == CreateFile \/ WriteFile \/ ModifyFile \/ ReadOnlyHandler \/ HandlerRaises \/ RunCommand

Compensate == \E k \in Pending : \/ NoopRecordOnly(k) \/ DeleteCreatedFile(k)
                                 \/ RestoreFileBackup(k) \/ CompensationRaises(k)

Engine ==
    \/ BeginStep \/ SkipStep
    \/ RefuseAttempt \/ Handlers \/ CheckPostconditions
    \/ GiveUp \/ Backoff \/ Retry
    \/ Finish \/ Compensate \/ ConcludeRollback

\* Another program creates, rewrites or removes one of the Foreign files.
Interfere ==
    /\ pc # "done"
    /\ \E f \in Foreign, c \in FileStates : disk' = [disk EXCEPT ![f] = c]
    /\ UNCHANGED <<plan, disk0, snapshot, pc, stepVars, failed, status, attempts, meta, action, runVars>>

Next == Engine \/ Interfere

Spec     == Init /\ [][Next]_vars
FairSpec == Spec /\ WF_vars(Engine)

-----------------------------------------------------------------------------
(* Properties.                                                             *)

\* A reversible file step names the compensation its handler's metadata is for: a
\* template of the other handler completes without undoing anything.
Disciplined ==
    \A k \in Steps : plan[k].comp # "non_reversible" =>
        /\ plan[k].type # "run_command"
        /\ plan[k].type = "create_file" =>
              "file_not_exists" \in plan[k].pre /\ plan[k].template = "delete_created_file"
        /\ plan[k].type \in {"write_file", "modify_file"} =>
              plan[k].template = "restore_file_backup"

\* What the failing step may have left: it is not compensated.
Residue == {f \in Files : \E k \in Steps :
               /\ status[k] = "failed"
               /\ \/ plan[k].type = "run_command"
                  \/ plan[k].type \in FileTypes /\ plan[k].target = f}

\* A failed run that reports the outcome "clean" has put every file back as it was when
\* the run started, except what the failing step itself left and what others wrote, even
\* when several steps changed one file and overwrote each other's snapshot
\* (engine.py _handle_rollback, compensation_handlers.py).
CleanMeansRestored ==
    pc = "done" /\ failed /\ outcome = "clean" /\ Disciplined =>
        \A f \in Files \ (Foreign \cup Residue) : disk[f] = disk0[f]

\* Without shell commands, no run loses a file that was there before it: only files a
\* step created are deleted, whatever the plan asks for (created_by_run).
PreexistingSurvives ==
    (\A k \in Steps : plan[k].type # "run_command") =>
        \A f \in Files \ Foreign : disk0[f] # Absent => disk[f] # Absent

\* The first failure stops the plan: every step before it completed, none after it ever
\* started, and no step is refused for its dependencies (the engine's check for them,
\* DEPENDENCY_NOT_SATISFIED, never fires).
FailStop ==
    /\ \A k \in Steps : status[k] = "failed" =>
          /\ \A j \in Steps : j < k => status[j] = "completed"
          /\ \A j \in Steps : j > k => status[j] \in {"pending", "skipped"}
          /\ attempts[k] > 0
    /\ pc = "done" => \A k \in Steps : status[k] \in {"completed", "failed", "skipped"}

\* A step that writes a file runs its handler once: only commands and checks are retried,
\* so a retry never takes its own first attempt for the state to restore (retry_classifier.py).
WritesOnce == \A k \in Steps : plan[k].type \in FileTypes => attempts[k] <= 1

(* The inductive invariant behind FailStop, WritesOnce and CleanMeansRestored. *)

\* The steps before cur are over, those after it have not begun.
Progress ==
    /\ \A k \in Steps :
          /\ k < cur => status[k] \in {"completed", "failed", "skipped"}
          /\ k > cur => status[k] = "pending"
          /\ status[k] \in {"pending", "skipped"} => attempts[k] = 0
          /\ status[k] = "failed" => /\ failed
                                     /\ attempts[k] > 0
                                     /\ \A j \in Steps : j < k => status[j] = "completed"
                                     /\ \A j \in Steps : j > k => status[j] \in {"pending", "skipped"}
    /\ ~failed => \A k \in Steps : k < cur => status[k] = "completed"
    /\ cur \in Steps => status[cur] = IF pc = "next" THEN "pending" ELSE "running"
    /\ pc \in {"attempt", "post", "failure", "sleep"} => ~failed /\ attempts[cur] = attempt /\ attempt > 0
    /\ pc \in {"rollback", "done"} => cur = N + 1
    /\ pc = "rollback" => failed
    /\ pc \notin {"rollback", "done"} => \A k \in Steps : action[k] = "none"

\* A step that writes a file is in its only attempt and its failures are terminal.
OneWrite ==
    /\ WritesOnce
    /\ pc \in {"attempt", "post", "failure", "sleep"} /\ plan[cur].type \in FileTypes =>
          /\ pc # "sleep"
          /\ pc = "failure" => code \in {"IO_ERROR", "POSTCONDITION_FAILED"}

\* The value the compensation of step k is meant to give its file.
UndoValue(k) == IF meta[k].created THEN Absent ELSE meta[k].sum

Written(k) == status[k] = "completed" \/ (k = cur /\ pc = "post")

MetaInv == \A k \in Steps :
    /\ meta[k].saved => ~meta[k].created
    /\ plan[k].type \notin FileTypes => meta[k] = NoMeta
    /\ Written(k) /\ plan[k].type = "create_file" /\ "file_not_exists" \in plan[k].pre
          => meta[k].created

Touches(k, f) == status[k] = "completed" /\ plan[k].type \in FileTypes /\ plan[k].target = f

Untouched(f) == \A k \in Steps : ~Touches(k, f)

FirstTouch(k, f) == Touches(k, f) /\ \A j \in Steps : j < k => ~Touches(j, f)

\* The step under way has called its handler on f.
InHand(f) == pc \in {"post", "failure"} /\ plan[cur].type \in FileTypes /\ plan[cur].target = f

CommandRan == \E k \in Steps : plan[k].type = "run_command" /\ attempts[k] > 0

\* As long as everything done can be undone, the first step that wrote f knows how it was.
Forward ==
    Disciplined /\ Irreversible = {} /\ ~CommandRan => \A f \in Files \ Foreign :
        /\ Untouched(f) /\ f \notin Residue /\ ~InHand(f) => disk[f] = disk0[f]
        /\ Untouched(f) \/ \E k \in Steps : FirstTouch(k, f)
        /\ \A k \in Steps : FirstTouch(k, f) => UndoValue(k) = disk0[f]
        /\ pc = "post" /\ InHand(f) /\ Untouched(f) /\ plan[cur].comp # "non_reversible"
              => UndoValue(cur) = disk0[f]

\* After each successful compensation of a file it is as before the last step compensated.
Backward ==
    /\ pc = "rollback" => \A k \in Steps :
          /\ action[k] = "none" <=> k \notin Reversible
          /\ action[k] = "pending" => \A j \in Reversible : j < k => action[j] = "pending"
    /\ pc = "done" /\ failed /\ outcome = "clean" =>
          Irreversible = {} /\ \A k \in Reversible : action[k] = "completed"
    /\ Disciplined => \A f \in Files \ Foreign, k \in Steps :
          /\ Touches(k, f)
          /\ action[k] = "completed"
          /\ \A j \in Steps : j < k /\ Touches(j, f) => action[j] = "pending"
          => disk[f] = UndoValue(k)

EngineInv == Progress /\ OneWrite /\ MetaInv /\ Forward /\ Backward

\* A run ends: attempts are bounded and a failed compensation does not stop the next.
Terminates == <>(pc = "done")

\* The engine is a saga: see Saga.
Mode == CASE pc = "rollback" -> "backward"
          [] pc = "done"     -> IF failed THEN "aborted" ELSE "committed"
          [] OTHER           -> "forward"

Outstanding == {k \in Reversible : action[k] \in {"none", "pending"}}

S == INSTANCE Saga WITH mode <- Mode, outstanding <- Outstanding

\* The engine compensates each completed reversible step once, in reverse order, after the
\* last step ran, and ends with all of them kept or all of them tried.
ImplementsSaga == S!Spec
=============================================================================
