----------------------------- MODULE TaskExecutor -----------------------------
(***************************************************************************)
(* The tasks of a spec, executed one after the other on one file of the    *)
(* execution workspace (Demo10/services: task_executor_service, attempts,  *)
(* file_ops, batch, testing).  A task with its content is one batch; a     *)
(* task without asks the model up to three times, tries each answer in a   *)
(* dry run, and repeats the accepted one as a write.  Every batch is       *)
(* checked, simulated, put to the project's tests in a copy, and only then *)
(* written; a task that cannot file the artifacts of its batch then fails, *)
(* over the changed file.  Tests, answers, commands and the disk are the   *)
(* environment.                                                            *)
(***************************************************************************)
EXTENDS EditEngine

CONSTANTS
  Texts,       \* what the file may hold before the tasks
  Answers,     \* what the model may answer
  Tasks,       \* the tasks a spec may ask for
  MaxTasks     \* bound: tasks of a spec

ASSUME TasksConstants == MaxTasks \in Nat

VARIABLES
  disk,        \* the file
  tasks,       \* the spec's tasks, in order
  taskFailFast,  \* its setting
  mode,        \* the window's write mode: "apply" or "dry-run"
  t,           \* the task being executed
  taskPc,      \* "task", "ask" (a model task between attempts), "write" (its answer accepted) or "done"
  attempts,    \* answers the task has had
  answer,      \* the last one
  results      \* what the tasks reported: ok, and the text a reported batch hashed

taskVars == <<disk, tasks, taskFailFast, mode, t, taskPc, attempts, answer, results>>

\* What is not a text does not parse.
Missing == <<"(", "(no file)">>
Torn == <<"(", "(torn)">>
Binary == <<"(binary)">>
None == <<"(none)">>

Task == tasks[t]
MaxTotalAttempts == 3

-----------------------------------------------------------------------------
(* A batch of one operation.                                               *)

\* What a task asks of the file: an operation, a dry run whatever the mode is, or no operation at all.
Plan(text) ==
  LET edit == Edit(disk, Task.op, Task.anchor, text)
      Replacing == [kind |-> "replace_file", text |-> edit.text, dry |-> FALSE]
  IN CASE Task.kind = "create" -> [kind |-> IF disk = Missing THEN "create_file" ELSE "replace_file", text |-> text, dry |-> FALSE]
       [] Task.kind = "modify" -> [kind |-> "replace_file", text |-> text, dry |-> FALSE]
       [] Task.kind = "delete" -> [kind |-> "delete_file", text |-> <<>>, dry |-> FALSE]
       [] Task.kind = "edit" /\ edit.status = "failed" -> [kind |-> edit.why, text |-> disk, dry |-> TRUE]
       [] Task.kind = "edit" /\ edit.status = "no_op" -> [kind |-> "nothing", text |-> disk, dry |-> TRUE]
       [] OTHER ->
            [Replacing EXCEPT !.dry = \/ ~Parses(edit.text)
                                      \/ Task.op \in {"ensure_function", "replace_block"} /\ Task.anchor = "function" /\ ~Defines(edit.text, "def f")]

\* What the simulation checks, in its order: an edit that failed has no batch, an edit without effect no operation.
Checks(plan, testsPass) ==
  LET written == plan.kind \in {"create_file", "replace_file"}
      Check(fails, class) == [fails |-> fails, class |-> class]
  IN << Check(plan.kind \in {"patch_target_not_found", "patch_match_count_mismatch"}, plan.kind),
        Check(written /\ plan.text = <<>>, "operation_schema_invalid"),
        Check(plan.kind = "replace_file" /\ disk = Binary, "binary_file_not_supported"),
        Check(plan.kind \in {"replace_file", "delete_file"} /\ disk = Missing, "patch_target_not_found"),
        Check(written /\ IsBlank(plan.text), "empty_file_after_patch"),
        Check(written /\ ~Parses(plan.text), "python_syntax_error"),
        Check(written /\ DuplicateSymbols(plan.text), "batch_invalid_duplicate_symbol"),
        Check(~testsPass, "test_failure") >>

Judge(plan, testsPass) ==
  LET checks == Checks(plan, testsPass)
      failing == {i \in DOMAIN checks : checks[i].fails}
  IN IF failing = {} THEN "ok" ELSE checks[Least(failing)].class

\* What a write leaves when the disk lets it through and when it does not.
Written(plan) == IF plan.kind = "delete_file" THEN Missing ELSE plan.text
HalfWritten(plan) == {disk} \union IF plan.kind = "delete_file" THEN {} ELSE {Torn}

Bug_Execute(plan, testsPass) ==
  IF Judge(plan, testsPass) # "ok" \/ plan.dry THEN {[ok |-> Judge(plan, testsPass) = "ok", disk |-> disk]}
  ELSE {[ok |-> TRUE, disk |-> Written(plan)]} \union [ok : {FALSE}, disk : HalfWritten(plan)]

\* A batch in the mode of the window: what it reports and the file it leaves.
Execute(plan, testsPass) ==
  IF Judge(plan, testsPass) # "ok" \/ plan.dry \/ mode = "dry-run"
  THEN {[ok |-> Judge(plan, testsPass) = "ok", disk |-> disk]}
  ELSE {[ok |-> TRUE, disk |-> Written(plan)]} \union [ok : {FALSE}, disk : HalfWritten(plan)]

-----------------------------------------------------------------------------
(* The executor.                                                           *)

TasksInit ==
  /\ disk \in Texts
  /\ \E n \in 1..MaxTasks : tasks \in [1..n -> Tasks]
  /\ taskFailFast \in BOOLEAN /\ mode \in {"apply", "dry-run"}
  /\ t = 1 /\ taskPc = "task" /\ results = <<>>
  /\ attempts = 0 /\ answer = <<>>

\* A task's result; the next task begins, unless it failed and the spec is to fail fast.
Report(ok, text) ==
  /\ results' = Append(results, [ok |-> ok, text |-> text])
  /\ attempts' = 0 /\ answer' = <<>>
  /\ LET more == t < Len(tasks) /\ (ok \/ ~taskFailFast)
     IN t' = (IF more THEN t + 1 ELSE t) /\ taskPc' = (IF more THEN "task" ELSE "done")
  /\ UNCHANGED <<tasks, taskFailFast, mode>>

Generating == {"create", "modify", "edit"}

ModifyMissing ==
  /\ taskPc = "task" /\ Task.kind = "edit" /\ disk = Missing
  /\ UNCHANGED disk
  /\ Report(FALSE, None)

\* What the task says of a batch (its mutations, attempts, context and scope are filed first) unless that raises:
\* execute then reports a failure that names no text, whatever the batch has done.
ReportBatch(ok, text) == Report(ok, text) \/ Report(FALSE, None)

\* The task brings its content, or deletes: one batch.
SuppliedBatch ==
  /\ taskPc = "task"
  /\ Task.kind = "delete" \/ (Task.kind \in Generating /\ Task.content # None /\ ~(Task.kind = "edit" /\ disk = Missing))
  /\ \E testsPass \in BOOLEAN : LET plan == Plan(Task.content) IN
       \E outcome \in Execute(plan, testsPass) :
         /\ disk' = outcome.disk
         /\ ReportBatch(outcome.ok, IF Task.kind = "delete" THEN Missing ELSE plan.text)

\* The task leaves the content to the model.
AskModel ==
  /\ taskPc = "task" /\ Task.kind \in Generating /\ Task.content = None
  /\ ~(Task.kind = "edit" /\ disk = Missing)
  /\ taskPc' = "ask" /\ attempts' = 0
  /\ UNCHANGED <<disk, tasks, taskFailFast, mode, t, answer, results>>

\* The scope of the task forbids it, or the model's server answers with an error.
ModelUnavailable ==
  /\ taskPc = "ask"
  /\ UNCHANGED disk
  /\ Report(FALSE, None)

NonRepairable == {"path_validation_failure", "binary_file_not_supported", "policy_blocked_complex_batch"}

\* repair_generate or full_regenerate while attempts are left, unless no answer could help.
Bug_TryAgain(class) == class \notin NonRepairable /\ attempts < MaxTotalAttempts
TryAgain(class) == class \notin NonRepairable /\ attempts + 1 < MaxTotalAttempts

\* What an answer amounts to: a dry run of its batch, whose operations the scope contract may refuse.
Verdict(plan, testsPass, inScope) ==
  LET class == Judge(plan, testsPass)
  IN IF inScope \/ class = "operation_schema_invalid" \/ plan.kind \notin {"create_file", "replace_file"}
     THEN class ELSE "unknown_validation_failure"

Bug_Tried == attempts
Tried == attempts + 1

\* One answer: accepted, rejected with attempts left, or the last one.
Attempt ==
  /\ taskPc = "ask"
  /\ \E text \in Answers, testsPass, inScope \in BOOLEAN :
       LET class == Verdict(Plan(text), testsPass, inScope)
       IN IF class = "ok" \/ TryAgain(class)
          THEN /\ taskPc' = IF class = "ok" THEN "write" ELSE "ask"
               /\ attempts' = Tried /\ answer' = text
               /\ UNCHANGED <<disk, tasks, taskFailFast, mode, t, results>>
          ELSE UNCHANGED disk /\ ReportBatch(FALSE, Plan(text).text)

\* The accepted answer once more, to be written; what that batch reports is not looked at.
WriteAccepted ==
  /\ taskPc = "write"
  /\ \E testsPass \in BOOLEAN : LET plan == Plan(answer) IN
       \E outcome \in Execute(plan, testsPass) :
         /\ disk' = outcome.disk
         /\ ReportBatch(TRUE, plan.text)

\* An edit's backup or its diff cannot be written: the batch is not reached.
BackupFails ==
  /\ taskPc = "write" \/ (taskPc = "task" /\ Task.content # None)
  /\ Task.kind = "edit" /\ disk # Missing
  /\ Edit(disk, Task.op, Task.anchor, IF taskPc = "write" THEN answer ELSE Task.content).status = "applied"
  /\ taskPc = "write" => mode = "apply"
  /\ UNCHANGED disk
  /\ Report(FALSE, None)

\* A command of the spec: it does to the file what it does.
RunCommand ==
  /\ taskPc = "task" /\ Task.kind = "run"
  /\ disk' \in {disk} \union Texts
  /\ \E exitZero \in BOOLEAN : Report(exitZero, None)

\* A validation of the spec is a placeholder that passes.
Validate ==
  /\ taskPc = "task" /\ Task.kind = "validate"
  /\ UNCHANGED disk
  /\ Report(TRUE, None)

TasksNext == ModifyMissing \/ SuppliedBatch \/ AskModel \/ ModelUnavailable \/ Attempt \/ WriteAccepted \/ BackupFails \/ RunCommand \/ Validate

\* The worker goes on while there is something to do: WF_taskVars(TasksNext), whose ENABLED is spelled out.
TasksFairness == []<>(taskPc = "done") \/ []<><<TRUE>>_taskVars

TasksSpec == TasksInit /\ [][TasksNext]_taskVars /\ TasksFairness

-----------------------------------------------------------------------------
(* Properties.                                                             *)

TasksTypeOK ==
  /\ disk \in Seq(Lines \union {"(no file)", "(torn)", "(binary)"})
  /\ t \in DOMAIN tasks /\ taskPc \in {"task", "ask", "write", "done"}
  /\ attempts \in 0..MaxTotalAttempts /\ (taskPc = "ask" => attempts < MaxTotalAttempts)
  /\ Len(results) = IF taskPc = "done" THEN t ELSE t - 1

\* The file only ever changes by a command, by a write the disk broke off, or, in apply mode, to what a batch that
\* was not refused makes of it: a deletion, or a text that parses and defines nothing twice.  The task reports that
\* text as done, or fails without naming one (execute's except, over the artifacts it could not file): no rejected
\* answer and no failed check (file_ops/executor.py simulates everything before it writes anything) leaves a trace.
FilesKept == [][
  \/ disk' = disk \/ Task.kind = "run" \/ (disk' = Torn /\ mode = "apply")
  \/ /\ mode = "apply"
     /\ results'[t] \in {[ok |-> TRUE, text |-> disk'], [ok |-> FALSE, text |-> None]}
     /\ IF Task.kind = "delete" THEN disk' = Missing
        ELSE disk' # Missing /\ Parses(disk') /\ ~IsBlank(disk') /\ ~DuplicateSymbols(disk')]_<<disk, results>>

\* An ensuring edit asks for what it ensures and nothing else: one import line, or one definition.  With more (two
\* imports, a definition with its import) the edit finds nothing it takes for its payload and inserts it again.
AsksOnlyThat(op, payload) ==
  /\ op = "ensure_import" => Len(payload) = 1
  /\ op = "ensure_function" => Blocks(payload, "def f") = {<<1, Len(payload)>>}
  /\ op = "ensure_class" => Blocks(payload, "class C") = {<<1, Len(payload)>>}

\* Such an edit is idempotent (editing/idempotency.py, operations.py's "Idempotency check"): the same one again, right
\* after it succeeded, finds what it asks for and writes nothing.
EnsureSettles == [][
  (/\ taskPc = "task" /\ t > 1 /\ tasks[t] = tasks[t - 1] /\ results[t - 1].ok
   /\ Task.kind = "edit" /\ Task.op \in Ensuring /\ Task.content # None
   /\ AsksOnlyThat(Task.op, Task.content)) => disk' = disk]_<<disk, results>>

\* Every list of tasks ends, whatever the model answers: no task asks it more than three times.
TasksUnderWay == taskPc # "done"

\* A task that generates a file and reports success leaves what it reports on disk (step_templates.py: "updated
\* content written to disk").  It does not: an edit whose result lacks the function it is to ensure counts as a
\* success of its dry run, and what the write of an accepted answer reports is ignored.
SuccessIsOnDisk ==
  results # <<>> /\ mode = "apply" /\ Last(results).ok /\ Last(results).text # None => disk = Last(results).text
=============================================================================
