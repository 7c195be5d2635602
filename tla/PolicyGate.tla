------------------------------ MODULE PolicyGate ------------------------------
(***************************************************************************)
(* The two gates of a run (Demo10): what its tasks risk decides whether it *)
(* may execute, what it really changed and how its checks came out decides *)
(* whether its files may be promoted; in between the user is asked through *)
(* an approvals file that the worker and the window both rewrite in place. *)
(***************************************************************************)
EXTENDS Naturals, Sequences, FiniteSets

CONSTANTS
  Tasks,        \* the tasks a spec may hold: [type, path, command, long, block]
  MaxTasks, MaxRequests, MaxCrashes

VARIABLES
  tasks,        \* the spec
  pc,           \* where the run is
  failed,       \* some task of this execution failed
  final,        \* its FinalOutcome
  facts,        \* what it changed: a set of remarkable things
  approvals,    \* ApprovalService.approvals, in the order they were requested
  file,         \* approvals.json
  saving, mixed,\* the threads inside _save_approvals; they overlapped
  lastWord,     \* history: what the user last said of each gate
  crashes

vars == <<tasks, pc, failed, final, facts, approvals, file, saving, mixed, lastWord, crashes>>

Gates == {"execution", "promotion"}
Facts == {"many", "deletion", "protected", "critical"}
Torn == <<[gate |-> "torn", status |-> "torn"]>>
Most(S) == CHOOSE n \in S : \A k \in S : k <= n

-----------------------------------------------------------------------------
(* The risk of a task, 0 (R0_LOW) to 3 (R3_CRITICAL).                      *)

TypeRisk(task) ==
  CASE task.type = "MODIFY" -> IF task.block THEN 2 ELSE 1
    [] task.type = "DELETE" -> 2
    [] task.type = "RUN"    -> 1
    [] OTHER                -> 0

PathRisk(path) == CASE path = "critical" -> 3 [] path = "high" -> 2 [] OTHER -> 0

\* A word of the denied ones anywhere in the command ends the classification.
CommandRisk(task) ==
  IF task.type # "RUN" THEN 0
  ELSE IF task.command = "denied" THEN 3
  ELSE IF task.command = "shell" \/ task.long THEN 2
  ELSE 1

TaskRisk(task) == Most({TypeRisk(task), PathRisk(task.path), CommandRisk(task)})

\* Mutant: the risk of the last task, not the largest.
Bug_Risk(ts) == IF ts = {} THEN 0 ELSE TaskRisk(CHOOSE task \in ts : TRUE)

Risk(ts) == Most({0} \union {TaskRisk(task) : task \in ts})

Threshold == 1                       \* require_approval_above: R1_MODERATE

Denied(task) == task.type = "RUN" /\ task.command = "denied"

\* Reasons that ask for an approval whatever the risk.
AsksAnyway(task) == task.type = "DELETE" \/ task.block \/ (task.type = "RUN" /\ task.command = "shell")

PreExecution(ts) ==
  IF \E task \in ts : Denied(task) THEN "block"
  ELSE IF Risk(ts) > Threshold \/ (\E task \in ts : AsksAnyway(task)) THEN "warn"
  ELSE "allow"

-----------------------------------------------------------------------------
(* How the checks of a spec come out.                                      *)

Negative  == {"file_not_exists", "not_contains_text", "symbol_not_exists"}
OnFile    == Negative \union {"file_exists", "contains_text", "contains_regex", "symbol_exists", "import_exists"}
OnCommand == {"command_exit_code", "command_stdout_contains"}
OnContent == {"json_value_equals", "line_count_range"}
OnTasks   == {"diff_contains", "task_status"}
Known     == OnFile \union OnCommand \union OnContent \union OnTasks

CheckStatus(type, found) ==
  IF type \notin Known \/ found = "raises" THEN "error"
  ELSE IF (found = "yes") # (type \in Negative) THEN "pass"
  ELSE "fail"

\* At most one hard and one soft check, of one type of each kind.
Representative == {"file_exists", "not_contains_text", "command_exit_code", "json_value_equals", "task_status", "colour"}
Statuses == {CheckStatus(type, found) : type \in Representative, found \in {"yes", "no", "raises"}}

HardFails(hard) == hard \in {"fail", "error"}
SoftFails(soft) == soft \in {"fail", "error"}

\* Mutant: only the checks decide.
Bug_Synthesize(taskFailed, hard, soft) ==
  IF HardFails(hard) THEN "PARTIAL_FAILURE"
  ELSE IF SoftFails(soft) THEN "COMPLETED_WITH_WARNINGS"
  ELSE "COMPLETED"

\* A soft check that fails turns the failure of a task into a warning, whose report says "Execution succeeded".
Synthesize(taskFailed, hard, soft) ==
  IF HardFails(hard) THEN "PARTIAL_FAILURE"
  ELSE IF SoftFails(soft) THEN "COMPLETED_WITH_WARNINGS"
  ELSE IF taskFailed THEN "PARTIAL_FAILURE"
  ELSE "COMPLETED"

PromotionRisk(changed, status) ==
  IF "critical" \in changed THEN 3
  ELSE IF changed # {} \/ status = "COMPLETED_WITH_WARNINGS" THEN 2
  ELSE 0

AutoThreshold == 0                   \* autopromote_max_risk: R0_LOW

PrePromotion(changed, status) ==
  IF status \in {"FAILED", "PARTIAL_FAILURE"} THEN "block"
  ELSE IF PromotionRisk(changed, status) > AutoThreshold THEN "warn"
  ELSE "allow"

-----------------------------------------------------------------------------
(* The approvals.                                                          *)

\* Mutant: the latest approval of the run, whatever gate it was given at.
Bug_Of(gate) == DOMAIN approvals

Of(gate) == {i \in DOMAIN approvals : approvals[i].gate = gate}
Latest(gate) == IF Of(gate) = {} THEN "none" ELSE approvals[Most(Of(gate))].status

\* _save_approvals: open("w") empties the file ...
OpenFile(thread) ==
  /\ thread \notin saving
  /\ file' = Torn
  /\ saving' = saving \union {thread}
  /\ mixed' = (mixed \/ saving # {})

\* ... and json.dump fills it; two that overlap may leave anything.
WriteFile(thread) ==
  /\ thread \in saving
  /\ file' \in IF mixed THEN {Torn, approvals} ELSE {approvals}
  /\ saving' = saving \ {thread}
  /\ mixed' = (mixed /\ saving # {thread})
  /\ UNCHANGED <<tasks, pc, failed, final, facts, approvals, lastWord, crashes>>

Idle ==
  /\ pc = "edit" /\ failed = FALSE /\ final = "none" /\ facts = {}
  /\ approvals = <<>> /\ file = <<>> /\ saving = {} /\ mixed = FALSE
  /\ lastWord = [g \in Gates |-> "none"] /\ crashes = 0
Init == Idle /\ \E task \in Tasks : tasks = {task}

\* The user writes the spec and starts it.
AddTask ==
  /\ pc = "edit" /\ Cardinality(tasks) < MaxTasks
  /\ \E task \in Tasks : tasks' = tasks \union {task}
  /\ UNCHANGED <<pc, failed, final, facts, approvals, file, saving, mixed, lastWord, crashes>>

\* A start of the queue takes the slot from the beginning, also after a pause.
StartRun ==
  /\ pc \in {"edit", "paused"}
  /\ pc' = "execution" /\ failed' = FALSE /\ final' = "none" /\ facts' = {}
  /\ UNCHANGED <<tasks, approvals, file, saving, mixed, lastWord, crashes>>

Move(to) ==
  /\ pc' = to
  /\ UNCHANGED <<tasks, approvals, file, saving, mixed, lastWord, crashes>>

\* Allowed, blocked, found approved, waiting, or asked for the first time.
AtGate(gate, decision, onward, refused) ==
  /\ pc = gate /\ "worker" \notin saving
  /\ UNCHANGED <<failed, final, facts>>
  /\ \/ decision = "allow" /\ Move(onward)
     \/ decision = "block" /\ Move(refused)
     \/ decision = "warn" /\ Latest(gate) = "approved" /\ Move(onward)
     \/ decision = "warn" /\ Latest(gate) \in {"pending", "denied"} /\ Move("paused")
     \/ /\ decision = "warn" /\ Latest(gate) = "none" /\ Len(approvals) < MaxRequests
        /\ approvals' = Append(approvals, [gate |-> gate, status |-> "pending"])
        /\ OpenFile("worker") /\ pc' = "paused"
        /\ UNCHANGED <<tasks, lastWord, crashes>>

ExecutionGate == AtGate("execution", PreExecution(tasks), "run", "failed")

\* The tasks, the checks and the outcome; a delete_block counts as a deletion whatever came of it.  The spec says
\* whether the first failure ends the run.
Execute ==
  /\ pc = "run"
  /\ \E some, failFast \in BOOLEAN :
       IF some /\ failFast THEN Move("failed") /\ failed' = TRUE /\ final' = "none" /\ facts' = {}
       ELSE \E hard, soft \in Statuses \union {"none"}, changed \in {{}} \union {{x} : x \in Facts} :
              /\ failed' = some
              /\ final' = Synthesize(some, hard, soft)
              /\ facts' = changed \union {x \in {"deletion"} : \E task \in tasks : task.block}
              /\ Move("promotion")

PromotionGate == AtGate("promotion", PrePromotion(facts, final), "promote", "kept")

\* Only a status the spec allows is promoted: COMPLETED, unless it names the one with warnings too.
Promote ==
  /\ pc = "promote"
  /\ UNCHANGED <<failed, final, facts>>
  /\ \E warningsToo \in BOOLEAN :
     IF final = "COMPLETED" \/ (warningsToo /\ final = "COMPLETED_WITH_WARNINGS")
     THEN Move("promoted") ELSE Move("kept")

Over == pc \in {"failed", "kept", "promoted"}

\* The user decides on a pending request, in the window; after the run is over it is of no consequence.
Decide(word) ==
  /\ "ui" \notin saving /\ ~Over
  /\ \E i \in DOMAIN approvals :
       /\ approvals[i].status = "pending"
       /\ approvals' = [approvals EXCEPT ![i].status = word]
       /\ lastWord' = [lastWord EXCEPT ![approvals[i].gate] = word]
  /\ OpenFile("ui")
  /\ UNCHANGED <<tasks, pc, failed, final, facts, crashes>>

\* The program ends and is started again: a file that does not parse is an empty one.
Crash ==
  /\ ~Over /\ crashes < MaxCrashes /\ crashes' = crashes + 1
  /\ approvals' = IF file = Torn THEN <<>> ELSE file
  /\ saving' = {} /\ mixed' = FALSE
  /\ pc' = IF pc \in {"execution", "run", "promotion", "promote"} THEN "paused" ELSE pc
  /\ UNCHANGED <<tasks, failed, final, facts, file, lastWord>>

Worker == ExecutionGate \/ Execute \/ PromotionGate \/ Promote \/ WriteFile("worker")
Next ==
  \/ AddTask \/ StartRun \/ Worker \/ WriteFile("ui") \/ Crash
  \/ \E word \in {"approved", "denied"} : Decide(word)

Spec == Init /\ [][Next]_vars

-----------------------------------------------------------------------------
(* Properties.                                                             *)

TypeOK ==
  /\ tasks \subseteq Tasks /\ facts \subseteq Facts
  /\ pc \in {"edit", "execution", "run", "promotion", "promote", "paused", "failed", "kept", "promoted"}
  /\ saving \subseteq {"worker", "ui"} /\ (mixed => saving # {})
  /\ Len(approvals) <= MaxRequests /\ (saving # {} \/ file \in {Torn, approvals})

Severity(decision) == CASE decision = "allow" -> 0 [] decision = "warn" -> 1 [] OTHER -> 2

\* A gate that wants an approval is passed only when the user's last word on it was yes, whatever crash, restart or
\* overlapping save the approvals file went through (approvals.py, main_window.py 3619 and 3957): a decision can be
\* forgotten, and asked for again, but none is invented or turned round.  A longer spec is never judged more leniently.
ApprovalsHold ==
  /\ pc = "execution" /\ pc' = "run" /\ PreExecution(tasks) # "allow" => lastWord["execution"] = "approved"
  /\ pc = "promotion" /\ pc' = "promote" /\ PrePromotion(facts, final) # "allow" => lastWord["promotion"] = "approved"
  /\ \A i \in DOMAIN approvals \intersect DOMAIN approvals' :
       approvals[i].status # "pending" => approvals'[i].status \in {approvals[i].status, "pending"}
  /\ tasks \subseteq tasks' => Severity(PreExecution(tasks')) >= Severity(PreExecution(tasks))

\* What is promoted without anybody having been asked did nothing the rules single out: no task failed, no check
\* did, nothing was deleted, and the spec held no denied command (policies of services/policy, verification/outcome.py).
PromotedClean ==
  pc = "promoted" =>
    /\ \A task \in tasks : ~Denied(task)
    /\ final \in {"COMPLETED", "COMPLETED_WITH_WARNINGS"}
    /\ lastWord["promotion"] # "approved" => ~failed /\ facts = {} /\ final = "COMPLETED"
    /\ lastWord["execution"] # "approved" => \A task \in tasks : TaskRisk(task) <= Threshold

\* Both gates, step for step: whatever crashes, restarts and overlapping saves lie between, what runs and what is
\* promoted was let through by its gate or by the user (main_window.py, the two policy stages of _run_slot).
GatesHold == [][PromotedClean' /\ ApprovalsHold]_vars
=============================================================================
