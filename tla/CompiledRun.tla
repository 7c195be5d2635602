------------------------------ MODULE CompiledRun ------------------------------
(***************************************************************************)
(* The run of a compiled plan and its rerun (Demo10/services:              *)
(* compiled_runtime, apply, preview).  What the plan would change is       *)
(* simulated first, and a risky plan waits for the user's approval.  The   *)
(* tasks are taken in the order of the plan's graph; each is dispatched to *)
(* the adapter of its type, which                                          *)
(* reads or writes the files of the execution workspace and the candidate  *)
(* operations the tasks of a run share.  A run is logged as JSON, and a    *)
(* rerun starts from that log, in a fresh workspace.                       *)
(***************************************************************************)
EXTENDS Integers, Sequences, FiniteSets

CONSTANTS
  Plans,       \* plans: a task's type, the files it is for and the tasks it depends on, in graph order
  Paths,       \* the files
  Critical,    \* those whose change is a high risk
  Contents,    \* what a file may hold, beside Absent and Empty
  Requests     \* reruns one may ask for: the kind, and the task to start from or 0

Absent == "absent"
Empty == "empty"
TaskTypes == {"READ_CONTEXT", "GENERATE_FILE", "REPLACE_FILE", "GENERATE_PATCH", "RUN", "RUN_DENIED", "RUN_TESTS",
              "APPLY_MUTATIONS", "VALIDATION", "MODIFY"}

\* The compiler sorts a plan's tasks so that each stands after those it depends on, and refuses cycles
\* (compiler/dependency_graph.py).
ASSUME PlansInOrder ==
  \A p \in Plans : /\ p \in Seq([type : TaskTypes, path : Paths, deps : SUBSET Nat])
                   /\ \A i \in DOMAIN p : p[i].deps \subseteq 1..i - 1

ASSUME ContentsAreText == Absent \notin Contents /\ Empty \notin Contents

ASSUME RequestsNameTasks ==
  Requests \subseteq [kind : {"RERUN_FAILED_TASK", "RERUN_FROM_TASK", "RERUN_VALIDATION_SUFFIX"}, from : Nat]

VARIABLES
  plan,        \* the plan
  failFast,    \* its policy
  files,       \* the workspace
  pc,          \* "preview", "gate", "paused", "start", "run", "log", "idle", "rerun" or "end"
  approval,    \* the approval state of the preview: "none", "auto", "pending", "approved" or "rejected"
  pos,         \* the task whose turn it is
  status,      \* the status of each task
  counts,      \* tasks succeeded, failed and skipped, as the run counts them
  overall,     \* the status of the run
  candidates,  \* the operations generated so far: file, kind, hash before and after
  heavy,       \* some task left an artifact that is no JSON
  applied,     \* the last transaction: its status and what it was to apply
  base,        \* the logged run a rerun starts from
  start        \* the task the rerun starts at, 0 in a first run

vars == <<plan, failFast, files, pc, approval, pos, status, counts, overall, candidates, heavy, applied, base, start>>

N == Len(plan)
NoBase == <<>>

Counted(s, f, k) == [succeeded |-> s, failed |-> f, skipped |-> k]
Statuses == {"PENDING", "SUCCEEDED", "FAILED", "BLOCKED", "INVALIDATED", "REUSED", "RERUN_PENDING",
             "RERUN_SUCCEEDED", "RERUN_FAILED"}

-----------------------------------------------------------------------------
(* Applying the candidate operations: results of dry runs, which carry the *)
(* hashes but neither the content nor the patch.                           *)

Conflict(op) ==
  IF op.kind = "create_file" THEN files[op.path] \notin {Absent, op.after}
  ELSE files[op.path] # op.after /\ (files[op.path] = Absent \/ (op.before # Absent /\ files[op.path] # op.before))

\* After the first n entries: a creation that does not find what it was to leave writes what content it carries, the
\* empty text; a modification without content writes nothing.
Emptied(n) == {candidates[k].path : k \in {k \in 1..n : candidates[k].kind = "create_file" /\ files[candidates[k].path] # candidates[k].after}}
Applied(n) == [p \in Paths |-> IF p \in Emptied(n) THEN Empty ELSE files[p]]

Bug_Verified(fs) == \A k \in DOMAIN candidates : fs[candidates[k].path] # Absent
Verified(fs) == \A k \in DOMAIN candidates : fs[candidates[k].path] = candidates[k].after

\* What a transaction reports and leaves: blocked by a conflict, broken off by the disk, or applied and verified.
Transactions ==
  IF \E k \in DOMAIN candidates : Conflict(candidates[k]) THEN {[status |-> "failed", files |-> files]}
  ELSE {[status |-> IF Verified(Applied(Len(candidates))) THEN "applied" ELSE "failed", files |-> Applied(Len(candidates))]}
       \union {[status |-> "partially_applied", files |-> Applied(n - 1)] :
                 n \in {n \in DOMAIN candidates : Applied(n) # Applied(n - 1)}}

-----------------------------------------------------------------------------
(* What the adapter of a task may do: its success, the files, the          *)
(* candidates, whether it leaves an artifact that is no JSON.              *)

Did(ok, fs, ops, artifact) == [ok |-> ok, files |-> fs, ops |-> ops, heavy |-> artifact, tx |-> applied]
Op(path, after) == [path |-> path, kind |-> IF files[path] = Absent THEN "create_file" ELSE "replace_file",
                    before |-> files[path], after |-> after]

Generated(path) ==
  {Did(TRUE, files, candidates \o ops, TRUE) : ops \in {<<Op(path, after)>> : after \in Contents}}
  \union {Did(FALSE, files, candidates, artifact) : artifact \in BOOLEAN}

Applying == {[Did(tx.status = "applied", tx.files, candidates, TRUE) EXCEPT !.tx = [status |-> tx.status, ops |-> candidates]] :
               tx \in Transactions}

\* A command may leave the file changed, whether it succeeds or not.
Commanded(path) ==
  LET left == {[files EXCEPT ![path] = c] : c \in {files[path]} \union Contents}
  IN {Did(TRUE, fs, candidates, FALSE) : fs \in left} \union {Did(FALSE, fs, candidates, FALSE) : fs \in left}

Dispatched(task) ==
  CASE task.type = "READ_CONTEXT" -> {Did(TRUE, files, candidates, TRUE), Did(FALSE, files, candidates, FALSE)}
    [] task.type \in {"GENERATE_FILE", "REPLACE_FILE"} -> Generated(task.path)
    [] task.type = "GENERATE_PATCH" -> IF files[task.path] = Absent THEN {Did(FALSE, files, candidates, FALSE)}
                                       ELSE Generated(task.path) \union {Did(TRUE, files, candidates, TRUE)}
    [] task.type \in {"RUN", "RUN_DENIED", "RUN_TESTS"} -> Commanded(task.path)
    [] task.type = "APPLY_MUTATIONS" -> IF candidates = <<>> THEN {Did(TRUE, files, candidates, FALSE)} ELSE Applying
    [] task.type = "VALIDATION" -> {Did(TRUE, files, candidates, FALSE)}
    [] task.type = "MODIFY" -> {Did(FALSE, files, candidates, FALSE)}

-----------------------------------------------------------------------------
(* A first run.                                                            *)

Init ==
  /\ plan \in Plans /\ failFast \in BOOLEAN
  /\ files \in [Paths -> Contents \union {Absent}]
  /\ pc = "preview" /\ approval = "none" /\ pos = 1 /\ overall = "PENDING"
  /\ status = [i \in DOMAIN plan |-> "PENDING"] /\ counts = Counted(0, 0, 0)
  /\ candidates = <<>> /\ heavy = FALSE /\ applied = [status |-> "none", ops |-> <<>>]
  /\ base = NoBase /\ start = 0

Untouched == UNCHANGED <<plan, failFast, files, pos, status, counts, overall, candidates, heavy, applied, base, start>>

\* A dry run of the tasks that read or generate, where all they depend on was simulated too; done is what went
\* well.  A plan that changes a critical file is a high risk, and so is one with three lesser reasons.
Preview ==
  /\ pc = "preview"
  /\ \E done \in SUBSET {i \in DOMAIN plan : plan[i].type \in {"READ_CONTEXT", "GENERATE_FILE", "GENERATE_PATCH"}} :
       LET changed == {plan[i].path : i \in {i \in done : plan[i].type # "READ_CONTEXT"}} IN
       /\ \A i \in done : plan[i].deps \subseteq done
       /\ approval' \in IF changed = {} THEN {"auto"} ELSE IF changed \intersect Critical # {} THEN {"pending"} ELSE {"auto", "pending"}
  /\ pc' = "gate"
  /\ Untouched

Bug_Allowed == approval # "pending"
Allowed == approval \notin {"pending", "rejected"}

Gate ==
  /\ pc = "gate"
  /\ pc' = IF Allowed THEN "start" ELSE IF approval = "pending" THEN "paused" ELSE "end"
  /\ UNCHANGED approval /\ Untouched

\* The user's decision, and the queue started again; the preview is forgotten when the slot's spec is edited.
Decide(decision) ==
  /\ approval = "pending" /\ pc \in {"gate", "paused"}
  /\ approval' = decision
  /\ pc' = IF decision = "approved" /\ pc = "paused" THEN "gate" ELSE pc
  /\ Untouched

EditSpec == pc = "paused" /\ approval' = "none" /\ UNCHANGED pc /\ Untouched
StartQueue == pc = "paused" /\ pc' = (IF approval = "none" THEN "preview" ELSE "gate") /\ UNCHANGED approval /\ Untouched

\* Every type needs an adapter, or nothing runs.
Start ==
  /\ pc = "start"
  /\ LET unsupported == {i \in DOMAIN plan : plan[i].type = "MODIFY"}
     IN /\ status' = [i \in DOMAIN plan |-> IF i \in unsupported THEN "FAILED" ELSE "PENDING"]
        /\ overall' = (IF unsupported = {} THEN "RUNNING" ELSE "FAILED")
        /\ pc' = IF unsupported = {} THEN "run" ELSE "log"
  /\ UNCHANGED <<plan, failFast, files, approval, pos, counts, candidates, heavy, applied, base, start>>

Bug_Ready == TRUE
Ready == \A d \in plan[pos].deps : status[d] = "SUCCEEDED"

\* The task at pos failed in a run that fails fast, or its turn is over.
Stop == overall' = "FAILED" /\ pc' = "log" /\ UNCHANGED pos
GoOn == pos' = pos + 1 /\ UNCHANGED <<overall, pc>>

DependencyFails ==
  /\ pc = "run" /\ pos <= N /\ ~Ready
  /\ status' = [status EXCEPT ![pos] = "BLOCKED"]
  /\ counts' = [counts EXCEPT !.skipped = @ + 1]
  /\ IF failFast THEN Stop ELSE GoOn
  /\ UNCHANGED <<plan, failFast, files, approval, candidates, heavy, applied, base, start>>

\* Under fail fast the tasks after a failed one that still wait are blocked and counted as skipped.
Waiting(waits) == {i \in pos + 1..N : status[i] \in waits}
TaskEnds(ok, good, bad, waits) ==
  LET stop == ~ok /\ failFast
      blocked == IF stop THEN Waiting(waits) ELSE {}
  IN /\ status' = [i \in DOMAIN plan |-> IF i = pos THEN (IF ok THEN good ELSE bad)
                                         ELSE IF i \in blocked THEN "BLOCKED" ELSE status[i]]
     /\ counts' = IF ok THEN [counts EXCEPT !.succeeded = @ + 1]
                  ELSE [counts EXCEPT !.failed = @ + 1, !.skipped = @ + Cardinality(blocked)]
     /\ IF stop THEN Stop ELSE GoOn

\* The command contains a denied executable.
PolicyBlocks ==
  /\ pc = "run" /\ pos <= N /\ Ready /\ plan[pos].type = "RUN_DENIED"
  /\ TaskEnds(FALSE, "SUCCEEDED", "FAILED", {"PENDING"})
  /\ UNCHANGED <<plan, failFast, files, approval, candidates, heavy, applied, base, start>>

Dispatch(good, bad, waits) ==
  /\ \E did \in Dispatched(plan[pos]) :
       /\ files' = did.files /\ candidates' = did.ops /\ heavy' = (heavy \/ did.heavy) /\ applied' = did.tx
       /\ TaskEnds(did.ok, good, bad, waits)
  /\ UNCHANGED <<plan, failFast, approval, base, start>>

RunTask ==
  /\ pc = "run" /\ pos <= N /\ Ready /\ plan[pos].type # "RUN_DENIED"
  /\ Dispatch("SUCCEEDED", "FAILED", {"PENDING"})

Bug_Exhausted == pc = "run" /\ pos > N
Exhausted == pc \in {"run", "rerun"} /\ pos > N

Finish ==
  /\ Exhausted
  /\ overall' = (IF counts.failed > 0 THEN "FAILED" ELSE "SUCCESS") /\ pc' = "log"
  /\ UNCHANGED <<plan, failFast, files, approval, pos, status, counts, candidates, heavy, applied, base, start>>

\* The run is written as JSON, which the batches, transactions and context packages among its artifacts do not
\* allow: then the slot fails and leaves no base for a rerun.  A rerun's log carries an id that matches no run.
LogRun ==
  /\ pc = "log"
  /\ IF heavy \/ start # 0 THEN pc' = "end" /\ UNCHANGED base ELSE pc' = "idle" /\ base' = status
  /\ UNCHANGED <<plan, failFast, files, approval, pos, status, counts, overall, candidates, heavy, applied, start>>

-----------------------------------------------------------------------------
(* A rerun.                                                                *)

LeastOf(S) == IF S = {} THEN 0 ELSE CHOOSE i \in S : \A j \in S : i <= j

\* The task to start at, 0 if the request is not valid.
StartOf(request) ==
  CASE request.kind = "RERUN_FAILED_TASK" -> LeastOf({i \in DOMAIN plan : base[i] = "FAILED"})
    [] request.kind = "RERUN_VALIDATION_SUFFIX" -> LeastOf({i \in DOMAIN plan : plan[i].type \in {"VALIDATION", "RUN_TESTS"}})
    [] request.kind = "RERUN_FROM_TASK" -> request.from

Bug_Dependents(i) == {j \in DOMAIN plan : i \in plan[j].deps}

\* The tasks that depend on one, directly or not: the least set that has it and every task that depends on one of
\* its own, without the task itself.
Closed(S) == \A j \in DOMAIN plan : plan[j].deps \intersect S # {} => j \in S
Dependents(i) == {j \in DOMAIN plan : \A S \in SUBSET DOMAIN plan : i \in S /\ Closed(S) => j \in S} \ {i}

RequestRerun ==
  /\ pc = "idle"
  /\ \E request \in Requests : LET at == StartOf(request) IN
       /\ at \in DOMAIN plan
       /\ start' = at
       /\ status' = [i \in DOMAIN plan |-> CASE i < at -> "REUSED" [] i = at -> "RERUN_PENDING"
                                             [] i \in Dependents(at) -> "INVALIDATED" [] OTHER -> "PENDING"]
       /\ counts' = Counted(at - 1, 0, 0)
       /\ pos' = at
  /\ files' \in [Paths -> Contents \union {Absent}]
  /\ overall' = "RUNNING" /\ pc' = "rerun" /\ candidates' = <<>>
  /\ UNCHANGED <<plan, failFast, approval, heavy, applied, base>>

RefuseRerun ==
  /\ pc = "idle"
  /\ \E request \in Requests : StartOf(request) \notin DOMAIN plan
  /\ pc' = "end"
  /\ UNCHANGED approval /\ Untouched

InRange == pos = start \/ pos \in Dependents(start)

\* Neither the dependencies nor the policy are asked again.
RerunTask ==
  /\ pc = "rerun" /\ pos <= N /\ InRange
  /\ Dispatch("RERUN_SUCCEEDED", "RERUN_FAILED", {"PENDING", "INVALIDATED", "RERUN_PENDING"})

SkipTask ==
  /\ pc = "rerun" /\ pos <= N /\ ~InRange
  /\ pos' = pos + 1
  /\ UNCHANGED <<plan, failFast, files, pc, approval, status, counts, overall, candidates, heavy, applied, base, start>>

Next == \/ Preview \/ Gate \/ Decide("approved") \/ Decide("rejected") \/ EditSpec \/ StartQueue
        \/ Start \/ DependencyFails \/ PolicyBlocks \/ RunTask \/ Finish \/ LogRun
        \/ RequestRerun \/ RefuseRerun \/ RerunTask \/ SkipTask

\* The worker goes on with a plan that is not at the user's.
Work == Preview \/ Gate \/ Start \/ DependencyFails \/ PolicyBlocks \/ RunTask \/ Finish \/ LogRun
        \/ RerunTask \/ SkipTask

Fairness == WF_vars(Work)

Spec == Init /\ [][Next]_vars /\ Fairness

-----------------------------------------------------------------------------
(* Properties.                                                             *)

With(s) == {i \in DOMAIN plan : status[i] \in s}
Ended == pc \in {"log", "idle", "end"} /\ overall \in {"SUCCESS", "FAILED"}

TypeOK ==
  /\ files \in [Paths -> Contents \union {Absent, Empty}]
  /\ pos \in 1..N + 1 /\ start \in 0..N /\ status \in [DOMAIN plan -> Statuses]
  /\ approval \in {"none", "auto", "pending", "approved", "rejected"}
  /\ counts.succeeded + counts.failed + counts.skipped <= N
  /\ pc \in {"log", "idle"} => Ended

\* What a first run says of itself is so: it succeeded exactly when every task did, its counts are those of its
\* tasks, and a task it counts as succeeded had all its dependencies succeed before it (run_controller.py).
RunTruthful ==
  Ended /\ start = 0 =>
    /\ overall = "SUCCESS" <=> With({"SUCCEEDED"}) = DOMAIN plan
    /\ counts = Counted(Cardinality(With({"SUCCEEDED"})), counts.failed, Cardinality(With({"BLOCKED"})))
    /\ \A i \in With({"SUCCEEDED"}) : plan[i].deps \subseteq With({"SUCCEEDED"})

\* A rerun of the failed task that succeeds stands on tasks that succeeded in the run it starts from, and repeats
\* every task that may have seen what the failed one did (rerun_planner.py, invalidation.py).
ReuseIsSound ==
  Ended /\ start # 0 /\ overall = "SUCCESS" /\ base[start] = "FAILED" /\ (\A i \in 1..start - 1 : base[i] # "FAILED") =>
    /\ \A i \in With({"REUSED"}) : base[i] = "SUCCEEDED"
    /\ \A i \in DOMAIN plan : plan[i].deps \intersect With({"RERUN_SUCCEEDED"}) # {} => status[i] = "RERUN_SUCCEEDED"

\* A transaction that reports "applied" was verified: the files hold what each of its operations was to leave; and
\* one that a conflict stopped has written nothing (apply/executor.py).
AppliedIsVerified == [][
  applied' # applied =>
    /\ applied'.status = "applied" => \A k \in DOMAIN candidates : files'[candidates[k].path] = candidates[k].after
    /\ (\E k \in DOMAIN candidates : Conflict(candidates[k])) => applied'.status = "failed" /\ files' = files]_<<applied, files, candidates>>

\* No task runs while the approval of a risky preview is open or refused (main_window.py: the approval gate), and
\* a refusal is final for this preview.
GateHolds ==
  /\ approval \in {"none", "pending", "rejected"} => With({"PENDING"}) = DOMAIN plan /\ overall = "PENDING"
  /\ pc = "end" /\ overall = "PENDING" => approval = "rejected"

\* A plan that has begun, and a rerun, comes to an end: it does not stay under way.
UnderWay == pc \in {"start", "run", "rerun"}

=============================================================================
