-------------------------------- MODULE RunsProofs --------------------------------
(***************************************************************************)
(* What a compiled plan's run says of itself is so, for every set of plans *)
(* whose tasks stand after those they depend on, and any number of tasks;  *)
(* so is what a rerun takes over from an earlier run, and the approval     *)
(* gate before them.  The tasks of a spec leave on the file nothing a      *)
(* check refuses, whatever they are asked and the model answers.           *)
(***************************************************************************)
EXTENDS CompiledRun, TaskExecutor, FiniteSetTheorems, WellFoundedInduction, TLAPS

BeforeRun == {"preview", "gate", "paused", "start"}
Refused == pc = "end" /\ approval = "rejected" /\ overall = "PENDING"
FirstStatuses == {"PENDING", "SUCCEEDED", "FAILED", "BLOCKED"}
Entries == [path : Paths, kind : {"create_file", "replace_file"}, before : Contents \union {Absent, Empty}, after : Contents]
Total == counts.succeeded + counts.failed + counts.skipped
InRerun(i) == i = start \/ i \in Dependents(start)

\* The state's types, with the variables TypeOK leaves out.
Typed ==
  /\ plan \in Plans
  /\ files \in [Paths -> Contents \union {Absent, Empty}]
  /\ pc \in BeforeRun \union {"run", "log", "idle", "rerun", "end"}
  /\ approval \in {"none", "auto", "pending", "approved", "rejected"}
  /\ pos \in 1..N + 1 /\ start \in 0..N
  /\ status \in [DOMAIN plan -> Statuses]
  /\ counts \in [succeeded : Nat, failed : Nat, skipped : Nat]
  /\ overall \in {"PENDING", "RUNNING", "SUCCESS", "FAILED"}
  /\ candidates \in Seq(Entries)

\* Where the approval and the run stand to each other: nothing has begun before the gate let the plan through.
Gated ==
  /\ pc = "preview" => approval = "none"
  /\ pc = "gate" => approval # "none"
  /\ pc \in BeforeRun \/ Refused <=> overall = "PENDING"
  /\ overall = "PENDING" => /\ \A i \in DOMAIN plan : status[i] = "PENDING"
                            /\ pos = 1 /\ start = 0 /\ counts = Counted(0, 0, 0)
  /\ pc \notin {"preview", "gate", "paused"} => approval \in {"auto", "approved"} \/ Refused

\* The run goes on as long as its status says so, and no task is counted twice.
Counting ==
  /\ pc \in {"run", "rerun"} <=> overall = "RUNNING"
  /\ pc \in {"run", "rerun"} => Total <= pos - 1
  /\ Total <= N

\* What a first run's statuses are to each other: a blocked task stands behind a failed one, and so does no waiting task,
\* unless the plan was refused for that task's type.
Explained(s) ==
  /\ \A i \in DOMAIN plan : s[i] \in FirstStatuses
  /\ \A i \in DOMAIN plan : s[i] = "BLOCKED" => \E j \in 1..i - 1 : s[j] = "FAILED"
  /\ \A j \in DOMAIN plan : s[j] = "FAILED" => plan[j].type = "MODIFY" \/ \A i \in 1..j - 1 : s[i] # "PENDING"

\* A first run.
FirstRun ==
  start = 0 =>
    /\ pc # "rerun"
    /\ Explained(status)
    /\ counts.succeeded = Cardinality(With({"SUCCEEDED"})) /\ counts.skipped = Cardinality(With({"BLOCKED"}))
    /\ \A i \in With({"SUCCEEDED"}) : plan[i].deps \subseteq With({"SUCCEEDED"})
    /\ pc = "run" => /\ \A i \in DOMAIN plan : status[i] = "PENDING" <=> i >= pos
                     /\ counts.failed = 0 <=> With({"FAILED"}) = {}
    /\ overall = "SUCCESS" => With({"SUCCEEDED"}) = DOMAIN plan
    /\ overall = "FAILED" => With({"SUCCEEDED"}) # DOMAIN plan

\* A rerun, and the run it starts from.
Rerun ==
  /\ pc = "idle" \/ start # 0 => Explained(base)
  /\ pc = "idle" => start = 0
  /\ start # 0 =>
       /\ pc \in {"rerun", "log", "end"} /\ pos >= start
       /\ \A i \in DOMAIN plan : status[i] = "REUSED" <=> i < start
       /\ \A i \in DOMAIN plan : status[i] = "RERUN_SUCCEEDED" => InRerun(i) /\ plan[i].type # "MODIFY"
       /\ pc = "rerun" /\ counts.failed = 0 => \A i \in 1..pos - 1 : InRerun(i) => status[i] = "RERUN_SUCCEEDED"
       /\ overall = "SUCCESS" => \A i \in DOMAIN plan : InRerun(i) => status[i] = "RERUN_SUCCEEDED"

RunInv == Typed /\ Gated /\ Counting /\ FirstRun /\ Rerun

-----------------------------------------------------------------------------
(* Plans, and the tasks that depend on one.                                *)

LEMMA ElementsOfSeq == ASSUME NEW R, NEW s \in Seq(R), NEW k \in 1..Len(s) PROVE s[k] \in R
OBVIOUS

LEMMA PlanFacts ==
    ASSUME plan \in Plans
    PROVE  /\ N \in Nat /\ DOMAIN plan = 1..N
           /\ \A i \in 1..N : plan[i] \in [type : TaskTypes, path : Paths, deps : SUBSET Nat] /\ plan[i].deps \subseteq 1..i - 1
<1>1. plan \in Seq([type : TaskTypes, path : Paths, deps : SUBSET Nat]) /\ \A i \in DOMAIN plan : plan[i].deps \subseteq 1..i - 1
  BY PlansInOrder
<1>2. N \in Nat /\ DOMAIN plan = 1..N
  BY <1>1 DEF N
<1>3. ASSUME NEW i \in 1..N PROVE plan[i] \in [type : TaskTypes, path : Paths, deps : SUBSET Nat] /\ plan[i].deps \subseteq 1..i - 1
  <2>1. i \in 1..Len(plan) /\ i \in DOMAIN plan
    BY <1>2 DEF N
  <2>2. plan[i] \in [type : TaskTypes, path : Paths, deps : SUBSET Nat]
    BY <1>1, <2>1, ElementsOfSeq
  <2> QED BY <1>1, <2>1, <2>2
<1> QED BY <1>2, <1>3

\* What depends on a task stands behind it.
LEMMA DependentsFollow ==
    ASSUME plan \in Plans, NEW i \in DOMAIN plan, NEW j \in Dependents(i)
    PROVE  j \in DOMAIN plan /\ i < j
<1> USE PlanFacts
<1> DEFINE S == i..N
<1>1. S \in SUBSET DOMAIN plan /\ i \in S
  OBVIOUS
<1>2. ASSUME NEW k \in DOMAIN plan, plan[k].deps \intersect S # {} PROVE k \in S
  <2>1. PICK d \in plan[k].deps : d \in S
    BY <1>2
  <2>2. i \in 1..N /\ k \in 1..N /\ d \in 1..k - 1
    OBVIOUS
  <2> QED BY <2>1, <2>2
<1>3. Closed(S)
  BY <1>2 DEF Closed
<1>4. j \in DOMAIN plan /\ j # i /\ j \in S
  BY <1>1, <1>3 DEF Dependents
<1> QED BY <1>4

\* What depends on a task, or on a dependent of it, is a dependent of it.
LEMMA DependentsClosed ==
    ASSUME plan \in Plans, NEW i \in DOMAIN plan, NEW d \in Dependents(i) \union {i},
           NEW j \in DOMAIN plan, d \in plan[j].deps
    PROVE  j \in Dependents(i)
<1>1. d \in DOMAIN plan /\ i <= d
  BY DependentsFollow, PlanFacts
<1>2. j # i
  BY <1>1, PlanFacts
<1>3. ASSUME NEW S \in SUBSET DOMAIN plan, i \in S, Closed(S) PROVE j \in S
  <2>1. d \in S
    BY <1>3 DEF Dependents
  <2> QED BY <2>1, <1>3 DEF Closed
<1> QED BY <1>2, <1>3 DEF Dependents

-----------------------------------------------------------------------------
(* What the adapter of a task may do.                                      *)

LEMMA AppliedType ==
    ASSUME Typed, NEW n PROVE Applied(n) \in [Paths -> Contents \union {Absent, Empty}]
BY DEF Typed, Applied

LEMMA OpType ==
    ASSUME Typed, NEW path \in Paths, NEW after \in Contents PROVE Op(path, after) \in Entries
BY DEF Typed, Op, Entries

LEMMA DidParts ==
    ASSUME NEW ok, NEW fs, NEW ops, NEW artifact
    PROVE  /\ Did(ok, fs, ops, artifact).ok = ok /\ Did(ok, fs, ops, artifact).files = fs
           /\ Did(ok, fs, ops, artifact).ops = ops /\ Did(ok, fs, ops, artifact).tx = applied
BY DEF Did

Sound(did) ==
  /\ did.ok \in BOOLEAN /\ did.files \in [Paths -> Contents \union {Absent, Empty}] /\ did.ops \in Seq(Entries)

LEMMA SoundDid ==
    ASSUME NEW ok \in BOOLEAN, NEW fs \in [Paths -> Contents \union {Absent, Empty}], NEW ops \in Seq(Entries), NEW artifact
    PROVE  Sound(Did(ok, fs, ops, artifact)) /\ Did(ok, fs, ops, artifact).tx = applied
BY DidParts DEF Sound

LEMMA GeneratedType ==
    ASSUME Typed, NEW path \in Paths, NEW did \in Generated(path)
    PROVE  Sound(did) /\ did.tx = applied
<1>1. files \in [Paths -> Contents \union {Absent, Empty}] /\ candidates \in Seq(Entries)
  BY DEF Typed
<1>2. ASSUME NEW after \in Contents PROVE candidates \o <<Op(path, after)>> \in Seq(Entries)
  BY <1>1, OpType
<1>3. \/ \E after \in Contents : did = Did(TRUE, files, candidates \o <<Op(path, after)>>, TRUE)
      \/ \E artifact \in BOOLEAN : did = Did(FALSE, files, candidates, artifact)
  BY DEF Generated
<1> QED BY <1>1, <1>2, <1>3, SoundDid

LEMMA CommandedType ==
    ASSUME Typed, NEW path \in Paths, NEW did \in Commanded(path)
    PROVE  Sound(did) /\ did.tx = applied
<1>1. files \in [Paths -> Contents \union {Absent, Empty}] /\ candidates \in Seq(Entries)
  BY DEF Typed
<1>3. PICK c \in {files[path]} \union Contents, ok \in BOOLEAN : did = Did(ok, [files EXCEPT ![path] = c], candidates, FALSE)
  BY DEF Commanded
<1>4. [files EXCEPT ![path] = c] \in [Paths -> Contents \union {Absent, Empty}]
  BY <1>1
<1> QED BY <1>1, <1>3, <1>4, SoundDid

LEMMA DispatchedType ==
    ASSUME Typed, pos \in 1..N, NEW did \in Dispatched(plan[pos])
    PROVE  /\ Sound(did) /\ (plan[pos].type = "MODIFY" => did.ok = FALSE)
           /\ did.tx = applied \/ did \in Applying
<1> DEFINE task == plan[pos]
<1>1. task.type \in TaskTypes /\ task.path \in Paths
  BY PlanFacts DEF Typed
<1>2. files \in [Paths -> Contents \union {Absent, Empty}] /\ candidates \in Seq(Entries)
  BY DEF Typed
<1>3. CASE task.type \in {"GENERATE_FILE", "REPLACE_FILE"}
  <2>1. Dispatched(task) = Generated(task.path)
    BY <1>3 DEF Dispatched
  <2> QED BY <1>1, <1>3, <2>1, GeneratedType
<1>4. CASE task.type = "GENERATE_PATCH"
  <2>1. Dispatched(task) = IF files[task.path] = Absent THEN {Did(FALSE, files, candidates, FALSE)}
                           ELSE Generated(task.path) \union {Did(TRUE, files, candidates, TRUE)}
    BY <1>4 DEF Dispatched
  <2>2. CASE did \in Generated(task.path)
    BY <1>1, <1>4, <2>2, GeneratedType
  <2>3. CASE did \notin Generated(task.path)
    <3>1. did = Did(FALSE, files, candidates, FALSE) \/ did = Did(TRUE, files, candidates, TRUE)
      BY <2>1, <2>3
    <3> QED BY <1>2, <1>4, <3>1, SoundDid
  <2> QED BY <2>2, <2>3
<1>5. CASE task.type \in {"RUN", "RUN_DENIED", "RUN_TESTS"}
  <2>3. Dispatched(task) = Commanded(task.path)
    BY <1>5 DEF Dispatched
  <2> QED BY <1>1, <1>5, <2>3, CommandedType
<1>6. CASE task.type = "APPLY_MUTATIONS"
  <2>1. CASE candidates = <<>>
    <3>1. did = Did(TRUE, files, candidates, FALSE)
      BY <1>6, <2>1 DEF Dispatched
    <3> QED BY <1>2, <1>6, <3>1, SoundDid
  <2>2. CASE candidates # <<>>
    <3>4. Dispatched(task) = Applying
      BY <1>6, <2>2 DEF Dispatched
    <3>1. PICK tx \in Transactions :
            did = [Did(tx.status = "applied", tx.files, candidates, TRUE) EXCEPT !.tx = [status |-> tx.status, ops |-> candidates]]
      BY <3>4 DEF Applying
    <3>2. tx.files \in [Paths -> Contents \union {Absent, Empty}]
      BY <3>1, <1>2, AppliedType DEF Transactions
    <3>3. did.ok = (tx.status = "applied") /\ did.files = tx.files /\ did.ops = candidates
      BY <3>1 DEF Did
    <3> QED BY <1>2, <1>6, <3>2, <3>3, <3>4 DEF Sound
  <2> QED BY <2>1, <2>2
<1>7. CASE task.type = "READ_CONTEXT"
  <2>1. Dispatched(task) = {Did(TRUE, files, candidates, TRUE), Did(FALSE, files, candidates, FALSE)}
    BY <1>7 DEF Dispatched
  <2> QED BY <1>2, <1>7, <2>1, SoundDid
<1>8. CASE task.type = "VALIDATION"
  <2>1. did = Did(TRUE, files, candidates, FALSE)
    BY <1>8 DEF Dispatched
  <2> QED BY <1>2, <1>8, <2>1, SoundDid
<1>9. CASE task.type = "MODIFY"
  <2>1. did = Did(FALSE, files, candidates, FALSE)
    BY <1>9 DEF Dispatched
  <2>2. did.ok = FALSE
    BY <2>1 DEF Did
  <2> QED BY <1>2, <2>1, <2>2, SoundDid
<1> QED BY <1>1, <1>3, <1>4, <1>5, <1>6, <1>7, <1>8, <1>9 DEF TaskTypes

-----------------------------------------------------------------------------
(* The end of a task.                                                      *)

\* The tasks a stop blocks are among those after the one at pos.
LEMMA WaitingCounted ==
    ASSUME Typed, pos \in 1..N, NEW waits
    PROVE  Waiting(waits) \subseteq pos + 1..N /\ Cardinality(Waiting(waits)) \in 0..N - pos
<1>1. N \in Nat /\ pos \in Int
  BY PlanFacts DEF Typed
<1>2. Waiting(waits) \subseteq pos + 1..N
  BY DEF Waiting
<1>3. IsFiniteSet(pos + 1..N) /\ Cardinality(pos + 1..N) = N - pos
  BY <1>1, FS_Interval
<1>4. IsFiniteSet(Waiting(waits)) /\ Cardinality(Waiting(waits)) <= N - pos
  BY <1>2, <1>3, FS_Subset
<1>5. Cardinality(Waiting(waits)) \in Nat
  BY <1>4, FS_CardinalityType
<1> QED BY <1>1, <1>2, <1>4, <1>5

\* What a task's end does to the statuses, the counts and the place in the plan.
LEMMA EndsEffect ==
    ASSUME Typed, pos \in 1..N, NEW ok \in BOOLEAN, NEW good \in Statuses, NEW bad \in Statuses, NEW waits,
           TaskEnds(ok, good, bad, waits)
    PROVE  /\ status' \in [DOMAIN plan -> Statuses]
           /\ status'[pos] = IF ok THEN good ELSE bad
           /\ \A i \in 1..N : i < pos => status'[i] = status[i]
           /\ \A i \in 1..N : i > pos => status'[i] = IF ~ok /\ failFast /\ status[i] \in waits THEN "BLOCKED" ELSE status[i]
<1>1. DOMAIN plan = 1..N /\ status \in [DOMAIN plan -> Statuses] /\ N \in Nat
  BY PlanFacts DEF Typed
<1>2. status' = [i \in DOMAIN plan |-> IF i = pos THEN (IF ok THEN good ELSE bad)
                                       ELSE IF i \in (IF ~ok /\ failFast THEN Waiting(waits) ELSE {}) THEN "BLOCKED" ELSE status[i]]
  BY DEF TaskEnds
<1>3. "BLOCKED" \in Statuses
  BY DEF Statuses
<1>4. status' \in [DOMAIN plan -> Statuses]
  BY <1>1, <1>2, <1>3
<1>5. status'[pos] = IF ok THEN good ELSE bad
  BY <1>1, <1>2
<1>6. \A i \in 1..N : i < pos => status'[i] = status[i]
  BY <1>1, <1>2 DEF Waiting
<1>7. \A i \in 1..N : i > pos => status'[i] = IF ~ok /\ failFast /\ status[i] \in waits THEN "BLOCKED" ELSE status[i]
  BY <1>1, <1>2 DEF Waiting
<1> QED BY <1>4, <1>5, <1>6, <1>7

LEMMA MoreFailed ==
    ASSUME NEW c \in [succeeded : Nat, failed : Nat, skipped : Nat], NEW n \in Nat, NEW d,
           d = [c EXCEPT !.failed = @ + 1, !.skipped = @ + n]
    PROVE  /\ d \in [succeeded : Nat, failed : Nat, skipped : Nat]
           /\ d.succeeded = c.succeeded /\ d.failed = c.failed + 1 /\ d.skipped = c.skipped + n
<1>1. c.succeeded \in Nat /\ c.failed \in Nat /\ c.skipped \in Nat
  OBVIOUS
<1>2. DOMAIN c = {"succeeded", "failed", "skipped"}
  OBVIOUS
<1>3. d.succeeded = c.succeeded
  BY <1>2
<1>4. d.failed = c.failed + 1
  BY <1>2
<1>5. d.skipped = c.skipped + n
  BY <1>2
<1>6. d = [succeeded |-> d.succeeded, failed |-> d.failed, skipped |-> d.skipped]
  BY <1>2
<1> QED BY <1>1, <1>3, <1>4, <1>5, <1>6

LEMMA EndsCount ==
    ASSUME Typed, pos \in 1..N, NEW ok \in BOOLEAN, NEW good, NEW bad, NEW waits, TaskEnds(ok, good, bad, waits)
    PROVE  /\ counts' \in [succeeded : Nat, failed : Nat, skipped : Nat]
           /\ counts'.succeeded = IF ok THEN counts.succeeded + 1 ELSE counts.succeeded
           /\ counts'.failed = IF ok THEN counts.failed ELSE counts.failed + 1
           /\ counts'.skipped = IF ~ok /\ failFast THEN counts.skipped + Cardinality(Waiting(waits)) ELSE counts.skipped
<1>1. counts \in [succeeded : Nat, failed : Nat, skipped : Nat]
  BY DEF Typed
<1>2. Cardinality(Waiting(waits)) \in Nat
  BY WaitingCounted, PlanFacts DEF Typed
<1>3. counts' = IF ok THEN [counts EXCEPT !.succeeded = @ + 1]
                ELSE [counts EXCEPT !.failed = @ + 1, !.skipped = @ + Cardinality(IF failFast THEN Waiting(waits) ELSE {})]
  BY DEF TaskEnds
<1>4. Cardinality({}) = 0
  BY FS_EmptySet
<1>5. CASE ok
  BY <1>1, <1>3, <1>5
<1>6. CASE ~ok /\ failFast
  <2>1. counts' = [counts EXCEPT !.failed = @ + 1, !.skipped = @ + Cardinality(Waiting(waits))]
    BY <1>3, <1>6
  <2> QED BY <1>1, <1>2, <1>6, <2>1, MoreFailed
<1>7. CASE ~ok /\ ~failFast
  <2>1. counts' = [counts EXCEPT !.failed = @ + 1, !.skipped = @ + 0]
    BY <1>3, <1>4, <1>7
  <2>2. /\ counts' \in [succeeded : Nat, failed : Nat, skipped : Nat]
        /\ counts'.succeeded = counts.succeeded /\ counts'.failed = counts.failed + 1 /\ counts'.skipped = counts.skipped + 0
    BY <1>1, <2>1, MoreFailed, 0 \in Nat
  <2>3. counts.skipped \in Nat
    BY <1>1
  <2> QED BY <1>7, <2>2, <2>3
<1> QED BY <1>5, <1>6, <1>7

LEMMA EndsPlace ==
    ASSUME NEW ok \in BOOLEAN, NEW good, NEW bad, NEW waits, TaskEnds(ok, good, bad, waits)
    PROVE  IF ~ok /\ failFast THEN overall' = "FAILED" /\ pc' = "log" /\ pos' = pos
           ELSE overall' = overall /\ pc' = pc /\ pos' = pos + 1
BY DEF TaskEnds, Stop, GoOn

\* A task that is dispatched ends as its adapter says; no adapter takes a task of an unsupported type.
LEMMA DispatchEffect ==
    ASSUME Typed, pos \in 1..N, NEW good, NEW bad, NEW waits, Dispatch(good, bad, waits)
    PROVE  /\ UNCHANGED <<plan, failFast, approval, base, start>>
           /\ files' \in [Paths -> Contents \union {Absent, Empty}] /\ candidates' \in Seq(Entries)
<1>1. PICK did \in Dispatched(plan[pos]) : files' = did.files /\ candidates' = did.ops
  BY DEF Dispatch
<1>2. Sound(did)
  BY <1>1, DispatchedType
<1> QED BY <1>1, <1>2 DEF Sound, Dispatch

LEMMA DispatchEnds ==
    ASSUME Typed, pos \in 1..N, NEW good, NEW bad, NEW waits, Dispatch(good, bad, waits)
    PROVE  \E ok \in BOOLEAN : TaskEnds(ok, good, bad, waits) /\ (plan[pos].type = "MODIFY" => ok = FALSE)
<1>1. PICK did \in Dispatched(plan[pos]) : TaskEnds(did.ok, good, bad, waits)
  BY DEF Dispatch
<1>2. Sound(did) /\ (plan[pos].type = "MODIFY" => did.ok = FALSE)
  BY <1>1, DispatchedType
<1> QED BY <1>1, <1>2 DEF Sound

-----------------------------------------------------------------------------
(* One lemma per step.                                                     *)

\* Unless a task has a status, there are none to count.
LEMMA NoneWith == ASSUME plan \in Plans, NEW S, \A i \in DOMAIN plan : status[i] \notin S PROVE With(S) = {} /\ Cardinality(With(S)) = 0
<1>1. With(S) = {}
  BY DEF With
<1> QED BY <1>1, FS_EmptySet

LEMMA InitInv == Init => RunInv
<1> SUFFICES ASSUME Init PROVE RunInv
  OBVIOUS
<1>1. plan \in Plans /\ N \in Nat /\ DOMAIN plan = 1..N /\ status = [i \in DOMAIN plan |-> "PENDING"]
  BY PlanFacts DEF Init
<1>2. \A i \in DOMAIN plan : status[i] = "PENDING"
  BY <1>1
<1>3. status \in [DOMAIN plan -> Statuses]
  BY <1>1 DEF Statuses
<1>4. counts = Counted(0, 0, 0)
  BY DEF Init
<1>5. counts \in [succeeded : Nat, failed : Nat, skipped : Nat] /\ counts.succeeded = 0 /\ counts.failed = 0 /\ counts.skipped = 0
  BY <1>4 DEF Counted
<1>6. candidates \in Seq(Entries) /\ files \in [Paths -> Contents \union {Absent, Empty}]
  BY DEF Init
<1>7. pos = 1 /\ start = 0 /\ overall = "PENDING" /\ pc = "preview" /\ approval = "none"
  BY DEF Init
<1>8. Typed
  BY <1>1, <1>3, <1>5, <1>6, <1>7 DEF Typed, BeforeRun
<1>9. Gated
  BY <1>2, <1>4, <1>7 DEF Gated, BeforeRun, Refused
<1>10. Counting
  BY <1>1, <1>5, <1>7 DEF Counting, Total
<1>11. FirstRun
  <2>1. With({"SUCCEEDED"}) = {} /\ Cardinality(With({"SUCCEEDED"})) = 0
    BY <1>1, <1>2, NoneWith
  <2>2. With({"BLOCKED"}) = {} /\ Cardinality(With({"BLOCKED"})) = 0
    BY <1>1, <1>2, NoneWith
  <2>3. Explained(status)
    BY <1>2 DEF Explained, FirstStatuses
  <2> QED BY <1>5, <1>7, <2>1, <2>2, <2>3 DEF FirstRun
<1>12. Rerun
  BY <1>7 DEF Rerun
<1> QED BY <1>8, <1>9, <1>10, <1>11, <1>12 DEF RunInv

\* Up to the gate only the approval and the place change.
LEMMA GateStepInv ==
    ASSUME RunInv, Preview \/ Gate \/ Decide("approved") \/ Decide("rejected") \/ EditSpec \/ StartQueue
    PROVE  RunInv'
<1>1. UNCHANGED <<plan, failFast, files, pos, status, counts, overall, candidates, heavy, applied, base, start>>
  BY DEF Preview, Gate, Decide, EditSpec, StartQueue, Untouched
<1>2. pc \in {"preview", "gate", "paused"} /\ overall = "PENDING"
  BY DEF Preview, Gate, Decide, EditSpec, StartQueue, RunInv, Gated, BeforeRun
<1>3. approval' \in {"none", "auto", "pending", "approved", "rejected"}
  <2>1. CASE Preview
    BY <2>1 DEF Preview
  <2>2. CASE ~Preview
    BY <2>2 DEF Gate, Decide, EditSpec, StartQueue, RunInv, Typed
  <2> QED BY <2>1, <2>2
<1>4. /\ pc' \in BeforeRun \/ Refused'
      /\ pc' = "preview" => approval' = "none"
      /\ pc' = "gate" => approval' # "none"
      /\ pc' \notin {"preview", "gate", "paused"} => approval' \in {"auto", "approved"} \/ Refused'
  <2>1. CASE Preview
    BY <2>1 DEF Preview, BeforeRun
  <2>2. CASE Gate
    BY <1>1, <1>2, <1>3, <2>2 DEF Gate, Allowed, BeforeRun, Refused, RunInv, Gated
  <2>3. CASE Decide("approved") \/ Decide("rejected") \/ EditSpec \/ StartQueue
    BY <2>3 DEF Decide, EditSpec, StartQueue, BeforeRun
  <2> QED BY <2>1, <2>2, <2>3
<1>5. pc' \in BeforeRun \union {"end"}
  BY <1>4 DEF Refused
<1>6. Typed'
  BY <1>1, <1>3, <1>5 DEF RunInv, Typed, N
<1>7. Gated'
  <2>1. overall' = "PENDING" /\ (pc' \in BeforeRun \/ Refused')
    BY <1>1, <1>2, <1>4
  <2>2. (\A i \in DOMAIN plan : status[i] = "PENDING") /\ pos = 1 /\ start = 0 /\ counts = Counted(0, 0, 0)
    BY <1>2 DEF RunInv, Gated
  <2>3. (\A i \in DOMAIN plan' : status'[i] = "PENDING") /\ pos' = 1 /\ start' = 0 /\ counts' = Counted(0, 0, 0)'
    BY <1>1, <2>2 DEF Counted
  <2> QED BY <1>4, <2>1, <2>3 DEF Gated
<1>8. Counting'
  <2>1. pc' \notin {"run", "rerun"} /\ overall' # "RUNNING"
    BY <1>1, <1>2, <1>5 DEF BeforeRun
  <2> QED BY <1>1, <2>1 DEF RunInv, Counting, Total, N
<1>9. FirstRun'
  BY <1>1, <1>5 DEF RunInv, FirstRun, Explained, With, BeforeRun
<1>10. Rerun'
  <2>1. start' = 0 /\ pc' # "idle"
    BY <1>1, <1>2, <1>5 DEF RunInv, Gated, BeforeRun
  <2> QED BY <2>1 DEF Rerun
<1> QED BY <1>6, <1>7, <1>8, <1>9, <1>10 DEF RunInv

LEMMA StartInv == ASSUME RunInv, Start PROVE RunInv'
<1> DEFINE unsupported == {i \in DOMAIN plan : plan[i].type = "MODIFY"}
<1>1. /\ pc = "start" /\ UNCHANGED <<plan, failFast, files, approval, pos, counts, candidates, heavy, applied, base, start>>
      /\ status' = [i \in DOMAIN plan |-> IF i \in unsupported THEN "FAILED" ELSE "PENDING"]
      /\ overall' = (IF unsupported = {} THEN "RUNNING" ELSE "FAILED")
      /\ pc' = IF unsupported = {} THEN "run" ELSE "log"
  BY DEF Start
<1>2. DOMAIN plan = 1..N /\ N \in Nat /\ plan \in Plans
  BY PlanFacts DEF RunInv, Typed
<1>3. overall = "PENDING" /\ pos = 1 /\ start = 0 /\ approval \in {"auto", "approved"}
  BY <1>1 DEF RunInv, Gated, BeforeRun, Refused
<1>4. counts.succeeded = 0 /\ counts.failed = 0 /\ counts.skipped = 0
  BY <1>3 DEF RunInv, Gated, Counted
<1>5. \A i \in DOMAIN plan : status'[i] = IF plan[i].type = "MODIFY" THEN "FAILED" ELSE "PENDING"
  BY <1>1
<1>6. status' \in [DOMAIN plan -> Statuses]
  BY <1>1 DEF Statuses
<1>7. Typed'
  BY <1>1, <1>6 DEF RunInv, Typed, N, BeforeRun
<1>8. Gated'
  BY <1>1, <1>3 DEF Gated, BeforeRun, Refused
<1>9. Counting'
  <2>1. (pc' \in {"run", "rerun"} <=> overall' = "RUNNING") /\ Total' = 0 /\ pos' = 1 /\ N' = N
    BY <1>1, <1>3, <1>4 DEF Total, N
  <2> QED BY <1>2, <2>1 DEF Counting
<1>10. FirstRun'
  <2>1. With({"SUCCEEDED"})' = {} /\ With({"BLOCKED"})' = {}
    BY <1>1, <1>5 DEF With
  <2>2. Cardinality(With({"SUCCEEDED"})') = 0 /\ Cardinality(With({"BLOCKED"})') = 0
    BY <2>1, FS_EmptySet
  <2>3. Explained(status)'
    BY <1>1, <1>5 DEF Explained, FirstStatuses
  <2>4. CASE unsupported = {}
    <3>1. \A i \in DOMAIN plan : status'[i] = "PENDING"
      BY <1>5, <2>4
    <3>2. With({"FAILED"})' = {}
      BY <1>1, <3>1 DEF With
    <3> QED BY <1>1, <1>2, <1>3, <1>4, <2>1, <2>2, <2>3, <2>4, <3>1, <3>2 DEF FirstRun
  <2>5. CASE unsupported # {}
    <3>1. DOMAIN plan # {}
      BY <2>5
    <3> QED BY <1>1, <1>2, <1>3, <1>4, <2>1, <2>2, <2>3, <2>5, <3>1 DEF FirstRun
  <2> QED BY <2>4, <2>5
<1>11. Rerun'
  BY <1>1, <1>3 DEF Rerun
<1> QED BY <1>7, <1>8, <1>9, <1>10, <1>11 DEF RunInv

LEMMA LogRunInv == ASSUME RunInv, LogRun PROVE RunInv'
<1>1. /\ pc = "log" /\ pc' \in {"end", "idle"} /\ (pc' = "idle" => base' = status /\ start = 0) /\ (pc' = "end" => base' = base)
      /\ UNCHANGED <<plan, failFast, files, approval, pos, status, counts, overall, candidates, heavy, applied, start>>
  BY DEF LogRun
<1>2. overall \in {"SUCCESS", "FAILED"} /\ approval \in {"auto", "approved"}
  BY <1>1 DEF RunInv, Typed, Gated, Counting, BeforeRun, Refused
<1>3. Typed'
  BY <1>1 DEF RunInv, Typed, N, BeforeRun
<1>4. Gated'
  BY <1>1, <1>2 DEF Gated, BeforeRun, Refused
<1>5. Counting'
  BY <1>1, <1>2 DEF RunInv, Counting, Total, N
<1>6. FirstRun'
  BY <1>1 DEF RunInv, FirstRun, Explained, With
<1>7. Rerun'
  <2>1. CASE pc' = "idle"
    <3>1. Explained(status)
      BY <1>1, <2>1 DEF RunInv, FirstRun
    <3>2. Explained(base)'
      BY <1>1, <2>1, <3>1 DEF Explained
    <3> QED BY <1>1, <2>1, <3>2 DEF Rerun
  <2>2. CASE pc' = "end"
    BY <1>1, <1>2, <2>2 DEF RunInv, Rerun, Explained, InRerun, Dependents, Closed
  <2> QED BY <1>1, <2>1, <2>2
<1> QED BY <1>3, <1>4, <1>5, <1>6, <1>7 DEF RunInv

LEMMA RefuseRerunInv == ASSUME RunInv, RefuseRerun PROVE RunInv'
<1>1. pc = "idle" /\ pc' = "end" /\ UNCHANGED <<plan, failFast, files, approval, pos, status, counts, overall, candidates, heavy, applied, base, start>>
  BY DEF RefuseRerun, Untouched
<1>2. overall \in {"SUCCESS", "FAILED"} /\ approval \in {"auto", "approved"} /\ start = 0
  BY <1>1 DEF RunInv, Typed, Gated, Counting, Rerun, BeforeRun, Refused
<1>3. Typed'
  BY <1>1 DEF RunInv, Typed, N, BeforeRun
<1>4. Gated'
  BY <1>1, <1>2 DEF Gated, BeforeRun, Refused
<1>5. Counting'
  BY <1>1, <1>2 DEF RunInv, Counting, Total, N
<1>6. FirstRun'
  BY <1>1 DEF RunInv, FirstRun, Explained, With
<1>7. Rerun'
  BY <1>1, <1>2 DEF Rerun
<1> QED BY <1>3, <1>4, <1>5, <1>6, <1>7 DEF RunInv

LEMMA RequestRerunInv == ASSUME RunInv, RequestRerun PROVE RunInv'
<1>1. PICK at \in DOMAIN plan :
        /\ start' = at /\ pos' = at /\ counts' = Counted(at - 1, 0, 0)
        /\ status' = [i \in DOMAIN plan |-> CASE i < at -> "REUSED" [] i = at -> "RERUN_PENDING"
                                              [] i \in Dependents(at) -> "INVALIDATED" [] OTHER -> "PENDING"]
  BY DEF RequestRerun
<1>2. /\ pc = "idle" /\ files' \in [Paths -> Contents \union {Absent}]
      /\ overall' = "RUNNING" /\ pc' = "rerun" /\ candidates' = <<>>
      /\ UNCHANGED <<plan, failFast, approval, heavy, applied, base>>
  BY DEF RequestRerun
<1>3. DOMAIN plan = 1..N /\ N \in Nat /\ plan \in Plans /\ at \in 1..N
  BY PlanFacts DEF RunInv, Typed
<1>4. \A i \in DOMAIN plan : /\ i < at => status'[i] = "REUSED"
                             /\ i >= at => status'[i] \in {"RERUN_PENDING", "INVALIDATED", "PENDING"}
  <2> SUFFICES ASSUME NEW i \in DOMAIN plan
               PROVE  IF i < at THEN status'[i] = "REUSED" ELSE status'[i] \in {"RERUN_PENDING", "INVALIDATED", "PENDING"}
    BY <1>3
  <2>1. status'[i] = CASE i < at -> "REUSED" [] i = at -> "RERUN_PENDING"
                       [] i \in Dependents(at) -> "INVALIDATED" [] OTHER -> "PENDING"
    BY <1>1
  <2>2. CASE i < at
    <3>1. i \notin Dependents(at) /\ i # at
      BY <1>3, <2>2, DependentsFollow
    <3> QED BY <2>1, <2>2, <3>1
  <2>3. CASE i = at
    BY <2>1, <2>3, <1>3
  <2>4. CASE i > at /\ i \in Dependents(at)
    BY <2>1, <2>4, <1>3
  <2>5. CASE i > at /\ i \notin Dependents(at)
    BY <2>1, <2>5, <1>3
  <2> QED BY <2>2, <2>3, <2>4, <2>5, <1>3
<1>5. status' \in [DOMAIN plan -> Statuses]
  BY <1>1 DEF Statuses
<1>6. /\ counts' \in [succeeded : Nat, failed : Nat, skipped : Nat]
      /\ counts'.succeeded = at - 1 /\ counts'.failed = 0 /\ counts'.skipped = 0
  BY <1>1, <1>3 DEF Counted
<1>7. Typed'
  <2>1. candidates' \in Seq(Entries) /\ files' \in [Paths -> Contents \union {Absent, Empty}]
    BY <1>2
  <2> QED BY <1>1, <1>2, <1>3, <1>5, <1>6, <2>1 DEF RunInv, Typed, N, BeforeRun, Entries
<1>8. Gated'
  BY <1>2 DEF RunInv, Gated, BeforeRun, Refused
<1>9. Counting'
  <2>1. Total' = at - 1 /\ pos' = at /\ N' = N
    BY <1>1, <1>2, <1>3, <1>6 DEF Total, N
  <2> QED BY <1>2, <1>3, <2>1 DEF Counting
<1>10. FirstRun'
  BY <1>1, <1>3 DEF FirstRun
<1>11. Rerun'
  <2>1. Explained(base)'
    BY <1>2 DEF RunInv, Rerun, Explained
  <2>2. \A i \in DOMAIN plan' : status'[i] = "REUSED" <=> i < start'
    BY <1>1, <1>2, <1>3, <1>4
  <2>3. \A i \in DOMAIN plan' : status'[i] # "RERUN_SUCCEEDED"
    BY <1>2, <1>3, <1>4
  <2>4. \A i \in 1..pos' - 1 : ~InRerun(i)'
    <3> SUFFICES ASSUME NEW i \in 1..at - 1 PROVE i # at /\ i \notin Dependents(at)'
      BY <1>1 DEF InRerun
    <3>1. i \notin Dependents(at)
      BY <1>3, DependentsFollow
    <3>2. Dependents(at)' = Dependents(at)
      BY <1>2 DEF Dependents, Closed
    <3> QED BY <1>3, <3>1, <3>2
  <2>5. pos' >= start'
    BY <1>1, <1>3
  <2> QED BY <1>2, <2>1, <2>2, <2>3, <2>4, <2>5 DEF Rerun
<1> QED BY <1>7, <1>8, <1>9, <1>10, <1>11 DEF RunInv

LEMMA FinishInv == ASSUME RunInv, Finish PROVE RunInv'
<1>1. /\ pc \in {"run", "rerun"} /\ pos > N /\ pc' = "log"
      /\ overall' = (IF counts.failed > 0 THEN "FAILED" ELSE "SUCCESS")
      /\ UNCHANGED <<plan, failFast, files, approval, pos, status, counts, candidates, heavy, applied, base, start>>
  BY DEF Finish, Exhausted
<1>2. DOMAIN plan = 1..N /\ N \in Nat /\ plan \in Plans /\ pos = N + 1 /\ counts.failed \in Nat
  <2>1. plan \in Plans /\ pos \in 1..N + 1 /\ counts \in [succeeded : Nat, failed : Nat, skipped : Nat]
    BY DEF RunInv, Typed
  <2>2. DOMAIN plan = 1..N /\ N \in Nat
    BY <2>1, PlanFacts
  <2>3. pos = N + 1
    BY <1>1, <2>1, <2>2
  <2>4. counts.failed \in Nat
    BY <2>1
  <2> QED BY <2>1, <2>2, <2>3, <2>4
<1>3. approval \in {"auto", "approved"} /\ overall = "RUNNING"
  BY <1>1 DEF RunInv, Gated, Counting, BeforeRun, Refused
<1>4. Typed'
  BY <1>1 DEF RunInv, Typed, N, BeforeRun
<1>5. Gated'
  BY <1>1, <1>3 DEF Gated, BeforeRun, Refused
<1>6. Counting'
  <2>1. Total' = Total /\ N' = N /\ Total <= N
    BY <1>1 DEF RunInv, Counting, Total, N
  <2>2. pc' \notin {"run", "rerun"} /\ overall' # "RUNNING"
    BY <1>1
  <2> QED BY <2>1, <2>2 DEF Counting
<1>7. FirstRun'
  <2> SUFFICES ASSUME start = 0 PROVE FirstRun'
    BY <1>1 DEF FirstRun
  <2>1. pc = "run"
    BY <1>1 DEF RunInv, FirstRun
  <2>2. /\ \A i \in DOMAIN plan : status[i] \in {"SUCCEEDED", "FAILED", "BLOCKED"}
        /\ counts.failed = 0 <=> With({"FAILED"}) = {}
        /\ \A i \in DOMAIN plan : status[i] = "BLOCKED" => \E j \in DOMAIN plan : status[j] = "FAILED"
    BY <1>2, <2>1 DEF RunInv, FirstRun, Explained, FirstStatuses
  <2>3. CASE counts.failed = 0
    <3>1. \A i \in DOMAIN plan : status[i] = "SUCCEEDED"
      BY <2>2, <2>3 DEF With
    <3>2. With({"SUCCEEDED"})' = DOMAIN plan'
      BY <1>1, <3>1 DEF With
    <3> QED BY <1>1, <2>3, <3>2 DEF RunInv, FirstRun, Explained, With
  <2>4. CASE counts.failed # 0
    <3>1. PICK i \in DOMAIN plan : status[i] = "FAILED"
      BY <2>2, <2>4 DEF With
    <3>2. With({"SUCCEEDED"})' # DOMAIN plan'
      BY <1>1, <3>1 DEF With
    <3>3. overall' = "FAILED"
      BY <1>1, <1>2, <2>4
    <3> QED BY <1>1, <3>2, <3>3 DEF RunInv, FirstRun, Explained, With
  <2> QED BY <2>3, <2>4
<1>8. Rerun'
  <2> SUFFICES ASSUME start # 0 PROVE Rerun'
    BY <1>1 DEF Rerun
  <2>1. pc = "rerun" /\ (\A i : InRerun(i)' = InRerun(i))
    BY <1>1 DEF RunInv, Rerun, InRerun, Dependents, Closed
  <2>2. overall' = "SUCCESS" => \A i \in DOMAIN plan : InRerun(i) => status[i] = "RERUN_SUCCEEDED"
    BY <1>1, <1>2, <2>1 DEF RunInv, Rerun
  <2>3. Explained(base)'
    BY <1>1 DEF RunInv, Rerun, Explained
  <2> QED BY <1>1, <2>1, <2>2, <2>3 DEF RunInv, Rerun
<1> QED BY <1>4, <1>5, <1>6, <1>7, <1>8 DEF RunInv

LEMMA SkipTaskInv == ASSUME RunInv, SkipTask PROVE RunInv'
<1>1. /\ pc = "rerun" /\ pos <= N /\ ~InRange /\ pos' = pos + 1
      /\ UNCHANGED <<plan, failFast, files, pc, approval, status, counts, overall, candidates, heavy, applied, base, start>>
  BY DEF SkipTask
<1>2. DOMAIN plan = 1..N /\ N \in Nat /\ plan \in Plans /\ pos \in 1..N /\ start \in 0..N
  BY <1>1, PlanFacts DEF RunInv, Typed
<1>3. start # 0 /\ overall = "RUNNING"
  BY <1>1 DEF RunInv, FirstRun, Counting
<1>4. Typed'
  <2>1. pos' \in 1..N' + 1
    BY <1>1, <1>2 DEF N
  <2> QED BY <1>1, <2>1 DEF RunInv, Typed, N
<1>5. Gated'
  BY <1>1, <1>3 DEF RunInv, Gated, BeforeRun, Refused
<1>6. Counting'
  <2>1. Total' = Total /\ N' = N /\ Total \in Nat
    BY <1>1 DEF RunInv, Typed, Total, N
  <2> QED BY <1>1, <1>2, <2>1 DEF RunInv, Counting
<1>7. FirstRun'
  BY <1>1, <1>3 DEF FirstRun
<1>8. Rerun'
  <2>1. (\A i : InRerun(i)' = InRerun(i)) /\ ~InRerun(pos)
    BY <1>1 DEF InRerun, InRange, Dependents, Closed
  <2>2. counts.failed = 0 => \A i \in 1..pos : InRerun(i) => status[i] = "RERUN_SUCCEEDED"
    BY <1>1, <1>2, <1>3, <2>1 DEF RunInv, Rerun
  <2>3. Explained(base)'
    BY <1>1, <1>3 DEF RunInv, Rerun, Explained
  <2> QED BY <1>1, <1>2, <1>3, <2>1, <2>2, <2>3 DEF RunInv, Rerun
<1> QED BY <1>4, <1>5, <1>6, <1>7, <1>8 DEF RunInv

\* A set that gains one element, and one that gains no more.
LEMMA CountOneMore ==
    ASSUME NEW S \in SUBSET (1..N), N \in Nat, NEW k, k \notin S
    PROVE  Cardinality(S \union {k}) = Cardinality(S) + 1 /\ Cardinality(S) \in Nat
<1>1. IsFiniteSet(1..N)
  BY FS_Interval
<1>2. IsFiniteSet(S)
  BY <1>1, FS_Subset
<1> QED BY <1>2, FS_AddElement, FS_CardinalityType

LEMMA CountUnion ==
    ASSUME NEW S \in SUBSET (1..N), NEW T \in SUBSET (1..N), N \in Nat, S \intersect T = {}
    PROVE  Cardinality(S \union T) = Cardinality(S) + Cardinality(T)
<1>1. IsFiniteSet(1..N)
  BY FS_Interval
<1>2. IsFiniteSet(S) /\ IsFiniteSet(T)
  BY <1>1, FS_Subset
<1>3. Cardinality(S) \in Nat /\ Cardinality(T) \in Nat /\ Cardinality(S \intersect T) = 0
  BY <1>2, FS_CardinalityType, FS_EmptySet
<1>4. Cardinality(S \union T) = Cardinality(S) + Cardinality(T) - Cardinality(S \intersect T)
  BY <1>2, FS_Union
<1> QED BY <1>3, <1>4

LEMMA DependencyFailsInv == ASSUME RunInv, DependencyFails PROVE RunInv'
<1>1. /\ pc = "run" /\ pos <= N /\ ~Ready
      /\ status' = [status EXCEPT ![pos] = "BLOCKED"]
      /\ counts' = [counts EXCEPT !.skipped = @ + 1]
      /\ IF failFast THEN overall' = "FAILED" /\ pc' = "log" /\ pos' = pos ELSE overall' = overall /\ pc' = pc /\ pos' = pos + 1
      /\ UNCHANGED <<plan, failFast, files, approval, candidates, heavy, applied, base, start>>
  BY DEF DependencyFails, Stop, GoOn
<1>2. /\ plan \in Plans /\ pos \in 1..N + 1 /\ start \in 0..N /\ status \in [DOMAIN plan -> Statuses]
      /\ counts \in [succeeded : Nat, failed : Nat, skipped : Nat]
  BY DEF RunInv, Typed
<1>3. DOMAIN plan = 1..N /\ N \in Nat /\ pos \in 1..N
  BY <1>1, <1>2, PlanFacts
<1>4. overall = "RUNNING" /\ approval \in {"auto", "approved"} /\ start = 0 /\ Total <= pos - 1
  BY <1>1 DEF RunInv, Gated, Counting, Rerun, BeforeRun, Refused
<1>5. /\ \A i \in 1..N : status[i] \in FirstStatuses /\ (status[i] = "PENDING" <=> i >= pos)
      /\ \A i \in 1..N : status[i] = "BLOCKED" => \E j \in 1..i - 1 : status[j] = "FAILED"
      /\ \A i \in 1..N : status[i] = "SUCCEEDED" => \A d \in plan[i].deps : status[d] = "SUCCEEDED"
      /\ counts.failed = 0 <=> With({"FAILED"}) = {}
      /\ counts.succeeded = Cardinality(With({"SUCCEEDED"})) /\ counts.skipped = Cardinality(With({"BLOCKED"}))
  BY <1>1, <1>3, <1>4 DEF RunInv, FirstRun, Explained, With
<1>6. /\ \A i \in 1..N : status'[i] = IF i = pos THEN "BLOCKED" ELSE status[i]
      /\ status' \in [DOMAIN plan -> Statuses]
  BY <1>1, <1>2, <1>3 DEF Statuses
<1>7. /\ counts' \in [succeeded : Nat, failed : Nat, skipped : Nat]
      /\ counts'.succeeded = counts.succeeded /\ counts'.failed = counts.failed /\ counts'.skipped = counts.skipped + 1
  BY <1>1, <1>2
<1>8. status[pos] = "PENDING" /\ \E j \in 1..pos - 1 : status[j] = "FAILED"
  <2>1. PICK d \in plan[pos].deps : status[d] # "SUCCEEDED"
    BY <1>1 DEF Ready
  <2>2. d \in 1..pos - 1 /\ d \in 1..N
    BY <1>2, <1>3, PlanFacts
  <2>3. status[d] \in {"FAILED", "BLOCKED"}
    BY <1>3, <1>5, <2>1, <2>2 DEF FirstStatuses
  <2>4. status[d] = "FAILED" \/ \E j \in 1..d - 1 : status[j] = "FAILED"
    BY <1>5, <2>2, <2>3
  <2> QED BY <1>3, <1>5, <2>2, <2>4
<1>9. Typed'
  <2>1. pos' \in 1..N' + 1 /\ pc' \in {"run", "log"} /\ overall' \in {"RUNNING", "FAILED"}
    BY <1>1, <1>3, <1>4 DEF N
  <2> QED BY <1>1, <1>6, <1>7, <2>1 DEF RunInv, Typed, N
<1>10. Gated'
  BY <1>1, <1>4 DEF Gated, BeforeRun, Refused
<1>11. Counting'
  <2>1. Total' = Total + 1 /\ N' = N /\ Total \in Nat
    BY <1>1, <1>2, <1>7 DEF Total, N
  <2> QED BY <1>1, <1>3, <1>4, <2>1 DEF Counting
<1>12. FirstRun'
  <2>1. With({"SUCCEEDED"})' = With({"SUCCEEDED"}) /\ With({"FAILED"})' = With({"FAILED"})
    BY <1>1, <1>3, <1>6, <1>8 DEF With
  <2>2. With({"BLOCKED"})' = With({"BLOCKED"}) \union {pos} /\ pos \notin With({"BLOCKED"}) /\ With({"BLOCKED"}) \in SUBSET (1..N)
    BY <1>1, <1>3, <1>6, <1>8 DEF With
  <2>3. counts'.succeeded = Cardinality(With({"SUCCEEDED"})') /\ counts'.skipped = Cardinality(With({"BLOCKED"})')
    BY <1>3, <1>5, <1>7, <2>1, <2>2, CountOneMore
  <2>4. Explained(status)'
    <3>1. \A i \in 1..N : status'[i] \in FirstStatuses
      BY <1>5, <1>6 DEF FirstStatuses
    <3>2. \A i \in 1..N : status'[i] = "BLOCKED" => \E j \in 1..i - 1 : status'[j] = "FAILED"
      BY <1>3, <1>5, <1>6, <1>8
    <3>3. \A j \in 1..N : status'[j] = "FAILED" => \A i \in 1..j - 1 : status'[i] # "PENDING"
      BY <1>3, <1>5, <1>6
    <3> QED BY <1>1, <1>3, <3>1, <3>2, <3>3 DEF Explained
  <2>5. \A i \in With({"SUCCEEDED"})' : plan'[i].deps \subseteq With({"SUCCEEDED"})'
    BY <1>1, <1>4, <2>1 DEF RunInv, FirstRun
  <2>6. pc' = "run" => \A i \in DOMAIN plan' : status'[i] = "PENDING" <=> i >= pos'
    BY <1>1, <1>3, <1>5, <1>6
  <2>7. With({"SUCCEEDED"})' # DOMAIN plan'
    BY <1>1, <1>3, <1>6 DEF With
  <2>8. pc' \in {"run", "log"} /\ overall' \in {"RUNNING", "FAILED"}
    BY <1>1, <1>4
  <2> QED BY <1>4, <1>5, <1>7, <2>1, <2>3, <2>4, <2>5, <2>6, <2>7, <2>8 DEF FirstRun
<1>13. Rerun'
  BY <1>1, <1>4 DEF Rerun
<1> QED BY <1>9, <1>10, <1>11, <1>12, <1>13 DEF RunInv

\* A task of a first run ends: the policy refused it, or its adapter is done with it.
LEMMA FirstEndInv ==
    ASSUME RunInv, pc = "run", pos <= N, Ready, NEW ok \in BOOLEAN,
           TaskEnds(ok, "SUCCEEDED", "FAILED", {"PENDING"}),
           UNCHANGED <<plan, failFast, approval, base, start>>,
           files' \in [Paths -> Contents \union {Absent, Empty}], candidates' \in Seq(Entries)
    PROVE  RunInv'
<1>1. /\ plan \in Plans /\ pos \in 1..N + 1 /\ start \in 0..N /\ status \in [DOMAIN plan -> Statuses]
      /\ counts \in [succeeded : Nat, failed : Nat, skipped : Nat] /\ Typed
  BY DEF RunInv, Typed
<1>2. DOMAIN plan = 1..N /\ N \in Nat /\ pos \in 1..N
  BY <1>1, PlanFacts
<1>3. overall = "RUNNING" /\ approval \in {"auto", "approved"} /\ start = 0 /\ Total <= pos - 1
  BY DEF RunInv, Gated, Counting, Rerun, BeforeRun, Refused
<1>4. /\ \A i \in 1..N : status[i] \in FirstStatuses /\ (status[i] = "PENDING" <=> i >= pos)
      /\ \A i \in 1..N : status[i] = "BLOCKED" => \E j \in 1..i - 1 : status[j] = "FAILED"
      /\ \A i \in 1..N : status[i] = "SUCCEEDED" => \A d \in plan[i].deps : status[d] = "SUCCEEDED"
      /\ counts.failed = 0 <=> With({"FAILED"}) = {}
      /\ counts.succeeded = Cardinality(With({"SUCCEEDED"})) /\ counts.skipped = Cardinality(With({"BLOCKED"}))
  BY <1>2, <1>3 DEF RunInv, FirstRun, Explained, With
<1> DEFINE stop == ~ok /\ failFast
<1>5. /\ status' \in [DOMAIN plan -> Statuses]
      /\ status'[pos] = IF ok THEN "SUCCEEDED" ELSE "FAILED"
      /\ \A i \in 1..N : i < pos => status'[i] = status[i]
      /\ \A i \in 1..N : i > pos => status'[i] = IF stop THEN "BLOCKED" ELSE "PENDING"
  <2>1. "SUCCEEDED" \in Statuses /\ "FAILED" \in Statuses
    BY DEF Statuses
  <2>2. \A i \in 1..N : i > pos => status'[i] = IF ~ok /\ failFast /\ status[i] \in {"PENDING"} THEN "BLOCKED" ELSE status[i]
    BY <1>1, <1>2, <2>1, EndsEffect
  <2>3. \A i \in 1..N : i > pos => status[i] = "PENDING"
    BY <1>2, <1>4
  <2> QED BY <1>1, <1>2, <2>1, <2>2, <2>3, EndsEffect
<1>6. /\ counts' \in [succeeded : Nat, failed : Nat, skipped : Nat]
      /\ counts'.succeeded = IF ok THEN counts.succeeded + 1 ELSE counts.succeeded
      /\ counts'.failed = IF ok THEN counts.failed ELSE counts.failed + 1
      /\ counts'.skipped = IF stop THEN counts.skipped + Cardinality(Waiting({"PENDING"})) ELSE counts.skipped
  BY <1>1, <1>2, EndsCount
<1>7. IF stop THEN overall' = "FAILED" /\ pc' = "log" /\ pos' = pos ELSE overall' = overall /\ pc' = pc /\ pos' = pos + 1
  BY EndsPlace
<1>8. Waiting({"PENDING"}) = pos + 1..N /\ Cardinality(Waiting({"PENDING"})) \in 0..N - pos
  <2>1. Waiting({"PENDING"}) = pos + 1..N
    BY <1>2, <1>4 DEF Waiting
  <2> QED BY <1>1, <1>2, <2>1, WaitingCounted
<1>9. Typed'
  <2>1. pos' \in 1..N' + 1 /\ pc' \in {"run", "log"} /\ overall' \in {"RUNNING", "FAILED"}
    BY <1>2, <1>3, <1>7 DEF N
  <2> QED BY <1>5, <1>6, <2>1 DEF RunInv, Typed, N
<1>10. Gated'
  BY <1>3, <1>7 DEF Gated, BeforeRun, Refused
<1>11. Counting'
  <2>1. N' = N /\ Total \in Nat
    BY <1>1 DEF Total, N
  <2>2. CASE stop
    <3>1. Total' = Total + 1 + Cardinality(Waiting({"PENDING"}))
      BY <1>1, <1>6, <1>8, <2>2 DEF Total
    <3> QED BY <1>2, <1>3, <1>7, <1>8, <2>1, <2>2, <3>1 DEF Counting
  <2>3. CASE ~stop
    <3>1. Total' = Total + 1
      BY <1>1, <1>6, <2>3 DEF Total
    <3> QED BY <1>2, <1>3, <1>7, <2>1, <2>3, <3>1 DEF Counting
  <2> QED BY <2>2, <2>3
<1>12. counts'.succeeded = Cardinality(With({"SUCCEEDED"})')
  <2>1. With({"SUCCEEDED"}) \in SUBSET (1..N) /\ pos \notin With({"SUCCEEDED"})
    BY <1>2, <1>4 DEF With
  <2>2. With({"SUCCEEDED"})' = IF ok THEN With({"SUCCEEDED"}) \union {pos} ELSE With({"SUCCEEDED"})
    BY <1>2, <1>4, <1>5 DEF With
  <2> QED BY <1>2, <1>4, <1>6, <2>1, <2>2, CountOneMore
<1>13. counts'.skipped = Cardinality(With({"BLOCKED"})')
  <2>1. With({"BLOCKED"}) \in SUBSET (1..N) /\ With({"BLOCKED"}) \intersect (pos + 1..N) = {} /\ pos + 1..N \in SUBSET (1..N)
    BY <1>2, <1>4 DEF With
  <2>2. With({"BLOCKED"})' = IF stop THEN With({"BLOCKED"}) \union (pos + 1..N) ELSE With({"BLOCKED"})
    BY <1>2, <1>4, <1>5 DEF With
  <2>3. CASE stop
    <3>1. Cardinality(With({"BLOCKED"}) \union (pos + 1..N)) = Cardinality(With({"BLOCKED"})) + Cardinality(pos + 1..N)
      BY <1>2, <2>1, CountUnion
    <3>2. counts'.skipped = counts.skipped + Cardinality(pos + 1..N)
      BY <1>6, <1>8, <2>3
    <3> QED BY <1>4, <2>2, <2>3, <3>1, <3>2
  <2>4. CASE ~stop
    BY <1>4, <1>6, <2>2, <2>4
  <2> QED BY <2>3, <2>4
<1>14. Explained(status)'
  <2>1. \A i \in 1..N : status'[i] \in FirstStatuses
    <3> SUFFICES ASSUME NEW i \in 1..N PROVE status'[i] \in FirstStatuses
      OBVIOUS
    <3> QED BY <1>2, <1>4, <1>5 DEF FirstStatuses
  <2>2. \A i \in 1..N : status'[i] = "BLOCKED" => \E j \in 1..i - 1 : status'[j] = "FAILED"
    <3> SUFFICES ASSUME NEW i \in 1..N, status'[i] = "BLOCKED" PROVE \E j \in 1..i - 1 : status'[j] = "FAILED"
      OBVIOUS
    <3>1. i # pos
      BY <1>5
    <3>2. CASE i < pos
      BY <1>2, <1>4, <1>5, <3>2
    <3>3. CASE i > pos
      BY <1>2, <1>5, <3>3
    <3> QED BY <1>2, <3>1, <3>2, <3>3
  <2>3. \A j \in 1..N : status'[j] = "FAILED" => \A i \in 1..j - 1 : status'[i] # "PENDING"
    <3> SUFFICES ASSUME NEW j \in 1..N, status'[j] = "FAILED", NEW i \in 1..j - 1 PROVE status'[i] # "PENDING"
      OBVIOUS
    <3>1. j <= pos
      BY <1>2, <1>5
    <3> QED BY <1>2, <1>4, <1>5, <3>1
  <2> QED BY <1>2, <2>1, <2>2, <2>3 DEF Explained
<1>15. \A i \in 1..N : status'[i] = "SUCCEEDED" => \A d \in plan[i].deps : d \in 1..N /\ status'[d] = "SUCCEEDED"
  <2> SUFFICES ASSUME NEW i \in 1..N, status'[i] = "SUCCEEDED", NEW d \in plan[i].deps PROVE d \in 1..N /\ status'[d] = "SUCCEEDED"
    OBVIOUS
  <2>1. d \in 1..i - 1
    BY <1>1, PlanFacts
  <2>2. i <= pos
    BY <1>2, <1>5
  <2>3. status[d] = "SUCCEEDED"
    BY <1>2, <1>4, <1>5, <2>1, <2>2 DEF Ready
  <2> QED BY <1>2, <1>5, <2>1, <2>2, <2>3
<1>16. FirstRun'
  <2>1. pc' = "run" => \A i \in DOMAIN plan' : status'[i] = "PENDING" <=> i >= pos'
    <3> SUFFICES ASSUME ~stop, pos' = pos + 1, NEW i \in 1..N PROVE status'[i] = "PENDING" <=> i >= pos + 1
      BY <1>2, <1>7
    <3> QED BY <1>2, <1>4, <1>5
  <2>2. pc' = "run" => (counts'.failed = 0 <=> With({"FAILED"})' = {})
    <3> SUFFICES ASSUME ~stop PROVE counts'.failed = 0 <=> With({"FAILED"})' = {}
      BY <1>7
    <3>1. With({"FAILED"})' = IF ok THEN With({"FAILED"}) ELSE With({"FAILED"}) \union {pos}
      BY <1>2, <1>4, <1>5 DEF With
    <3>2. counts.failed \in Nat
      BY <1>1
    <3>3. CASE ok
      BY <1>4, <1>6, <3>1, <3>3
    <3>4. CASE ~ok
      <4>1. counts'.failed = counts.failed + 1 /\ pos \in With({"FAILED"})'
        BY <1>6, <3>1, <3>4
      <4> QED BY <3>2, <4>1
    <3> QED BY <3>3, <3>4
  <2>3. overall' = "FAILED" => With({"SUCCEEDED"})' # DOMAIN plan'
    <3> SUFFICES ASSUME stop PROVE With({"SUCCEEDED"})' # DOMAIN plan'
      BY <1>3, <1>7
    <3> QED BY <1>2, <1>5 DEF With
  <2>4. \A i \in With({"SUCCEEDED"})' : plan'[i].deps \subseteq With({"SUCCEEDED"})'
    BY <1>2, <1>15 DEF With
  <2>5. pc' \in {"run", "log"} /\ overall' \in {"RUNNING", "FAILED"}
    BY <1>3, <1>7
  <2> QED BY <1>3, <1>12, <1>13, <1>14, <2>1, <2>2, <2>3, <2>4, <2>5 DEF FirstRun
<1>17. Rerun'
  BY <1>3, <1>7 DEF Rerun
<1> QED BY <1>9, <1>10, <1>11, <1>16, <1>17 DEF RunInv

\* A task is run again: neither its dependencies nor the policy are asked, and what it reused stays.
LEMMA RerunTaskInv == ASSUME RunInv, RerunTask PROVE RunInv'
<1> DEFINE waits == {"PENDING", "INVALIDATED", "RERUN_PENDING"}
<1>1. pc = "rerun" /\ pos <= N /\ InRange /\ Dispatch("RERUN_SUCCEEDED", "RERUN_FAILED", waits)
  BY DEF RerunTask
<1>2. /\ plan \in Plans /\ pos \in 1..N + 1 /\ start \in 0..N /\ status \in [DOMAIN plan -> Statuses]
      /\ counts \in [succeeded : Nat, failed : Nat, skipped : Nat] /\ Typed
  BY DEF RunInv, Typed
<1>3. DOMAIN plan = 1..N /\ N \in Nat /\ pos \in 1..N
  BY <1>1, <1>2, PlanFacts
<1>4. overall = "RUNNING" /\ approval \in {"auto", "approved"} /\ start # 0 /\ pos >= start /\ Total <= pos - 1
  BY <1>1 DEF RunInv, Gated, Counting, FirstRun, Rerun, BeforeRun, Refused
<1>5. /\ UNCHANGED <<plan, failFast, approval, base, start>>
      /\ files' \in [Paths -> Contents \union {Absent, Empty}] /\ candidates' \in Seq(Entries)
  BY <1>1, <1>2, <1>3, DispatchEffect
<1>6. PICK ok \in BOOLEAN : TaskEnds(ok, "RERUN_SUCCEEDED", "RERUN_FAILED", waits) /\ (plan[pos].type = "MODIFY" => ok = FALSE)
  <2> HIDE DEF waits
  <2> QED BY <1>1, <1>2, <1>3, DispatchEnds
<1> DEFINE stop == ~ok /\ failFast
<1>7. /\ status' \in [DOMAIN plan -> Statuses]
      /\ status'[pos] = IF ok THEN "RERUN_SUCCEEDED" ELSE "RERUN_FAILED"
      /\ \A i \in 1..N : i < pos => status'[i] = status[i]
      /\ \A i \in 1..N : i > pos => status'[i] = IF stop /\ status[i] \in waits THEN "BLOCKED" ELSE status[i]
  <2>1. "RERUN_SUCCEEDED" \in Statuses /\ "RERUN_FAILED" \in Statuses
    BY DEF Statuses
  <2> HIDE DEF waits
  <2> QED BY <1>2, <1>3, <1>6, <2>1, EndsEffect
<1>8. /\ counts' \in [succeeded : Nat, failed : Nat, skipped : Nat]
      /\ counts'.succeeded = IF ok THEN counts.succeeded + 1 ELSE counts.succeeded
      /\ counts'.failed = IF ok THEN counts.failed ELSE counts.failed + 1
      /\ counts'.skipped = IF stop THEN counts.skipped + Cardinality(Waiting(waits)) ELSE counts.skipped
  <2> HIDE DEF waits
  <2> QED BY <1>2, <1>3, <1>6, EndsCount
<1>9. IF stop THEN overall' = "FAILED" /\ pc' = "log" /\ pos' = pos ELSE overall' = overall /\ pc' = pc /\ pos' = pos + 1
  BY <1>6, EndsPlace
<1>10. Cardinality(Waiting(waits)) \in 0..N - pos
  BY <1>2, <1>3, WaitingCounted
<1> HIDE DEF waits
<1>11. Typed'
  <2>1. pos' \in 1..N' + 1 /\ pc' \in {"rerun", "log"} /\ overall' \in {"RUNNING", "FAILED"}
    BY <1>1, <1>3, <1>4, <1>5, <1>9 DEF N
  <2> QED BY <1>5, <1>7, <1>8, <2>1 DEF RunInv, Typed, N
<1>12. Gated'
  BY <1>1, <1>4, <1>5, <1>9 DEF Gated, BeforeRun, Refused
<1>13. Counting'
  <2>1. N' = N /\ Total \in Nat
    BY <1>2, <1>5 DEF Total, N
  <2>2. CASE stop
    <3>1. Total' = Total + 1 + Cardinality(Waiting(waits))
      BY <1>2, <1>3, <1>8, <1>10, <2>2 DEF Total
    <3> QED BY <1>3, <1>4, <1>9, <1>10, <2>1, <2>2, <3>1 DEF Counting
  <2>3. CASE ~stop
    <3>1. Total' = Total + 1
      BY <1>2, <1>8, <2>3 DEF Total
    <3> QED BY <1>1, <1>3, <1>4, <1>9, <2>1, <2>3, <3>1 DEF Counting
  <2> QED BY <2>2, <2>3
<1>14. FirstRun'
  BY <1>4, <1>5 DEF FirstRun
<1>15. (\A i : InRerun(i)' = InRerun(i)) /\ InRerun(pos)
  BY <1>1, <1>5 DEF InRerun, InRange, Dependents, Closed
<1>16. /\ \A i \in 1..N : status[i] = "REUSED" <=> i < start
       /\ \A i \in 1..N : status[i] = "RERUN_SUCCEEDED" => InRerun(i) /\ plan[i].type # "MODIFY"
       /\ counts.failed = 0 => \A i \in 1..pos - 1 : InRerun(i) => status[i] = "RERUN_SUCCEEDED"
  BY <1>1, <1>3, <1>4 DEF RunInv, Rerun
<1>17. Rerun'
  <2>1. Explained(base)'
    BY <1>4, <1>5 DEF RunInv, Rerun, Explained
  <2>2. \A i \in DOMAIN plan' : status'[i] = "REUSED" <=> i < start'
    <3> SUFFICES ASSUME NEW i \in 1..N PROVE status'[i] = "REUSED" <=> i < start
      BY <1>3, <1>5
    <3>1. i < pos \/ i = pos \/ i > pos
      BY <1>3
    <3>2. start \in Nat
      BY <1>2
    <3> QED BY <1>3, <1>4, <1>7, <1>16, <3>1, <3>2 DEF waits
  <2>3. \A i \in DOMAIN plan' : status'[i] = "RERUN_SUCCEEDED" => InRerun(i)' /\ plan'[i].type # "MODIFY"
    <3> SUFFICES ASSUME NEW i \in 1..N, status'[i] = "RERUN_SUCCEEDED" PROVE InRerun(i) /\ plan[i].type # "MODIFY"
      BY <1>3, <1>5, <1>15
    <3>1. i < pos \/ i = pos \/ i > pos
      BY <1>3
    <3> QED BY <1>3, <1>6, <1>7, <1>15, <1>16, <3>1
  <2>4. pc' = "rerun" /\ counts'.failed = 0 => \A i \in 1..pos' - 1 : InRerun(i)' => status'[i] = "RERUN_SUCCEEDED"
    <3> SUFFICES ASSUME pc' = "rerun", counts'.failed = 0, NEW i \in 1..pos' - 1, InRerun(i) PROVE status'[i] = "RERUN_SUCCEEDED"
      BY <1>15
    <3>1. pos' = pos + 1
      BY <1>9
    <3>2. counts.failed \in Nat
      BY <1>2
    <3>3. ok /\ counts.failed = 0
      BY <1>8, <3>2
    <3>4. i = pos \/ i \in 1..pos - 1
      BY <1>3, <3>1
    <3> QED BY <1>3, <1>7, <1>16, <3>3, <3>4
  <2>5. pc' \in {"rerun", "log"} /\ overall' \in {"RUNNING", "FAILED"} /\ pos' >= start'
    BY <1>1, <1>2, <1>3, <1>4, <1>5, <1>9
  <2> QED BY <1>4, <1>5, <2>1, <2>2, <2>3, <2>4, <2>5 DEF Rerun
<1> QED BY <1>11, <1>12, <1>13, <1>14, <1>17 DEF RunInv

LEMMA StepInv == ASSUME RunInv, [Next]_vars PROVE RunInv'
<1>1. CASE Preview \/ Gate \/ Decide("approved") \/ Decide("rejected") \/ EditSpec \/ StartQueue
  BY <1>1, GateStepInv
<1>2. CASE PolicyBlocks
  <2>1. TaskEnds(FALSE, "SUCCEEDED", "FAILED", {"PENDING"}) /\ pc = "run" /\ pos <= N /\ Ready
    BY <1>2 DEF PolicyBlocks
  <2>2. UNCHANGED <<plan, failFast, files, approval, candidates, heavy, applied, base, start>>
    BY <1>2 DEF PolicyBlocks
  <2>3. files' \in [Paths -> Contents \union {Absent, Empty}] /\ candidates' \in Seq(Entries)
    BY <2>2 DEF RunInv, Typed
  <2> QED BY <2>1, <2>2, <2>3, FirstEndInv
<1>3. CASE RunTask
  <2>1. pc = "run" /\ pos <= N /\ Ready /\ Dispatch("SUCCEEDED", "FAILED", {"PENDING"})
    BY <1>3 DEF RunTask
  <2>2. Typed /\ pos \in 1..N
    BY <2>1, PlanFacts DEF RunInv, Typed
  <2>3. /\ UNCHANGED <<plan, failFast, approval, base, start>>
        /\ files' \in [Paths -> Contents \union {Absent, Empty}] /\ candidates' \in Seq(Entries)
        /\ \E ok \in BOOLEAN : TaskEnds(ok, "SUCCEEDED", "FAILED", {"PENDING"})
    BY <2>1, <2>2, DispatchEffect, DispatchEnds
  <2> QED BY <2>1, <2>3, FirstEndInv
<1>4. CASE UNCHANGED vars
  <2>1. UNCHANGED <<plan, failFast, files, pc, approval, pos, status, counts, overall, candidates, heavy, applied, base, start>>
    BY <1>4 DEF vars
  <2>2. Typed' /\ Gated' /\ Counting'
    BY <2>1 DEF RunInv, Typed, Gated, Counting, Refused, Total, N
  <2>3. FirstRun'
    BY <2>1 DEF RunInv, FirstRun, Explained, With
  <2>4. Rerun'
    BY <2>1 DEF RunInv, Rerun, Explained, InRerun, Dependents, Closed
  <2> QED BY <2>2, <2>3, <2>4 DEF RunInv
<1> QED BY <1>1, <1>2, <1>3, <1>4, StartInv, LogRunInv, RefuseRerunInv, RequestRerunInv, FinishInv, SkipTaskInv,
           DependencyFailsInv, RerunTaskInv DEF Next

\* The inductive invariant.
LEMMA RunInvHolds == Spec => []RunInv
<1>1. Init => RunInv
  BY InitInv
<1>2. RunInv /\ [Next]_vars => RunInv'
  BY StepInv
<1> QED BY <1>1, <1>2, PTL DEF Spec

-----------------------------------------------------------------------------
(* The properties.                                                         *)

\* The types: no task is counted twice, whatever stops the run.
THEOREM PlanTypeCorrect == Spec => []TypeOK
<1>1. RunInv => TypeOK
  <2> SUFFICES ASSUME RunInv PROVE TypeOK
    OBVIOUS
  <2>1. overall \in {"SUCCESS", "FAILED"} \/ pc \notin {"log", "idle"}
    BY DEF RunInv, Typed, Gated, Counting, BeforeRun, Refused
  <2> QED BY <2>1 DEF RunInv, Typed, Counting, Total, TypeOK, Ended
<1> QED BY <1>1, RunInvHolds, PTL

\* No task of a risky plan runs before its preview is approved, or after it was refused, whatever the user clicks while
\* the worker waits (ui/main_window.py: the approval gate).
THEOREM NothingPassesTheGate == Spec => []GateHolds
<1>1. RunInv => GateHolds
  <2> SUFFICES ASSUME RunInv PROVE GateHolds
    OBVIOUS
  <2>1. ASSUME approval \in {"none", "pending", "rejected"} PROVE overall = "PENDING"
    BY <2>1 DEF RunInv, Gated, BeforeRun, Refused
  <2>2. overall = "PENDING" => With({"PENDING"}) = DOMAIN plan
    BY DEF RunInv, Gated, With
  <2>3. pc = "end" /\ overall = "PENDING" => approval = "rejected"
    BY DEF RunInv, Gated, BeforeRun, Refused
  <2> QED BY <2>1, <2>2, <2>3 DEF GateHolds
<1> QED BY <1>1, RunInvHolds, PTL

\* What a first run reports is so: its status, its counts and what its successes stand on (run_controller.py).
THEOREM RunSpeaksTruth == Spec => []RunTruthful
<1>1. RunInv => RunTruthful
  <2> SUFFICES ASSUME RunInv, Ended, start = 0
               PROVE  /\ overall = "SUCCESS" <=> With({"SUCCEEDED"}) = DOMAIN plan
                      /\ counts = Counted(Cardinality(With({"SUCCEEDED"})), counts.failed, Cardinality(With({"BLOCKED"})))
                      /\ \A i \in With({"SUCCEEDED"}) : plan[i].deps \subseteq With({"SUCCEEDED"})
    BY DEF RunTruthful
  <2>1. overall \in {"SUCCESS", "FAILED"}
    BY DEF Ended
  <2>2. overall = "SUCCESS" <=> With({"SUCCEEDED"}) = DOMAIN plan
    BY <2>1 DEF RunInv, FirstRun
  <2>3. \A i \in With({"SUCCEEDED"}) : plan[i].deps \subseteq With({"SUCCEEDED"})
    BY DEF RunInv, FirstRun
  <2>4. counts \in [succeeded : Nat, failed : Nat, skipped : Nat]
    BY DEF RunInv, Typed
  <2>5. counts.succeeded = Cardinality(With({"SUCCEEDED"})) /\ counts.skipped = Cardinality(With({"BLOCKED"}))
    BY DEF RunInv, FirstRun
  <2>6. counts = Counted(counts.succeeded, counts.failed, counts.skipped)
    BY <2>4 DEF Counted
  <2> QED BY <2>2, <2>3, <2>5, <2>6
<1> QED BY <1>1, RunInvHolds, PTL

\* A rerun that succeeds reuses successes alone, and repeats every task that may have seen what the failed one did
\* (rerun_planner.py, invalidation.py).
THEOREM ReuseStandsOnSuccess == Spec => []ReuseIsSound
<1>1. RunInv => ReuseIsSound
  <2> SUFFICES ASSUME RunInv, Ended, start # 0, overall = "SUCCESS", base[start] = "FAILED", \A i \in 1..start - 1 : base[i] # "FAILED"
               PROVE  /\ \A i \in With({"REUSED"}) : base[i] = "SUCCEEDED"
                      /\ \A i \in DOMAIN plan : plan[i].deps \intersect With({"RERUN_SUCCEEDED"}) # {} => status[i] = "RERUN_SUCCEEDED"
    BY DEF ReuseIsSound
  <2>1. plan \in Plans /\ DOMAIN plan = 1..N /\ N \in Nat /\ start \in 1..N
    BY PlanFacts DEF RunInv, Typed
  <2>2. Explained(base)
    BY DEF RunInv, Rerun
  <2>3. /\ \A i \in 1..N : status[i] = "REUSED" <=> i < start
        /\ \A i \in 1..N : status[i] = "RERUN_SUCCEEDED" => InRerun(i) /\ plan[i].type # "MODIFY"
        /\ \A i \in 1..N : InRerun(i) => status[i] = "RERUN_SUCCEEDED"
    BY <2>1 DEF RunInv, Rerun
  <2>4. plan[start].type # "MODIFY"
    BY <2>1, <2>3 DEF InRerun
  <2>5. ASSUME NEW i \in With({"REUSED"}) PROVE base[i] = "SUCCEEDED"
    <3>1. i \in 1..start - 1 /\ i \in 1..N
      BY <2>1, <2>3 DEF With
    <3>2. base[i] # "PENDING"
      BY <2>1, <2>2, <2>4, <3>1 DEF Explained
    <3>3. base[i] # "BLOCKED"
      BY <2>1, <2>2, <3>1 DEF Explained
    <3> QED BY <2>1, <2>2, <3>1, <3>2, <3>3 DEF Explained, FirstStatuses
  <2>6. ASSUME NEW i \in DOMAIN plan, NEW d \in plan[i].deps \intersect With({"RERUN_SUCCEEDED"})
        PROVE  status[i] = "RERUN_SUCCEEDED"
    <3>1. InRerun(d)
      BY <2>1, <2>3 DEF With
    <3>2. i \in Dependents(start)
      BY <2>1, <3>1, DependentsClosed DEF InRerun
    <3> QED BY <2>1, <2>3, <3>2 DEF InRerun
  <2> QED BY <2>5, <2>6
<1> QED BY <1>1, RunInvHolds, PTL

\* A transaction that reports "applied" left what each of its operations was to leave; one that met a conflict wrote
\* nothing (apply/executor.py).
THEOREM AppliedMeansVerified == Spec => AppliedIsVerified
<1> DEFINE Step ==
      applied' # applied =>
        /\ applied'.status = "applied" => \A k \in DOMAIN candidates : files'[candidates[k].path] = candidates[k].after
        /\ (\E k \in DOMAIN candidates : Conflict(candidates[k])) => applied'.status = "failed" /\ files' = files
<1>1. ASSUME NEW did \in Applying
      PROVE  /\ did.tx.status = "applied" => \A k \in DOMAIN candidates : did.files[candidates[k].path] = candidates[k].after
             /\ (\E k \in DOMAIN candidates : Conflict(candidates[k])) => did.tx.status = "failed" /\ did.files = files
  <2>1. PICK tx \in Transactions :
          did = [Did(tx.status = "applied", tx.files, candidates, TRUE) EXCEPT !.tx = [status |-> tx.status, ops |-> candidates]]
    BY DEF Applying
  <2>2. did.tx.status = tx.status /\ did.files = tx.files
    BY <2>1 DEF Did
  <2>3. CASE \E k \in DOMAIN candidates : Conflict(candidates[k])
    <3>1. tx.status = "failed" /\ tx.files = files
      BY <2>3 DEF Transactions
    <3> QED BY <2>2, <3>1
  <2>4. CASE ~ \E k \in DOMAIN candidates : Conflict(candidates[k])
    <3>1. tx.status = "applied" => Verified(tx.files)
      BY <2>4 DEF Transactions
    <3> QED BY <2>2, <2>4, <3>1 DEF Verified
  <2> QED BY <2>3, <2>4
<1>2. ASSUME RunInv, NEW good, NEW bad, NEW waits, pos \in 1..N, Dispatch(good, bad, waits) PROVE Step
  <2>1. PICK did \in Dispatched(plan[pos]) : files' = did.files /\ applied' = did.tx
    BY <1>2 DEF Dispatch
  <2>2. did.tx = applied \/ did \in Applying
    BY <1>2, <2>1, DispatchedType DEF RunInv
  <2> QED BY <1>1, <2>1, <2>2
<1>3. RunInv /\ Next => Step
  <2> SUFFICES ASSUME RunInv, Next PROVE Step
    OBVIOUS
  <2>1. CASE RunTask \/ RerunTask
    <3>1. pos \in 1..N
      BY <2>1, PlanFacts DEF RunTask, RerunTask, RunInv, Typed
    <3>2. \E good, bad, waits : Dispatch(good, bad, waits)
      BY <2>1 DEF RunTask, RerunTask
    <3> HIDE DEF Step
    <3> QED BY <1>2, <3>1, <3>2
  <2>2. CASE ~RunTask /\ ~RerunTask
    <3>1. applied' = applied
      BY <2>2 DEF Next, Preview, Gate, Decide, EditSpec, StartQueue, Untouched, Start, DependencyFails, PolicyBlocks,
                  Finish, LogRun, RequestRerun, RefuseRerun, SkipTask
    <3> QED BY <3>1
  <2> QED BY <2>1, <2>2
<1>4. UNCHANGED vars => UNCHANGED <<applied, files, candidates>>
  BY DEF vars
<1>5. RunInv /\ [Next]_vars => [Step]_<<applied, files, candidates>>
  <2> HIDE DEF Step
  <2> QED BY <1>3, <1>4
<1>6. Spec => [][Step]_<<applied, files, candidates>>
  <2> HIDE DEF Step
  <2> QED BY <1>5, RunInvHolds, PTL DEF Spec
<1> QED BY <1>6 DEF AppliedIsVerified

-----------------------------------------------------------------------------
(* The tasks of a spec.                                                    *)

\* One report for every task that is done with, and only a task that writes a file has a model to ask.
TasksInv ==
  /\ mode \in {"apply", "dry-run"} /\ taskPc \in {"task", "ask", "write", "done"}
  /\ tasks \in Seq(Tasks) /\ t \in 1..Len(tasks)
  /\ \E S : results \in Seq(S)
  /\ Len(results) = IF taskPc = "done" THEN t ELSE t - 1
  /\ attempts \in 0..MaxTotalAttempts /\ (taskPc = "ask" => attempts < MaxTotalAttempts)
  /\ taskPc \in {"ask", "write"} => Task.kind \in Generating

\* Reported as done: a deletion, or a text that parses and defines nothing twice.
Reported(text) ==
  IF Task.kind = "delete" THEN text = Missing
  ELSE text # Missing /\ Parses(text) /\ ~IsBlank(text) /\ ~DuplicateSymbols(text)

\* A batch that was not refused writes a text that parses, is not blank and defines nothing twice.
LEMMA AcceptedParses ==
  ASSUME NEW batch, NEW testsPass, Judge(batch, testsPass) = "ok", batch.kind \in {"create_file", "replace_file"}
  PROVE  Parses(batch.text) /\ ~IsBlank(batch.text) /\ ~DuplicateSymbols(batch.text)
<1> DEFINE checks == Checks(batch, testsPass)
           failing == {i \in DOMAIN checks : checks[i].fails}
<1>1. /\ DOMAIN checks = 1..8
      /\ checks[1].class = batch.kind /\ checks[2].class = "operation_schema_invalid" /\ checks[3].class = "binary_file_not_supported"
      /\ checks[4].class = "patch_target_not_found" /\ checks[5].class = "empty_file_after_patch"
      /\ checks[6].class = "python_syntax_error" /\ checks[7].class = "batch_invalid_duplicate_symbol" /\ checks[8].class = "test_failure"
  BY DEF Checks
<1>2. /\ checks[5].fails <=> IsBlank(batch.text)
      /\ checks[6].fails <=> ~Parses(batch.text)
      /\ checks[7].fails <=> DuplicateSymbols(batch.text)
  BY DEF Checks, IsBlank, Parses, DuplicateSymbols
<1>3. failing = {}
  <2>1. Judge(batch, testsPass) = IF failing = {} THEN "ok" ELSE checks[Least(failing)].class
    BY DEF Judge
  <2>2. SUFFICES ASSUME failing # {} PROVE FALSE
    OBVIOUS
  <2>3. failing \subseteq 1..8
    BY <1>1
  <2> HIDE DEF failing
  <2>4. \E x \in failing : \A y \in failing : x <= y
    <3>1. PICK x \in failing : \A y \in failing : ~(<<y, x>> \in OpToRel(<, Nat))
      <4>1. failing \subseteq Nat
        BY <2>3
      <4> QED BY <2>2, <4>1, WFMin, NatLessThanWellFounded, Zenon
    <3>2. \A y \in failing : ~(y < x)
      <4>1. failing \subseteq Nat
        BY <2>3
      <4> QED BY <3>1, <4>1, Zenon DEF OpToRel
    <3> QED BY <2>3, <3>2
  <2>5. Least(failing) \in 1..8
    BY <2>3, <2>4 DEF Least
  <2>6. checks[Least(failing)].class # "ok"
    <3> HIDE DEF checks
    <3> QED BY <1>1, <2>5
  <2> QED BY <2>1, <2>2, <2>6
<1>4. ~checks[5].fails /\ ~checks[6].fails /\ ~checks[7].fails
  BY <1>1, <1>3
<1> HIDE DEF checks
<1> QED BY <1>2, <1>4

\* What no text is, does not parse.
LEMMA MissingIsNoText == ~Parses(Missing)
<1>1. Missing[1] = "(" /\ 1 \in DOMAIN Missing
  BY DEF Missing
<1> QED BY <1>1 DEF Parses

\* A batch leaves the file, breaks off the write, or writes what it was not refused.
LEMMA BatchEnds ==
  ASSUME NEW batch, NEW testsPass, NEW outcome \in Execute(batch, testsPass), mode \in {"apply", "dry-run"}
  PROVE  \/ outcome.disk = disk
         \/ mode = "apply" /\ outcome.disk = Torn
         \/ mode = "apply" /\ ~batch.dry /\ Judge(batch, testsPass) = "ok" /\ outcome.ok = TRUE /\ outcome.disk = Written(batch)
<1>1. CASE Judge(batch, testsPass) # "ok" \/ batch.dry \/ mode = "dry-run"
  <2> DEFINE unwritten == [ok |-> Judge(batch, testsPass) = "ok", disk |-> disk]
  <2>1. Execute(batch, testsPass) = {unwritten}
    BY <1>1, Zenon DEF Execute
  <2>2. unwritten.disk = disk
    OBVIOUS
  <2> HIDE DEF unwritten
  <2> QED BY <2>1, <2>2
<1>2. CASE ~(Judge(batch, testsPass) # "ok" \/ batch.dry \/ mode = "dry-run")
  <2>1. outcome \in {[ok |-> TRUE, disk |-> Written(batch)]} \union [ok : {FALSE}, disk : HalfWritten(batch)]
    BY <1>2 DEF Execute
  <2>2. CASE outcome = [ok |-> TRUE, disk |-> Written(batch)]
    BY <1>2, <2>2
  <2>3. CASE outcome \in [ok : {FALSE}, disk : HalfWritten(batch)]
    <3>1. outcome.disk \in HalfWritten(batch)
      BY <2>3
    <3> QED BY <1>2, <3>1 DEF HalfWritten
  <2> QED BY <2>1, <2>2, <2>3
<1> QED BY <1>1, <1>2

\* What a task's batch would do.
LEMMA PlanKinds ==
  ASSUME NEW text
  PROVE  /\ Task.kind = "delete" => Plan(text).kind = "delete_file"
         /\ Task.kind \in Generating /\ ~Plan(text).dry => Plan(text).kind \in {"create_file", "replace_file"}
<1>1. CASE Task.kind = "delete"
  BY <1>1 DEF Plan, Generating
<1>2. CASE Task.kind \in {"create", "modify"}
  BY <1>2 DEF Plan, Generating
<1>3. CASE Task.kind = "edit"
  <2> DEFINE edit == Edit(disk, Task.op, Task.anchor, text)
  <2>1. CASE edit.status = "failed" \/ edit.status = "no_op"
    BY <1>3, <2>1 DEF Plan
  <2>2. CASE ~(edit.status = "failed" \/ edit.status = "no_op")
    <3>1. Plan(text).kind = "replace_file"
      BY <1>3, <2>2 DEF Plan
    <3> QED BY <1>3, <3>1
  <2> QED BY <2>1, <2>2
<1> QED BY <1>1, <1>2, <1>3 DEF Generating

\* So what it writes is what it may report.
LEMMA WritesWhatItReports ==
  ASSUME NEW text, NEW testsPass, Task.kind \in Generating \union {"delete"},
         ~Plan(text).dry, Judge(Plan(text), testsPass) = "ok"
  PROVE  /\ Reported(Written(Plan(text)))
         /\ Written(Plan(text)) = IF Task.kind = "delete" THEN Missing ELSE Plan(text).text
<1> DEFINE batch == Plan(text)
<1>1. CASE Task.kind = "delete"
  <2>1. batch.kind = "delete_file"
    BY <1>1, PlanKinds
  <2> HIDE DEF batch
  <2>2. Written(batch) = Missing
    BY <2>1 DEF Written
  <2> QED BY <1>1, <2>2 DEF Reported, batch
<1>2. CASE Task.kind \in Generating
  <2>1. batch.kind \in {"create_file", "replace_file"} /\ Task.kind # "delete"
    BY <1>2, PlanKinds DEF Generating
  <2>2. Judge(batch, testsPass) = "ok"
    OBVIOUS
  <2> HIDE DEF batch
  <2>3. Written(batch) = batch.text
    BY <2>1 DEF Written
  <2>4. Parses(batch.text) /\ ~IsBlank(batch.text) /\ ~DuplicateSymbols(batch.text)
    BY <2>1, <2>2, AcceptedParses
  <2> QED BY <2>1, <2>3, <2>4, MissingIsNoText DEF Reported, batch
<1> QED BY <1>1, <1>2

\* A report goes with the task that is done with, and the next one begins.
LEMMA ReportStep ==
  ASSUME TasksInv, taskPc # "done", NEW ok, NEW text, Report(ok, text)
  PROVE  TasksInv' /\ results'[t] = [ok |-> ok, text |-> text]
<1> DEFINE r == [ok |-> ok, text |-> text]
           more == t < Len(tasks) /\ (ok \/ ~taskFailFast)
<1>1. /\ results' = Append(results, r) /\ attempts' = 0 /\ tasks' = tasks /\ mode' = mode
      /\ t' = (IF more THEN t + 1 ELSE t) /\ taskPc' = (IF more THEN "task" ELSE "done")
  BY DEF Report
<1>2. /\ mode \in {"apply", "dry-run"} /\ tasks \in Seq(Tasks) /\ t \in 1..Len(tasks) /\ Len(results) = t - 1 /\ Len(tasks) \in Nat
  BY DEF TasksInv
<1>3. PICK S : results \in Seq(S)
  BY DEF TasksInv
<1> HIDE DEF r
<1>4. results \in Seq(S \union {r})
  BY <1>3
<1>5. /\ results' \in Seq(S \union {r}) /\ Len(results') = t /\ results'[t] = r
  BY <1>1, <1>2, <1>4
<1>6. t' \in 1..Len(tasks) /\ (more => t' = t + 1) /\ (~more => t' = t)
  BY <1>1, <1>2
<1> HIDE DEF more
<1>7. Len(results') = IF taskPc' = "done" THEN t' ELSE t' - 1
  BY <1>1, <1>2, <1>5, <1>6
<1>8. 0 \in 0..MaxTotalAttempts
  BY DEF MaxTotalAttempts
<1> QED BY <1>1, <1>2, <1>5, <1>6, <1>7, <1>8 DEF TasksInv, r

LEMMA TasksKeepInv == ASSUME TasksInv, [TasksNext]_taskVars PROVE TasksInv'
<1>1. CASE UNCHANGED taskVars
  BY <1>1 DEF TasksInv, taskVars, Task
<1>2. CASE AskModel
  <2>1. /\ taskPc = "task" /\ Task.kind \in Generating /\ taskPc' = "ask" /\ attempts' = 0
        /\ UNCHANGED <<tasks, mode, t, results>>
    BY <1>2 DEF AskModel
  <2>2. Task' = Task
    BY <2>1 DEF Task
  <2> QED BY <2>1, <2>2 DEF TasksInv, MaxTotalAttempts
<1>3. CASE Attempt
  <2>1. PICK text \in Answers, testsPass \in BOOLEAN, inScope \in BOOLEAN :
          LET class == Verdict(Plan(text), testsPass, inScope)
          IN IF class = "ok" \/ TryAgain(class)
             THEN /\ taskPc' = IF class = "ok" THEN "write" ELSE "ask"
                  /\ attempts' = Tried /\ answer' = text
                  /\ UNCHANGED <<disk, tasks, taskFailFast, mode, t, results>>
             ELSE UNCHANGED disk /\ ReportBatch(FALSE, Plan(text).text)
    BY <1>3 DEF Attempt
  <2> DEFINE class == Verdict(Plan(text), testsPass, inScope)
  <2>2. taskPc = "ask"
    BY <1>3 DEF Attempt
  <2>3. CASE class = "ok" \/ TryAgain(class)
    <3>1. /\ taskPc' = IF class = "ok" THEN "write" ELSE "ask"
          /\ attempts' = attempts + 1 /\ UNCHANGED <<tasks, mode, t, results>>
      BY <2>1, <2>3 DEF Tried
    <3>2. Task' = Task
      BY <3>1 DEF Task
    <3>3. class # "ok" => attempts + 1 < MaxTotalAttempts
      BY <2>3 DEF TryAgain
    <3> HIDE DEF class
    <3>4. attempts \in 0..MaxTotalAttempts /\ attempts < MaxTotalAttempts /\ Task.kind \in Generating
      BY <2>2 DEF TasksInv
    <3>5. attempts' \in 0..MaxTotalAttempts /\ (taskPc' = "ask" => attempts' < MaxTotalAttempts) /\ taskPc' \in {"ask", "write"}
      BY <3>1, <3>3, <3>4 DEF MaxTotalAttempts
    <3> QED BY <2>2, <3>1, <3>2, <3>4, <3>5 DEF TasksInv
  <2>4. CASE ~(class = "ok" \/ TryAgain(class))
    <3>1. ReportBatch(FALSE, Plan(text).text)
      BY <2>1, <2>4
    <3>2. \E said : Report(FALSE, said)
      BY <3>1 DEF ReportBatch
    <3> QED BY <2>2, <3>2, ReportStep
  <2> QED BY <2>3, <2>4
<1>4. CASE ModifyMissing \/ SuppliedBatch \/ ModelUnavailable \/ WriteAccepted \/ BackupFails \/ RunCommand \/ Validate
  <2>1. taskPc # "done" /\ \E ok, text : Report(ok, text)
    BY <1>4 DEF ModifyMissing, SuppliedBatch, ModelUnavailable, WriteAccepted, BackupFails, RunCommand, Validate, ReportBatch
  <2> QED BY <2>1, ReportStep
<1> QED BY <1>1, <1>2, <1>3, <1>4 DEF TasksNext

\* A batch is reported as it ended, or its task fails and names no text.
LEMMA BatchReport ==
  ASSUME TasksInv, taskPc # "done", NEW ok, NEW text, ReportBatch(ok, text)
  PROVE  results'[t] \in {[ok |-> ok, text |-> text], [ok |-> FALSE, text |-> None]}
<1>1. CASE Report(ok, text)
  BY <1>1, ReportStep
<1>2. CASE Report(FALSE, None)
  BY <1>2, ReportStep
<1> QED BY <1>1, <1>2 DEF ReportBatch

\* Every step changes the file only to what a batch that was not refused makes of it.
LEMMA FilesKeptStep ==
  ASSUME TasksInv, [TasksNext]_taskVars
  PROVE  \/ disk' = disk \/ Task.kind = "run" \/ (disk' = Torn /\ mode = "apply")
         \/ /\ mode = "apply" /\ results'[t] \in {[ok |-> TRUE, text |-> disk'], [ok |-> FALSE, text |-> None]}
            /\ Reported(disk')
<1>0. mode \in {"apply", "dry-run"}
  BY DEF TasksInv
<1>1. CASE SuppliedBatch
  <2>1. PICK testsPass \in BOOLEAN : \E outcome \in Execute(Plan(Task.content), testsPass) :
          disk' = outcome.disk /\ ReportBatch(outcome.ok, IF Task.kind = "delete" THEN Missing ELSE Plan(Task.content).text)
    BY <1>1 DEF SuppliedBatch
  <2> DEFINE batch == Plan(Task.content)
             text == IF Task.kind = "delete" THEN Missing ELSE batch.text
  <2>2. PICK outcome \in Execute(batch, testsPass) : disk' = outcome.disk /\ ReportBatch(outcome.ok, text)
    BY <2>1
  <2>3. taskPc # "done" /\ Task.kind \in Generating \union {"delete"}
    BY <1>1 DEF SuppliedBatch
  <2>4. results'[t] \in {[ok |-> outcome.ok, text |-> text], [ok |-> FALSE, text |-> None]}
    BY <2>2, <2>3, BatchReport
  <2>5. \/ outcome.disk = disk
        \/ mode = "apply" /\ outcome.disk = Torn
        \/ mode = "apply" /\ ~batch.dry /\ Judge(batch, testsPass) = "ok" /\ outcome.ok = TRUE /\ outcome.disk = Written(batch)
    BY <1>0, BatchEnds
  <2>6. CASE mode = "apply" /\ ~batch.dry /\ Judge(batch, testsPass) = "ok" /\ outcome.ok = TRUE /\ outcome.disk = Written(batch)
    <3>1. Reported(Written(batch)) /\ Written(batch) = text
      BY <2>3, <2>6, WritesWhatItReports
    <3>2. disk' = text /\ results'[t] \in {[ok |-> TRUE, text |-> disk'], [ok |-> FALSE, text |-> None]}
      BY <2>2, <2>4, <2>6, <3>1
    <3>3. Reported(disk')
      BY <3>1, <3>2
    <3> QED BY <2>6, <3>2, <3>3
  <2> QED BY <2>2, <2>5, <2>6
<1>2. CASE WriteAccepted
  <2> DEFINE batch == Plan(answer)
  <2>1. PICK testsPass \in BOOLEAN : \E outcome \in Execute(batch, testsPass) : disk' = outcome.disk /\ ReportBatch(TRUE, batch.text)
    BY <1>2 DEF WriteAccepted
  <2>2. PICK outcome \in Execute(batch, testsPass) : disk' = outcome.disk /\ ReportBatch(TRUE, batch.text)
    BY <2>1
  <2>3. taskPc # "done" /\ Task.kind \in Generating /\ Task.kind # "delete"
    BY <1>2 DEF WriteAccepted, TasksInv, Generating
  <2>4. results'[t] \in {[ok |-> TRUE, text |-> batch.text], [ok |-> FALSE, text |-> None]}
    BY <2>2, <2>3, BatchReport
  <2>5. \/ outcome.disk = disk
        \/ mode = "apply" /\ outcome.disk = Torn
        \/ mode = "apply" /\ ~batch.dry /\ Judge(batch, testsPass) = "ok" /\ outcome.ok = TRUE /\ outcome.disk = Written(batch)
    BY <1>0, BatchEnds
  <2>6. CASE mode = "apply" /\ ~batch.dry /\ Judge(batch, testsPass) = "ok" /\ outcome.ok = TRUE /\ outcome.disk = Written(batch)
    <3>1. Reported(Written(batch)) /\ Written(batch) = batch.text
      BY <2>3, <2>6, WritesWhatItReports
    <3>2. disk' = batch.text /\ results'[t] \in {[ok |-> TRUE, text |-> disk'], [ok |-> FALSE, text |-> None]}
      BY <2>2, <2>4, <2>6, <3>1
    <3>3. Reported(disk')
      BY <3>1, <3>2
    <3> QED BY <2>6, <3>2, <3>3
  <2> QED BY <2>2, <2>5, <2>6
<1>3. CASE RunCommand
  BY <1>3 DEF RunCommand
<1>4. CASE UNCHANGED taskVars \/ ModifyMissing \/ AskModel \/ ModelUnavailable \/ Attempt \/ BackupFails \/ Validate
  BY <1>4 DEF taskVars, ModifyMissing, AskModel, ModelUnavailable, Attempt, BackupFails, Validate
<1> QED BY <1>1, <1>2, <1>3, <1>4 DEF TasksNext

\* The file changes only by a command, by a write the disk broke off, or, in apply mode, to a text no check refuses,
\* which the task reports as done unless it fails over the artifacts of its batch; whatever texts, answers and tasks there are and whatever the edits make of them.
THEOREM OnlyReportedChanges == TasksSpec => FilesKept
<1>1. TasksInit => TasksInv
  <2> SUFFICES ASSUME TasksInit PROVE TasksInv
    OBVIOUS
  <2>1. PICK n \in 1..MaxTasks : tasks \in [1..n -> Tasks]
    BY DEF TasksInit
  <2>2. tasks \in Seq(Tasks) /\ Len(tasks) = n /\ 1 \in 1..Len(tasks)
    BY <2>1, TasksConstants
  <2>3. results = <<>> /\ results \in Seq({}) /\ Len(results) = 0
    BY DEF TasksInit
  <2> QED BY <2>2, <2>3 DEF TasksInit, TasksInv, MaxTotalAttempts
<1>2. TasksInv /\ [TasksNext]_taskVars => TasksInv'
  BY TasksKeepInv
<1>3. TasksInv /\ [TasksNext]_taskVars =>
        [\/ disk' = disk \/ Task.kind = "run" \/ (disk' = Torn /\ mode = "apply")
         \/ /\ mode = "apply"
            /\ results'[t] \in {[ok |-> TRUE, text |-> disk'], [ok |-> FALSE, text |-> None]}
            /\ IF Task.kind = "delete" THEN disk' = Missing
               ELSE disk' # Missing /\ Parses(disk') /\ ~IsBlank(disk') /\ ~DuplicateSymbols(disk')]_<<disk, results>>
  BY FilesKeptStep DEF Reported
<1> QED BY <1>1, <1>2, <1>3, PTL DEF TasksSpec, FilesKept

==================================================================================
