------------------------ MODULE ExecutionEngineProofs ------------------------
(***************************************************************************)
(* Theorems about the step engine, for every N, every set of files and     *)
(* contents and every set of plans.                                        *)
(***************************************************************************)
EXTENDS ExecutionEngine, TLAPS

Active == {"attempt", "post", "failure", "sleep"}

\* What ending a step does to the typed variables, whatever the result.
LEMMA EndStepType ==
    ASSUME TypeOK, cur \in Steps, NEW s \in {"completed", "failed", "skipped"}, EndStep(s)
    PROVE  /\ status' \in [Steps -> {"pending", "running", "completed", "failed", "skipped"}]
           /\ failed' \in BOOLEAN
           /\ cur' \in 1..(N + 1)
           /\ pc' = "next"
<1>1. cur + 1 \in 1..(N + 1)
  BY EngineAssumption DEF Steps
<1>2. QED
  BY <1>1 DEF TypeOK, EndStep

\* The steps of the engine keep every variable in its type (models.py, rollback_models.py).
LEMMA TypeStep == TypeOK /\ [Next]_vars => TypeOK'
<1> SUFFICES ASSUME TypeOK, [Next]_vars PROVE TypeOK'
  OBVIOUS
<1> USE EngineAssumption
<1> DEFINE Rest == UNCHANGED <<plan, disk0, fileVars, meta, action, runVars>>
<1>1. ASSUME cur \in Steps, NEW s \in {"completed", "failed", "skipped"}, EndStep(s),
             Rest, UNCHANGED <<attempt, attempts>>, code' \in Codes
      PROVE  TypeOK'
  BY <1>1, EndStepType DEF TypeOK, fileVars, runVars
<1>2. CASE BeginStep
  <2>1. CASE DependenciesSatisfied(cur)
    BY <1>2, <2>1 DEF BeginStep, TypeOK, fileVars, runVars
  <2>2. CASE ~DependenciesSatisfied(cur)
    BY <1>2, <2>2, <1>1 DEF BeginStep, TypeOK
  <2> QED BY <2>1, <2>2
<1>3. CASE SkipStep
  BY <1>3, <1>1 DEF SkipStep, TypeOK
<1>4. CASE RefuseAttempt
  BY <1>4, <1>1 DEF RefuseAttempt, TypeOK, Codes
<1>5. CASE Handlers
  <2>1. ASSUME NEW c \in Codes, HandlerDone(c), pc = "attempt", meta' \in [Steps -> Meta],
               disk' \in [Files -> FileStates], snapshot' \in [Files -> FileStates]
        PROVE  TypeOK'
    BY <2>1 DEF TypeOK, HandlerDone, runVars
  <2>2. cur \in Steps /\ Meta = [created : BOOLEAN, saved : BOOLEAN, sum : FileStates]
        /\ NoMeta \in Meta /\ plan[cur] \in StepSpec
        /\ {"OK", "IO_ERROR", "EXECUTION_ERROR", "COMMAND_FAILED"} \subseteq Codes
        /\ plan[cur].content \in FileStates
        /\ (plan[cur].type # "run_command" => plan[cur].target \in Files)
    BY <1>5 DEF Handlers, CreateFile, WriteFile, ModifyFile, ReadOnlyHandler, HandlerRaises,
                RunCommand, Handling, TypeOK, Meta, NoMeta, FileStates, Codes, PlanOK, StepSpec
  <2>3. ASSUME NEW f \in Files, NEW c \in Contents, Write(f, c), pc = "attempt",
               meta' \in [Steps -> Meta], snapshot' \in [Files -> FileStates]
        PROVE  TypeOK'
    BY <2>1, <2>2, <2>3 DEF Write, TypeOK, FileStates
  <2>4. Given \in Contents
    BY <2>2 DEF Given, step, FileStates
  <2>5. CASE CreateFile
    <3>1. CreatedMeta(step.target) \in Meta
      BY DEF CreatedMeta, Meta, NoMeta, FileStates
    <3>2. meta' \in [Steps -> Meta]
      BY <2>5, <3>1 DEF CreateFile, TypeOK
    <3>3. step.target \in Files
      BY <2>5, <2>2 DEF CreateFile, Handling, step
    <3>4. QED
      BY <2>5, <2>3, <2>4, <3>2, <3>3 DEF CreateFile, Handling, TypeOK
  <2>6. CASE WriteFile
    <3>1. step.target \in Files
      BY <2>6, <2>2 DEF WriteFile, Handling, step
    <3>2. CreatedMeta(step.target) \in Meta /\ SavedMeta(step.target) \in Meta
      BY <3>1 DEF CreatedMeta, SavedMeta, Meta, NoMeta, FileStates, TypeOK
    <3>3. meta' \in [Steps -> Meta] /\ snapshot' \in [Files -> FileStates]
      BY <2>6, <3>1, <3>2 DEF WriteFile, TypeOK
    <3>4. QED
      BY <2>6, <2>3, <2>4, <3>1, <3>3 DEF WriteFile, Handling
  <2>7. CASE ModifyFile
    <3>1. step.target \in Files
      BY <2>7, <2>2 DEF ModifyFile, Handling, step
    <3>2. SavedMeta(step.target) \in Meta
      BY <3>1 DEF SavedMeta, Meta, TypeOK
    <3>3. meta' \in [Steps -> Meta] /\ snapshot' \in [Files -> FileStates]
      BY <2>7, <3>1, <3>2 DEF ModifyFile, TypeOK
    <3>4. (IF step.content = Absent THEN disk[step.target] ELSE step.content) \in Contents
      BY <2>7, <2>2, <3>1 DEF ModifyFile, Exists, TypeOK, step, FileStates
    <3>5. QED
      BY <2>7, <2>3, <3>1, <3>3, <3>4 DEF ModifyFile, Handling
  <2>8. CASE ReadOnlyHandler
    BY <2>8, <2>1, <2>2 DEF ReadOnlyHandler, Handling, fileVars, TypeOK
  <2>9. CASE HandlerRaises
    BY <2>9, <2>1, <2>2 DEF HandlerRaises, Handling, fileVars, TypeOK
  <2>10. CASE RunCommand
    BY <2>10, <2>1, <2>2 DEF RunCommand, Handling, TypeOK
  <2> QED BY <1>5, <2>5, <2>6, <2>7, <2>8, <2>9, <2>10 DEF Handlers
<1>6. CASE CheckPostconditions
  <2>1. CASE PostconditionsHold
    BY <1>6, <2>1, <1>1 DEF CheckPostconditions, TypeOK
  <2>2. CASE ~PostconditionsHold
    BY <1>6, <2>2 DEF CheckPostconditions, TypeOK, fileVars, runVars, Codes
  <2> QED BY <2>1, <2>2
<1>7. CASE GiveUp
  BY <1>7, <1>1 DEF GiveUp, TypeOK
<1>8. CASE Backoff
  <2>1. attempt < MaxAttempts(plan[cur].type)
    BY <1>8 DEF Backoff, LastAttempt, step, TypeOK, MaxAttempts
  <2>2. QED
    BY <1>8, <2>1 DEF Backoff, TypeOK, fileVars, stepVars, runVars
<1>9. CASE Retry
  <2>1. CASE RequiresRecheck(step.type) /\ ~RecheckHolds
    BY <1>9, <2>1, <1>1 DEF Retry, TypeOK
  <2>2. CASE ~(RequiresRecheck(step.type) /\ ~RecheckHolds)
    <3>1. attempt + 1 \in 0..3
      BY <1>9 DEF Retry, TypeOK, MaxAttempts
    <3>2. QED
      BY <1>9, <2>2, <3>1 DEF Retry, NextAttempt, TypeOK, fileVars, runVars
  <2> QED BY <2>1, <2>2
<1>10. CASE Finish
  BY <1>10 DEF Finish, TypeOK, fileVars, stepVars
<1>11. ASSUME NEW k \in Steps, NEW s \in {"completed", "failed"}, ActionDone(k, s),
              disk' \in [Files -> FileStates], pc = "rollback"
       PROVE  TypeOK'
  BY <1>11 DEF TypeOK, ActionDone, stepVars, runVars
<1>12. CASE Compensate
  <2>1. PICK k \in Pending : \/ NoopRecordOnly(k) \/ DeleteCreatedFile(k)
                             \/ RestoreFileBackup(k) \/ CompensationRaises(k)
    BY <1>12 DEF Compensate
  <2>2. k \in Steps
    BY DEF Pending
  <2>3. plan[k].target \in Files \cup {NoTarget}
    BY <2>2 DEF TypeOK, PlanOK, StepSpec
  <2>4. disk' \in [Files -> FileStates]
    BY <2>1, <2>2, <2>3 DEF NoopRecordOnly, DeleteCreatedFile, RestoreFileBackup,
                            CompensationRaises, TypeOK, FileStates
  <2>5. QED
    BY <1>11, <2>1, <2>2, <2>4 DEF NoopRecordOnly, DeleteCreatedFile, RestoreFileBackup,
                                  CompensationRaises, Compensating
<1>13. CASE ConcludeRollback
  BY <1>13 DEF ConcludeRollback, TypeOK, fileVars, stepVars
<1>14. CASE Interfere
  BY <1>14 DEF Interfere, TypeOK, stepVars, runVars
<1>15. CASE UNCHANGED vars
  BY <1>15 DEF vars, TypeOK
<1>16. QED
  BY <1>2, <1>3, <1>4, <1>5, <1>6, <1>7, <1>8, <1>9, <1>10, <1>12, <1>13, <1>14, <1>15
     DEF Next, Engine

\* Every variable stays in its type for every N, Files, Contents and Plans.
THEOREM TypeCorrect == Spec => []TypeOK
<1>1. ASSUME Init PROVE TypeOK
  <2>1. PlanOK(plan)
    BY <1>1, EngineAssumption DEF Init
  <2>2. cur \in 1..(N + 1)
    BY <1>1, EngineAssumption DEF Init
  <2>3. meta \in [Steps -> Meta]
    BY <1>1 DEF Init, Meta, NoMeta, FileStates
  <2>4. disk \in [Files -> FileStates] /\ snapshot \in [Files -> FileStates]
    BY <1>1 DEF Init, FileStates
  <2>5. /\ status \in [Steps -> {"pending", "running", "completed", "failed", "skipped"}]
        /\ attempts \in [Steps -> 0..3]
        /\ action \in [Steps -> {"none", "pending", "completed", "failed"}]
    BY <1>1 DEF Init
  <2>6. attempt \in 0..3
    BY <1>1 DEF Init
  <2>7. /\ failed \in BOOLEAN /\ disk0 \in [Files -> FileStates]
        /\ pc = "next" /\ code \in Codes /\ runStatus = "running" /\ rollback = "not_needed"
        /\ outcome = "clean"
    BY <1>1 DEF Init, Codes
  <2>8. QED
    BY <2>1, <2>2, <2>3, <2>4, <2>5, <2>6, <2>7 DEF TypeOK
<1>2. QED
  BY <1>1, TypeStep, PTL DEF Spec

-----------------------------------------------------------------------------
\* Ending a step that ran: nothing had failed before it.
LEMMA EndStepProgress ==
    ASSUME TypeOK, Progress, pc \in Active, NEW s \in {"completed", "failed"}, EndStep(s),
           UNCHANGED <<attempts, action>>
    PROVE  Progress'
<1> USE EngineAssumption DEF Active
<1>1. cur \in Steps /\ cur \in Nat /\ cur' = cur + 1 /\ N \in Nat
  BY DEF EndStep, TypeOK, Steps
<1>2. ~failed /\ (failed' <=> s = "failed") /\ attempts[cur] > 0 /\ pc' = "next"
  BY DEF EndStep, Progress
<1>3. \A k \in Steps : status'[k] = IF k = cur THEN s ELSE status[k]
  BY DEF EndStep, TypeOK
<1>4. \A k \in Steps : k < cur => status'[k] = "completed"
  BY <1>1, <1>2, <1>3 DEF Progress
<1>5. \A k \in Steps : k > cur => status'[k] = "pending" /\ attempts'[k] = 0
  BY <1>1, <1>3 DEF Progress, Steps
<1>6. \A k \in Steps : action'[k] = "none"
  BY DEF Progress
<1>7. status'[cur] = s /\ attempts'[cur] > 0
  BY <1>1, <1>2, <1>3
<1>8. \A k \in Steps : k \in Nat
  BY DEF Steps
<1>9. ASSUME NEW k \in Steps
      PROVE  /\ k < cur' => status'[k] \in {"completed", "failed", "skipped"}
             /\ k > cur' => status'[k] = "pending"
             /\ status'[k] \in {"pending", "skipped"} => attempts'[k] = 0
             /\ status'[k] = "failed" => s = "failed" /\ k = cur
             /\ ~failed' => (k < cur' => status'[k] = "completed")
             /\ k = cur' => status'[k] = "pending"
  <2>1. CASE k < cur
    BY <1>1, <1>2, <1>4, <1>8, <2>1
  <2>2. CASE k = cur
    BY <1>1, <1>2, <1>7, <2>2
  <2>3. CASE k > cur
    BY <1>1, <1>2, <1>5, <1>8, <2>3
  <2>4. QED
    BY <1>1, <1>8, <2>1, <2>2, <2>3
<1>10. QED
  BY <1>1, <1>2, <1>4, <1>5, <1>6, <1>7, <1>9 DEF Progress

\* The steps of a run are over, under way or untouched according to their position.
LEMMA ProgressStep == TypeOK /\ Progress /\ [Next]_vars => Progress'
<1> SUFFICES ASSUME TypeOK, Progress, [Next]_vars PROVE Progress'
  OBVIOUS
<1> USE EngineAssumption
<1>1. CASE BeginStep
  <2>1. DependenciesSatisfied(cur)
    BY <1>1 DEF BeginStep, DependenciesSatisfied, Halted, Progress, TypeOK, PlanOK, StepSpec, Steps
  <2>2. QED
    BY <1>1, <2>1 DEF BeginStep, Halted, Progress, TypeOK, Steps
<1>2. CASE SkipStep
  <2>1. /\ cur \in Steps /\ cur \in Nat /\ N \in Nat /\ cur' = cur + 1 /\ pc' = "next"
        /\ status[cur] = "pending" /\ attempts[cur] = 0 /\ pc = "next"
        /\ UNCHANGED <<attempts, action>>
    BY <1>2 DEF SkipStep, EndStep, Progress, TypeOK, Steps
  <2> failed'
    BY <1>2, Zenon DEF SkipStep, EndStep, Halted
  <2>2. \A k \in Steps : k \in Nat /\ status'[k] = IF k = cur THEN "skipped" ELSE status[k]
    BY <1>2 DEF SkipStep, EndStep, TypeOK, Steps
  <2>3. ASSUME NEW k \in Steps
        PROVE  /\ k < cur' => status'[k] \in {"completed", "failed", "skipped"}
               /\ k > cur' => status'[k] = "pending"
               /\ status'[k] \in {"pending", "skipped"} => attempts'[k] = 0
               /\ k = cur' => status'[k] = "pending"
    BY <2>1, <2>2 DEF Progress
  <2>4. ASSUME NEW k \in Steps, status'[k] = "failed"
        PROVE  /\ attempts'[k] > 0
               /\ \A j \in Steps : j < k => status'[j] = "completed"
               /\ \A j \in Steps : j > k => status'[j] \in {"pending", "skipped"}
    BY <2>1, <2>2, <2>4 DEF Progress
  <2>5. QED
    BY <2>1, <2>3, <2>4 DEF Progress
<1>3. CASE RefuseAttempt
  BY <1>3, EndStepProgress DEF RefuseAttempt, Active
<1>4. CASE Handlers
  <2>1. /\ pc = "attempt" /\ pc' \in {"post", "failure"}
        /\ UNCHANGED <<cur, attempt, failed, status, attempts, action>>
    BY <1>4 DEF Handlers, CreateFile, WriteFile, ModifyFile, ReadOnlyHandler, HandlerRaises,
                RunCommand, Handling, Write, HandlerDone
  <2>2. QED
    BY <2>1 DEF Progress
<1>5. CASE CheckPostconditions
  <2>1. CASE PostconditionsHold
    BY <1>5, <2>1, EndStepProgress DEF CheckPostconditions, Active
  <2>2. CASE ~PostconditionsHold
    BY <1>5, <2>2 DEF CheckPostconditions, Progress
  <2> QED BY <2>1, <2>2
<1>6. CASE GiveUp
  BY <1>6, EndStepProgress DEF GiveUp, Active
<1>7. CASE Backoff
  BY <1>7 DEF Backoff, stepVars, Progress
<1>8. CASE Retry
  <2>1. CASE RequiresRecheck(step.type) /\ ~RecheckHolds
    BY <1>8, <2>1, EndStepProgress DEF Retry, Active
  <2>2. CASE ~(RequiresRecheck(step.type) /\ ~RecheckHolds)
    BY <1>8, <2>2 DEF Retry, NextAttempt, Progress, TypeOK
  <2> QED BY <2>1, <2>2
<1>9. CASE Finish
  BY <1>9 DEF Finish, stepVars, Progress, TypeOK, Steps
<1>10. CASE Compensate
  <2>1. pc = "rollback" /\ UNCHANGED <<pc, stepVars, failed, status, attempts>>
    BY <1>10 DEF Compensate, NoopRecordOnly, DeleteCreatedFile, RestoreFileBackup,
                 CompensationRaises, Compensating, ActionDone
  <2>2. QED
    BY <2>1 DEF stepVars, Progress
<1>11. CASE ConcludeRollback
  BY <1>11 DEF ConcludeRollback, stepVars, Progress
<1>12. CASE Interfere
  BY <1>12 DEF Interfere, stepVars, Progress
<1>13. CASE UNCHANGED vars
  BY <1>13 DEF vars, Progress
<1>14. QED
  BY <1>1, <1>2, <1>3, <1>4, <1>5, <1>6, <1>7, <1>8, <1>9, <1>10, <1>11, <1>12, <1>13
     DEF Next, Engine

\* The first failure stops the plan, for every plan and every interleaving.
THEOREM FirstFailureStops == Spec => []FailStop
<1>1. Init => Progress
  BY EngineAssumption DEF Init, Progress, Steps
<1>2. TypeOK /\ Progress => FailStop
  BY EngineAssumption DEF Progress, FailStop, TypeOK, Steps
<1>3. QED
  BY <1>1, <1>2, ProgressStep, TypeCorrect, PTL DEF Spec

-----------------------------------------------------------------------------
\* What the handler of an attempt does to the control state.
LEMMA HandlerFrame ==
    ASSUME Handlers
    PROVE  /\ pc = "attempt"
           /\ \E c \in {"OK", "IO_ERROR", "EXECUTION_ERROR", "COMMAND_FAILED"} :
                 /\ code' = c
                 /\ pc' = IF c = "OK" THEN "post" ELSE "failure"
                 /\ step.type \in FileTypes => c \in {"OK", "IO_ERROR"}
           /\ UNCHANGED <<plan, disk0, cur, attempt, failed, status, attempts, action, runVars>>
BY DEF Handlers, CreateFile, WriteFile, ModifyFile, ReadOnlyHandler, HandlerRaises, RunCommand,
       Handling, Write, HandlerDone, FileTypes, CheckTypes

\* A step that writes a file is attempted once.
LEMMA OneWriteStep == TypeOK /\ Progress /\ OneWrite /\ [Next]_vars => OneWrite'
<1> SUFFICES ASSUME TypeOK, Progress, OneWrite, [Next]_vars PROVE OneWrite'
  OBVIOUS
<1> USE EngineAssumption DEF OneWrite, WritesOnce, Active
<1>0. plan' = plan
  BY HandlerFrame DEF Next, Engine, vars, BeginStep, SkipStep, RefuseAttempt, CheckPostconditions,
     GiveUp, Backoff, Retry, Finish, Compensate, NoopRecordOnly, DeleteCreatedFile,
     RestoreFileBackup, CompensationRaises, ActionDone, ConcludeRollback, Interfere
<1>1. ASSUME pc' \notin Active, UNCHANGED attempts PROVE OneWrite'
  BY <1>0, <1>1
<1>2. CASE BeginStep
  <2>1. CASE DependenciesSatisfied(cur)
    BY <1>0, <1>2, <2>1 DEF BeginStep, TypeOK
  <2>2. CASE ~DependenciesSatisfied(cur)
    BY <1>1, <1>2, <2>2 DEF BeginStep, EndStep
  <2> QED BY <2>1, <2>2
<1>3. CASE Handlers
  BY <1>0, <1>3, HandlerFrame DEF step
<1>4. CASE CheckPostconditions
  <2>1. CASE PostconditionsHold
    BY <1>1, <1>4, <2>1 DEF CheckPostconditions, EndStep
  <2>2. CASE ~PostconditionsHold
    BY <1>0, <1>4, <2>2 DEF CheckPostconditions
  <2> QED BY <2>1, <2>2
<1>5. CASE Backoff
  <2>1. plan[cur].type \notin FileTypes
    BY <1>5 DEF Backoff, Retryable, step, FileTypes, CheckTypes
  <2>2. QED
    BY <1>0, <1>5, <2>1 DEF Backoff, stepVars
<1>6. CASE Retry
  <2>1. CASE RequiresRecheck(step.type) /\ ~RecheckHolds
    BY <1>1, <1>6, <2>1 DEF Retry, EndStep
  <2>2. CASE ~(RequiresRecheck(step.type) /\ ~RecheckHolds)
    <3>1. plan[cur].type \notin FileTypes
      BY <1>6 DEF Retry
    <3>2. QED
      BY <1>0, <1>6, <2>2, <3>1 DEF Retry, TypeOK
  <2> QED BY <2>1, <2>2
<1>7. CASE Interfere
  BY <1>0, <1>7 DEF Interfere, stepVars
<1>8. CASE UNCHANGED vars
  BY <1>8 DEF vars
<1>9. CASE SkipStep \/ RefuseAttempt \/ GiveUp \/ Finish \/ Compensate \/ ConcludeRollback
  BY <1>1, <1>9 DEF SkipStep, RefuseAttempt, GiveUp, Finish, Compensate, ConcludeRollback,
     NoopRecordOnly, DeleteCreatedFile, RestoreFileBackup, CompensationRaises, Compensating,
     ActionDone, EndStep
<1>10. QED
  BY <1>2, <1>3, <1>4, <1>5, <1>6, <1>7, <1>8, <1>9 DEF Next, Engine

\* A step that writes a file never runs a second attempt.
THEOREM WritingStepsRunOnce == Spec => []WritesOnce
<1>1. Init => Progress /\ OneWrite
  BY EngineAssumption DEF Init, Progress, OneWrite, WritesOnce, Steps
<1>2. OneWrite => WritesOnce
  BY DEF OneWrite
<1>3. QED
  BY <1>1, <1>2, ProgressStep, OneWriteStep, TypeCorrect, PTL DEF Spec

\* The metadata of a handler that found no copy to make.
LEMMA CreatedMetaValue ==
    ASSUME NEW f
    PROVE  /\ CreatedMeta(f) \in Meta
           /\ CreatedMeta(f).created <=> ~Exists(f)
           /\ ~CreatedMeta(f).saved
           /\ CreatedMeta(f).sum = Absent
BY DEF CreatedMeta, NoMeta, Meta, FileStates

\* The rollback metadata of a step says what its handler met.
LEMMA MetaStep == TypeOK /\ Progress /\ OneWrite /\ MetaInv /\ [Next]_vars => MetaInv'
<1> SUFFICES ASSUME TypeOK, Progress, OneWrite, MetaInv, [Next]_vars PROVE MetaInv'
  OBVIOUS
<1> USE EngineAssumption
<1>1. ASSUME UNCHANGED <<plan, meta>>, \A k \in Steps : Written(k)' => Written(k)
      PROVE  MetaInv'
  BY <1>1 DEF MetaInv
<1>2. CASE Handlers
  <2>1. /\ pc = "attempt" /\ cur \in Steps /\ UNCHANGED <<plan, cur, status>>
        /\ status[cur] = "running"
    BY <1>2, HandlerFrame DEF TypeOK, Progress
  <2>2. ASSUME NEW k \in Steps, k # cur PROVE Written(k)' => Written(k)
    BY <2>1, <2>2 DEF Written
  <2>3. CASE meta' = meta
    <3>1. plan[cur].type # "create_file" \/ meta[cur].created \/ "file_not_exists" \notin plan[cur].pre
      <4>1. CASE CreateFile
        <5>1. meta[cur] = CreatedMeta(step.target)
          BY <2>1, <2>3, <4>1 DEF CreateFile, TypeOK
        <5>2. "file_not_exists" \in plan[cur].pre => CreatedMeta(step.target).created
          BY <4>1, CreatedMetaValue DEF CreateFile, Handling, PreconditionsHold, step
        <5>3. QED
          BY <5>1, <5>2
      <4>2. CASE ~CreateFile
        BY <1>2, <4>2 DEF Handlers, WriteFile, ModifyFile, ReadOnlyHandler,
           HandlerRaises, RunCommand, Handling, step, CheckTypes
      <4> QED BY <4>1, <4>2
    <3>2. QED
      BY <2>1, <2>2, <2>3, <3>1 DEF MetaInv
  <2>4. ASSUME meta' # meta
        PROVE  \E m \in Meta :
                 /\ meta' = [meta EXCEPT ![cur] = m]
                 /\ m.saved => ~m.created
                 /\ plan[cur].type \in FileTypes
                 /\ plan[cur].type = "create_file" /\ "file_not_exists" \in plan[cur].pre => m.created
    <3>1. CASE CreateFile
      <4>1. meta' = [meta EXCEPT ![cur] = CreatedMeta(step.target)] /\ plan[cur].type \in FileTypes
        BY <3>1 DEF CreateFile, Handling, step, FileTypes
      <4>2. "file_not_exists" \in plan[cur].pre => CreatedMeta(step.target).created
        BY <3>1, CreatedMetaValue DEF CreateFile, Handling, PreconditionsHold, step
      <4>3. QED
        BY <4>1, <4>2, CreatedMetaValue
    <3>2. CASE WriteFile \/ ModifyFile
      <4>1. step.target \in Files
        BY <2>1, <3>2 DEF WriteFile, ModifyFile, Handling, step, TypeOK, PlanOK, StepSpec
      <4>2. QED
        BY <2>1, <3>2, <4>1 DEF WriteFile, ModifyFile, CreatedMeta, SavedMeta, Handling, step,
           NoMeta, Meta, FileTypes, FileStates, TypeOK
    <3>3. QED
      BY <1>2, <2>4, <3>1, <3>2 DEF Handlers, ReadOnlyHandler, HandlerRaises, RunCommand
  <2>5. CASE meta' # meta
    BY <2>1, <2>2, <2>4, <2>5 DEF MetaInv, TypeOK, Written
  <2> QED BY <2>3, <2>5
<1>3. ASSUME UNCHANGED plan, UNCHANGED meta, cur \in Steps, NEW s, EndStep(s), pc = "post" \/ s # "completed"
      PROVE  MetaInv'
  <2>1. \A k \in Steps : Written(k)' => Written(k)
    BY <1>3 DEF Written, EndStep, TypeOK
  <2>2. QED
    BY <1>1, <1>3, <2>1
<1>4. CASE BeginStep
  <2>1. CASE DependenciesSatisfied(cur)
    BY <1>1, <1>4, <2>1 DEF BeginStep, Written, TypeOK
  <2>2. CASE ~DependenciesSatisfied(cur)
    BY <1>3, <1>4, <2>2 DEF BeginStep
  <2> QED BY <2>1, <2>2
<1>5. CASE SkipStep \/ RefuseAttempt \/ GiveUp
  BY <1>3, <1>5 DEF SkipStep, RefuseAttempt, GiveUp, TypeOK
<1>6. CASE CheckPostconditions
  <2>1. CASE PostconditionsHold
    BY <1>3, <1>6, <2>1 DEF CheckPostconditions, TypeOK
  <2>2. CASE ~PostconditionsHold
    BY <1>1, <1>6, <2>2 DEF CheckPostconditions, Written
  <2> QED BY <2>1, <2>2
<1>7. CASE Backoff \/ Finish \/ ConcludeRollback \/ Interfere \/ Compensate \/ UNCHANGED vars
  BY <1>1, <1>7 DEF Backoff, Finish, ConcludeRollback, Interfere, Compensate, NoopRecordOnly,
     DeleteCreatedFile, RestoreFileBackup, CompensationRaises, ActionDone, stepVars, vars, Written
<1>8. CASE Retry
  <2>1. CASE RequiresRecheck(step.type) /\ ~RecheckHolds
    BY <1>3, <1>8, <2>1 DEF Retry, TypeOK
  <2>2. CASE ~(RequiresRecheck(step.type) /\ ~RecheckHolds)
    BY <1>1, <1>8, <2>2 DEF Retry, Written
  <2> QED BY <2>1, <2>2
<1>9. QED
  BY <1>2, <1>4, <1>5, <1>6, <1>7, <1>8 DEF Next, Engine

-----------------------------------------------------------------------------
\* A compensation changes no file but one its step wrote, and a completed compensation of a
\* step that wrote a file gives the file the value recorded for it.
LEMMA CompensateEffect ==
    ASSUME TypeOK, MetaInv, Backward, NEW k \in Pending,
           \/ NoopRecordOnly(k) \/ DeleteCreatedFile(k) \/ RestoreFileBackup(k) \/ CompensationRaises(k)
    PROVE  /\ pc = "rollback" /\ k \in Steps /\ k \in Reversible
           /\ UNCHANGED <<plan, disk0, pc, cur, failed, status, attempts, meta, outcome>>
           /\ \E s \in {"completed", "failed"} : action' = [action EXCEPT ![k] = s]
           /\ \A j \in Pending : j <= k
           /\ \A f \in Files : ~Touches(k, f) => disk'[f] = disk[f]
           /\ Disciplined => \A f \in Files :
                 Touches(k, f) /\ action'[k] = "completed" => disk'[f] = UndoValue(k)
<1> USE EngineAssumption
<1>1. pc = "rollback" /\ k \in Steps
  BY DEF Pending, NoopRecordOnly, DeleteCreatedFile, RestoreFileBackup, CompensationRaises, Compensating
<1>2. k \in Reversible /\ status[k] = "completed"
  BY <1>1 DEF Backward, Pending, Reversible, Completed
<1>3. \E s \in {"completed", "failed"} :
         /\ action' = [action EXCEPT ![k] = s]
         /\ UNCHANGED <<plan, disk0, pc, cur, failed, status, attempts, meta, outcome>>
  BY DEF NoopRecordOnly, DeleteCreatedFile, RestoreFileBackup, CompensationRaises, ActionDone,
         stepVars, runVars
<1>4. \A j \in Pending : j <= k
  BY DEF NoopRecordOnly, DeleteCreatedFile, RestoreFileBackup, CompensationRaises, Compensating, IsNext
<1>5. plan[k].type \notin FileTypes => disk' = disk
  BY <1>1 DEF MetaInv, NoMeta, NoopRecordOnly, DeleteCreatedFile, RestoreFileBackup, CompensationRaises
<1>6. ASSUME NEW f \in Files, f # plan[k].target PROVE disk'[f] = disk[f]
  BY <1>6 DEF NoopRecordOnly, DeleteCreatedFile, RestoreFileBackup, CompensationRaises, TypeOK
<1>7. \A f \in Files : ~Touches(k, f) => disk'[f] = disk[f]
  BY <1>2, <1>5, <1>6 DEF Touches
<1>8. ASSUME Disciplined, NEW f \in Files, Touches(k, f), action'[k] = "completed"
      PROVE  disk'[f] = UndoValue(k)
  <2>1. /\ plan[k].type \in FileTypes /\ plan[k].target = f /\ f # NoTarget
        /\ plan[k].comp # "non_reversible"
    BY <1>2, <1>8 DEF Touches, Reversible
  <2>2. CASE plan[k].type = "create_file"
    <3>1. meta[k].created /\ plan[k].template = "delete_created_file"
      BY <1>1, <1>2, <1>8, <2>1, <2>2 DEF Disciplined, MetaInv, Written
    <3>2. DeleteCreatedFile(k)
      BY <1>1, <1>8, <3>1 DEF NoopRecordOnly, RestoreFileBackup, CompensationRaises, Compensating,
         ActionDone, TypeOK
    <3>3. QED
      BY <2>1, <3>1, <3>2 DEF DeleteCreatedFile, UndoValue, TypeOK
  <2>3. CASE plan[k].type \in {"write_file", "modify_file"}
    <3>1. plan[k].template = "restore_file_backup"
      BY <1>1, <1>8, <2>1, <2>3 DEF Disciplined
    <3>2. RestoreFileBackup(k)
      BY <1>1, <1>8, <3>1 DEF NoopRecordOnly, DeleteCreatedFile, CompensationRaises, Compensating,
         ActionDone, TypeOK
    <3>3. meta[k].saved /\ disk' = [disk EXCEPT ![f] = snapshot[f]]
          /\ action'[k] = IF snapshot[f] = meta[k].sum THEN "completed" ELSE "failed"
      BY <1>1, <2>1, <3>2 DEF RestoreFileBackup, ActionDone, TypeOK
    <3>4. ~meta[k].created /\ snapshot[f] = meta[k].sum
      BY <1>1, <1>8, <3>3 DEF MetaInv
    <3>5. QED
      BY <3>3, <3>4 DEF UndoValue, TypeOK
  <2>4. QED
    BY <2>1, <2>2, <2>3 DEF FileTypes
<1>9. QED
  BY <1>1, <1>2, <1>3, <1>4, <1>7, <1>8

\* A file is as before the last step compensated for it.
LEMMA BackwardStep == TypeOK /\ Progress /\ MetaInv /\ Backward /\ [Next]_vars => Backward'
<1> SUFFICES ASSUME TypeOK, Progress, MetaInv, Backward, [Next]_vars PROVE Backward'
  OBVIOUS
<1> USE EngineAssumption
<1>1. ASSUME pc' \notin {"rollback", "done"}, \A k \in Steps : action'[k] = "none" PROVE Backward'
  BY <1>1 DEF Backward
<1>2. CASE BeginStep \/ SkipStep \/ RefuseAttempt \/ Handlers \/ CheckPostconditions \/ GiveUp
           \/ Backoff \/ Retry
  <2>1. pc \notin {"rollback", "done"} /\ pc' \notin {"rollback", "done"} /\ action' = action
    BY <1>2, HandlerFrame DEF BeginStep, SkipStep, RefuseAttempt, CheckPostconditions, GiveUp,
       Backoff, Retry, EndStep
  <2>2. QED
    BY <1>1, <2>1 DEF Progress
<1>3. CASE Finish
  <2>1. UNCHANGED <<plan, disk, status, failed, meta>> /\ \A k \in Steps : action[k] = "none"
    BY <1>3 DEF Finish, fileVars, Progress
  <2>2. Reversible' = Reversible /\ Irreversible' = Irreversible
    BY <2>1 DEF Reversible, Irreversible, Completed
  <2>3. CASE failed /\ Reversible # {}
    <3>1. pc' = "rollback" /\ \A k \in Steps : action'[k] = IF k \in Reversible THEN "pending" ELSE "none"
      BY <1>3, <2>3 DEF Finish
    <3>2. QED
      BY <2>2, <3>1 DEF Backward, Reversible, Completed
  <2>4. CASE ~(failed /\ Reversible # {})
    <3>1. pc' = "done" /\ action' = action /\ (failed /\ Irreversible # {} => outcome' = "not_restored")
      BY <1>3, <2>4 DEF Finish
    <3>2. failed => Reversible = {}
      BY <2>4
    <3>3. QED
      BY <2>1, <2>2, <3>1, <3>2 DEF Backward
  <2> QED BY <2>3, <2>4
<1>4. CASE Compensate
  <2>1. PICK k \in Pending : \/ NoopRecordOnly(k) \/ DeleteCreatedFile(k)
                             \/ RestoreFileBackup(k) \/ CompensationRaises(k)
    BY <1>4 DEF Compensate
  <2>2. /\ pc = "rollback" /\ k \in Steps /\ k \in Reversible
        /\ UNCHANGED <<plan, disk0, pc, cur, failed, status, attempts, meta, outcome>>
        /\ \E s \in {"completed", "failed"} : action' = [action EXCEPT ![k] = s]
        /\ \A j \in Pending : j <= k
        /\ \A f \in Files : ~Touches(k, f) => disk'[f] = disk[f]
        /\ Disciplined => \A f \in Files :
              Touches(k, f) /\ action'[k] = "completed" => disk'[f] = UndoValue(k)
    BY <2>1, CompensateEffect
  <2>3. /\ Reversible' = Reversible /\ Disciplined' = Disciplined
        /\ \A j \in Steps : UndoValue(j)' = UndoValue(j)
        /\ \A j \in Steps : \A f \in Files : Touches(j, f)' = Touches(j, f)
    BY <2>2 DEF Reversible, Completed, Disciplined, UndoValue, Touches
  <2>4. /\ \A j \in Steps : j # k => action'[j] = action[j]
        /\ action'[k] \in {"completed", "failed"} /\ action[k] = "pending"
    BY <2>2 DEF TypeOK, Pending
  <2>5. \A j \in Steps : /\ action'[j] = "none" <=> j \notin Reversible
                         /\ action'[j] = "pending" => \A i \in Reversible : i < j => action'[i] = "pending"
    <3>1. \A j \in Steps : action'[j] = "none" <=> j \notin Reversible
      BY <2>2, <2>4 DEF Backward
    <3>2. ASSUME NEW j \in Steps, action'[j] = "pending", NEW i \in Reversible, i < j
          PROVE  action'[i] = "pending"
      <4>1. j # k /\ action[j] = "pending" /\ j \in Pending /\ i \in Steps
        BY <2>4, <3>2 DEF Pending, Reversible, Completed
      <4>2. j <= k /\ i # k
        BY <2>2, <3>2, <4>1 DEF Steps
      <4>3. QED
        BY <2>2, <2>4, <3>2, <4>1, <4>2 DEF Backward
    <3> QED BY <3>1, <3>2
  <2>6. ASSUME Disciplined, NEW f \in Files \ Foreign, NEW j \in Steps, Touches(j, f),
               action'[j] = "completed",
               \A i \in Steps : i < j /\ Touches(i, f) => action'[i] = "pending"
        PROVE  disk'[f] = UndoValue(j)
    <3>1. CASE j = k
      BY <2>2, <2>6, <3>1
    <3>2. CASE j # k /\ Touches(k, f)
      <4>1. k < j \/ j < k
        BY <3>2, <2>2 DEF Steps
      <4>2. CASE k < j
        BY <2>2, <2>4, <2>6, <3>2, <4>2
      <4>3. CASE j < k
        <5>1. j \in Reversible /\ action[k] = "pending"
          BY <2>2, <2>4, <2>6, <3>2 DEF Backward
        <5>2. action[j] = "pending"
          BY <2>2, <4>3, <5>1 DEF Backward
        <5>3. QED
          BY <2>4, <2>6, <3>2, <5>2
      <4> QED BY <4>1, <4>2, <4>3
    <3>3. CASE j # k /\ ~Touches(k, f)
      <4>1. action[j] = "completed" /\ \A i \in Steps : i < j /\ Touches(i, f) => action[i] = "pending"
        BY <2>4, <2>6, <3>3
      <4>2. QED
        BY <2>2, <2>6, <3>3, <4>1 DEF Backward
    <3> QED BY <3>1, <3>2, <3>3
  <2>7. pc' # "done"
    BY <2>2
  <2>8. QED
    BY <2>3, <2>5, <2>6, <2>7 DEF Backward
<1>5. CASE ConcludeRollback
  <2>1. UNCHANGED <<plan, disk, status, failed, meta, action>> /\ pc = "rollback" /\ pc' = "done"
    BY <1>5 DEF ConcludeRollback, fileVars
  <2>2. /\ Reversible' = Reversible /\ Irreversible' = Irreversible /\ Disciplined' = Disciplined
        /\ \A j \in Steps : UndoValue(j)' = UndoValue(j)
        /\ \A j \in Steps : \A f \in Files : Touches(j, f)' = Touches(j, f)
    BY <2>1 DEF Reversible, Irreversible, Completed, Disciplined, UndoValue, Touches
  <2>3. outcome' = "clean" => Irreversible = {} /\ AllUndone
    BY <1>5 DEF ConcludeRollback
  <2>4. outcome' = "clean" => Irreversible' = {} /\ \A k \in Reversible' : action'[k] = "completed"
    BY <2>1, <2>2, <2>3 DEF AllUndone
  <2>5. (Disciplined => \A f \in Files \ Foreign, k \in Steps :
          /\ Touches(k, f)
          /\ action[k] = "completed"
          /\ \A j \in Steps : j < k /\ Touches(j, f) => action[j] = "pending"
          => disk[f] = UndoValue(k))'
    BY <2>1, <2>2 DEF Backward
  <2>6. QED
    BY <2>1, <2>4, <2>5 DEF Backward
<1>6. CASE Interfere
  <2>1. /\ UNCHANGED <<plan, pc, status, failed, meta, action, outcome>>
        /\ \A f \in Files \ Foreign : disk'[f] = disk[f]
    BY <1>6 DEF Interfere, stepVars, runVars, TypeOK
  <2>2. /\ Reversible' = Reversible /\ Irreversible' = Irreversible /\ Disciplined' = Disciplined
        /\ \A j \in Steps : UndoValue(j)' = UndoValue(j)
        /\ \A j \in Steps : \A f \in Files : Touches(j, f)' = Touches(j, f)
    BY <2>1 DEF Reversible, Irreversible, Completed, Disciplined, UndoValue, Touches
  <2>3. QED
    BY <2>1, <2>2 DEF Backward
<1>7. CASE UNCHANGED vars
  BY <1>7 DEF vars, Backward, Reversible, Irreversible, Completed, Disciplined, UndoValue, Touches
<1>8. QED
  BY <1>2, <1>3, <1>4, <1>5, <1>6, <1>7 DEF Next, Engine

-----------------------------------------------------------------------------
\* What Forward says of one file.
FileKnown(f) ==
    /\ Untouched(f) /\ f \notin Residue /\ ~InHand(f) => disk[f] = disk0[f]
    /\ Untouched(f) \/ \E k \in Steps : FirstTouch(k, f)
    /\ \A k \in Steps : FirstTouch(k, f) => UndoValue(k) = disk0[f]
    /\ pc = "post" /\ InHand(f) /\ Untouched(f) /\ plan[cur].comp # "non_reversible"
          => UndoValue(cur) = disk0[f]

AllReversible == Disciplined /\ Irreversible = {} /\ ~CommandRan

\* Forward, as one fact per file.
LEMMA ForwardIs == Forward <=> (AllReversible => \A f \in Files \ Foreign : FileKnown(f))
BY DEF Forward, AllReversible, FileKnown

\* A step that completes no step and touches no file keeps what is known of the files.
LEMMA FileKnownFrame ==
    ASSUME NEW f \in Files, FileKnown(f), UNCHANGED <<plan, disk0, meta>>, disk'[f] = disk[f],
           \A k \in Steps : status[k] = "completed" <=> status'[k] = "completed",
           Residue \subseteq Residue', InHand(f) => InHand(f)' \/ f \in Residue',
           (InHand(f)' /\ pc' = "post") => (InHand(f) /\ pc = "post" /\ cur' = cur)
    PROVE  FileKnown(f)'
<1>1. \A k \in Steps : (Touches(k, f)' <=> Touches(k, f)) /\ UndoValue(k)' = UndoValue(k)
  BY DEF Touches, UndoValue
<1>2. (Untouched(f)' <=> Untouched(f)) /\ \A k \in Steps : (FirstTouch(k, f)' <=> FirstTouch(k, f))
  BY <1>1 DEF Untouched, FirstTouch
<1>3. cur' = cur => UndoValue(cur)' = UndoValue(cur)
  BY DEF UndoValue
<1>4. QED
  BY <1>1, <1>2, <1>3 DEF FileKnown

\* The handler of a step records the value its file had, or leaves the file alone.
LEMMA FileKnownHandler ==
    ASSUME TypeOK, Progress, OneWrite, Handlers, AllReversible, NEW f \in Files, FileKnown(f)
    PROVE  FileKnown(f)'
<1> USE EngineAssumption
<1>1. /\ pc = "attempt" /\ pc' \in {"post", "failure"} /\ cur \in Steps /\ cur \in Nat
      /\ UNCHANGED <<plan, disk0, cur, status, attempts>>
      /\ status[cur] = "running" /\ plan[cur].type # "run_command"
  <2>1. plan[cur].type # "run_command"
    BY HandlerFrame DEF AllReversible, CommandRan, Progress, TypeOK
  <2>2. QED
    BY <2>1, HandlerFrame DEF Progress, TypeOK, Steps
<1>2. /\ Residue' = Residue /\ ~InHand(f)
      /\ \A k \in Steps : (Touches(k, f)' <=> Touches(k, f)) /\ (Touches(k, f) => k # cur)
  BY <1>1 DEF Residue, InHand, Touches
<1>3. (Untouched(f)' <=> Untouched(f)) /\ \A k \in Steps : (FirstTouch(k, f)' <=> FirstTouch(k, f))
  BY <1>2 DEF Untouched, FirstTouch
<1>4. \A k \in Steps : k # cur => UndoValue(k)' = UndoValue(k)
  BY <1>1 DEF Handlers, CreateFile, WriteFile, ModifyFile, ReadOnlyHandler, HandlerRaises,
              RunCommand, UndoValue, TypeOK
<1>5. \A k \in Steps : FirstTouch(k, f)' => UndoValue(k)' = disk0'[f]
  BY <1>1, <1>2, <1>3, <1>4 DEF FirstTouch, FileKnown
<1>6. CASE plan[cur].type \notin FileTypes
  <2>1. disk' = disk /\ ~InHand(f)'
    BY <1>1, <1>6 DEF Handlers, CreateFile, WriteFile, ModifyFile, ReadOnlyHandler, HandlerRaises,
       RunCommand, Handling, step, FileTypes, fileVars, InHand
  <2>2. QED
    BY <1>1, <1>2, <1>3, <1>5, <2>1 DEF FileKnown
<1>7. CASE plan[cur].type \in FileTypes /\ plan[cur].target # f
  <2>1. disk'[f] = disk[f] /\ ~InHand(f)'
    BY <1>1, <1>7 DEF Handlers, CreateFile, WriteFile, ModifyFile, ReadOnlyHandler, HandlerRaises,
       RunCommand, Handling, Write, step, FileTypes, fileVars, InHand, TypeOK
  <2>2. QED
    BY <1>1, <1>2, <1>3, <1>5, <2>1 DEF FileKnown
<1>8. CASE plan[cur].type \in FileTypes /\ plan[cur].target = f
  <2>1. InHand(f)'
    BY <1>1, <1>8 DEF InHand
  <2>2. ASSUME pc' = "post", Untouched(f), plan[cur].comp # "non_reversible"
        PROVE  UndoValue(cur)' = disk0[f]
    <3>1. f \notin Residue /\ step.target = f
      BY <1>1, <1>8 DEF Residue, Progress, step
    <3>2. disk[f] = disk0[f]
      BY <1>2, <2>2, <3>1 DEF FileKnown
    <3>3. CASE CreateFile
      <4>1. "file_not_exists" \in plan[cur].pre
        BY <1>1, <2>2, <3>3 DEF AllReversible, Disciplined, CreateFile, Handling, step
      <4>2. disk[f] = Absent
        BY <3>1, <3>3, <4>1 DEF CreateFile, Handling, PreconditionsHold, Exists, step
      <4>3. meta'[cur] = CreatedMeta(f)
        BY <1>1, <3>1, <3>3 DEF CreateFile, TypeOK
      <4>4. UndoValue(cur)' = Absent
        BY <1>1, <4>2, <4>3, CreatedMetaValue DEF UndoValue, Exists
      <4>5. QED
        BY <3>2, <4>2, <4>4
    <3>4. CASE ModifyFile \/ (WriteFile /\ Exists(f))
      <4>1. meta'[cur] = SavedMeta(f)
        BY <1>1, <3>1, <3>4 DEF ModifyFile, WriteFile, TypeOK
      <4>2. UndoValue(cur)' = disk[f]
        BY <1>1, <4>1 DEF UndoValue, SavedMeta
      <4>3. QED
        BY <3>2, <4>2
    <3>5. CASE WriteFile /\ ~Exists(f)
      <4>1. meta'[cur] = CreatedMeta(f)
        BY <1>1, <3>1, <3>5 DEF WriteFile, TypeOK
      <4>2. UndoValue(cur)' = Absent
        BY <1>1, <3>5, <4>1, CreatedMetaValue DEF UndoValue
      <4>3. QED
        BY <3>2, <3>5, <4>2 DEF Exists
    <3>6. CASE HandlerRaises \/ ReadOnlyHandler \/ RunCommand
      BY <1>1, <1>8, <2>2, <3>6 DEF HandlerRaises, ReadOnlyHandler, RunCommand, Handling, HandlerDone,
         step, FileTypes, CheckTypes
    <3>7. QED
      BY <3>3, <3>4, <3>5, <3>6 DEF Handlers
  <2>3. QED
    BY <1>1, <1>2, <1>3, <1>5, <2>1, <2>2 DEF FileKnown
<1>9. QED
  BY <1>6, <1>7, <1>8

\* A step that completes becomes the first to touch its file, or was not the first.
LEMMA FileKnownComplete ==
    ASSUME TypeOK, Progress, pc = "post", EndStep("completed"), UNCHANGED <<plan, disk0, disk, meta>>,
           Irreversible' = {}, NEW f \in Files, FileKnown(f)
    PROVE  FileKnown(f)'
<1> USE EngineAssumption
<1>0. PICK c \in Steps : c = cur
  BY DEF TypeOK
<1>1. /\ cur \in Steps /\ cur \in Nat /\ cur' = cur + 1 /\ pc' = "next" /\ status[cur] = "running"
      /\ \A k \in Steps : k \in Nat /\ status'[k] = IF k = cur THEN "completed" ELSE status[k]
  BY DEF TypeOK, Progress, EndStep, Steps
<1>2. plan[cur].comp # "non_reversible"
  BY <1>1 DEF Irreversible, Reversible, Completed
<1>3. Residue' = Residue /\ ~InHand(f)'
  BY <1>1 DEF Residue, InHand
<1>4. \A k \in Steps : UndoValue(k)' = UndoValue(k)
  BY DEF UndoValue
<1>5. \A k \in Steps : k # cur => (Touches(k, f)' <=> Touches(k, f))
  BY <1>1 DEF Touches
<1>6. Touches(c, f)' <=> InHand(f)
  BY <1>0, <1>1 DEF Touches, InHand
<1>7. \A k \in Steps : Touches(k, f) => k < cur
  BY <1>1 DEF Touches, Progress
<1>8. \A k \in Steps : FirstTouch(k, f) => FirstTouch(k, f)'
  BY <1>1, <1>5, <1>7 DEF FirstTouch
<1>9. \A k \in Steps : FirstTouch(k, f)' => FirstTouch(k, f) \/ (k = cur /\ InHand(f) /\ Untouched(f))
  BY <1>0, <1>1, <1>5, <1>6, <1>7 DEF FirstTouch, Untouched
<1>10. Untouched(f)' <=> Untouched(f) /\ ~InHand(f)
  BY <1>0, <1>1, <1>5, <1>6, <1>7 DEF Untouched
<1>11. Untouched(f) /\ InHand(f) => FirstTouch(c, f)'
  BY <1>0, <1>1, <1>5, <1>6 DEF FirstTouch, Untouched
<1>12. /\ Untouched(f)' /\ f \notin Residue' /\ ~InHand(f)' => disk'[f] = disk0'[f]
  BY <1>3, <1>10 DEF FileKnown
<1>13. Untouched(f)' \/ \E k \in Steps : FirstTouch(k, f)'
  BY <1>0, <1>8, <1>10, <1>11 DEF FileKnown
<1>14. \A k \in Steps : FirstTouch(k, f)' => UndoValue(k)' = disk0'[f]
  BY <1>0, <1>2, <1>4, <1>9 DEF FileKnown
<1>15. QED
  BY <1>1, <1>12, <1>13, <1>14 DEF FileKnown

\* While everything done can be undone, the first step that wrote a file knows how it was.
LEMMA ForwardStep ==
    TypeOK /\ Progress /\ OneWrite /\ MetaInv /\ Forward /\ Backward /\ [Next]_vars => Forward'
<1> SUFFICES ASSUME TypeOK, Progress, OneWrite, MetaInv, Forward, Backward, [Next]_vars,
                    AllReversible', NEW f \in Files \ Foreign
             PROVE  FileKnown(f)'
  BY ForwardIs DEF Forward, AllReversible, FileKnown
<1> USE EngineAssumption
<1>1. ASSUME plan' = plan, Completed \subseteq Completed',
             \A k \in Steps : attempts[k] > 0 => attempts'[k] > 0
      PROVE  FileKnown(f) /\ AllReversible
  <2>1. AllReversible
    BY <1>1 DEF AllReversible, Disciplined, Irreversible, Reversible, Completed, CommandRan
  <2>2. QED
    BY <2>1, ForwardIs
<1>2. ASSUME UNCHANGED <<plan, disk0, meta, attempts>>, disk'[f] = disk[f], Completed' = Completed,
             Residue \subseteq Residue', InHand(f) => InHand(f)' \/ f \in Residue',
             InHand(f)' /\ pc' = "post" => InHand(f) /\ pc = "post" /\ cur' = cur
      PROVE  FileKnown(f)'
  <2>1. FileKnown(f)
    BY <1>1, <1>2
  <2>2. \A k \in Steps : status[k] = "completed" <=> status'[k] = "completed"
    BY <1>2 DEF Completed
  <2>3. QED
    BY <1>2, <2>1, <2>2, FileKnownFrame
<1>3. ASSUME cur \in Steps, status[cur] \in {"pending", "running"}, NEW s \in {"failed", "skipped"}, EndStep(s),
             UNCHANGED <<plan, disk0, disk, meta, attempts>>, InHand(f) => s = "failed"
      PROVE  FileKnown(f)'
  <2>1. Completed' = Completed /\ pc' = "next" /\ ~InHand(f)'
    BY <1>3 DEF EndStep, TypeOK, Completed, InHand
  <2>2. Residue \subseteq Residue'
    BY <1>3 DEF EndStep, TypeOK, Residue
  <2>3. InHand(f) => f \in Residue'
    BY <1>3 DEF EndStep, TypeOK, Residue, InHand
  <2>4. QED
    BY <1>2, <1>3, <2>1, <2>2, <2>3
<1>4. CASE BeginStep
  <2>1. CASE DependenciesSatisfied(cur)
    <3>1. /\ UNCHANGED <<plan, disk0, disk, meta, cur>> /\ pc = "next" /\ pc' = "attempt" /\ cur \in Steps
          /\ attempts' = [attempts EXCEPT ![cur] = 1] /\ status' = [status EXCEPT ![cur] = "running"]
          /\ status[cur] = "pending"
      BY <1>4, <2>1 DEF BeginStep, fileVars, Progress
    <3>2. Completed' = Completed /\ Residue' = Residue /\ ~InHand(f) /\ ~InHand(f)'
      BY <3>1 DEF Completed, Residue, InHand, TypeOK
    <3>3. \A k \in Steps : attempts[k] > 0 => attempts'[k] > 0
      BY <3>1 DEF TypeOK
    <3>4. FileKnown(f)
      BY <1>1, <3>1, <3>2, <3>3
    <3>5. \A k \in Steps : status[k] = "completed" <=> status'[k] = "completed"
      BY <3>2 DEF Completed
    <3>6. QED
      BY <3>1, <3>2, <3>4, <3>5, FileKnownFrame
  <2>2. CASE ~DependenciesSatisfied(cur)
    <3>1. status[cur] = "pending" /\ ~InHand(f)
      BY <1>4 DEF BeginStep, Progress, InHand
    <3>2. QED
      BY <1>3, <1>4, <2>2, <3>1 DEF BeginStep, fileVars
  <2> QED BY <2>1, <2>2
<1>5. CASE SkipStep
  <2>1. status[cur] = "pending" /\ ~InHand(f)
    BY <1>5 DEF SkipStep, Progress, InHand
  <2>2. QED
    BY <1>3, <1>5, <2>1 DEF SkipStep, fileVars
<1>6. CASE RefuseAttempt \/ GiveUp
  <2>1. status[cur] = "running" /\ cur \in Steps
    BY <1>6 DEF RefuseAttempt, GiveUp, Progress, TypeOK
  <2>2. QED
    BY <1>3, <1>6, <2>1 DEF RefuseAttempt, GiveUp, fileVars
<1>7. CASE Handlers
  <2>1. FileKnown(f) /\ AllReversible
    BY <1>1, <1>7, HandlerFrame DEF Completed
  <2>2. QED
    BY <1>7, <2>1, FileKnownHandler
<1>8. CASE CheckPostconditions
  <2>1. CASE PostconditionsHold
    <3>1. EndStep("completed") /\ pc = "post" /\ UNCHANGED <<plan, disk0, disk, meta, attempts>>
      BY <1>8, <2>1 DEF CheckPostconditions, fileVars
    <3>2. FileKnown(f)
      BY <1>1, <3>1 DEF EndStep, Completed, TypeOK
    <3>3. QED
      BY <3>1, <3>2, FileKnownComplete DEF AllReversible
  <2>2. CASE ~PostconditionsHold
    <3>1. /\ UNCHANGED <<plan, disk0, disk, meta, attempts, cur, status>>
          /\ pc = "post" /\ pc' = "failure"
      BY <1>8, <2>2 DEF CheckPostconditions, fileVars
    <3>2. Completed' = Completed /\ Residue' = Residue /\ (InHand(f) => InHand(f)')
      BY <3>1 DEF Completed, Residue, InHand
    <3>3. QED
      BY <1>2, <3>1, <3>2
  <2> QED BY <2>1, <2>2
<1>9. CASE Backoff
  <2>1. /\ UNCHANGED <<plan, disk0, disk, meta, attempts, cur, status>>
        /\ pc' = "sleep" /\ plan[cur].type \notin FileTypes
    BY <1>9 DEF Backoff, stepVars, fileVars, OneWrite, Retryable, step, FileTypes, CheckTypes
  <2>2. Completed' = Completed /\ Residue' = Residue /\ ~InHand(f) /\ ~InHand(f)'
    BY <2>1 DEF Completed, Residue, InHand
  <2>3. QED
    BY <1>2, <2>1, <2>2
<1>10. CASE Retry
  <2>1. status[cur] = "running" /\ cur \in Steps /\ ~InHand(f) /\ pc = "sleep"
    BY <1>10 DEF Retry, Progress, TypeOK, InHand
  <2>2. CASE RequiresRecheck(step.type) /\ ~RecheckHolds
    BY <1>3, <1>10, <2>1, <2>2 DEF Retry, fileVars
  <2>3. CASE ~(RequiresRecheck(step.type) /\ ~RecheckHolds)
    <3>1. /\ UNCHANGED <<plan, disk0, disk, meta, cur, status>> /\ pc' = "attempt"
          /\ attempts' = [attempts EXCEPT ![cur] = attempt + 1]
      BY <1>10, <2>3 DEF Retry, NextAttempt, fileVars
    <3>2. Completed' = Completed /\ Residue' = Residue /\ ~InHand(f)'
      BY <3>1 DEF Completed, Residue, InHand
    <3>3. \A k \in Steps : attempts[k] > 0 => attempts'[k] > 0
      BY <2>1, <3>1 DEF TypeOK
    <3>4. FileKnown(f)
      BY <1>1, <3>1, <3>2, <3>3
    <3>5. \A k \in Steps : status[k] = "completed" <=> status'[k] = "completed"
      BY <3>1
    <3>6. QED
      BY <2>1, <3>1, <3>2, <3>4, <3>5, FileKnownFrame
  <2> QED BY <2>2, <2>3
<1>11. CASE Finish \/ ConcludeRollback
  <2>1. /\ UNCHANGED <<plan, disk0, disk, meta, attempts, cur, status>>
        /\ pc \in {"next", "rollback"} /\ pc' \in {"rollback", "done"}
    BY <1>11 DEF Finish, ConcludeRollback, stepVars, fileVars
  <2>2. Completed' = Completed /\ Residue' = Residue /\ ~InHand(f) /\ ~InHand(f)'
    BY <2>1 DEF Completed, Residue, InHand
  <2>3. QED
    BY <1>2, <2>1, <2>2
<1>12. CASE Compensate
  <2>1. PICK k \in Pending : \/ NoopRecordOnly(k) \/ DeleteCreatedFile(k)
                             \/ RestoreFileBackup(k) \/ CompensationRaises(k)
    BY <1>12 DEF Compensate
  <2>2. /\ pc = "rollback" /\ k \in Steps /\ k \in Reversible
        /\ UNCHANGED <<plan, disk0, pc, cur, failed, status, attempts, meta, outcome>>
        /\ (~Touches(k, f) => disk'[f] = disk[f])
    BY <2>1, CompensateEffect
  <2>3. FileKnown(f)
    BY <1>1, <2>2 DEF Completed
  <2>4. Completed' = Completed /\ Residue' = Residue /\ ~InHand(f) /\ ~InHand(f)'
    BY <2>2 DEF Completed, Residue, InHand
  <2>5. CASE Touches(k, f)
    <3>1. \A j \in Steps : (Touches(j, f)' <=> Touches(j, f)) /\ UndoValue(j)' = UndoValue(j)
      BY <2>2 DEF Touches, UndoValue
    <3>2. /\ Untouched(f)' <=> Untouched(f)
          /\ \A j \in Steps : (FirstTouch(j, f)' <=> FirstTouch(j, f))
      BY <3>1 DEF Untouched, FirstTouch
    <3>3. ~Untouched(f)
      BY <2>2, <2>5 DEF Untouched
    <3>4. QED
      BY <2>2, <2>3, <2>4, <3>1, <3>2, <3>3 DEF FileKnown
  <2>6. CASE ~Touches(k, f)
    BY <1>2, <2>2, <2>4, <2>6
  <2> QED BY <2>5, <2>6
<1>13. CASE Interfere
  <2>1. /\ UNCHANGED <<plan, disk0, meta, attempts, cur, status, pc>> /\ disk'[f] = disk[f]
    BY <1>13 DEF Interfere, stepVars, runVars, TypeOK
  <2>2. Completed' = Completed /\ Residue' = Residue /\ (InHand(f)' <=> InHand(f))
    BY <2>1 DEF Completed, Residue, InHand
  <2>3. QED
    BY <1>2, <2>1, <2>2
<1>14. CASE UNCHANGED vars
  <2>1. UNCHANGED <<plan, disk0, meta, attempts, cur, status, pc, disk>>
    BY <1>14 DEF vars
  <2>2. Completed' = Completed /\ Residue' = Residue /\ (InHand(f)' <=> InHand(f))
    BY <2>1 DEF Completed, Residue, InHand
  <2>3. QED
    BY <1>2, <2>1, <2>2
<1>15. QED
  BY <1>4, <1>5, <1>6, <1>7, <1>8, <1>9, <1>10, <1>11, <1>12, <1>13, <1>14 DEF Next, Engine

\* A run that reports "clean" restored every file it wrote: for every plan whose reversible
\* steps name the right compensation, any number of writes to one file, any failure.
THEOREM CleanRestores == Spec => []CleanMeansRestored
<1>1. Init => EngineInv
  <2> SUFFICES ASSUME Init PROVE EngineInv
    OBVIOUS
  <2> USE EngineAssumption DEF Init, Steps
  <2>1. Progress /\ OneWrite /\ Backward
    BY DEF Progress, OneWrite, WritesOnce, Backward, Touches
  <2>2. MetaInv
    BY DEF MetaInv, Written, NoMeta
  <2>3. Forward
    BY DEF Forward, Untouched, FirstTouch, Touches, InHand
  <2>4. QED
    BY <2>1, <2>2, <2>3 DEF EngineInv
<1>2. TypeOK /\ EngineInv /\ [Next]_vars => EngineInv'
  BY ProgressStep, OneWriteStep, MetaStep, BackwardStep, ForwardStep DEF EngineInv
<1>3. TypeOK /\ EngineInv => CleanMeansRestored
  <2> SUFFICES ASSUME TypeOK, EngineInv, pc = "done", failed, outcome = "clean", Disciplined,
                      NEW f \in Files \ (Foreign \cup Residue)
               PROVE  disk[f] = disk0[f]
    BY DEF CleanMeansRestored
  <2> USE EngineAssumption DEF EngineInv
  <2>1. Irreversible = {} /\ \A k \in Reversible : action[k] = "completed"
    BY DEF Backward
  <2>2. \A k \in Steps : status[k] \in {"completed", "failed", "skipped"}
    BY DEF Progress, TypeOK, Steps
  <2>3. ~CommandRan
    <3>1. ASSUME NEW k \in Steps, plan[k].type = "run_command", attempts[k] > 0 PROVE FALSE
      <4>1. CASE status[k] = "completed"
        BY <2>1, <3>1, <4>1 DEF Irreversible, Reversible, Completed, Disciplined
      <4>2. CASE status[k] = "failed"
        BY <3>1, <4>2 DEF Residue
      <4>3. CASE status[k] = "skipped"
        BY <3>1, <4>3 DEF Progress, TypeOK
      <4> QED BY <2>2, <4>1, <4>2, <4>3
    <3> QED BY <3>1 DEF CommandRan
  <2>4. FileKnown(f)
    BY <2>1, <2>3, ForwardIs DEF AllReversible
  <2>5. CASE Untouched(f)
    BY <2>4, <2>5 DEF FileKnown, InHand
  <2>6. CASE ~Untouched(f)
    <3>1. PICK k \in Steps : FirstTouch(k, f)
      BY <2>4, <2>6 DEF FileKnown
    <3>2. k \in Reversible
      BY <2>1, <3>1 DEF FirstTouch, Touches, Irreversible, Completed
    <3>3. disk[f] = UndoValue(k)
      BY <2>1, <3>1, <3>2 DEF Backward, FirstTouch
    <3>4. QED
      BY <2>4, <3>1, <3>3 DEF FileKnown
  <2> QED BY <2>5, <2>6
<1>4. QED
  BY <1>1, <1>2, <1>3, TypeCorrect, PTL DEF Spec

-----------------------------------------------------------------------------
(* Files that were there before the run.                                   *)

NoShell == \A k \in Steps : plan[k].type # "run_command"

\* A file of the user's, which nobody else writes.
Original(f) == f \in Files \ Foreign /\ disk0[f] # Absent

\* It is there; no step counts it as created, and the copy a step made of it is one of a file.
Kept(f) ==
    /\ disk[f] # Absent
    /\ \A k \in Steps : plan[k].target = f =>
          /\ ~meta[k].created
          /\ meta[k].saved => snapshot[f] # Absent

OriginalsKept == NoShell => \A f \in Files : Original(f) => Kept(f)

\* A write leaves a file behind, done or cut short.
LEMMA WriteKeeps ==
    ASSUME TypeOK, NEW f \in Files, disk[f] # Absent,
           NEW g, NEW content, content # Absent \/ g # f, Write(g, content)
    PROVE  disk'[f] # Absent
BY EngineAssumption DEF Write, TypeOK

\* A handler that is no command keeps the file, and takes it for what it is.
LEMMA HandlerKeeps ==
    ASSUME TypeOK, NoShell, Handlers, NEW f \in Files, Kept(f)
    PROVE  Kept(f)'
<1> USE EngineAssumption
<1>1. pc = "attempt" /\ cur \in Steps /\ UNCHANGED <<plan, cur>> /\ step = plan[cur]
  BY HandlerFrame DEF TypeOK, step
<1>2. Given # Absent /\ disk[f] # Absent
  BY DEF Given, Kept
<1>3. CASE CreateFile
  <2>1. disk'[f] # Absent /\ snapshot' = snapshot
    BY <1>2, <1>3, WriteKeeps DEF CreateFile
  <2>2. meta' = [meta EXCEPT ![cur] = CreatedMeta(step.target)]
    BY <1>3 DEF CreateFile
  <2>3. step.target = f => ~CreatedMeta(step.target).created
    BY <1>2, CreatedMetaValue DEF Exists
  <2>4. ~CreatedMeta(step.target).saved
    BY CreatedMetaValue
  <2>5. QED
    BY <1>1, <2>1, <2>2, <2>3, <2>4 DEF Kept, TypeOK
<1>4. CASE WriteFile
  <2>1. disk'[f] # Absent
    BY <1>2, <1>4, WriteKeeps DEF WriteFile
  <2>2. CASE Exists(step.target)
    <3>1. /\ snapshot' = [snapshot EXCEPT ![step.target] = disk[step.target]]
          /\ meta' = [meta EXCEPT ![cur] = SavedMeta(step.target)]
      BY <1>4, <2>2 DEF WriteFile
    <3>2. QED
      BY <1>1, <1>2, <2>1, <3>1 DEF Kept, SavedMeta, TypeOK
  <2>3. CASE ~Exists(step.target)
    <3>1. snapshot' = snapshot /\ meta' = [meta EXCEPT ![cur] = CreatedMeta(step.target)]
      BY <1>4, <2>3 DEF WriteFile
    <3>2. step.target # f
      BY <1>2, <2>3 DEF Exists
    <3>3. QED
      BY <1>1, <2>1, <3>1, <3>2 DEF Kept, TypeOK
  <2> QED BY <2>2, <2>3
<1>5. CASE ModifyFile
  <2>1. disk'[f] # Absent
    BY <1>2, <1>5, WriteKeeps DEF ModifyFile, Exists
  <2>2. /\ snapshot' = [snapshot EXCEPT ![step.target] = disk[step.target]]
        /\ meta' = [meta EXCEPT ![cur] = SavedMeta(step.target)]
    BY <1>5 DEF ModifyFile
  <2>3. QED
    BY <1>1, <1>2, <2>1, <2>2 DEF Kept, SavedMeta, TypeOK
<1>6. CASE ReadOnlyHandler \/ HandlerRaises
  BY <1>1, <1>6 DEF ReadOnlyHandler, HandlerRaises, fileVars, Kept
<1>7. ~RunCommand
  BY <1>1 DEF RunCommand, Handling, NoShell
<1>8. QED
  BY <1>3, <1>4, <1>5, <1>6, <1>7 DEF Handlers

\* A compensation deletes only what its step created and restores only copies of files.
LEMMA CompensationKeeps ==
    ASSUME TypeOK, NEW k \in Steps, NEW f \in Files, Kept(f),
           \/ NoopRecordOnly(k) \/ DeleteCreatedFile(k) \/ RestoreFileBackup(k) \/ CompensationRaises(k)
    PROVE  Kept(f)'
<1>1. UNCHANGED <<plan, meta, snapshot>>
  BY DEF NoopRecordOnly, DeleteCreatedFile, RestoreFileBackup, CompensationRaises, ActionDone
<1>2. CASE NoopRecordOnly(k) \/ CompensationRaises(k)
  BY <1>1, <1>2 DEF NoopRecordOnly, CompensationRaises, Kept
<1>3. CASE DeleteCreatedFile(k)
  <2>1. disk'[f] # Absent
    BY <1>3 DEF DeleteCreatedFile, Kept, TypeOK
  <2>2. QED
    BY <1>1, <2>1 DEF Kept
<1>4. CASE RestoreFileBackup(k)
  <2>1. disk'[f] # Absent
    BY <1>4 DEF RestoreFileBackup, Kept, TypeOK
  <2>2. QED
    BY <1>1, <2>1 DEF Kept
<1>5. QED
  BY <1>2, <1>3, <1>4

\* No step loses what is kept.
LEMMA OriginalsStep == TypeOK /\ OriginalsKept /\ [Next]_vars => OriginalsKept'
<1> SUFFICES ASSUME TypeOK, OriginalsKept, [Next]_vars, NoShell', NEW f \in Files, Original(f)'
             PROVE  Kept(f)'
  BY DEF OriginalsKept
<1>1. UNCHANGED <<plan, disk0>>
  BY HandlerFrame DEF Next, Engine, vars, BeginStep, SkipStep, RefuseAttempt, CheckPostconditions,
     GiveUp, Backoff, Retry, Finish, Compensate, NoopRecordOnly, DeleteCreatedFile,
     RestoreFileBackup, CompensationRaises, ActionDone, ConcludeRollback, Interfere
<1>2. NoShell /\ f \notin Foreign /\ Kept(f)
  BY <1>1 DEF NoShell, Original, OriginalsKept
<1>3. CASE Handlers
  BY <1>2, <1>3, HandlerKeeps
<1>4. CASE Compensate
  BY <1>2, <1>4, CompensationKeeps DEF Compensate, Pending
<1>5. CASE Interfere
  BY <1>1, <1>2, <1>5 DEF Interfere, Kept, TypeOK
<1>6. CASE BeginStep \/ SkipStep \/ RefuseAttempt \/ CheckPostconditions \/ GiveUp \/ Backoff \/ Retry
           \/ Finish \/ ConcludeRollback \/ UNCHANGED vars
  BY <1>1, <1>2, <1>6 DEF BeginStep, SkipStep, RefuseAttempt, CheckPostconditions, GiveUp, Backoff, Retry,
     Finish, ConcludeRollback, fileVars, vars, Kept
<1>7. QED
  BY <1>3, <1>4, <1>5, <1>6 DEF Next, Engine

\* Whatever is retried, cut short or compensated, and whatever others do to their own files, no run without shell
\* commands loses a file that was there before it (CreateFileHandler, WriteFileHandler: created_by_run).
THEOREM OriginalsSurvive == Spec => []PreexistingSurvives
<1>1. Init => OriginalsKept
  BY DEF Init, OriginalsKept, Original, Kept, NoMeta
<1>2. OriginalsKept => PreexistingSurvives
  BY DEF OriginalsKept, PreexistingSurvives, NoShell, Original, Kept
<1>3. QED
  BY <1>1, <1>2, OriginalsStep, TypeCorrect, PTL DEF Spec

-----------------------------------------------------------------------------
(* The engine is a saga.                                                   *)

InForward == pc \notin {"rollback", "done"}

\* Inside the forward pass what is outstanding is what completed and can be undone.
LEMMA SagaForward ==
    ASSUME TypeOK, Progress, InForward
    PROVE  Mode = "forward" /\ Outstanding = Reversible
BY DEF Mode, Outstanding, Reversible, Completed, Progress, TypeOK, InForward

\* A forward step that completes no step of the plan is a stutter of the saga.
LEMMA SagaStutter ==
    ASSUME TypeOK, Progress, TypeOK', Progress', InForward, InForward', UNCHANGED plan, Completed' = Completed
    PROVE  UNCHANGED <<Mode, Outstanding>>
<1>1. Reversible' = Reversible
  BY DEF Reversible
<1>2. (Mode = "forward" /\ Outstanding = Reversible)'
  BY DEF Mode, Outstanding, Reversible, Completed, Progress, TypeOK, InForward
<1>3. QED
  BY <1>1, <1>2, SagaForward

\* Every step of the engine is a step of the saga or a stutter.
LEMMA SagaStep ==
    TypeOK /\ TypeOK' /\ Progress /\ Progress' /\ Backward /\ MetaInv /\ [Next]_vars => [S!Next]_(S!sagaVars)
<1> SUFFICES ASSUME TypeOK, TypeOK', Progress, Progress', Backward, MetaInv, [Next]_vars
             PROVE  S!Next \/ UNCHANGED <<Mode, Outstanding>>
  BY DEF S!sagaVars
<1> USE EngineAssumption
<1>1. ASSUME UNCHANGED plan, UNCHANGED pc, Completed' = Completed, UNCHANGED action, UNCHANGED failed
      PROVE  UNCHANGED <<Mode, Outstanding>>
  BY <1>1 DEF Mode, Outstanding, Reversible
<1>2. ASSUME cur \in Steps, NEW s \in {"failed", "skipped"}, EndStep(s), InForward, UNCHANGED plan,
             status[cur] # "completed"
      PROVE  UNCHANGED <<Mode, Outstanding>>
  <2>1. Completed' = Completed /\ InForward'
    BY <1>2 DEF EndStep, Completed, InForward, TypeOK
  <2>2. QED
    BY <1>2, <2>1, SagaStutter
<1>3. CASE BeginStep
  <2>1. cur \in Steps /\ status[cur] = "pending" /\ InForward /\ plan' = plan
    BY <1>3 DEF BeginStep, Progress, InForward
  <2>2. CASE DependenciesSatisfied(cur)
    <3>1. Completed' = Completed /\ InForward'
      BY <1>3, <2>1, <2>2 DEF BeginStep, Completed, InForward, TypeOK
    <3>2. QED
      BY <2>1, <3>1, SagaStutter
  <2>3. CASE ~DependenciesSatisfied(cur)
    BY <1>2, <1>3, <2>1, <2>3 DEF BeginStep
  <2> QED BY <2>2, <2>3
<1>4. CASE SkipStep
  <2>1. cur \in Steps /\ status[cur] = "pending" /\ InForward /\ plan' = plan
    BY <1>4 DEF SkipStep, Progress, InForward
  <2>2. QED
    BY <1>2, <1>4, <2>1 DEF SkipStep
<1>5. CASE RefuseAttempt \/ GiveUp
  <2>1. cur \in Steps /\ status[cur] = "running" /\ InForward /\ plan' = plan
    BY <1>5 DEF RefuseAttempt, GiveUp, Progress, InForward, TypeOK
  <2>2. QED
    BY <1>2, <1>5, <2>1 DEF RefuseAttempt, GiveUp
<1>6. CASE Handlers \/ Backoff
  <2>1. UNCHANGED <<plan, status>> /\ InForward /\ InForward'
    BY <1>6, HandlerFrame DEF Backoff, InForward
  <2>2. Completed' = Completed
    BY <2>1 DEF Completed
  <2>3. QED
    BY <2>1, <2>2, SagaStutter
<1>7. CASE Retry
  <2>1. cur \in Steps /\ status[cur] = "running" /\ InForward /\ plan' = plan
    BY <1>7 DEF Retry, Progress, InForward, TypeOK
  <2>2. CASE RequiresRecheck(step.type) /\ ~RecheckHolds
    BY <1>2, <1>7, <2>1, <2>2 DEF Retry
  <2>3. CASE ~(RequiresRecheck(step.type) /\ ~RecheckHolds)
    <3>1. Completed' = Completed /\ InForward'
      BY <1>7, <2>3 DEF Retry, Completed, InForward
    <3>2. QED
      BY <2>1, <3>1, SagaStutter
  <2> QED BY <2>2, <2>3
<1>8. CASE CheckPostconditions
  <2>1. /\ pc = "post" /\ InForward /\ InForward' /\ plan' = plan /\ cur \in Steps
        /\ status[cur] = "running"
    BY <1>8 DEF CheckPostconditions, EndStep, InForward, Progress, TypeOK
  <2>2. CASE PostconditionsHold
    <3>1. Completed' = Completed \cup {cur}
      BY <1>8, <2>1, <2>2, ZenonT(60) DEF CheckPostconditions, EndStep, Completed, TypeOK
    <3>2. CASE plan[cur].comp = "non_reversible"
      <4>1. Reversible' = Reversible
        BY <2>1, <3>1, <3>2 DEF Reversible
      <4>2. (Mode = "forward" /\ Outstanding = Reversible)'
        BY <2>1 DEF Mode, Outstanding, Reversible, Completed, Progress, TypeOK, InForward
      <4>3. QED
        BY <2>1, <4>1, <4>2, SagaForward
    <3>3. CASE plan[cur].comp # "non_reversible"
      <4>1. Reversible' = Reversible \cup {cur}
        BY <2>1, <3>1, <3>3 DEF Reversible
      <4>2. (Mode = "forward" /\ Outstanding = Reversible)'
        BY <2>1 DEF Mode, Outstanding, Reversible, Completed, Progress, TypeOK, InForward
      <4>3. \A j \in Reversible : j < cur
        BY <2>1 DEF Reversible, Completed, Progress, TypeOK, Steps
      <4>4. S!Do(cur)
        BY <2>1, <4>1, <4>2, <4>3, SagaForward DEF S!Do
      <4>5. QED
        BY <2>1, <4>4 DEF S!Next, Steps
    <3> QED BY <3>2, <3>3
  <2>3. CASE ~PostconditionsHold
    <3>1. Completed' = Completed
      BY <1>8, <2>3 DEF CheckPostconditions, Completed
    <3>2. QED
      BY <2>1, <3>1, SagaStutter
  <2> QED BY <2>2, <2>3
<1>9. CASE Finish
  <2>1. /\ InForward /\ UNCHANGED <<plan, status, failed>> /\ Reversible' = Reversible
    BY <1>9 DEF Finish, InForward, Reversible, Completed
  <2>2. Mode = "forward" /\ Outstanding = Reversible
    BY <2>1, SagaForward
  <2>3. CASE failed /\ Reversible # {}
    <3>1. pc' = "rollback" /\ action' = [k \in Steps |-> IF k \in Reversible THEN "pending" ELSE "none"]
      BY <1>9, <2>3 DEF Finish
    <3>2. Mode' = "backward"
      BY <3>1 DEF Mode
    <3>3. Outstanding' = Reversible
      BY <2>1, <3>1 DEF Outstanding, Reversible, Completed
    <3>4. QED
      BY <2>2, <2>3, <3>2, <3>3 DEF S!Next, S!GiveUp
  <2>4. CASE ~(failed /\ Reversible # {})
    <3>1. pc' = "done" /\ action' = action
      BY <1>9, <2>4 DEF Finish
    <3>2. Outstanding' = Outstanding
      BY <2>1, <3>1 DEF Outstanding
    <3>3. CASE failed
      BY <2>1, <2>2, <2>4, <3>1, <3>2, <3>3 DEF Mode, S!Next, S!GiveUp
    <3>4. CASE ~failed
      BY <2>1, <2>2, <3>1, <3>2, <3>4 DEF Mode, S!Next, S!Commit
    <3> QED BY <3>3, <3>4
  <2> QED BY <2>3, <2>4
<1>10. CASE Compensate
  <2>1. PICK k \in Pending : \/ NoopRecordOnly(k) \/ DeleteCreatedFile(k)
                             \/ RestoreFileBackup(k) \/ CompensationRaises(k)
    BY <1>10 DEF Compensate
  <2>2. /\ pc = "rollback" /\ k \in Steps /\ k \in Reversible
        /\ UNCHANGED <<plan, pc, status>>
        /\ \E s \in {"completed", "failed"} : action' = [action EXCEPT ![k] = s]
        /\ \A j \in Pending : j <= k
    BY <2>1, CompensateEffect
  <2>3. Reversible' = Reversible /\ Mode = "backward" /\ Mode' = "backward"
    BY <2>2 DEF Reversible, Completed, Mode
  <2>4. Outstanding = Pending
    BY <2>2 DEF Outstanding, Pending, Backward, Reversible, Completed, TypeOK
  <2>5. Outstanding' = Outstanding \ {k}
    BY <2>2, <2>3 DEF Outstanding, TypeOK, Reversible, Completed
  <2>6. S!Undo(k)
    BY <2>1, <2>2, <2>3, <2>4, <2>5 DEF S!Undo
  <2>7. QED
    BY <2>2, <2>6 DEF S!Next, Steps
<1>11. CASE ConcludeRollback
  <2>1. /\ pc = "rollback" /\ pc' = "done" /\ Pending = {} /\ failed' = failed /\ failed
        /\ UNCHANGED <<plan, status, action>>
    BY <1>11 DEF ConcludeRollback, Progress
  <2>2. Outstanding = {}
    BY <2>1 DEF Outstanding, Pending, Backward, Reversible, Completed, TypeOK
  <2>3. Outstanding' = Outstanding
    BY <2>1 DEF Outstanding, Reversible, Completed
  <2>4. QED
    BY <2>1, <2>2, <2>3 DEF Mode, S!Next, S!Abort
<1>12. CASE Interfere
  BY <1>1, <1>12 DEF Interfere, Completed
<1>13. CASE UNCHANGED vars
  BY <1>1, <1>13 DEF vars, Completed
<1>14. QED
  BY <1>3, <1>4, <1>5, <1>6, <1>7, <1>8, <1>9, <1>10, <1>11, <1>12, <1>13 DEF Next, Engine

\* Every run is a saga: reversible steps in order, compensations newest first, each once.
THEOREM EngineIsSaga == Spec => ImplementsSaga
<1>1. Init => S!Init
  BY EngineAssumption DEF Init, S!Init, Mode, Outstanding, Reversible, Completed
<1>2. Init => Progress /\ OneWrite /\ MetaInv /\ Backward
  <2> SUFFICES ASSUME Init PROVE Progress /\ OneWrite /\ MetaInv /\ Backward
    OBVIOUS
  <2> USE EngineAssumption DEF Init, Steps
  <2>1. Progress /\ OneWrite /\ Backward
    BY DEF Progress, OneWrite, WritesOnce, Backward, Touches
  <2>2. MetaInv
    BY DEF MetaInv, Written, NoMeta
  <2>3. QED
    BY <2>1, <2>2
<1>3. QED
  BY <1>1, <1>2, SagaStep, ProgressStep, OneWriteStep, MetaStep, BackwardStep, TypeCorrect, PTL
     DEF Spec, ImplementsSaga, S!Spec
=============================================================================
