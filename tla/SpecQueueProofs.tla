---------------------------- MODULE SpecQueueProofs ----------------------------
(***************************************************************************)
(* The queue for any number of slots, runs, starts and crashes: one        *)
(* worker, one slot running, one slot per run, no risky task without its   *)
(* approval, a stop that is heeded, and a crash the next start finds.      *)
(***************************************************************************)
EXTENDS SpecQueue, FiniteSetTheorems, WellFoundedInduction, TLAPS

Under == {"enter", "snapshot", "baseline", "body"}     \* the worker is in a slot
SlotStates == {"empty", "ready", "running", "completed", "failed", "stopped", "interrupted"}
SlotRecord == [spec : Specs \cup {NoSpec}, run : Keys, status : SlotStates]
AnySpec == [format : {"legacy", "dsl", "plan", "none"}, risk : {"low", "high", "denied"}, dry : BOOLEAN]
Levels == 0..Logging                                   \* the worker's stage, 0 between slots
Pcs == {"off", "loop"} \cup Under
Workers == [pc : Pcs, slot : 0..(N + 1), stage : Levels, spec : AnySpec,
            risk : {"low", "high", "denied"}, key : Keys, home : Keys, snap : {"none", "new", "reused"}, resumes : Keys]
Messages == [kind : {"paused", "finished", "preview"}, slot : 0..N, required : BOOLEAN]
Entries == [state : {DurableState[k] : k \in Stages} \cup {"SNAPSHOT_READY", "INTERRUPTED"}, slot : 0..N, ws : BOOLEAN]
Gates == {"execution", "promotion"}
Words == {"none", "pending", "approved", "denied"}

WorkerTyped == worker \in Workers /\ (worker.pc \in Under => Here \in Slots /\ worker.stage \in Stages)
SlotsTyped == /\ slots \in [Slots -> SlotRecord]
              /\ queueDef \in [state : {"none", "RUNNING", "COMPLETED", "INTERRUPTED"}, specs : [Slots -> Specs \cup {NoSpec}]]
UiTyped == msgs \in Seq(Messages) /\ shown \in [slot : 0..N, enabled : BOOLEAN] /\ queueActive \in BOOLEAN /\ stopRequested \in BOOLEAN
DiskTyped == ledger \in [Keys -> Entries] /\ recent \in Seq(Keys) /\ approvals \in [Keys -> [Gates -> Words]]

Typed == WorkerTyped /\ SlotsTyped /\ UiTyped /\ DiskTyped

\* The stages by number, and what the ledger records at each.
LEMMA StageFacts ==
    /\ Stages = 1..13 /\ Logging = 13 /\ Slots = 1..N /\ N \in Nat
    /\ Keys = 0..MaxRuns /\ NoRun = 0 /\ Runs = 1..MaxRuns /\ MaxRuns \in Nat
BY QueueConstants DEF Stages, Intake, Logging, Slots, Keys, NoRun, Runs

\* Every spec a slot may hold is a spec.
LEMMA SpecFacts == Specs \cup {NoSpec} \subseteq AnySpec
<1>1. Specs \subseteq Spec
  BY QueueConstants
<1>2. Spec \subseteq AnySpec
  BY DEF Spec, AnySpec
<1>3. NoSpec \in AnySpec
  BY DEF NoSpec, AnySpec
<1> QED BY <1>1, <1>2, <1>3

\* A worker that ended is a worker.
LEMMA OffTyped == Off \in Workers
BY StageFacts, SpecFacts DEF Off, Workers, Pcs, Levels

\* A worker moved to a slot, to a stage of its slot, or to the next slot is a
\* worker.
LEMMA SlotMoved ==
    ASSUME NEW w \in Workers, NEW n \in 0..(N + 1)
    PROVE  [w EXCEPT !.slot = n] \in Workers /\ [w EXCEPT !.slot = n].pc = w.pc
BY DEF Workers

StageMove(w, k, pc) == [w EXCEPT !.stage = k, !.pc = pc]

\* ... as is one moved to another stage ...
LEMMA StageMoved ==
    ASSUME NEW w \in Workers, NEW k \in Levels, NEW pc \in Pcs
    PROVE  /\ StageMove(w, k, pc) \in Workers
           /\ StageMove(w, k, pc).pc = pc /\ StageMove(w, k, pc).stage = k
           /\ StageMove(w, k, pc).slot = w.slot
BY DEF Workers, StageMove

\* ... or back to the head of the loop.
LEMMA LoopMoved ==
    ASSUME NEW r \in Keys, NEW n \in 0..(N + 1)
    PROVE  /\ [Off EXCEPT !.pc = "loop", !.slot = n, !.resumes = r] \in Workers
           /\ [Off EXCEPT !.pc = "loop", !.slot = n, !.resumes = r].pc = "loop"
BY OffTyped DEF Workers, Pcs, Levels

\* The unknown run has an entry of the ledger's type.
LEMMA EntryFacts ==
    /\ NoEntry \in Entries
    /\ \A k \in Stages : DurableState[k] \in {DurableState[j] : j \in Stages}
    /\ "CREATED" \in {DurableState[j] : j \in Stages} /\ "none" \in {DurableState[j] : j \in Stages}
<1>1. DurableState[1] = "CREATED" /\ DurableState[5] = "none"
  BY DEF DurableState
<1> QED BY <1>1, StageFacts DEF NoEntry, Entries

-----------------------------------------------------------------------------
(* Types, a group of variables at a time.                                  *)

LEMMA EndTyped ==
    ASSUME Typed, worker.pc \in Under, NEW st \in SlotStates, NEW stage, SlotEnds(st, stage)
    PROVE  WorkerTyped' /\ slots' \in [Slots -> SlotRecord] /\ worker'.pc = "loop"
<1> USE StageFacts DEF Here
<1>1. Here \in Slots /\ worker \in Workers /\ slots \in [Slots -> SlotRecord]
  BY DEF Typed, WorkerTyped, SlotsTyped
<1>2. worker' \in Workers /\ worker'.pc = "loop"
  <2>1. Here + 1 \in 0..(N + 1) /\ worker.resumes \in Keys
    BY <1>1 DEF Workers
  <2>2. worker' = [Off EXCEPT !.pc = "loop", !.slot = Here + 1, !.resumes = worker.resumes]
    BY DEF SlotEnds
  <2> QED BY <2>1, <2>2, LoopMoved
<1>3. slots' \in [Slots -> SlotRecord]
  BY <1>1 DEF SlotEnds, SlotRecord
<1> QED BY <1>2, <1>3 DEF WorkerTyped, Under

\* The end of a stage, check_stop() included.
LEMMA PassTyped ==
    ASSUME Typed, worker.pc \in Under, worker.stage # Logging, NEW w \in Workers, w.slot = worker.slot, w.stage = worker.stage, Pass(w)
    PROVE  WorkerTyped' /\ slots' \in [Slots -> SlotRecord] /\ worker'.pc \in {"loop", "snapshot", "enter"}
<1> USE StageFacts DEF Here
<1>1. CASE Stopped
  BY <1>1, EndTyped DEF Stopped, SlotStates
<1>2. CASE worker' = [w EXCEPT !.stage = NextStage(@, w.spec), !.pc = IF worker.stage = Intake THEN "snapshot" ELSE "enter"]
           /\ UNCHANGED slots
  <2>1. w.stage \in 1..12 /\ Here \in Slots
    BY StageFacts DEF Typed, WorkerTyped, Workers, Levels
  <2>2. NextStage(w.stage, w.spec) \in Stages
    BY <2>1, StageFacts DEF NextStage, Environment, TaskExecution
  <2> DEFINE pc == IF worker.stage = Intake THEN "snapshot" ELSE "enter"
             k == NextStage(w.stage, w.spec)
  <2>3. pc \in {"snapshot", "enter"} /\ k \in 0..Logging /\ worker' = [w EXCEPT !.stage = k, !.pc = pc]
    BY <1>2, <2>2
  <2> HIDE DEF pc, k
  <2>4. worker' \in Workers /\ worker'.stage = k /\ worker'.slot = Here /\ worker'.pc = pc
    <3>1. pc \in Pcs /\ k \in Levels
      BY <2>3 DEF Under, Pcs, Levels
    <3>2. worker' = StageMove(w, k, pc)
      BY <2>3 DEF StageMove
    <3> QED BY <3>1, <3>2, StageMoved
  <2> QED BY <1>2, <2>1, <2>2, <2>3, <2>4 DEF WorkerTyped, Typed, SlotsTyped, k
<1> QED BY <1>1, <1>2 DEF Pass

\* Every step of the worker leaves the worker and the slots in their types.
LEMMA WorkerStepTyped == ASSUME Typed, WorkerStep PROVE WorkerTyped' /\ slots' \in [Slots -> SlotRecord]
<1> USE StageFacts DEF Here
<1>1. worker \in Workers /\ slots \in [Slots -> SlotRecord] /\ (worker.pc \in Under => Here \in Slots /\ worker.stage \in Stages)
  BY DEF Typed, WorkerTyped, SlotsTyped
<1>2. CASE SkipStoppedSlot \/ SkipEmptySlot
  <2>1. worker.pc = "loop" /\ Here \in Slots /\ worker' = [worker EXCEPT !.slot = Here + 1]
    BY <1>2 DEF SkipStoppedSlot, SkipEmptySlot, At
  <2>2. worker' \in Workers /\ worker'.pc = "loop"
    <3>1. Here + 1 \in 0..(N + 1)
      BY <2>1
    <3> QED BY <1>1, <2>1, <3>1, SlotMoved
  <2>3. slots' \in [Slots -> SlotRecord]
    <3>1. PICK st \in SlotStates : slots' = [slots EXCEPT ![Here].status = st]
      BY <1>1, <1>2, <2>1 DEF SkipStoppedSlot, SkipEmptySlot, SlotRecord, SlotStates
    <3> QED BY <1>1, <3>1 DEF SlotRecord
  <2> QED BY <2>2, <2>3 DEF WorkerTyped, Under
<1>3. CASE StartSlot
  <2>1. Here \in Slots /\ worker' = [worker EXCEPT !.pc = "enter", !.stage = Intake]
    BY <1>3 DEF StartSlot
  <2>2. worker' \in Workers /\ worker'.slot = Here /\ worker'.stage \in Stages
    <3>1. Intake \in Levels /\ Intake \in Stages /\ "enter" \in Pcs
      BY DEF Intake, Under, Levels, Pcs
    <3>2. worker' = [worker EXCEPT !.pc = "enter", !.stage = Intake]
      BY <1>3 DEF StartSlot
    <3>3. worker' = StageMove(worker, Intake, "enter")
      BY <1>1, <3>2 DEF StageMove, Workers
    <3> QED BY <1>1, <3>1, <3>3, StageMoved
  <2>3. slots[Here].run = NoRun => NewRunId \in Keys
    <3> SUFFICES ASSUME Fresh # {} PROVE NewRunId \in Keys
      BY <1>3 DEF StartSlot
    <3> QED BY DEF NewRunId, Fresh
  <2>4. slots' \in [Slots -> SlotRecord]
    BY <1>1, <1>3, <2>1, <2>3 DEF StartSlot, SlotRecord, SlotStates
  <2> QED BY <2>1, <2>2, <2>4 DEF WorkerTyped
<1>4. CASE BeginStage
  <2>1. worker.pc = "enter" /\ worker' = [worker EXCEPT !.pc = IF worker.stage = TaskExecution THEN "baseline" ELSE "body"]
        /\ slots' = slots
    BY <1>4 DEF BeginStage, At
  <2>2. worker' \in Workers /\ worker'.slot = Here /\ worker'.stage = worker.stage
    BY <1>1, <2>1 DEF Workers, Under, Pcs, Levels
  <2> QED BY <1>1, <2>1, <2>2 DEF WorkerTyped, Under
<1>5. CASE StageRaises
  BY <1>5, EndTyped DEF StageRaises, Failed, SlotStates, Under
<1>6. CASE IntakeSpec
  <2>1. worker.pc = "body" /\ worker.stage = Intake /\ Here \in Slots
    BY <1>1, <1>6 DEF IntakeSpec, AtStage, At, Under
  <2>2. [worker EXCEPT !.spec = slots[Here].spec] \in Workers
    BY <1>1, <2>1, SpecFacts DEF Workers, SlotRecord
  <2> DEFINE w == [worker EXCEPT !.spec = slots[Here].spec]
  <2>3. w.slot = worker.slot /\ w.stage = worker.stage /\ Intake # Logging
    BY <1>1 DEF Workers, Intake
  <2>4. Failed \/ Pass(w)
    BY <1>6 DEF IntakeSpec
  <2> HIDE DEF w
  <2> QED BY <2>1, <2>2, <2>3, <2>4, EndTyped, PassTyped DEF Failed, SlotStates, Under, w
<1>7. CASE TakeSnapshot
  <2>1. worker.pc = "snapshot" /\ Here \in Slots /\ worker.stage \in Stages /\ slots' = slots
    BY <1>1, <1>7 DEF TakeSnapshot, At, Under
  <2>2. Run \in Keys
    BY <1>1, <2>1 DEF Run, SlotRecord
  <2>3. worker' \in Workers /\ worker'.slot = Here /\ worker'.stage = worker.stage
    BY <1>1, <1>7, <2>2 DEF TakeSnapshot, Workers, Under, Pcs
  <2> QED BY <1>1, <2>1, <2>3 DEF WorkerTyped
<1>8. CASE ParseSpec
  <2> DEFINE w == [worker EXCEPT !.risk = slots[Here].spec.risk]
  <2>1. worker.pc = "body" /\ worker.stage = Parsing /\ Here \in Slots /\ Pass(w)
    BY <1>1, <1>8 DEF ParseSpec, AtStage, At, Under
  <2>2. slots[Here].spec \in AnySpec
    BY <1>1, <2>1, SpecFacts DEF SlotRecord
  <2>3. slots[Here].spec.risk \in {"low", "high", "denied"}
    BY <2>2 DEF AnySpec
  <2>4. w \in Workers /\ w.slot = worker.slot /\ w.stage = worker.stage
    BY <1>1, <2>3 DEF Workers
  <2> HIDE DEF w
  <2> QED BY <2>1, <2>4, PassTyped DEF Under, Parsing
<1>9. ASSUME NEW gate \in Gates, NEW stage, PauseForApproval(gate, stage) PROVE WorkerTyped' /\ slots' \in [Slots -> SlotRecord]
  BY <1>1, <1>9, OffTyped DEF PauseForApproval, WorkerTyped, Off, Under
<1>10. CASE CheckPolicy
  <2> DEFINE w == [worker EXCEPT !.key = Run]
  <2>1. worker.pc = "body" /\ worker.stage = PreExec /\ Here \in Slots
    BY <1>1, <1>10 DEF CheckPolicy, AtStage, At, Under
  <2>2. Run \in Keys
    BY <1>1, <2>1 DEF Run, SlotRecord
  <2>3. w \in Workers /\ w.slot = worker.slot /\ w.stage = worker.stage
    BY <1>1, <2>2 DEF Workers
  <2>4. Failed \/ Pass(w) \/ PauseForApproval("execution", "AWAITING_USER")
    BY <1>10 DEF CheckPolicy
  <2> HIDE DEF w
  <2> QED BY <1>9, <2>1, <2>3, <2>4, EndTyped, PassTyped DEF Failed, SlotStates, Under, PreExec, Gates
<1>11. CASE PreviewImpact \/ FinishStage
  <2>1. worker.pc = "body" /\ worker.stage # Logging /\ Pass(worker)
    BY <1>11 DEF PreviewImpact, FinishStage, AtStage, At, Impact, Environment, TaskExecution, Structural, Verification, Regression, Outcome
  <2> QED BY <1>1, <2>1, PassTyped DEF Under
<1>12. CASE PassGate
  <2>1. worker.pc = "body" /\ worker.stage = Gate
    BY <1>12 DEF PassGate, AtStage, At
  <2>2. (worker' = Off /\ slots' = slots) \/ Failed \/ Pass(worker)
    BY <1>12 DEF PassGate
  <2>3. CASE worker' = Off /\ slots' = slots
    BY <1>1, <2>3, OffTyped DEF WorkerTyped, Off, Under, Pcs, Levels
  <2> QED BY <1>1, <2>1, <2>2, <2>3, EndTyped, PassTyped DEF Failed, SlotStates, Under, Gate
<1>13. CASE RecordBaseline
  <2>1. worker.pc = "baseline"
    BY <1>13 DEF RecordBaseline, At
  <2>2. CASE Failed
    BY <2>1, <2>2, EndTyped DEF Failed, SlotStates, Under
  <2>3. CASE worker' = [worker EXCEPT !.pc = "body"] /\ slots' = slots
    <3>1. worker' \in Workers /\ worker'.slot = Here /\ worker'.stage = worker.stage
      BY <1>1, <2>3 DEF Workers, Under, Pcs, Levels
    <3> QED BY <1>1, <2>1, <2>3, <3>1 DEF WorkerTyped, Under
  <2> QED BY <1>13, <2>2, <2>3 DEF RecordBaseline
<1>14. CASE CheckPromotion
  <2> DEFINE w == [worker EXCEPT !.spec.dry = TRUE]
  <2>1. worker.pc = "body" /\ worker.stage = PrePromote
    BY <1>14 DEF CheckPromotion, AtStage, At
  <2>2. w.slot = worker.slot /\ w.stage = worker.stage
    BY <1>1 DEF Workers
  <2>3. worker.spec \in AnySpec
    BY <1>1 DEF Workers
  <2>4. [worker.spec EXCEPT !.dry = TRUE] \in AnySpec
    BY <2>3 DEF AnySpec
  <2>5. w \in Workers
    BY <1>1, <2>4 DEF Workers
  <2>6. Pass(worker) \/ Pass(w) \/ PauseForApproval("promotion", orch[Here])
    BY <1>14 DEF CheckPromotion
  <2> HIDE DEF w
  <2> QED BY <1>1, <1>9, <2>1, <2>2, <2>5, <2>6, PassTyped DEF Under, PrePromote, Gates
<1>15. CASE LogRun
  <2>1. worker.pc = "body" /\ (Stopped \/ SlotEnds("completed", "COMPLETED") \/ Failed)
    BY <1>15 DEF LogRun, AtStage, At
  <2> QED BY <2>1, EndTyped DEF Stopped, Failed, SlotStates, Under
<1>16. CASE FinishQueue
  BY <1>1, <1>16, OffTyped DEF FinishQueue, WorkerTyped, Off, Under
<1> QED
  BY <1>2, <1>3, <1>4, <1>5, <1>6, <1>7, <1>8, <1>10, <1>11, <1>12, <1>13, <1>14, <1>15, <1>16 DEF WorkerStep

-----------------------------------------------------------------------------
\* A set of positions that is not empty has a last one.
LEMMA LastIndex ==
    ASSUME NEW n \in Nat, NEW T \in SUBSET (1..n), T # {}
    PROVE  \E i \in T : \A j \in T : j <= i
<1> DEFINE U == {n - i : i \in T}
<1>1. \A i \in T : n - i \in Nat /\ i \in Int
  OBVIOUS
<1>2. U \subseteq Nat /\ U # {}
  BY <1>1
<1>3. PICK x \in U : \A y \in U : ~(<<y, x>> \in OpToRel(<, Nat))
  <2> HIDE DEF U
  <2> QED BY <1>2, WFMin, NatLessThanWellFounded, Zenon
<1>4. \A y \in U : ~(y < x)
  BY <1>2, <1>3, Zenon DEF OpToRel
<1>5. PICK i \in T : x = n - i
  OBVIOUS
<1>6. ASSUME NEW j \in T PROVE j <= i
  <2>1. n - j \in U
    OBVIOUS
  <2>2. ~(n - j < x)
    <3> HIDE DEF U
    <3> QED BY <2>1, <1>4
  <2>3. ~(n - j < n - i)
    BY <2>2, <1>5
  <2> QED BY <2>3, <1>1
<1> QED BY <1>6

\* The latest run of a slot is a run the ledger files under it.
LEMMA LatestFiled ==
    ASSUME Typed, NEW s \in Slots
    PROVE  LatestRun(s) \in Keys /\ (LatestRun(s) # NoRun => ledger[LatestRun(s)].slot = s)
<1> DEFINE of == {i \in DOMAIN recent : ledger[recent[i]].slot = s}
<1>1. recent \in Seq(Keys) /\ Len(recent) \in Nat /\ of \subseteq 1..Len(recent) /\ \A i \in of : ledger[recent[i]].slot = s
  BY DEF Typed, DiskTyped
<1>2. NoRun \in Keys
  BY DEF Keys
<1>3. LatestRun(s) = IF of = {} THEN NoRun ELSE recent[CHOOSE i \in of : \A j \in of : j <= i]
  BY DEF LatestRun
<1> HIDE DEF of
<1>4. CASE of # {}
  <2>1. PICK i \in of : \A j \in of : j <= i
    BY <1>1, <1>4, LastIndex
  <2> DEFINE last == CHOOSE k \in of : \A j \in of : j <= k
  <2>2. last \in of /\ LatestRun(s) = recent[last]
    BY <1>3, <1>4, <2>1
  <2> HIDE DEF last
  <2> QED BY <1>1, <2>2
<1> QED BY <1>2, <1>3, <1>4

\* ... and so a key of the ledger.
LEMMA LatestTyped == ASSUME Typed, NEW s \in Slots PROVE LatestRun(s) \in Keys
BY LatestFiled

\* A run that is touched stands in the order of runs.
LEMMA TouchTyped == ASSUME recent \in Seq(Keys), NEW r \in Keys PROVE Touch(r) \in Seq(Keys)
<1> DEFINE at == {i \in DOMAIN recent : recent[i] = r}
           i == CHOOSE k \in at : TRUE
<1>1. CASE at = {}
  BY <1>1 DEF Touch
<1>2. CASE at # {}
  <2>1. i \in 1..Len(recent)
    BY <1>2
  <2>2. RemoveAt(recent, i) \in Seq(Keys)
    <3> HIDE DEF i
    <3> QED BY <2>1 DEF RemoveAt
  <2>3. Touch(r) = Append(RemoveAt(recent, i), r)
    BY <1>2 DEF Touch
  <2> HIDE DEF i
  <2> QED BY <2>2, <2>3
<1> QED BY <1>1, <1>2

\* Recording a transition leaves the ledger in its type.
LEMMA RecordTyped ==
    ASSUME Typed, NEW r \in Keys, NEW s \in Slots, NEW k \in Stages, RecordTransition(r, s, DurableState[k])
    PROVE  ledger' \in [Keys -> Entries] /\ recent' \in Seq(Keys)
<1>1. ledger \in [Keys -> Entries] /\ recent \in Seq(Keys)
  BY DEF Typed, DiskTyped
<1>2. DurableState[k] \in {DurableState[j] : j \in Stages} /\ s \in 0..N
  BY StageFacts
<1>3. PICK e \in Entries : ledger' = [ledger EXCEPT ![r] = e]
  <2>1. ledger[r] \in Entries
    BY <1>1
  <2>2. [ledger[r] EXCEPT !.state = DurableState[k]] \in Entries
    BY <1>2, <2>1 DEF Entries
  <2>3. [state |-> DurableState[k], slot |-> s, ws |-> FALSE] \in Entries
    BY <1>2 DEF Entries
  <2> QED BY <2>2, <2>3 DEF RecordTransition
<1> QED BY <1>1, <1>3, TouchTyped DEF RecordTransition

\* A pause for approval files a request and tells the UI.
LEMMA PauseTyped ==
    ASSUME Typed, Here \in Slots, NEW gate \in Gates, NEW stage, PauseForApproval(gate, stage)
    PROVE  approvals' \in [Keys -> [Gates -> Words]] /\ msgs' \in Seq(Messages)
<1>1. Run \in Keys /\ approvals \in [Keys -> [Gates -> Words]] /\ msgs \in Seq(Messages)
  BY DEF Typed, SlotsTyped, DiskTyped, UiTyped, Run, SlotRecord
<1>2. Message("paused") \in Messages
  BY StageFacts DEF Message, Messages
<1>3. approvals' = [approvals EXCEPT ![Run][gate] = IF @ = "none" THEN "pending" ELSE @]
  BY DEF PauseForApproval
<1>4. approvals' \in [Keys -> [Gates -> Words]]
  <2>1. approvals[Run][gate] \in Words
    BY <1>1
  <2>2. PICK v \in Words : approvals' = [approvals EXCEPT ![Run][gate] = v]
    BY <1>3, <2>1 DEF Words
  <2> QED BY <1>1, <2>2
<1>5. msgs' \in Seq(Messages)
  BY <1>1, <1>2 DEF PauseForApproval
<1> QED BY <1>4, <1>5

\* The ledger and the order of its runs.
Filed == ledger \in [Keys -> Entries] /\ recent \in Seq(Keys)

\* The worker leaves the rest of the state in its types.
LEMMA WorkerKeepsTypes == ASSUME Typed, WorkerStep PROVE UiTyped' /\ DiskTyped' /\ SlotsTyped'
<1>1. /\ worker \in Workers /\ (worker.pc \in Under => Here \in Slots /\ worker.stage \in Stages)
      /\ slots \in [Slots -> SlotRecord] /\ UiTyped /\ DiskTyped
      /\ queueDef \in [state : {"none", "RUNNING", "COMPLETED", "INTERRUPTED"}, specs : [Slots -> Specs \cup {NoSpec}]]
  BY DEF Typed, WorkerTyped, SlotsTyped
<1>2. Here \in Slots => Run \in Keys
  BY <1>1 DEF Run, SlotRecord
<1>3. queueDef' \in [state : {"none", "RUNNING", "COMPLETED", "INTERRUPTED"}, specs : [Slots -> Specs \cup {NoSpec}]]
  <2>1. queueDef' = queueDef \/ \E st \in {"COMPLETED", "INTERRUPTED"} : queueDef' = [queueDef EXCEPT !.state = st]
    BY DEF WorkerStep, SkipStoppedSlot, SkipEmptySlot, StartSlot, BeginStage, StageRaises, IntakeSpec, TakeSnapshot,
           ParseSpec, CheckPolicy, PreviewImpact, PassGate, RecordBaseline, FinishStage, CheckPromotion, LogRun,
           FinishQueue, disk
  <2> QED BY <1>1, <2>1
<1>4. Filed'
  <2>1. CASE UNCHANGED <<ledger, recent>>
    BY <1>1, <2>1 DEF Filed, DiskTyped
  <2>2. CASE BeginStage
    <3>1. Here \in Slots /\ worker.stage \in Stages
      BY <1>1, <2>2 DEF BeginStage, At, Under
    <3>2. CASE RecordTransition(Run, Here, DurableState[worker.stage])
      BY <1>2, <3>1, <3>2, RecordTyped DEF Filed
    <3> QED BY <2>1, <2>2, <3>2 DEF BeginStage
  <2>3. CASE TakeSnapshot
    <3>1. Run \in Keys
      BY <1>1, <1>2, <2>3 DEF TakeSnapshot, At, Under
    <3>2. ledger[Run] \in Entries
      BY <1>1, <3>1 DEF DiskTyped
    <3>3. [ledger[Run] EXCEPT !.state = "SNAPSHOT_READY", !.ws = TRUE] \in Entries
      BY <3>2 DEF Entries
    <3> QED BY <1>1, <2>3, <3>1, <3>3 DEF TakeSnapshot, DiskTyped, Filed
  <2>4. CASE LogRun
    <3>1. worker.home \in Keys
      BY <1>1 DEF Workers
    <3>2. [ledger[worker.home] EXCEPT !.ws = FALSE] \in Entries
      BY <1>1, <3>1 DEF DiskTyped, Entries
    <3> QED BY <1>1, <2>4, <3>1, <3>2 DEF LogRun, DiskTyped, Filed
  <2> QED
    BY <2>1, <2>2, <2>3, <2>4 DEF WorkerStep, SkipStoppedSlot, SkipEmptySlot, StartSlot, StageRaises, IntakeSpec,
       ParseSpec, CheckPolicy, PreviewImpact, PassGate, RecordBaseline, FinishStage, CheckPromotion, FinishQueue, disk
<1>5. approvals' \in [Keys -> [Gates -> Words]] /\ msgs' \in Seq(Messages)
  <2>1. CASE UNCHANGED <<approvals, msgs>>
    BY <1>1, <2>1 DEF UiTyped, DiskTyped
  <2>2. CASE \E gate \in Gates : \E stage : Here \in Slots /\ PauseForApproval(gate, stage)
    BY <2>2, PauseTyped
  <2>3. CASE approvals' = approvals /\ \E m \in Messages : msgs' = Append(msgs, m)
    BY <1>1, <2>3 DEF UiTyped, DiskTyped
  <2>4. CASE CheckPolicy
    <3>1. Here \in Slots
      BY <1>1, <2>4 DEF CheckPolicy, AtStage, At, Under
    <3> QED BY <2>1, <2>2, <2>4, <3>1 DEF CheckPolicy, Gates
  <2>5. CASE CheckPromotion
    <3>1. Here \in Slots
      BY <1>1, <2>5 DEF CheckPromotion, AtStage, At, Under
    <3> QED BY <2>1, <2>2, <2>5, <3>1 DEF CheckPromotion, Gates
  <2>6. CASE PreviewImpact
    <3>1. Here \in 0..N
      BY <1>1, <2>6, StageFacts DEF PreviewImpact, AtStage, At, Under
    <3>2. \A v \in {"auto", "pending", "rejected"} : [kind |-> "preview", slot |-> Here, required |-> v # "auto"] \in Messages
      BY <3>1 DEF Messages
    <3> QED BY <2>1, <2>3, <2>6, <3>2 DEF PreviewImpact, disk
  <2>7. CASE FinishQueue
    <3>1. Message("finished") \in Messages
      BY StageFacts DEF Message, Messages
    <3> QED BY <2>3, <2>7, <3>1 DEF FinishQueue
  <2> QED
    BY <2>1, <2>4, <2>5, <2>6, <2>7 DEF WorkerStep, SkipStoppedSlot, SkipEmptySlot, StartSlot, BeginStage, StageRaises,
       IntakeSpec, TakeSnapshot, ParseSpec, PassGate, RecordBaseline, FinishStage, LogRun, disk
<1>6. queueActive' = queueActive /\ stopRequested' = stopRequested /\ (shown' = shown \/ shown' = [shown EXCEPT !.slot = 0])
  BY DEF WorkerStep, SkipStoppedSlot, SkipEmptySlot, StartSlot, BeginStage, StageRaises, IntakeSpec, TakeSnapshot,
         ParseSpec, CheckPolicy, PreviewImpact, PassGate, RecordBaseline, FinishStage, CheckPromotion, LogRun,
         FinishQueue, uiState
<1>7. shown' \in [slot : 0..N, enabled : BOOLEAN]
  BY <1>1, <1>6, StageFacts DEF UiTyped
<1> QED BY <1>1, <1>3, <1>4, <1>5, <1>6, <1>7, WorkerStepTyped DEF UiTyped, DiskTyped, SlotsTyped, Filed

\* The slots as start_queue finds them, and what it makes of them.
LEMMA StatusTyped == \A x : Status(x) \in SlotStates
BY DEF Status, SlotStates

\* start_queue leaves the worker, the slots and the flags in their types.
LEMMA StartTyped ==
    ASSUME Typed, NEW sl \in [Slots -> SlotRecord], NEW r \in Keys, StartQueueWith(sl, r)
    PROVE  WorkerTyped' /\ SlotsTyped' /\ queueActive' \in BOOLEAN /\ stopRequested' \in BOOLEAN
<1>1. /\ worker \in Workers /\ (worker.pc \in Under => Here \in Slots /\ worker.stage \in Stages)
      /\ queueDef \in [state : {"none", "RUNNING", "COMPLETED", "INTERRUPTED"}, specs : [Slots -> Specs \cup {NoSpec}]]
      /\ queueActive \in BOOLEAN /\ stopRequested \in BOOLEAN
  BY DEF Typed, WorkerTyped, SlotsTyped, UiTyped
<1>2. CASE NotStarted(sl)
  BY <1>1, <1>2 DEF NotStarted, WorkerTyped, SlotsTyped, Here
<1>3. CASE Started(sl, r)
  <2>1. worker' \in Workers /\ worker'.pc = "loop"
    <3>1. 1 \in 0..(N + 1)
      BY StageFacts
    <3> QED BY <1>3, <3>1, LoopMoved DEF Started
  <2>2. slots' \in [Slots -> SlotRecord]
    <3> SUFFICES ASSUME NEW s \in Slots PROVE [sl[s] EXCEPT !.status = Status(sl[s].spec)] \in SlotRecord
      BY <1>3 DEF Started
    <3> QED BY StatusTyped DEF SlotRecord
  <2>3. queueDef' \in [state : {"none", "RUNNING", "COMPLETED", "INTERRUPTED"}, specs : [Slots -> Specs \cup {NoSpec}]]
    <3>1. \A s \in Slots : sl[s].spec \in Specs \cup {NoSpec}
      BY DEF SlotRecord
    <3> QED BY <1>3, <3>1 DEF Started
  <2>4. queueActive' \in BOOLEAN /\ stopRequested' \in BOOLEAN
    BY <1>3 DEF Started
  <2> QED BY <2>1, <2>2, <2>3, <2>4 DEF WorkerTyped, SlotsTyped, Under
<1> QED BY <1>2, <1>3 DEF StartQueueWith

\* What is empty after a start of the program.
LEMMA NothingShown ==
    /\ <<>> \in Seq(Messages) /\ <<>> \in Seq(Keys)
    /\ [slot |-> 0, enabled |-> FALSE] \in [slot : 0..N, enabled : BOOLEAN]
<1>1. 0 \in 0..N
  BY StageFacts
<1> QED BY <1>1

\* While run ids are to spare there is a fresh one ...
LEMMA SpareFresh == ASSUME RunsToSpare PROVE Fresh # {}
<1> DEFINE free == {s \in Slots : slots[s].run = NoRun}
<1>1. IsFiniteSet(free) /\ Cardinality(free) \in Nat
  <2>1. IsFiniteSet(Slots) /\ free \subseteq Slots
    BY StageFacts, FS_Interval
  <2> HIDE DEF free
  <2> QED BY <2>1, FS_Subset, FS_CardinalityType
<1>2. Fresh # {}
  <2> HIDE DEF free
  <2> SUFFICES ASSUME Fresh = {} PROVE FALSE
    OBVIOUS
  <2>1. Cardinality(Fresh) = 0
    BY FS_EmptySet
  <2>2. Cardinality(Fresh) > Cardinality(free)
    BY DEF RunsToSpare, free
  <2> QED BY <1>1, <2>1, <2>2
<1> QED BY <1>2

\* ... and the new id is one.
LEMMA SpareRun == ASSUME RunsToSpare PROVE NewRunId \in Runs
BY SpareFresh DEF NewRunId, Fresh

\* The user's buttons, the message loop, a crash and the startup scan.
LEMMA OthersKeepTypes == ASSUME Typed, UserStep \/ HandleMessage \/ Crash \/ StartupRecovery PROVE Typed'
<1> DEFINE QueueStates == {"none", "RUNNING", "COMPLETED", "INTERRUPTED"}
<1>1. /\ worker \in Workers /\ (worker.pc \in Under => Here \in Slots /\ worker.stage \in Stages)
      /\ slots \in [Slots -> SlotRecord]
      /\ queueDef \in [state : QueueStates, specs : [Slots -> Specs \cup {NoSpec}]]
      /\ msgs \in Seq(Messages) /\ shown \in [slot : 0..N, enabled : BOOLEAN]
      /\ queueActive \in BOOLEAN /\ stopRequested \in BOOLEAN
      /\ ledger \in [Keys -> Entries] /\ recent \in Seq(Keys) /\ approvals \in [Keys -> [Gates -> Words]]
  BY DEF Typed, WorkerTyped, SlotsTyped, UiTyped, DiskTyped
<1>2. NoRun \in Keys /\ \A s \in Slots : slots[s].run \in Keys
  BY <1>1 DEF Keys, SlotRecord
<1>3. ASSUME NEW sl \in [Slots -> SlotRecord], NEW r \in Keys, StartQueueWith(sl, r), shown' \in [slot : 0..N, enabled : BOOLEAN]
      PROVE  Typed'
  <2>1. msgs' = msgs /\ ledger' = ledger /\ recent' = recent /\ approvals' = approvals
    BY <1>3 DEF StartQueueWith
  <2> QED BY <1>1, <1>3, <2>1, StartTyped DEF Typed, UiTyped, DiskTyped
<1>4. ASSUME NEW sl \in [Slots -> SlotRecord], slots' = sl, UNCHANGED <<worker, queueDef, uiState, msgs, ledger, recent, approvals>>
      PROVE  Typed'
  BY <1>1, <1>4 DEF Typed, WorkerTyped, SlotsTyped, UiTyped, DiskTyped, uiState, Here
<1>5. CASE StartQueue
  BY <1>1, <1>2, <1>3, <1>5 DEF StartQueue
<1>6. CASE StopQueue
  BY <1>1, <1>6 DEF StopQueue, Typed, WorkerTyped, SlotsTyped, UiTyped, DiskTyped, disk, Here
<1>7. ASSUME NEW status, Judged(status) PROVE shown' \in [slot : 0..N, enabled : BOOLEAN]
  BY <1>1, <1>7 DEF Judged
<1>8. CASE ApproveImpact
  BY <1>1, <1>2, <1>3, <1>7, <1>8 DEF ApproveImpact
<1>9. CASE RejectImpact
  BY <1>1, <1>7, <1>9 DEF RejectImpact, Typed, WorkerTyped, SlotsTyped, UiTyped, DiskTyped, disk, Here
<1>10. ASSUME NEW s \in Slots, SubmitSpec(s) PROVE Typed'
  <2>1. PICK spec \in Specs : slots' = [slots EXCEPT ![s].spec = spec, ![s].status = "ready"]
    BY <1>10 DEF SubmitSpec
  <2>2. slots' \in [Slots -> SlotRecord]
    BY <1>1, <2>1 DEF SlotRecord, SlotStates
  <2> QED BY <1>4, <1>10, <2>2 DEF SubmitSpec, disk
<1>11. ASSUME NEW s \in Slots, ClearSlot(s) PROVE Typed'
  <2>1. EmptySlot \in SlotRecord
    BY <1>2 DEF EmptySlot, SlotRecord, SlotStates
  <2>2. slots' \in [Slots -> SlotRecord]
    BY <1>1, <1>11, <2>1 DEF ClearSlot
  <2> QED BY <1>4, <1>11, <2>2 DEF ClearSlot, disk
<1>12. ASSUME NEW s \in Slots, EditSpec(s) PROVE Typed'
  BY <1>1, <1>4, <1>12 DEF EditSpec, disk
<1>13. ASSUME NEW s \in Slots, TriggerRerun(s) PROVE Typed'
  <2>1. [slots EXCEPT ![s].status = "ready"] \in [Slots -> SlotRecord]
    BY <1>1 DEF SlotRecord, SlotStates
  <2> QED BY <1>1, <1>2, <1>3, <1>13, <2>1 DEF TriggerRerun
<1>14. ASSUME NEW s \in Slots, ResumeRun(s) PROVE Typed'
  BY <1>1, <1>2, <1>3, <1>14 DEF ResumeRun
<1>15. ASSUME NEW s \in Slots, ReplayRun(s) PROVE Typed'
  <2>1. NewRunId \in Keys
    BY <1>15, SpareRun DEF ReplayRun, Keys
  <2>2. [state |-> "CREATED", slot |-> ledger[slots[s].run].slot, ws |-> FALSE] \in Entries
    BY <1>1, <1>2, EntryFacts DEF Entries
  <2>3. ledger' \in [Keys -> Entries] /\ recent' \in Seq(Keys)
    BY <1>1, <1>15, <2>1, <2>2, TouchTyped DEF ReplayRun
  <2> QED BY <1>1, <1>15, <2>3 DEF ReplayRun, memory, Typed, WorkerTyped, SlotsTyped, UiTyped, DiskTyped, Here
<1>16. ASSUME NEW r \in Keys, NEW gate \in Gates, Decide(r, gate) PROVE Typed'
  <2>1. PICK d \in Words : approvals' = [approvals EXCEPT ![r][gate] = d]
    BY <1>16 DEF Decide, Words
  <2>2. approvals' \in [Keys -> [Gates -> Words]]
    BY <1>1, <2>1
  <2> QED BY <1>1, <1>16, <2>2 DEF Decide, memory, Typed, WorkerTyped, SlotsTyped, UiTyped, DiskTyped, Here
<1>17. CASE UserStep
  BY <1>5, <1>6, <1>8, <1>9, <1>10, <1>11, <1>12, <1>13, <1>14, <1>15, <1>16, <1>17 DEF UserStep, Gates
<1>18. CASE HandleMessage
  <2>1. Head(msgs) \in Messages /\ Tail(msgs) \in Seq(Messages)
    BY <1>1, <1>18 DEF HandleMessage
  <2>2. shown' \in [slot : 0..N, enabled : BOOLEAN] /\ queueActive' \in BOOLEAN
    <3>1. Head(msgs).slot \in 0..N /\ Head(msgs).required \in BOOLEAN
      BY <2>1 DEF Messages
    <3>2. shown.enabled \in BOOLEAN /\ (shown.enabled \/ Head(msgs).required) \in BOOLEAN
      BY <1>1, <3>1
    <3> DEFINE a == Head(msgs).slot
               b == shown.enabled \/ Head(msgs).required
    <3>3. a \in 0..N /\ b \in BOOLEAN
      BY <3>1, <3>2
    <3>4. (shown' = shown /\ queueActive' = FALSE) \/ (shown' = [slot |-> a, enabled |-> b] /\ queueActive' = queueActive)
      BY <1>18 DEF HandleMessage
    <3> HIDE DEF a, b
    <3>5. [slot |-> a, enabled |-> b] \in [slot : 0..N, enabled : BOOLEAN]
      BY <3>3, Zenon
    <3>6. CASE shown' = shown /\ queueActive' = FALSE
      BY <1>1, <3>6
    <3>7. CASE shown' = [slot |-> a, enabled |-> b] /\ queueActive' = queueActive
      BY <1>1, <3>5, <3>7, Zenon
    <3> QED BY <3>4, <3>6, <3>7
  <2> QED BY <1>1, <1>18, <2>1, <2>2 DEF HandleMessage, disk, Typed, WorkerTyped, SlotsTyped, UiTyped, DiskTyped, Here
<1>19. CASE Crash
  BY <1>1, <1>19 DEF Crash, memory, disk, Typed, WorkerTyped, SlotsTyped, UiTyped, DiskTyped, Here
<1>20. CASE StartupRecovery
  <2>1. slots' \in [Slots -> SlotRecord]
    <3>1. EmptySlot \in SlotRecord
      BY <1>2 DEF EmptySlot, SlotRecord, SlotStates
    <3>2. \A s \in Slots : SlotStatus(s) \in SlotStates
      BY StatusTyped DEF SlotStatus, SlotStates
    <3>3. \A s \in Slots : [spec |-> queueDef.specs[s], status |-> SlotStatus(s), run |-> LatestRun(s)] \in SlotRecord
      BY <1>1, <3>2, LatestTyped DEF SlotRecord
    <3> QED BY <1>20, <3>1, <3>3 DEF StartupRecovery
  <2>2. ledger' \in [Keys -> Entries]
    <3>1. \A r \in Keys : ledger[r] \in Entries /\ [ledger[r] EXCEPT !.state = "INTERRUPTED"] \in Entries
      BY <1>1 DEF Entries
    <3> QED BY <1>20, <3>1 DEF StartupRecovery
  <2>3. worker' \in Workers /\ worker'.pc = "off"
    BY <1>20, OffTyped DEF StartupRecovery, Off
  <2>4. UiTyped'
    BY <1>20, NothingShown DEF StartupRecovery, UiTyped
  <2> QED BY <1>1, <1>20, <2>1, <2>2, <2>3, <2>4 DEF StartupRecovery, Typed, WorkerTyped, SlotsTyped, DiskTyped, Under
<1> QED BY <1>17, <1>18, <1>19, <1>20

\* Every reachable state has these types.
LEMMA TypedInvariant == QueueSpec => []Typed
<1>1. Init => Typed
  <2> SUFFICES ASSUME Init PROVE Typed
    OBVIOUS
  <2>1. Initial \in [Slots -> Specs \cup {NoSpec}] /\ NoRun \in Keys
    BY QueueConstants DEF Keys
  <2>2. slots \in [Slots -> SlotRecord]
    BY <2>1, StatusTyped DEF Init, EmptySlot, SlotRecord
  <2>3. queueDef \in [state : {"none", "RUNNING", "COMPLETED", "INTERRUPTED"}, specs : [Slots -> Specs \cup {NoSpec}]]
    BY DEF Init
  <2>4. worker \in Workers /\ worker.pc = "off"
    BY OffTyped DEF Init, Off
  <2>5. UiTyped
    BY NothingShown DEF Init, UiTyped
  <2>6. DiskTyped
    <3>1. ledger \in [Keys -> Entries]
      BY EntryFacts DEF Init
    <3>2. approvals \in [Keys -> [Gates -> Words]]
      BY DEF Init, Gates, Words
    <3> QED BY <3>1, <3>2, NothingShown DEF Init, DiskTyped
  <2> QED BY <2>2, <2>3, <2>4, <2>5, <2>6 DEF Typed, WorkerTyped, SlotsTyped, Under
<1>2. Typed /\ [Next]_vars => Typed'
  <2> SUFFICES ASSUME Typed, [Next]_vars PROVE Typed'
    OBVIOUS
  <2>1. CASE WorkerStep
    BY <2>1, WorkerStepTyped, WorkerKeepsTypes DEF Typed
  <2>2. CASE UNCHANGED vars
    BY <2>2 DEF vars, memory, disk, Typed, WorkerTyped, SlotsTyped, UiTyped, DiskTyped, Here
  <2> QED BY <2>1, <2>2, OthersKeepTypes DEF Next
<1> QED BY <1>1, <1>2, PTL DEF QueueSpec

-----------------------------------------------------------------------------
(* The type invariant: besides the above, the stages of the orchestrated   *)
(* runs, the previews, and the spec the worker holds, which it turns into  *)
(* a dry run only once it has read one from a slot.                        *)

Tracks == O!Stage \cup {"none"}
Previews == [status : {"none", "auto", "pending", "approved", "rejected"}, held : BOOLEAN]

Held(w) == w.spec \in Spec \cup {NoSpec} /\ (w.pc \in Under /\ w.stage # Intake => w.spec \in Spec)
Counted == alive \in BOOLEAN /\ starts \in 0..MaxStarts /\ crashes \in 0..MaxCrashes
Furnished == orch \in [Slots -> Tracks] /\ preview \in [Slots -> Previews] /\ Held(worker) /\ Counted

\* The orchestrator knows the stages the queue puts a run at.
LEMMA TrackFacts ==
    /\ {"BLOCKED", "FAILED", "AWAITING_USER", "COMPLETED", "REQUEST_RECEIVED"} \subseteq O!Stage
    /\ {"NORMALIZATION", "INTENT_DECOMPOSITION", "PLANNING_SKELETON", "CLARIFICATION_GATE",
        "DRAFT_SPEC_GENERATION", "COMPILE", "PREVIEW_SIMULATION", "APPROVAL_GATE", "EXECUTION",
        "APPLY_CHANGESET", "POST_APPLY_VERIFICATION", "METRICS_AGGREGATION"} \subseteq O!Stage
<1>1. Len(O!Pipeline) = 15
  BY DEF O!Pipeline
<1>2. \A k \in 1..15 : O!Pipeline[k] \in O!Stage
  BY <1>1 DEF O!InPipeline, O!Stage
<1>3. /\ O!Pipeline[1] = "REQUEST_RECEIVED" /\ O!Pipeline[2] = "NORMALIZATION"
      /\ O!Pipeline[3] = "INTENT_DECOMPOSITION" /\ O!Pipeline[4] = "PLANNING_SKELETON"
      /\ O!Pipeline[5] = "CLARIFICATION_GATE" /\ O!Pipeline[6] = "DRAFT_SPEC_GENERATION"
      /\ O!Pipeline[7] = "COMPILE" /\ O!Pipeline[9] = "PREVIEW_SIMULATION"
      /\ O!Pipeline[10] = "APPROVAL_GATE" /\ O!Pipeline[11] = "EXECUTION"
      /\ O!Pipeline[12] = "APPLY_CHANGESET" /\ O!Pipeline[13] = "POST_APPLY_VERIFICATION"
      /\ O!Pipeline[14] = "METRICS_AGGREGATION" /\ O!Pipeline[15] = "COMPLETED"
  BY DEF O!Pipeline
<1>4. {"BLOCKED", "FAILED", "AWAITING_USER"} \subseteq O!Stage
  BY DEF O!Stage
<1>5. \A i \in {1, 2, 3, 4, 5, 6, 7, 9, 10, 11, 12, 13, 14, 15} : O!Pipeline[i] \in O!Stage
  BY <1>2
<1> HIDE DEF O!Pipeline
<1> QED BY <1>3, <1>4, <1>5

\* What a stage advances the run to is a stage.
LEMMA TargetsTyped == ASSUME NEW k \in Stages PROVE \A i \in DOMAIN Targets[k] : Targets[k][i] \in O!Stage
<1>1. Targets[k] \in {<<"REQUEST_RECEIVED", "NORMALIZATION", "INTENT_DECOMPOSITION">>,
                      <<"PLANNING_SKELETON", "CLARIFICATION_GATE", "DRAFT_SPEC_GENERATION", "COMPILE">>,
                      <<"PREVIEW_SIMULATION">>, <<"APPROVAL_GATE">>, <<"EXECUTION">>,
                      <<"APPLY_CHANGESET", "POST_APPLY_VERIFICATION", "METRICS_AGGREGATION">>, <<>>}
  BY StageFacts DEF Targets, Intake, Parsing, Impact, Gate, TaskExecution, Logging
<1> QED BY <1>1, TrackFacts

LEMMA AdvancedTyped == ASSUME NEW cur \in Tracks, NEW k \in Stages PROVE Advanced(cur, Targets[k]) \in Tracks
<1> DEFINE ts == Targets[k]
<1>1. Targets[k] \in {<<"REQUEST_RECEIVED", "NORMALIZATION", "INTENT_DECOMPOSITION">>,
                      <<"PLANNING_SKELETON", "CLARIFICATION_GATE", "DRAFT_SPEC_GENERATION", "COMPILE">>,
                      <<"PREVIEW_SIMULATION">>, <<"APPROVAL_GATE">>, <<"EXECUTION">>,
                      <<"APPLY_CHANGESET", "POST_APPLY_VERIFICATION", "METRICS_AGGREGATION">>, <<>>}
  BY StageFacts DEF Targets, Intake, Parsing, Impact, Gate, TaskExecution, Logging
<1>2. \A i \in 1..4 : i <= Len(ts) => i \in DOMAIN ts
  BY <1>1
<1>3. \A i \in 1..4 : i <= Len(ts) => ts[i] \in Tracks
  BY <1>2, TargetsTyped DEF Tracks
<1> HIDE DEF ts
<1>4. ASSUME NEW c \in Tracks, NEW i \in 1..4 PROVE AdvancedTo(c, ts, i) \in Tracks
  BY <1>3, <1>4 DEF AdvancedTo
<1>5. AdvancedTo(AdvancedTo(cur, ts, 1), ts, 2) \in Tracks
  BY <1>4
<1>6. AdvancedTo(AdvancedTo(AdvancedTo(AdvancedTo(cur, ts, 1), ts, 2), ts, 3), ts, 4) \in Tracks
  BY <1>4, <1>5
<1> QED BY <1>6 DEF Advanced, ts

\* A slot ends, or a stage does.
LEMMA EndFurnished ==
    ASSUME Typed, Furnished, Here \in Slots, NEW st, NEW stage \in Tracks, SlotEnds(st, stage)
    PROVE  orch' \in [Slots -> Tracks] /\ Held(worker')
<1>1. orch' \in [Slots -> Tracks]
  BY DEF SlotEnds, Furnished
<1>2. worker'.spec = NoSpec /\ worker'.pc = "loop"
  BY DEF SlotEnds, Off
<1> QED BY <1>1, <1>2 DEF Held, Under

LEMMA PassFurnished ==
    ASSUME Typed, Furnished, Here \in Slots, NEW w \in Workers, w.spec \in Spec, Pass(w)
    PROVE  orch' \in [Slots -> Tracks] /\ Held(worker')
<1>1. CASE Stopped
  <2>1. "BLOCKED" \in Tracks
    BY TrackFacts DEF Tracks
  <2> QED BY <1>1, <2>1, EndFurnished DEF Stopped
<1>2. CASE worker' = [w EXCEPT !.stage = NextStage(@, w.spec), !.pc = IF worker.stage = Intake THEN "snapshot" ELSE "enter"]
           /\ orch' = orch
  <2>1. worker'.spec = w.spec
    BY <1>2 DEF Workers
  <2> QED BY <1>2, <2>1 DEF Held, Furnished
<1> QED BY <1>1, <1>2 DEF Pass

\* The worker ends and its slot waits.
LEMMA OffFurnished ==
    ASSUME Furnished, NEW s \in Slots, NEW stage \in Tracks, orch' = [orch EXCEPT ![s] = stage], worker' = Off
    PROVE  orch' \in [Slots -> Tracks] /\ Held(worker')
BY DEF Furnished, Held, Off, Under

LEMMA WorkerFurnishes == ASSUME Typed, Furnished, WorkerStep PROVE Furnished'
<1>1. /\ worker \in Workers /\ (worker.pc \in Under => Here \in Slots /\ worker.stage \in Stages)
      /\ slots \in [Slots -> SlotRecord]
  BY DEF Typed, WorkerTyped, SlotsTyped
<1>2. orch \in [Slots -> Tracks] /\ preview \in [Slots -> Previews] /\ Held(worker) /\ Counted
  BY DEF Furnished
<1>3. {"BLOCKED", "FAILED", "AWAITING_USER", "COMPLETED", "REQUEST_RECEIVED"} \subseteq Tracks
  BY TrackFacts DEF Tracks
<1>4. Counted'
  BY <1>2 DEF Counted, WorkerStep, SkipStoppedSlot, SkipEmptySlot, StartSlot, BeginStage, StageRaises, IntakeSpec,
     TakeSnapshot, ParseSpec, CheckPolicy, PreviewImpact, PassGate, RecordBaseline, FinishStage, CheckPromotion,
     LogRun, FinishQueue, history
<1>5. preview' \in [Slots -> Previews]
  <2>1. CASE UNCHANGED preview
    BY <1>2, <2>1
  <2>2. CASE PreviewImpact
    <3>1. CASE \E v \in {"auto", "pending", "rejected"} : preview' = [preview EXCEPT ![Here] = [status |-> v, held |-> TRUE]]
      <4>1. PICK v \in {"auto", "pending", "rejected"} : preview' = [preview EXCEPT ![Here] = [status |-> v, held |-> TRUE]]
        BY <3>1
      <4>2. [status |-> v, held |-> TRUE] \in Previews
        BY DEF Previews
      <4> QED BY <1>2, <4>1, <4>2
    <3> QED BY <2>1, <2>2, <3>1 DEF PreviewImpact
  <2> QED BY <2>1, <2>2 DEF WorkerStep, SkipStoppedSlot, SkipEmptySlot, StartSlot, BeginStage, StageRaises, IntakeSpec,
     TakeSnapshot, ParseSpec, CheckPolicy, PassGate, RecordBaseline, FinishStage, CheckPromotion, LogRun, FinishQueue
<1>6. worker.pc \in Under /\ worker.stage # Intake => worker.spec \in Spec
  BY <1>2 DEF Held
<1>7. ASSUME Failed, Here \in Slots PROVE orch' \in [Slots -> Tracks] /\ Held(worker')
  BY <1>3, <1>7, EndFurnished DEF Failed
<1>8. ASSUME Pass(worker), worker.pc \in Under, worker.stage # Intake PROVE orch' \in [Slots -> Tracks] /\ Held(worker')
  BY <1>1, <1>6, <1>8, PassFurnished
<1>9. ASSUME NEW w, worker' = w, orch' = orch, w.spec = worker.spec,
             w.pc \in Under => w.stage = Intake \/ (worker.pc \in Under /\ worker.stage # Intake)
      PROVE  orch' \in [Slots -> Tracks] /\ Held(worker')
  BY <1>2, <1>6, <1>9 DEF Held
<1>10. orch' \in [Slots -> Tracks] /\ Held(worker')
  <2>1. CASE SkipStoppedSlot \/ SkipEmptySlot
    <3>1. worker' = [worker EXCEPT !.slot = Here + 1] /\ worker.pc = "loop" /\ orch' = orch
      BY <2>1 DEF SkipStoppedSlot, SkipEmptySlot, At
    <3>2. worker'.spec = worker.spec /\ worker'.pc = "loop"
      BY <1>1, <3>1 DEF Workers
    <3> QED BY <1>9, <3>1, <3>2 DEF Under
  <2>2. CASE StartSlot
    <3>1. Here \in Slots /\ worker' = [worker EXCEPT !.pc = "enter", !.stage = Intake]
      BY <2>2 DEF StartSlot
    <3>2. worker'.spec = worker.spec /\ worker'.stage = Intake
      BY <1>1, <3>1 DEF Workers
    <3>3. orch' \in [Slots -> Tracks]
      BY <1>2, <1>3, <2>2, <3>1 DEF StartSlot
    <3> QED BY <1>2, <3>2, <3>3 DEF Held
  <2>3. CASE BeginStage
    <3>1. worker.pc = "enter" /\ Here \in Slots /\ worker.stage \in Stages
      BY <1>1, <2>3 DEF BeginStage, At, Under
    <3>2. orch' \in [Slots -> Tracks]
      BY <1>2, <2>3, <3>1, AdvancedTyped DEF BeginStage
    <3>3. worker' = [worker EXCEPT !.pc = IF worker.stage = TaskExecution THEN "baseline" ELSE "body"]
      BY <2>3 DEF BeginStage
    <3>4. worker'.spec = worker.spec /\ worker'.stage = worker.stage
      BY <1>1, <3>3 DEF Workers
    <3> QED BY <1>2, <1>6, <3>1, <3>2, <3>4 DEF Held, Under
  <2>4. CASE StageRaises
    BY <1>1, <1>7, <2>4 DEF StageRaises, Under
  <2>5. CASE IntakeSpec
    <3>1. worker.pc = "body" /\ Here \in Slots
      BY <1>1, <2>5 DEF IntakeSpec, AtStage, At, Under
    <3>2. CASE Failed
      BY <1>7, <3>1, <3>2
    <3>3. CASE slots[Here].spec # NoSpec /\ Pass([worker EXCEPT !.spec = slots[Here].spec])
      <4> DEFINE w == [worker EXCEPT !.spec = slots[Here].spec]
      <4>1. slots[Here].spec \in Spec
        BY <1>1, <3>1, <3>3, QueueConstants DEF SlotRecord
      <4>2. w \in Workers
        BY <1>1, <3>1, SpecFacts DEF Workers, SlotRecord
      <4>3. w.spec = slots[Here].spec
        BY <1>1 DEF Workers
      <4>4. Pass(w)
        BY <3>3
      <4> HIDE DEF w
      <4> QED BY <3>1, <4>1, <4>2, <4>3, <4>4, PassFurnished
    <3> QED BY <2>5, <3>2, <3>3 DEF IntakeSpec
  <2>6. CASE TakeSnapshot
    <3> DEFINE sn == IF Resuming(Run) /\ ledger[Run].ws THEN "reused" ELSE "new"
    <3>1. worker' = [worker EXCEPT !.pc = "enter", !.home = Run, !.snap = sn] /\ orch' = orch /\ worker.pc = "snapshot"
      BY <2>6 DEF TakeSnapshot, At
    <3> HIDE DEF sn
    <3>2. worker'.spec = worker.spec /\ worker'.stage = worker.stage
      BY <1>1, <3>1 DEF Workers
    <3> QED BY <1>2, <1>6, <3>1, <3>2 DEF Held, Under
  <2>7. CASE ParseSpec
    <3> DEFINE w == [worker EXCEPT !.risk = slots[Here].spec.risk]
    <3>1. worker.pc = "body" /\ worker.stage = Parsing /\ Here \in Slots /\ Pass(w)
      BY <1>1, <2>7 DEF ParseSpec, AtStage, At, Under
    <3>2. slots[Here].spec \in AnySpec
      BY <1>1, <3>1, SpecFacts DEF SlotRecord
    <3>3. slots[Here].spec.risk \in {"low", "high", "denied"}
      BY <3>2 DEF AnySpec
    <3>4. w \in Workers /\ w.spec = worker.spec
      BY <1>1, <3>3 DEF Workers
    <3> HIDE DEF w
    <3>5. worker.spec \in Spec
      BY <1>6, <3>1 DEF Under, Parsing, Intake
    <3> QED BY <3>1, <3>4, <3>5, PassFurnished
  <2>8. CASE CheckPolicy
    <3> DEFINE w == [worker EXCEPT !.key = Run]
    <3>1. worker.pc = "body" /\ worker.stage = PreExec /\ Here \in Slots
      BY <1>1, <2>8 DEF CheckPolicy, AtStage, At, Under
    <3>2. Run \in Keys
      BY <1>1, <3>1 DEF Run, SlotRecord
    <3>3. w \in Workers /\ w.spec = worker.spec
      BY <1>1, <3>2 DEF Workers
    <3>4. worker.spec \in Spec
      BY <1>6, <3>1 DEF Under, PreExec, Intake
    <3>5. Failed \/ Pass(w) \/ PauseForApproval("execution", "AWAITING_USER")
      BY <2>8 DEF CheckPolicy
    <3> HIDE DEF w
    <3>6. CASE PauseForApproval("execution", "AWAITING_USER")
      BY <1>3, <3>1, <3>6, OffFurnished DEF PauseForApproval
    <3> QED BY <1>7, <3>1, <3>3, <3>4, <3>5, <3>6, PassFurnished
  <2>9. CASE PreviewImpact \/ FinishStage
    <3>1. worker.pc = "body" /\ worker.stage # Intake /\ Pass(worker)
      BY <2>9 DEF PreviewImpact, FinishStage, AtStage, At, Impact, Environment, TaskExecution, Structural, Verification,
         Regression, Outcome, Intake
    <3> QED BY <1>8, <3>1 DEF Under
  <2>10. CASE PassGate
    <3>1. worker.pc = "body" /\ worker.stage = Gate /\ Here \in Slots
      BY <1>1, <2>10 DEF PassGate, AtStage, At, Under
    <3>2. (worker' = Off /\ orch' = [orch EXCEPT ![Here] = "AWAITING_USER"]) \/ Failed \/ Pass(worker)
      BY <2>10 DEF PassGate
    <3> QED BY <1>3, <1>7, <1>8, <3>1, <3>2, OffFurnished DEF Gate, Intake, Under
  <2>11. CASE RecordBaseline
    <3>1. worker.pc = "baseline" /\ Here \in Slots
      BY <1>1, <2>11 DEF RecordBaseline, At, Under
    <3>2. CASE worker' = [worker EXCEPT !.pc = "body"] /\ orch' = orch
      <4>1. worker'.spec = worker.spec /\ worker'.stage = worker.stage
        BY <1>1, <3>2 DEF Workers
      <4> QED BY <1>2, <1>6, <3>1, <3>2, <4>1 DEF Held, Under
    <3> QED BY <1>7, <2>11, <3>1, <3>2 DEF RecordBaseline
  <2>12. CASE CheckPromotion
    <3> DEFINE w == [worker EXCEPT !.spec.dry = TRUE]
    <3>1. worker.pc = "body" /\ worker.stage = PrePromote /\ Here \in Slots
      BY <1>1, <2>12 DEF CheckPromotion, AtStage, At, Under
    <3>2. worker.spec \in Spec /\ worker.spec \in AnySpec
      BY <1>1, <1>6, <3>1 DEF Under, PrePromote, Intake, Workers
    <3>3. [worker.spec EXCEPT !.dry = TRUE] \in Spec
      BY <3>2 DEF Spec
    <3>4. [worker.spec EXCEPT !.dry = TRUE] \in AnySpec
      BY <3>2 DEF AnySpec
    <3>5. w \in Workers /\ w.spec = [worker.spec EXCEPT !.dry = TRUE]
      BY <1>1, <3>4 DEF Workers
    <3>6. Pass(worker) \/ Pass(w) \/ PauseForApproval("promotion", orch[Here])
      BY <2>12 DEF CheckPromotion
    <3> HIDE DEF w
    <3>7. CASE PauseForApproval("promotion", orch[Here])
      BY <1>2, <3>1, <3>7, OffFurnished DEF PauseForApproval
    <3> QED BY <1>1, <3>1, <3>2, <3>3, <3>5, <3>6, <3>7, PassFurnished
  <2>13. CASE LogRun
    <3>1. worker.pc = "body" /\ Here \in Slots /\ (Stopped \/ SlotEnds("completed", "COMPLETED") \/ Failed)
      BY <1>1, <2>13 DEF LogRun, AtStage, At, Under
    <3> QED BY <1>3, <1>7, <3>1, EndFurnished DEF Stopped
  <2>14. CASE FinishQueue
    BY <1>2, <2>14 DEF FinishQueue, Held, Off, Under
  <2> QED BY <2>1, <2>2, <2>3, <2>4, <2>5, <2>6, <2>7, <2>8, <2>9, <2>10, <2>11, <2>12, <2>13, <2>14 DEF WorkerStep
<1> QED BY <1>4, <1>5, <1>10 DEF Furnished

LEMMA OthersFurnish == ASSUME Typed, Furnished, UserStep \/ HandleMessage \/ Crash \/ StartupRecovery PROVE Furnished'
<1>1. orch \in [Slots -> Tracks] /\ preview \in [Slots -> Previews] /\ Held(worker) /\ Counted /\ MaxStarts \in Nat /\ MaxCrashes \in Nat
  BY QueueConstants DEF Furnished
<1>2. ASSUME NEW sl, NEW r, StartQueueWith(sl, r), preview' \in [Slots -> Previews] PROVE Furnished'
  <2>1. orch' = orch /\ alive' = alive /\ crashes' = crashes
    BY <1>2 DEF StartQueueWith
  <2>2. Held(worker') /\ starts' \in 0..MaxStarts
    <3>1. CASE NotStarted(sl)
      BY <1>1, <3>1 DEF NotStarted, Counted
    <3>2. CASE Started(sl, r)
      <4>1. worker'.spec = NoSpec /\ worker'.pc = "loop"
        BY <3>2 DEF Started, Off
      <4>2. starts' \in 0..MaxStarts
        BY <1>1, <3>2 DEF Started, Counted
      <4> QED BY <4>1, <4>2 DEF Held, Under
    <3> QED BY <1>2, <3>1, <3>2 DEF StartQueueWith
  <2> QED BY <1>1, <1>2, <2>1, <2>2 DEF Furnished, Counted
<1>3. ASSUME UNCHANGED <<orch, worker, alive, starts, crashes>>, preview' \in [Slots -> Previews] PROVE Furnished'
  BY <1>1, <1>3 DEF Furnished, Counted
<1>4. ASSUME NEW status \in {"approved", "rejected"}, Judged(status) PROVE preview' \in [Slots -> Previews]
  <2>1. shown.slot \in 0..N /\ Slots = 1..N /\ N \in Nat
    BY StageFacts DEF Typed, UiTyped
  <2>2. CASE preview' = [preview EXCEPT ![shown.slot].status = status] /\ shown.slot # 0
    <3>1. shown.slot \in Slots /\ preview[shown.slot] \in Previews
      BY <1>1, <2>1, <2>2
    <3>2. [preview[shown.slot] EXCEPT !.status = status] \in Previews
      BY <3>1 DEF Previews
    <3> QED BY <1>1, <2>2, <3>2
  <2> QED BY <1>1, <1>4, <2>2 DEF Judged
<1>5. CASE UserStep
  <2>1. CASE StartQueue
    BY <1>1, <1>2, <2>1 DEF StartQueue
  <2>2. CASE StopQueue
    BY <1>1, <1>3, <2>2 DEF StopQueue, history
  <2>3. CASE ApproveImpact
    BY <1>2, <1>4, <2>3 DEF ApproveImpact
  <2>4. CASE RejectImpact
    BY <1>3, <1>4, <2>4 DEF RejectImpact, history
  <2>5. ASSUME NEW s \in Slots, SubmitSpec(s) \/ ClearSlot(s) PROVE Furnished'
    BY <1>1, <1>3, <2>5 DEF SubmitSpec, ClearSlot, history
  <2>6. ASSUME NEW s \in Slots, EditSpec(s) PROVE Furnished'
    <3>1. [preview[s] EXCEPT !.held = FALSE] \in Previews
      BY <1>1 DEF Previews
    <3>2. preview' \in [Slots -> Previews]
      BY <1>1, <2>6, <3>1 DEF EditSpec
    <3> QED BY <1>3, <2>6, <3>2 DEF EditSpec, history
  <2>7. ASSUME NEW s \in Slots, TriggerRerun(s) \/ ResumeRun(s) PROVE Furnished'
    BY <1>1, <1>2, <2>7 DEF TriggerRerun, ResumeRun
  <2>8. ASSUME NEW s \in Slots, ReplayRun(s) PROVE Furnished'
    BY <1>1, <1>3, <2>8 DEF ReplayRun, memory, history
  <2>9. ASSUME NEW r \in Keys, NEW gate \in {"execution", "promotion"}, Decide(r, gate) PROVE Furnished'
    BY <1>1, <1>3, <2>9 DEF Decide, memory, history
  <2> QED BY <1>5, <2>1, <2>2, <2>3, <2>4, <2>5, <2>6, <2>7, <2>8, <2>9 DEF UserStep
<1>6. CASE HandleMessage
  BY <1>1, <1>3, <1>6 DEF HandleMessage, history
<1>7. CASE Crash
  <2>1. alive' = FALSE /\ crashes < MaxCrashes /\ crashes' = crashes + 1 /\ starts' = starts
    BY <1>7 DEF Crash
  <2>2. crashes \in 0..MaxCrashes /\ starts \in 0..MaxStarts
    BY <1>1 DEF Counted
  <2>3. Counted'
    <3>1. MaxCrashes \in Nat
      BY <1>1
    <3>2. crashes' \in 0..MaxCrashes
      BY <2>1, <2>2, <3>1
    <3> QED BY <2>1, <2>2, <3>2 DEF Counted
  <2>4. orch' = orch /\ preview' = preview /\ worker' = worker
    BY <1>7 DEF Crash, memory
  <2> QED BY <1>1, <2>3, <2>4 DEF Furnished
<1>8. CASE StartupRecovery
  <2>1. NoPreview \in Previews /\ "none" \in Tracks
    BY DEF NoPreview, Previews, Tracks
  <2>2. Held(worker')
    BY <1>8 DEF StartupRecovery, Held, Off, Under
  <2>3. orch' \in [Slots -> Tracks] /\ preview' \in [Slots -> Previews]
    BY <1>8, <2>1, Zenon DEF StartupRecovery
  <2>4. Counted'
    BY <1>1, <1>8 DEF StartupRecovery, Counted
  <2> QED BY <2>2, <2>3, <2>4 DEF Furnished
<1> QED BY <1>5, <1>6, <1>7, <1>8

\* Every variable has its type in every reachable state of any queue: in
\* particular the worker never holds a spec that is no spec, and a run is
\* never at a stage the orchestrator does not know.
THEOREM QueueTypeCorrect == QueueSpec => []TypeOK
<1>1. Init => Furnished
  <2> SUFFICES ASSUME Init PROVE Furnished
    OBVIOUS
  <2>1. NoPreview \in Previews /\ "none" \in Tracks
    BY DEF NoPreview, Previews, Tracks
  <2>2. Held(worker)
    BY DEF Init, Held, Off, Under
  <2>3. orch \in [Slots -> Tracks] /\ preview \in [Slots -> Previews]
    <3>1. orch = [s \in Slots |-> "none"] /\ preview = [s \in Slots |-> NoPreview]
      BY DEF Init
    <3> QED BY <2>1, <3>1
  <2>4. Counted
    <3>1. alive = TRUE /\ starts = 0 /\ crashes = 0
      BY DEF Init
    <3>2. MaxStarts \in Nat /\ MaxCrashes \in Nat
      BY QueueConstants
    <3> QED BY <3>1, <3>2 DEF Counted
  <2> QED BY <2>2, <2>3, <2>4 DEF Furnished
<1>2. Typed /\ Furnished /\ [Next]_vars => Furnished'
  <2> SUFFICES ASSUME Typed, Furnished, [Next]_vars PROVE Furnished'
    OBVIOUS
  <2>1. CASE UNCHANGED vars
    BY <2>1 DEF vars, memory, history, Furnished, Counted
  <2> QED BY <2>1, WorkerFurnishes, OthersFurnish DEF Next
<1>3. Typed /\ Furnished => TypeOK
  <2> SUFFICES ASSUME Typed, Furnished PROVE TypeOK
    OBVIOUS
  <2>1. orch \in [Slots -> O!Stage \cup {"none"}]
    BY DEF Furnished, Tracks
  <2>2. preview \in [Slots -> [status : {"none", "auto", "pending", "approved", "rejected"}, held : BOOLEAN]]
    BY DEF Furnished, Previews
  <2>3. worker \in [pc : {"off", "loop", "enter", "snapshot", "baseline", "body"}, slot : 0..(N + 1),
                    stage : 0..Logging, spec : Spec \cup {NoSpec}, risk : {"low", "high", "denied"},
                    key : Keys, home : Keys, snap : {"none", "new", "reused"}, resumes : Keys]
    <3>1. worker \in Workers /\ worker.spec \in Spec \cup {NoSpec}
      BY DEF Furnished, Held, Typed, WorkerTyped
    <3> QED BY <3>1 DEF Workers, Pcs, Under, Levels
  <2>4. worker.pc \in {"enter", "snapshot", "baseline", "body"} => Here \in Slots /\ worker.stage \in Stages
    BY DEF Typed, WorkerTyped, Under
  <2>5. slots \in [Slots -> [spec : Specs \cup {NoSpec}, run : Keys,
             status : {"empty", "ready", "running", "completed", "failed", "stopped", "interrupted"}]]
    BY DEF Typed, SlotsTyped, SlotRecord, SlotStates
  <2>6. /\ shown \in [slot : 0..N, enabled : BOOLEAN] /\ queueActive \in BOOLEAN /\ stopRequested \in BOOLEAN
        /\ msgs \in Seq([kind : {"paused", "finished", "preview"}, slot : 0..N, required : BOOLEAN])
    BY DEF Typed, UiTyped, Messages
  <2>7. /\ ledger \in [Keys -> [state : {DurableState[k] : k \in Stages} \cup {"SNAPSHOT_READY", "INTERRUPTED"},
                                slot : 0..N, ws : BOOLEAN]]
        /\ approvals \in [Keys -> [{"execution", "promotion"} -> {"none", "pending", "approved", "denied"}]]
        /\ queueDef \in [state : {"none", "RUNNING", "COMPLETED", "INTERRUPTED"}, specs : [Slots -> Specs \cup {NoSpec}]]
    BY DEF Typed, DiskTyped, SlotsTyped, Entries, Gates, Words
  <2>8. alive \in BOOLEAN /\ starts \in 0..MaxStarts /\ crashes \in 0..MaxCrashes
    BY DEF Furnished, Counted
  <2> QED BY <2>1, <2>2, <2>3, <2>4, <2>5, <2>6, <2>7, <2>8 DEF TypeOK
<1> QED BY <1>1, <1>2, <1>3, TypedInvariant, PTL DEF QueueSpec

-----------------------------------------------------------------------------
(* One worker.                                                             *)

LEMMA EndsOfAppend ==
    ASSUME msgs \in Seq(Messages), NEW m \in Messages, msgs' = Append(msgs, m)
    PROVE  EndMessages' = IF m.kind = "preview" THEN EndMessages ELSE EndMessages \cup {Len(msgs) + 1}
<1>1. /\ DOMAIN msgs = 1..Len(msgs) /\ DOMAIN msgs' = 1..(Len(msgs) + 1) /\ Len(msgs) \in Nat
      /\ \A i \in 1..Len(msgs) : msgs'[i] = msgs[i]
      /\ msgs'[Len(msgs) + 1] = m
  OBVIOUS
<1> QED BY <1>1 DEF EndMessages

\* Taking the head of the UI queue moves the end messages one forward.
LEMMA EndsOfTail ==
    ASSUME msgs \in Seq(Messages), msgs # <<>>, msgs' = Tail(msgs)
    PROVE  \A i \in EndMessages' : i \in Nat \ {0} /\ i + 1 \in EndMessages
<1>1. /\ DOMAIN msgs = 1..Len(msgs) /\ DOMAIN msgs' = 1..(Len(msgs) - 1) /\ Len(msgs) \in Nat \ {0}
      /\ \A i \in 1..(Len(msgs) - 1) : msgs'[i] = msgs[i + 1]
  OBVIOUS
<1> QED BY <1>1 DEF EndMessages

\* A step of the worker is one of a worker there is; it tells the UI of its
\* end at most, and then ends.
LEMMA WorkerSpeaks ==
    ASSUME Typed, WorkerStep
    PROVE  /\ alive /\ worker.pc # "off" /\ queueActive' = queueActive /\ stopRequested' = stopRequested
           /\ \/ msgs' = msgs
              \/ \E m \in Messages : m.kind = "preview" /\ msgs' = Append(msgs, m)
              \/ worker'.pc = "off" /\ \E m \in Messages : msgs' = Append(msgs, m)
<1>1. worker.pc \in Under => Here \in 0..N
  BY StageFacts DEF Typed, WorkerTyped
<1>2. alive /\ worker.pc # "off"
  BY DEF WorkerStep, SkipStoppedSlot, SkipEmptySlot, StartSlot, BeginStage, StageRaises, IntakeSpec, TakeSnapshot,
         ParseSpec, CheckPolicy, PreviewImpact, PassGate, RecordBaseline, FinishStage, CheckPromotion, LogRun,
         FinishQueue, At, AtStage
<1>3. queueActive' = queueActive /\ stopRequested' = stopRequested
  BY DEF WorkerStep, SkipStoppedSlot, SkipEmptySlot, StartSlot, BeginStage, StageRaises, IntakeSpec, TakeSnapshot,
         ParseSpec, CheckPolicy, PreviewImpact, PassGate, RecordBaseline, FinishStage, CheckPromotion, LogRun,
         FinishQueue, uiState
<1>4. Message("finished") \in Messages /\ Message("paused") \in Messages /\ Off.pc = "off"
  BY StageFacts DEF Message, Messages, Off
<1>5. \A v \in {"auto", "pending", "rejected"} : worker.pc \in Under =>
        /\ [kind |-> "preview", slot |-> Here, required |-> v # "auto"] \in Messages
        /\ [kind |-> "preview", slot |-> Here, required |-> v # "auto"].kind = "preview"
  BY <1>1 DEF Messages
<1>6. PreviewImpact => msgs' = msgs \/ \E m \in Messages : m.kind = "preview" /\ msgs' = Append(msgs, m)
  <2> SUFFICES ASSUME PreviewImpact, ~preview[Here].held
               PROVE  \E m \in Messages : m.kind = "preview" /\ msgs' = Append(msgs, m)
    BY DEF PreviewImpact
  <2>1. PICK v \in {"auto", "pending", "rejected"} :
          msgs' = Append(msgs, [kind |-> "preview", slot |-> Here, required |-> v # "auto"])
    BY DEF PreviewImpact
  <2>2. worker.pc \in Under
    BY DEF PreviewImpact, AtStage, At, Under
  <2> QED BY <1>5, <2>1, <2>2
<1>7. CheckPolicy \/ CheckPromotion \/ FinishQueue => msgs' = msgs \/ (worker'.pc = "off" /\ \E m \in Messages : msgs' = Append(msgs, m))
  BY <1>4 DEF CheckPolicy, CheckPromotion, FinishQueue, PauseForApproval
<1>8. WorkerStep => msgs' = msgs \/ PreviewImpact \/ CheckPolicy \/ CheckPromotion \/ FinishQueue
  BY DEF WorkerStep, SkipStoppedSlot, SkipEmptySlot, StartSlot, BeginStage, StageRaises, IntakeSpec, TakeSnapshot,
         ParseSpec, PassGate, RecordBaseline, FinishStage, LogRun
<1> QED BY <1>2, <1>3, <1>6, <1>7, <1>8

\* No second worker (WorkerAccounted), for any number of slots, starts and
\* crashes: start_queue acts only when queue_active is clear, and only the one
\* message a worker leaves when it ends clears it.
THEOREM OneWorker == QueueSpec => []WorkerAccounted
<1>1. Init => WorkerAccounted
  <2> SUFFICES ASSUME Init PROVE WorkerAccounted
    OBVIOUS
  <2>1. worker.pc = "off" /\ msgs = <<>>
    BY DEF Init, Off
  <2> QED BY <2>1 DEF WorkerAccounted, EndMessages
<1>2. Typed /\ WorkerAccounted /\ [Next]_vars => WorkerAccounted'
  <2> SUFFICES ASSUME Typed, WorkerAccounted, [Next]_vars PROVE WorkerAccounted'
    OBVIOUS
  <2>1. msgs \in Seq(Messages) /\ queueActive \in BOOLEAN
    BY DEF Typed, UiTyped
  <2>2. CASE UNCHANGED <<worker, queueActive, msgs>>
    BY <2>2 DEF WorkerAccounted, EndMessages
  <2>3. CASE WorkerStep
    <3>1. queueActive /\ queueActive' /\ EndMessages = {}
      BY <2>3, WorkerSpeaks DEF WorkerAccounted
    <3>2. CASE msgs' = msgs
      BY <3>1, <3>2 DEF WorkerAccounted, EndMessages
    <3>3. CASE \E m \in Messages : m.kind = "preview" /\ msgs' = Append(msgs, m)
      <4>1. EndMessages' = {}
        BY <2>1, <3>1, <3>3, EndsOfAppend
      <4> QED BY <3>1, <4>1 DEF WorkerAccounted
    <3>4. CASE worker'.pc = "off" /\ \E m \in Messages : msgs' = Append(msgs, m)
      <4>1. EndMessages' \subseteq {Len(msgs) + 1}
        BY <2>1, <3>1, <3>4, EndsOfAppend
      <4> QED BY <3>1, <3>4, <4>1 DEF WorkerAccounted
    <3> QED BY <2>3, <3>2, <3>3, <3>4, WorkerSpeaks
  <2>4. ASSUME NEW sl, NEW r, StartQueueWith(sl, r) PROVE WorkerAccounted'
    <3>1. CASE NotStarted(sl)
      BY <2>2, <2>4, <3>1 DEF NotStarted, StartQueueWith
    <3>2. CASE ~queueActive /\ Started(sl, r)
      <4>1. EndMessages = {} /\ msgs' = msgs /\ queueActive'
        BY <2>4, <3>2 DEF StartQueueWith, Started, WorkerAccounted
      <4> QED BY <4>1 DEF WorkerAccounted, EndMessages
    <3> QED BY <2>4, <3>1, <3>2 DEF StartQueueWith
  <2>5. CASE UserStep
    <3>1. UNCHANGED <<worker, queueActive, msgs>> \/ \E sl, r : StartQueueWith(sl, r)
      BY <2>5 DEF UserStep, StartQueue, StopQueue, ApproveImpact, RejectImpact, SubmitSpec, ClearSlot, EditSpec,
                  TriggerRerun, ResumeRun, ReplayRun, Decide, uiState, memory
    <3> QED BY <2>2, <2>4, <3>1
  <2>6. CASE HandleMessage
    <3>1. \A i \in EndMessages' : i \in Nat \ {0} /\ i + 1 \in EndMessages
      BY <2>1, <2>6, EndsOfTail DEF HandleMessage
    <3>2. worker' = worker
      BY <2>6 DEF HandleMessage
    <3>3. CASE Head(msgs).kind # "preview"
      <4>1. 1 \in EndMessages
        BY <2>1, <2>6, <3>3 DEF HandleMessage, EndMessages
      <4>2. EndMessages' = {} /\ worker.pc = "off"
        BY <3>1, <4>1 DEF WorkerAccounted
      <4> QED BY <3>2, <4>2 DEF WorkerAccounted
    <3>4. CASE Head(msgs).kind = "preview"
      <4>1. queueActive' = queueActive
        BY <2>6, <3>4 DEF HandleMessage
      <4>2. \A i, j \in EndMessages' : i = j
        BY <3>1 DEF WorkerAccounted
      <4>3. EndMessages' # {} => EndMessages # {}
        BY <3>1
      <4> QED BY <3>2, <4>1, <4>2, <4>3 DEF WorkerAccounted
    <3> QED BY <3>3, <3>4
  <2>7. CASE Crash
    BY <2>2, <2>7 DEF Crash, memory
  <2>8. CASE StartupRecovery
    BY <2>8 DEF StartupRecovery, Off, WorkerAccounted, EndMessages
  <2>9. CASE UNCHANGED vars
    BY <2>2, <2>9 DEF vars, memory
  <2> QED BY <2>3, <2>5, <2>6, <2>7, <2>8, <2>9 DEF Next
<1> QED BY <1>1, <1>2, TypedInvariant, PTL DEF QueueSpec

-----------------------------------------------------------------------------
(* A stop is heeded.                                                       *)

\* Stages begun since the stop request, by where the worker is: check_stop ends
\* the slot at the end of the stage, except at the gate, which lets one more
\* stage begin.
Heeded ==
  /\ afterStop \in 0..2 /\ (~stopRequested => afterStop = 0)
  /\ worker.pc = "snapshot" => afterStop = 0
  /\ worker.pc = "enter" /\ worker.stage # TaskExecution => afterStop = 0
  /\ worker.pc = "enter" => afterStop <= 1
  /\ worker.pc \in {"body", "baseline"} /\ worker.stage # TaskExecution => afterStop <= 1

\* What the end of a stage leaves.
LEMMA PassHeeds ==
    ASSUME Typed, Heeded, worker.pc = "body", worker.stage # Logging, UNCHANGED <<afterStop, stopRequested>>,
           NEW w \in Workers, w.stage = worker.stage, Pass(w)
    PROVE  Heeded'
<1>1. worker.stage \in 1..12
  BY StageFacts DEF Typed, WorkerTyped, Under
<1>2. CASE Stopped
  <2>1. worker'.pc = "loop"
    BY <1>2 DEF Stopped, SlotEnds, Off
  <2> QED BY <2>1 DEF Heeded
<1>3. CASE /\ ~(stopRequested /\ ChecksStop(worker.stage))
           /\ worker' = [w EXCEPT !.stage = NextStage(@, w.spec), !.pc = IF worker.stage = Intake THEN "snapshot" ELSE "enter"]
  <2>1. worker'.pc \in {"enter", "snapshot"} /\ worker'.stage = NextStage(worker.stage, w.spec)
    BY <1>3 DEF Workers
  <2>2. CASE ~stopRequested
    BY <2>1, <2>2 DEF Heeded
  <2>3. CASE worker.stage = Gate
    <3>1. worker'.stage = TaskExecution /\ worker'.pc = "enter"
      BY <1>3, <2>1, <2>3 DEF NextStage, Gate, Environment, TaskExecution, Intake, Workers
    <3>2. afterStop <= 1
      BY <2>3 DEF Heeded, Gate, TaskExecution
    <3> QED BY <3>1, <3>2 DEF Heeded
  <2> QED BY <1>3, <2>2, <2>3 DEF ChecksStop
<1> QED BY <1>2, <1>3 DEF Pass

\* Every step of the worker counts the stages begun after a stop.
LEMMA WorkerHeeds == ASSUME Typed, Heeded, WorkerStep PROVE Heeded'
<1>1. worker \in Workers /\ (worker.pc \in Under => Here \in Slots /\ worker.stage \in Stages) /\ slots \in [Slots -> SlotRecord]
  BY DEF Typed, WorkerTyped, SlotsTyped
<1>2. stopRequested' = stopRequested
  BY WorkerSpeaks
<1>3. ASSUME NEW status, NEW stage, SlotEnds(status, stage), afterStop' = afterStop PROVE Heeded'
  BY <1>2, <1>3 DEF SlotEnds, Off, Heeded
<1>4. ASSUME worker' = Off, afterStop' = afterStop PROVE Heeded'
  BY <1>2, <1>4 DEF Off, Heeded
<1>5. CASE SkipStoppedSlot \/ SkipEmptySlot
  <2>1. worker'.pc = "loop" /\ afterStop' = afterStop
    BY <1>1, <1>5 DEF SkipStoppedSlot, SkipEmptySlot, At, Workers, history
  <2> QED BY <1>2, <2>1 DEF Heeded
<1>6. CASE StartSlot
  <2>1. afterStop' = afterStop /\ worker'.pc = "enter" /\ ~stopRequested
    BY <1>1, <1>6 DEF StartSlot, history, Workers
  <2> QED BY <1>2, <2>1 DEF Heeded
<1>7. CASE BeginStage
  <2>1. /\ worker.pc = "enter" /\ worker'.pc \in {"baseline", "body"} /\ worker'.stage = worker.stage
        /\ afterStop' = IF stopRequested THEN afterStop + 1 ELSE 0
    BY <1>1, <1>7 DEF BeginStage, At, Workers
  <2> QED BY <1>2, <2>1 DEF Heeded
<1>8. CASE StageRaises
  BY <1>3, <1>8 DEF StageRaises, Failed, history
<1>9. CASE TakeSnapshot
  <2>1. worker.pc = "snapshot" /\ worker'.pc = "enter" /\ afterStop' = afterStop
    BY <1>1, <1>9 DEF TakeSnapshot, At, Workers, history
  <2> QED BY <1>2, <2>1 DEF Heeded
<1>10. CASE RecordBaseline
  <2>1. worker.pc = "baseline" /\ afterStop' = afterStop
    BY <1>10 DEF RecordBaseline, At, history
  <2>2. CASE worker' = [worker EXCEPT !.pc = "body"]
    <3>1. worker'.pc = "body" /\ worker'.stage = worker.stage
      BY <1>1, <2>2 DEF Workers
    <3> QED BY <1>2, <2>1, <3>1 DEF Heeded
  <2> QED BY <1>3, <1>10, <2>1, <2>2 DEF RecordBaseline, Failed
<1>11. CASE LogRun
  BY <1>3, <1>11 DEF LogRun, Stopped, Failed, history
<1>12. CASE FinishQueue
  BY <1>4, <1>12 DEF FinishQueue, history
<1>13. CASE IntakeSpec \/ ParseSpec \/ CheckPolicy \/ PreviewImpact \/ PassGate \/ FinishStage \/ CheckPromotion
  <2>1. /\ worker.pc = "body" /\ worker.stage # Logging /\ UNCHANGED <<afterStop, stopRequested>> /\ Here \in Slots
    BY <1>1, <1>2, <1>13 DEF IntakeSpec, ParseSpec, CheckPolicy, PreviewImpact, PassGate, FinishStage, CheckPromotion,
       AtStage, At, history, Intake, Parsing, PreExec, Impact, Gate, Environment, TaskExecution, Structural,
       Verification, Regression, Outcome, PrePromote, Logging, Under
  <2>2. slots[Here].spec \in AnySpec /\ Run \in Keys /\ worker.spec \in AnySpec
    BY <1>1, <2>1, SpecFacts DEF SlotRecord, Run, Workers
  <2>3. /\ [worker EXCEPT !.spec = slots[Here].spec] \in Workers
        /\ [worker EXCEPT !.spec = slots[Here].spec].stage = worker.stage
    BY <1>1, <2>2 DEF Workers
  <2>4. slots[Here].spec.risk \in {"low", "high", "denied"} /\ [worker.spec EXCEPT !.dry = TRUE] \in AnySpec
    BY <2>2 DEF AnySpec
  <2>5. /\ [worker EXCEPT !.risk = slots[Here].spec.risk] \in Workers
        /\ [worker EXCEPT !.risk = slots[Here].spec.risk].stage = worker.stage
    BY <1>1, <2>4 DEF Workers
  <2>6. [worker EXCEPT !.key = Run] \in Workers /\ [worker EXCEPT !.key = Run].stage = worker.stage
    BY <1>1, <2>2 DEF Workers
  <2>7. [worker EXCEPT !.spec.dry = TRUE] \in Workers /\ [worker EXCEPT !.spec.dry = TRUE].stage = worker.stage
    BY <1>1, <2>4 DEF Workers
  <2>8. \/ \E st, stage : SlotEnds(st, stage)
        \/ worker' = Off
        \/ Pass(worker) \/ Pass([worker EXCEPT !.spec = slots[Here].spec])
        \/ Pass([worker EXCEPT !.risk = slots[Here].spec.risk]) \/ Pass([worker EXCEPT !.key = Run])
        \/ Pass([worker EXCEPT !.spec.dry = TRUE])
    BY <1>13 DEF IntakeSpec, ParseSpec, CheckPolicy, PreviewImpact, PassGate, FinishStage, CheckPromotion, Failed,
       PauseForApproval
  <2> QED BY <1>1, <1>3, <1>4, <2>1, <2>3, <2>5, <2>6, <2>7, <2>8, PassHeeds
<1> QED BY <1>5, <1>6, <1>7, <1>8, <1>9, <1>10, <1>11, <1>12, <1>13 DEF WorkerStep

\* "Stop execution after the current slot finishes or reaches a safe boundary"
\* (StopBounded): at most two stages begin after the request, wherever in the
\* pipeline it came.
THEOREM StopIsHeeded == QueueSpec => []StopBounded
<1>1. Init => Heeded
  <2> SUFFICES ASSUME Init PROVE Heeded
    OBVIOUS
  <2>1. worker.pc = "off" /\ afterStop = 0
    BY DEF Init, Off
  <2> QED BY <2>1 DEF Heeded
<1>2. Typed /\ Heeded /\ [Next]_vars => Heeded'
  <2> SUFFICES ASSUME Typed, Heeded, [Next]_vars PROVE Heeded'
    OBVIOUS
  <2>1. CASE UNCHANGED <<worker, afterStop, stopRequested>>
    BY <2>1 DEF Heeded
  <2>2. CASE worker' = worker /\ stopRequested' /\ afterStop' = afterStop
    BY <2>2 DEF Heeded
  <2>3. ASSUME NEW sl, NEW r, StartQueueWith(sl, r) PROVE Heeded'
    <3>1. CASE NotStarted(sl)
      BY <2>1, <3>1 DEF NotStarted
    <3>2. CASE Started(sl, r)
      <4>1. worker'.pc = "loop" /\ afterStop' = 0
        BY <3>2 DEF Started, Off
      <4> QED BY <4>1 DEF Heeded
    <3> QED BY <2>3, <3>1, <3>2 DEF StartQueueWith
  <2>4. CASE UserStep
    <3>1. \/ UNCHANGED <<worker, afterStop, stopRequested>>
          \/ worker' = worker /\ stopRequested' /\ afterStop' = afterStop
          \/ \E sl, r : StartQueueWith(sl, r)
      BY <2>4 DEF UserStep, StartQueue, StopQueue, ApproveImpact, RejectImpact, SubmitSpec, ClearSlot, EditSpec,
                  TriggerRerun, ResumeRun, ReplayRun, Decide, uiState, memory, history
    <3> QED BY <2>1, <2>2, <2>3, <3>1
  <2>5. CASE HandleMessage \/ Crash
    BY <2>1, <2>5 DEF HandleMessage, Crash, memory, history
  <2>6. CASE StartupRecovery
    <3>1. worker'.pc = "off" /\ afterStop' = 0
      BY <2>6 DEF StartupRecovery, Off
    <3> QED BY <3>1 DEF Heeded
  <2>7. CASE UNCHANGED vars
    BY <2>1, <2>7 DEF vars, memory, history
  <2> QED BY <2>4, <2>5, <2>6, <2>7, WorkerHeeds DEF Next
<1>3. Heeded => StopBounded
  BY DEF Heeded, StopBounded
<1> QED BY <1>1, <1>2, <1>3, TypedInvariant, PTL DEF QueueSpec

-----------------------------------------------------------------------------
(* No risky task without its approval.                                     *)

ClearedFor(w) == w.risk # "denied" /\ (w.risk = "high" => Granted(w.key, "execution"))

\* From the end of the policy check on, not only while tasks are under way.
Cleared == worker.pc \in Under /\ worker.stage > PreExec => ClearedFor(worker)

\* The end of a stage keeps the clearance, or comes from the check itself.
LEMMA PassClears ==
    ASSUME Typed, worker.pc = "body", worker.stage # Logging, approvals' = approvals,
           NEW w \in Workers, w.stage = worker.stage, Pass(w), worker.stage >= PreExec => ClearedFor(w)
    PROVE  Cleared'
<1>1. worker.stage \in 1..12
  BY StageFacts DEF Typed, WorkerTyped, Under
<1>2. CASE Stopped
  <2>1. worker'.pc = "loop"
    BY <1>2 DEF Stopped, SlotEnds, Off
  <2> QED BY <2>1 DEF Cleared, Under
<1>3. CASE worker' = [w EXCEPT !.stage = NextStage(@, w.spec), !.pc = IF worker.stage = Intake THEN "snapshot" ELSE "enter"]
  <2>1. worker'.risk = w.risk /\ worker'.key = w.key /\ worker'.stage = NextStage(worker.stage, w.spec)
    BY <1>3 DEF Workers
  <2>2. worker.stage < PreExec => ~(worker'.stage > PreExec)
    BY <1>1, <2>1 DEF NextStage, PreExec, Environment
  <2>3. worker.stage < PreExec \/ worker.stage >= PreExec
    BY <1>1 DEF PreExec
  <2> QED BY <2>1, <2>2, <2>3 DEF Cleared, ClearedFor, Granted
<1> QED BY <1>2, <1>3 DEF Pass

\* Every step of the worker keeps the clearance.
LEMMA WorkerStaysCleared == ASSUME Typed, Cleared, WorkerStep PROVE Cleared'
<1>1. worker \in Workers /\ (worker.pc \in Under => Here \in Slots /\ worker.stage \in Stages) /\ slots \in [Slots -> SlotRecord]
  BY DEF Typed, WorkerTyped, SlotsTyped
<1>2. ASSUME NEW status, NEW stage, SlotEnds(status, stage) PROVE Cleared'
  BY <1>2 DEF SlotEnds, Off, Cleared, Under
<1>3. ASSUME worker' = Off PROVE Cleared'
  BY <1>3 DEF Off, Cleared, Under
<1>4. CASE SkipStoppedSlot \/ SkipEmptySlot
  <2>1. worker'.pc = "loop"
    BY <1>1, <1>4 DEF SkipStoppedSlot, SkipEmptySlot, At, Workers
  <2> QED BY <2>1 DEF Cleared, Under
<1>5. CASE StartSlot
  <2>1. worker'.stage = Intake
    BY <1>1, <1>5 DEF StartSlot, Workers
  <2> QED BY <2>1 DEF Cleared, Intake, PreExec
<1>6. CASE BeginStage \/ TakeSnapshot \/ (RecordBaseline /\ worker' = [worker EXCEPT !.pc = "body"])
  <2>1. worker.pc \in Under /\ worker'.stage = worker.stage /\ worker'.risk = worker.risk /\ worker'.key = worker.key
    BY <1>1, <1>6 DEF BeginStage, TakeSnapshot, RecordBaseline, At, Workers, Under
  <2>2. approvals' = approvals
    BY <1>6 DEF BeginStage, TakeSnapshot, RecordBaseline, disk
  <2> QED BY <2>1, <2>2 DEF Cleared, ClearedFor, Granted
<1>7. CASE StageRaises \/ LogRun \/ (RecordBaseline /\ Failed)
  BY <1>2, <1>7 DEF StageRaises, LogRun, Stopped, Failed
<1>8. CASE FinishQueue
  BY <1>3, <1>8 DEF FinishQueue
<1>9. CASE CheckPolicy
  <2>1. worker.pc = "body" /\ worker.stage = PreExec /\ Here \in Slots
    BY <1>1, <1>9 DEF CheckPolicy, AtStage, At, Under
  <2>2. Run \in Keys
    BY <1>1, <2>1 DEF SlotRecord, Run
  <2> DEFINE w == [worker EXCEPT !.key = Run]
  <2>3. w \in Workers /\ w.stage = worker.stage /\ w.risk = worker.risk /\ w.key = Run
    BY <1>1, <2>2 DEF Workers
  <2>4. \/ Failed \/ worker' = Off
        \/ Pass(w) /\ approvals' = approvals /\ (worker.risk = "low" \/ (worker.risk = "high" /\ Granted(Run, "execution")))
    BY <1>9 DEF CheckPolicy, PauseForApproval
  <2> HIDE DEF w
  <2>5. ASSUME Pass(w), approvals' = approvals, worker.risk = "low" \/ (worker.risk = "high" /\ Granted(Run, "execution"))
        PROVE  Cleared'
    <3>1. ClearedFor(w)
      BY <2>3, <2>5 DEF ClearedFor
    <3> QED BY <2>1, <2>3, <2>5, <3>1, PassClears DEF PreExec, Logging
  <2> QED BY <1>2, <1>3, <2>4, <2>5 DEF Failed
<1>10. CASE IntakeSpec
  <2>1. worker.pc = "body" /\ worker.stage = Intake /\ Here \in Slots /\ approvals' = approvals
    BY <1>1, <1>10 DEF IntakeSpec, AtStage, At, Under, disk
  <2>2. slots[Here].spec \in AnySpec
    BY <1>1, <2>1, SpecFacts DEF SlotRecord
  <2> DEFINE w == [worker EXCEPT !.spec = slots[Here].spec]
  <2>3. w \in Workers /\ w.stage = worker.stage
    BY <1>1, <2>2 DEF Workers
  <2>4. Failed \/ Pass(w)
    BY <1>10 DEF IntakeSpec
  <2> HIDE DEF w
  <2> QED BY <1>2, <2>1, <2>3, <2>4, PassClears DEF Failed, Intake, PreExec, Logging
<1>11. CASE ParseSpec
  <2>1. worker.pc = "body" /\ worker.stage = Parsing /\ Here \in Slots /\ approvals' = approvals
    BY <1>1, <1>11 DEF ParseSpec, AtStage, At, Under, disk
  <2>2. slots[Here].spec \in AnySpec
    BY <1>1, <2>1, SpecFacts DEF SlotRecord
  <2>3. slots[Here].spec.risk \in {"low", "high", "denied"}
    BY <2>2 DEF AnySpec
  <2> DEFINE w == [worker EXCEPT !.risk = slots[Here].spec.risk]
  <2>4. w \in Workers /\ w.stage = worker.stage
    BY <1>1, <2>3 DEF Workers
  <2>5. Pass(w)
    BY <1>11 DEF ParseSpec
  <2> HIDE DEF w
  <2> QED BY <2>1, <2>4, <2>5, PassClears DEF Parsing, PreExec, Logging
<1>12. CASE PreviewImpact \/ PassGate \/ FinishStage
  <2>1. /\ worker.pc = "body" /\ worker.stage > PreExec /\ worker.stage # Logging /\ approvals' = approvals
    BY <1>12 DEF PreviewImpact, PassGate, FinishStage, AtStage, At, disk, PreExec, Impact, Gate, Environment,
       TaskExecution, Structural, Verification, Regression, Outcome, Logging
  <2>2. ClearedFor(worker)
    BY <2>1 DEF Cleared, Under
  <2>3. worker' = Off \/ Failed \/ Pass(worker)
    BY <1>12 DEF PreviewImpact, PassGate, FinishStage
  <2> QED BY <1>1, <1>2, <1>3, <2>1, <2>2, <2>3, PassClears DEF Failed
<1>13. CASE CheckPromotion
  <2>1. worker.pc = "body" /\ worker.stage = PrePromote
    BY <1>13 DEF CheckPromotion, AtStage, At
  <2>2. ClearedFor(worker) /\ worker.spec \in AnySpec
    BY <1>1, <2>1 DEF Cleared, Under, PrePromote, PreExec, Workers
  <2>3. [worker.spec EXCEPT !.dry = TRUE] \in AnySpec
    BY <2>2 DEF AnySpec
  <2> DEFINE w == [worker EXCEPT !.spec.dry = TRUE]
  <2>4. w \in Workers /\ w.stage = worker.stage /\ w.risk = worker.risk /\ w.key = worker.key
    BY <1>1, <2>3 DEF Workers
  <2>5. ClearedFor(w)
    BY <2>2, <2>4 DEF ClearedFor
  <2>6. worker' = Off \/ ((Pass(worker) \/ Pass(w)) /\ approvals' = approvals)
    BY <1>13 DEF CheckPromotion, PauseForApproval
  <2> HIDE DEF w
  <2> QED BY <1>1, <1>3, <2>1, <2>2, <2>4, <2>5, <2>6, PassClears DEF PrePromote, Logging
<1> QED
  BY <1>4, <1>5, <1>6, <1>7, <1>8, <1>9, <1>10, <1>11, <1>12, <1>13 DEF WorkerStep, RecordBaseline

\* Risky tasks run only with an approval on disk for the run the check was made
\* for (TasksApproved), for any number of runs, decisions, pauses and crashes.
THEOREM RiskIsApproved == QueueSpec => []TasksApproved
<1>1. Init => Cleared
  <2> SUFFICES ASSUME Init PROVE Cleared
    OBVIOUS
  <2>1. worker.pc = "off"
    BY DEF Init, Off
  <2> QED BY <2>1 DEF Cleared, Under
<1>2. Typed /\ Cleared /\ [Next]_vars => Cleared'
  <2> SUFFICES ASSUME Typed, Cleared, [Next]_vars PROVE Cleared'
    OBVIOUS
  <2>1. ASSUME worker' = worker, approvals' = approvals PROVE Cleared'
    BY <2>1 DEF Cleared, ClearedFor, Granted
  <2>2. ASSUME NEW sl, NEW r, StartQueueWith(sl, r) PROVE Cleared'
    <3>1. CASE NotStarted(sl)
      BY <2>1, <2>2, <3>1 DEF NotStarted, StartQueueWith
    <3>2. CASE Started(sl, r)
      BY <3>2 DEF Started, Off, Cleared, Under
    <3> QED BY <2>2, <3>1, <3>2 DEF StartQueueWith
  <2>3. ASSUME NEW r \in Keys, NEW gate \in Gates, Decide(r, gate) PROVE Cleared'
    <3>1. worker' = worker /\ \A k \in Keys : approvals[k]["execution"] = "approved" => approvals'[k]["execution"] = "approved"
      BY <2>3 DEF Decide, memory, Typed, DiskTyped, Gates
    <3>2. worker.key \in Keys
      BY DEF Typed, WorkerTyped, Workers
    <3> QED BY <3>1, <3>2 DEF Cleared, ClearedFor, Granted
  <2>4. CASE UserStep
    <3>1. \/ worker' = worker /\ approvals' = approvals
          \/ \E sl, r : StartQueueWith(sl, r)
          \/ \E r \in Keys, gate \in Gates : Decide(r, gate)
      BY <2>4 DEF UserStep, StartQueue, StopQueue, ApproveImpact, RejectImpact, SubmitSpec, ClearSlot, EditSpec,
                  TriggerRerun, ResumeRun, ReplayRun, disk, memory, Gates
    <3> QED BY <2>1, <2>2, <2>3, <3>1
  <2>5. CASE HandleMessage \/ Crash
    BY <2>1, <2>5 DEF HandleMessage, Crash, memory, disk
  <2>6. CASE StartupRecovery
    BY <2>6 DEF StartupRecovery, Off, Cleared, Under
  <2>7. CASE UNCHANGED vars
    BY <2>1, <2>7 DEF vars, memory, disk
  <2> QED BY <2>4, <2>5, <2>6, <2>7, WorkerStaysCleared DEF Next
<1>3. Cleared => TasksApproved
  BY DEF Cleared, ClearedFor, TasksApproved, Under, PreExec, TaskExecution, Logging
<1> QED BY <1>1, <1>2, <1>3, TypedInvariant, PTL DEF QueueSpec

-----------------------------------------------------------------------------
(* Slots and runs.                                                         *)

\* The running slot is the worker's, or the one a pause left running.
Solo ==
  /\ OneSlotRunning
  /\ worker.pc = "loop" => \A s \in Slots : slots[s].status # "running"
  /\ worker.pc \in Under => \A s \in Slots : slots[s].status = "running" => s = Here

\* Every step of the worker leaves one slot running at most.
LEMMA WorkerStaysSolo == ASSUME Typed, Solo, WorkerStep PROVE Solo'
<1>1. worker \in Workers /\ (worker.pc \in Under => Here \in Slots /\ worker.stage \in Stages) /\ slots \in [Slots -> SlotRecord]
  BY DEF Typed, WorkerTyped, SlotsTyped
<1>2. ASSUME worker.pc \in Under, NEW status, status # "running", NEW stage, SlotEnds(status, stage) PROVE Solo'
  <2>1. worker'.pc = "loop"
    BY <1>2 DEF SlotEnds, Off
  <2>2. \A s \in Slots : slots'[s].status # "running"
    BY <1>1, <1>2 DEF SlotEnds, Solo, SlotRecord
  <2> QED BY <2>1, <2>2 DEF Solo, OneSlotRunning, Under
<1>3. ASSUME slots' = slots, worker'.pc = "off" \/ (worker.pc \in Under /\ worker'.slot = Here /\ worker'.pc # "loop")
      PROVE  Solo'
  BY <1>3 DEF Solo, OneSlotRunning, Here, Under
<1>4. CASE SkipStoppedSlot \/ SkipEmptySlot
  <2>1. worker.pc = "loop" /\ worker'.pc = "loop" /\ Here \in Slots
    BY <1>1, <1>4 DEF SkipStoppedSlot, SkipEmptySlot, At, Workers
  <2>2. PICK st : st # "running" /\ slots' = [slots EXCEPT ![Here].status = st]
    <3>1. slots[Here].status # "running"
      BY <2>1 DEF Solo
    <3> QED BY <1>4, <3>1 DEF SkipStoppedSlot, SkipEmptySlot
  <2>3. \A s \in Slots : slots'[s].status # "running"
    BY <1>1, <2>1, <2>2 DEF Solo, SlotRecord
  <2> QED BY <2>1, <2>3 DEF Solo, OneSlotRunning, Under
<1>5. CASE StartSlot
  <2>1. worker.pc = "loop" /\ worker'.pc = "enter" /\ worker'.slot = Here /\ Here \in Slots
    BY <1>1, <1>5 DEF StartSlot, At, Workers, Here
  <2>2. \A s \in Slots : slots'[s].status = "running" => s = Here
    BY <1>1, <1>5, <2>1 DEF StartSlot, Solo, SlotRecord
  <2> QED BY <2>1, <2>2 DEF Solo, OneSlotRunning, Here
<1>6. CASE BeginStage \/ TakeSnapshot \/ (RecordBaseline /\ worker' = [worker EXCEPT !.pc = "body"] /\ UNCHANGED slots)
  <2>1. worker.pc \in Under /\ worker'.slot = Here /\ worker'.pc # "loop" /\ slots' = slots
    BY <1>1, <1>6 DEF BeginStage, TakeSnapshot, RecordBaseline, At, Workers, Under, Here
  <2> QED BY <1>3, <2>1
<1>7. CASE StageRaises \/ LogRun \/ (RecordBaseline /\ Failed)
  <2>1. worker.pc \in Under /\ \E st, stage : st # "running" /\ SlotEnds(st, stage)
    BY <1>7 DEF StageRaises, LogRun, RecordBaseline, AtStage, At, Stopped, Failed, Under
  <2> QED BY <1>2, <2>1
<1>8. CASE FinishQueue
  BY <1>3, <1>8 DEF FinishQueue, Off
<1>9. ASSUME worker.pc \in Under, NEW w, w \in Workers, w.slot = worker.slot, Pass(w) PROVE Solo'
  <2>1. CASE Stopped
    BY <1>2, <1>9, <2>1 DEF Stopped
  <2>2. CASE /\ worker' = [w EXCEPT !.stage = NextStage(@, w.spec), !.pc = IF worker.stage = Intake THEN "snapshot" ELSE "enter"]
             /\ slots' = slots
    <3>1. worker'.slot = Here /\ worker'.pc # "loop"
      BY <1>9, <2>2 DEF Workers, Here
    <3> QED BY <1>3, <1>9, <2>2, <3>1
  <2> QED BY <1>9, <2>1, <2>2 DEF Pass
<1>10. CASE IntakeSpec \/ ParseSpec \/ CheckPolicy \/ PreviewImpact \/ PassGate \/ FinishStage \/ CheckPromotion
  <2>1. worker.pc = "body" /\ worker.pc \in Under /\ Here \in Slots
    BY <1>1, <1>10 DEF IntakeSpec, ParseSpec, CheckPolicy, PreviewImpact, PassGate, FinishStage, CheckPromotion,
       AtStage, At, Under
  <2>2. slots[Here].spec \in AnySpec /\ Run \in Keys /\ worker.spec \in AnySpec
    BY <1>1, <2>1, SpecFacts DEF SlotRecord, Run, Workers
  <2>3. [worker EXCEPT !.spec = slots[Here].spec] \in Workers /\ [worker EXCEPT !.spec = slots[Here].spec].slot = worker.slot
    BY <1>1, <2>2 DEF Workers
  <2>4. slots[Here].spec.risk \in {"low", "high", "denied"} /\ [worker.spec EXCEPT !.dry = TRUE] \in AnySpec
    BY <2>2 DEF AnySpec
  <2>5. [worker EXCEPT !.risk = slots[Here].spec.risk] \in Workers /\ [worker EXCEPT !.risk = slots[Here].spec.risk].slot = worker.slot
    BY <1>1, <2>4 DEF Workers
  <2>6. [worker EXCEPT !.key = Run] \in Workers /\ [worker EXCEPT !.key = Run].slot = worker.slot
    BY <1>1, <2>2 DEF Workers
  <2>7. [worker EXCEPT !.spec.dry = TRUE] \in Workers /\ [worker EXCEPT !.spec.dry = TRUE].slot = worker.slot
    BY <1>1, <2>4 DEF Workers
  <2>8. \/ Failed
        \/ worker' = Off /\ slots' = slots
        \/ Pass(worker) \/ Pass([worker EXCEPT !.spec = slots[Here].spec])
        \/ Pass([worker EXCEPT !.risk = slots[Here].spec.risk]) \/ Pass([worker EXCEPT !.key = Run])
        \/ Pass([worker EXCEPT !.spec.dry = TRUE])
    BY <1>10 DEF IntakeSpec, ParseSpec, CheckPolicy, PreviewImpact, PassGate, FinishStage, CheckPromotion,
       PauseForApproval
  <2>9. CASE worker' = Off /\ slots' = slots
    BY <1>3, <2>9 DEF Off
  <2>10. CASE Failed
    BY <1>2, <2>1, <2>10 DEF Failed
  <2> QED BY <1>1, <1>9, <2>1, <2>3, <2>5, <2>6, <2>7, <2>8, <2>9, <2>10
<1> QED BY <1>4, <1>5, <1>6, <1>7, <1>8, <1>10 DEF WorkerStep, RecordBaseline

\* A slot's run is kept or dropped, and the ledger still files it under the slot.
LEMMA DisjointKept ==
    ASSUME RunsDisjoint, \A s \in Slots : slots'[s].run \in {slots[s].run, NoRun},
           \A s \in Slots : slots[s].run # NoRun /\ ledger'[slots[s].run] # NoEntry => ledger'[slots[s].run].slot = s
    PROVE  RunsDisjoint'
BY DEF RunsDisjoint, Known

\* A new run id is unknown to the ledger and to the slots.
LEMMA FreshFacts ==
    ASSUME Fresh # {}
    PROVE  /\ NewRunId \in Runs /\ ledger[NewRunId] = NoEntry
           /\ \A s \in Slots : slots[s].run # NewRunId
BY DEF NewRunId, Fresh, Known

\* Every step of the worker keeps the slots' runs apart and filed.
LEMMA WorkerStaysDisjoint == ASSUME Typed, RunsDisjoint, WorkerStep PROVE RunsDisjoint'
<1>1. /\ worker \in Workers /\ (worker.pc \in Under => Here \in Slots /\ worker.stage \in Stages)
      /\ slots \in [Slots -> SlotRecord] /\ ledger \in [Keys -> Entries]
  BY DEF Typed, WorkerTyped, SlotsTyped, DiskTyped
<1>2. \A s \in Slots : slots[s].run \in Keys
  BY <1>1 DEF SlotRecord
<1>3. \A s \in Slots : slots[s].run # NoRun /\ ledger[slots[s].run] # NoEntry => ledger[slots[s].run].slot = s
  BY DEF RunsDisjoint, Known
<1>4. CASE StartSlot
  <2>1. Here \in Slots /\ ledger' = ledger
    BY <1>4 DEF StartSlot, disk
  <2>2. CASE slots[Here].run # NoRun
    <3>1. \A s \in Slots : slots'[s].run = slots[s].run
      BY <1>1, <1>4, <2>1, <2>2 DEF StartSlot, SlotRecord
    <3> QED BY <1>3, <2>1, <3>1, DisjointKept
  <2>3. CASE slots[Here].run = NoRun
    <3>1. slots'[Here].run = NewRunId /\ \A s \in Slots \ {Here} : slots'[s].run = slots[s].run
      BY <1>1, <1>4, <2>1, <2>3 DEF StartSlot, SlotRecord
    <3>2. Fresh # {}
      BY <1>4, <2>3 DEF StartSlot
    <3> QED BY <2>1, <3>1, <3>2, FreshFacts DEF RunsDisjoint, Known
  <2> QED BY <2>2, <2>3
<1>5. CASE BeginStage
  <2>1. Here \in Slots /\ slots' = slots /\ Run = slots[Here].run
    BY <1>1, <1>5 DEF BeginStage, At, Under, Run
  <2>2. CASE RecordTransition(Run, Here, DurableState[worker.stage])
    <3>1. \A r \in Keys \ {Run} : ledger'[r] = ledger[r]
      BY <1>1, <2>2 DEF RecordTransition
    <3>2. ledger'[Run].slot = IF Known(Run) THEN ledger[Run].slot ELSE Here
      BY <1>1, <1>2, <2>1, <2>2 DEF RecordTransition, Entries
    <3>3. \A s \in Slots : slots[s].run # NoRun /\ ledger'[slots[s].run] # NoEntry => ledger'[slots[s].run].slot = s
      <4> SUFFICES ASSUME NEW s \in Slots, slots[s].run # NoRun, ledger'[slots[s].run] # NoEntry
                   PROVE  ledger'[slots[s].run].slot = s
        OBVIOUS
      <4>1. CASE slots[s].run # Run
        <5>1. ledger'[slots[s].run] = ledger[slots[s].run]
          BY <1>2, <3>1, <4>1
        <5> QED BY <1>3, <5>1
      <4>2. CASE slots[s].run = Run /\ Known(Run)
        BY <1>3, <3>2, <4>2 DEF Known
      <4>3. CASE slots[s].run = Run /\ ~Known(Run)
        <5>1. s = Here
          BY <2>1, <4>3 DEF RunsDisjoint
        <5> QED BY <3>2, <4>3, <5>1
      <4> QED BY <4>1, <4>2, <4>3
    <3> QED BY <2>1, <3>3, DisjointKept
  <2>3. CASE ledger' = ledger
    BY <1>3, <2>1, <2>3, DisjointKept
  <2> QED BY <1>5, <2>2, <2>3 DEF BeginStage
<1>6. CASE TakeSnapshot \/ LogRun
  <2>1. \A s \in Slots : slots'[s].run = slots[s].run
    BY <1>1, <1>6 DEF TakeSnapshot, LogRun, Stopped, Failed, SlotEnds, SlotRecord
  <2>2. \A r \in Keys : ledger'[r] = ledger[r] \/ (Known(r) /\ ledger'[r].slot = ledger[r].slot)
    BY <1>1, <1>6 DEF TakeSnapshot, LogRun, Entries
  <2> QED BY <1>2, <1>3, <2>1, <2>2, DisjointKept DEF Known
<1>7. CASE ~StartSlot /\ ~BeginStage /\ ~TakeSnapshot /\ ~LogRun
  <2>1. ledger' = ledger
    BY <1>7 DEF WorkerStep, SkipStoppedSlot, SkipEmptySlot, StageRaises, IntakeSpec, ParseSpec, CheckPolicy,
       PreviewImpact, PassGate, RecordBaseline, FinishStage, CheckPromotion, FinishQueue, disk
  <2>2. slots' = slots \/ \E st : slots' = [slots EXCEPT ![Here].status = st]
    <3>1. CASE SkipStoppedSlot \/ SkipEmptySlot
      BY <3>1 DEF SkipStoppedSlot, SkipEmptySlot
    <3> QED
      BY <1>7, <3>1 DEF WorkerStep, StageRaises, IntakeSpec, ParseSpec, CheckPolicy, PreviewImpact, PassGate,
         RecordBaseline, FinishStage, CheckPromotion, FinishQueue, PauseForApproval, Pass, Stopped, Failed, SlotEnds
  <2>3. \A s \in Slots : slots'[s].run = slots[s].run
    BY <1>1, <2>2 DEF SlotRecord
  <2> QED BY <1>3, <2>1, <2>3, DisjointKept
<1> QED BY <1>4, <1>5, <1>6, <1>7

\* One slot runs, no two slots share a run, and the ledger files each run under
\* its slot (SlotsApart), also when a restart read the runs from the ledger.
THEOREM SlotsStayApart == QueueSpec => []SlotsApart
<1> DEFINE Apart == Solo /\ RunsDisjoint
<1>1. Init => Apart
  <2> SUFFICES ASSUME Init PROVE Apart
    OBVIOUS
  <2>1. worker.pc = "off" /\ \A s \in Slots : slots[s].run = NoRun /\ slots[s].status # "running"
    BY DEF Init, Off, EmptySlot, Status
  <2> QED BY <2>1 DEF Solo, OneSlotRunning, RunsDisjoint, Under
<1>2. Typed /\ Apart /\ [Next]_vars => Apart'
  <2> SUFFICES ASSUME Typed, Solo, RunsDisjoint, [Next]_vars PROVE Solo' /\ RunsDisjoint'
    OBVIOUS
  <2>1. slots \in [Slots -> SlotRecord] /\ ledger \in [Keys -> Entries] /\ \A s \in Slots : slots[s].run \in Keys
    BY DEF Typed, SlotsTyped, DiskTyped, SlotRecord
  <2>2. \A s \in Slots : slots[s].run # NoRun /\ ledger[slots[s].run] # NoEntry => ledger[slots[s].run].slot = s
    BY DEF RunsDisjoint, Known
  \* The user changes slots, but starts none.
  <2>3. ASSUME worker' = worker, ledger' = ledger,
               \A s \in Slots : slots'[s].run \in {slots[s].run, NoRun},
               \A s \in Slots : slots'[s].status = "running" => slots[s].status = "running"
        PROVE  Solo' /\ RunsDisjoint'
    <3>1. RunsDisjoint'
      BY <2>2, <2>3, DisjointKept
    <3> QED BY <2>3, <3>1 DEF Solo, OneSlotRunning, Here
  <2>4. ASSUME NEW sl \in [Slots -> SlotRecord], NEW r, StartQueueWith(sl, r),
               \A s \in Slots : sl[s].run = slots[s].run,
               \A s \in Slots : sl[s].status = "running" => slots[s].status = "running"
        PROVE  Solo' /\ RunsDisjoint'
    <3>1. ledger' = ledger
      BY <2>4 DEF StartQueueWith
    <3>2. CASE NotStarted(sl)
      BY <2>3, <2>4, <3>1, <3>2 DEF NotStarted
    <3>3. CASE Started(sl, r)
      <4>1. worker'.pc = "loop"
        BY <3>3 DEF Started, Off
      <4>2. \A s \in Slots : slots'[s].run = slots[s].run /\ slots'[s].status = Status(sl[s].spec)
        BY <2>4, <3>3 DEF Started, SlotRecord
      <4>3. \A s \in Slots : slots'[s].status # "running"
        BY <4>2 DEF Status
      <4>4. RunsDisjoint'
        BY <2>2, <3>1, <4>2, DisjointKept
      <4> QED BY <4>1, <4>3, <4>4 DEF Solo, OneSlotRunning, Under
    <3> QED BY <2>4, <3>2, <3>3 DEF StartQueueWith
  <2>5. CASE UNCHANGED <<slots, worker, ledger>>
    BY <2>3, <2>5
  <2>6. CASE StartQueue \/ ApproveImpact \/ \E s \in Slots : ResumeRun(s)
    <3>1. PICK r : StartQueueWith(slots, r)
      BY <2>6 DEF StartQueue, ApproveImpact, ResumeRun
    <3> QED BY <2>1, <2>4, <3>1
  <2>7. ASSUME NEW s \in Slots, TriggerRerun(s) PROVE Solo' /\ RunsDisjoint'
    <3> DEFINE sl == [slots EXCEPT ![s].status = "ready"]
    <3>1. /\ sl \in [Slots -> SlotRecord] /\ \A t \in Slots : sl[t].run = slots[t].run
          /\ \A t \in Slots : sl[t].status = "running" => slots[t].status = "running"
      BY <2>1 DEF SlotRecord, SlotStates
    <3>2. StartQueueWith(sl, NoRun)
      BY <2>7 DEF TriggerRerun
    <3> HIDE DEF sl
    <3> QED BY <2>4, <3>1, <3>2
  <2>8. ASSUME NEW s \in Slots, SubmitSpec(s) PROVE Solo' /\ RunsDisjoint'
    <3>1. PICK spec \in Specs : slots' = [slots EXCEPT ![s].spec = spec, ![s].status = "ready"]
      BY <2>8 DEF SubmitSpec
    <3>2. \A t \in Slots : slots'[t].run = slots[t].run /\ (slots'[t].status = "running" => slots[t].status = "running")
      BY <2>1, <3>1 DEF SlotRecord
    <3> QED BY <2>3, <2>8, <3>2 DEF SubmitSpec, disk
  <2>9. ASSUME NEW s \in Slots, ClearSlot(s) PROVE Solo' /\ RunsDisjoint'
    <3>1. \A t \in Slots : slots'[t].run \in {slots[t].run, NoRun} /\ (slots'[t].status = "running" => slots[t].status = "running")
      BY <2>1, <2>9 DEF ClearSlot, EmptySlot, SlotRecord
    <3> QED BY <2>3, <2>9, <3>1 DEF ClearSlot, disk
  <2>10. ASSUME NEW s \in Slots, ReplayRun(s) PROVE Solo' /\ RunsDisjoint'
    <3>1. Fresh # {} /\ slots' = slots /\ worker' = worker
      <4>1. RunsToSpare /\ slots' = slots /\ worker' = worker
        BY <2>10 DEF ReplayRun, memory
      <4> QED BY <4>1, SpareFresh
    <3>2. \A t \in Slots : ledger'[slots[t].run] = ledger[slots[t].run]
      BY <2>1, <2>10, <3>1, FreshFacts DEF ReplayRun
    <3>3. RunsDisjoint'
      BY <2>2, <3>1, <3>2, DisjointKept
    <3> QED BY <3>1, <3>3 DEF Solo, OneSlotRunning, Here
  <2>11. CASE UserStep
    <3>1. \/ UNCHANGED <<slots, worker, ledger>>
          \/ StartQueue \/ ApproveImpact \/ \E s \in Slots : ResumeRun(s)
          \/ \E s \in Slots : TriggerRerun(s) \/ SubmitSpec(s) \/ ClearSlot(s) \/ ReplayRun(s)
      BY <2>11 DEF UserStep, StopQueue, RejectImpact, EditSpec, Decide, disk, memory
    <3> QED BY <2>5, <2>6, <2>7, <2>8, <2>9, <2>10, <3>1
  <2>12. CASE HandleMessage \/ Crash \/ UNCHANGED vars
    BY <2>5, <2>12 DEF HandleMessage, Crash, vars, memory, disk
  <2>13. CASE StartupRecovery
    <3>1. worker'.pc = "off"
      BY <2>13 DEF StartupRecovery, Off
    <3>2. \A s \in Slots : slots'[s].status # "running"
      BY <2>13 DEF StartupRecovery, EmptySlot, SlotStatus, Status
    <3>3. \A s \in Slots : slots'[s].run # NoRun => slots'[s].run = LatestRun(s)
      BY <2>13 DEF StartupRecovery, EmptySlot
    <3>4. \A s \in Slots : LatestRun(s) # NoRun => LatestRun(s) \in Keys /\ ledger[LatestRun(s)].slot = s
      BY LatestFiled
    <3>5. \A r \in Keys : ledger'[r].slot = ledger[r].slot
      BY <2>1, <2>13 DEF StartupRecovery, Entries
    <3>6. RunsDisjoint'
      BY <3>3, <3>4, <3>5 DEF RunsDisjoint
    <3> QED BY <3>1, <3>2, <3>6 DEF Solo, OneSlotRunning, Under
  <2> QED BY <2>11, <2>12, <2>13, WorkerStaysSolo, WorkerStaysDisjoint DEF Next
<1>3. Apart => SlotsApart
  BY DEF Solo, SlotsApart
<1> QED BY <1>1, <1>2, <1>3, TypedInvariant, PTL DEF QueueSpec

-----------------------------------------------------------------------------
(* What a crash leaves is found.                                           *)

\* The ledger knows the run under way to be unfinished; the stages that record
\* nothing when they begin inherit that from the stage before.
Unfinished == Run # NoRun => NotTerminal(ledger[Run])
UnderWay == worker.pc \in {"snapshot", "baseline", "body"} /\ worker.stage \notin {Outcome, Logging}
Quiet == worker.pc = "enter" /\ worker.stage \in {Impact, Gate, Regression}
CutKnown == ~alive /\ cut.run # NoRun /\ cut.stage \notin {Outcome, Logging} => cut.run \in Keys /\ NotTerminal(ledger[cut.run])
Tracked == (UnderWay \/ Quiet => Unfinished) /\ CutKnown

\* The end of a stage keeps the run under way unfinished in the ledger.
LEMMA PassTracks ==
    ASSUME Typed, Tracked, worker.pc = "body", worker.stage # Logging, alive', ledger' = ledger,
           NEW w \in Workers, w.stage = worker.stage, w.slot = worker.slot, Pass(w)
    PROVE  Tracked'
<1>1. worker.stage \in 1..12
  BY StageFacts DEF Typed, WorkerTyped, Under
<1>2. CASE Stopped
  <2>1. worker'.pc = "loop"
    BY <1>2 DEF Stopped, SlotEnds, Off
  <2> QED BY <2>1 DEF Tracked, UnderWay, Quiet, CutKnown
<1>3. CASE /\ worker' = [w EXCEPT !.stage = NextStage(@, w.spec), !.pc = IF worker.stage = Intake THEN "snapshot" ELSE "enter"]
           /\ slots' = slots
  <2>1. /\ worker'.slot = worker.slot /\ worker'.stage = NextStage(worker.stage, w.spec)
        /\ worker'.pc = IF worker.stage = Intake THEN "snapshot" ELSE "enter"
    BY <1>3 DEF Workers
  <2>2. Unfinished' <=> Unfinished
    BY <1>3, <2>1 DEF Unfinished, Run, Here, NotTerminal
  <2>3. UnderWay' \/ Quiet' => worker.stage \notin {Outcome, Logging}
    BY <1>1, <2>1 DEF UnderWay, Quiet, NextStage, Environment, TaskExecution, Outcome, Logging, Impact, Gate, Regression, Intake
  <2> QED BY <2>2, <2>3 DEF Tracked, UnderWay, CutKnown
<1> QED BY <1>2, <1>3 DEF Pass

\* Every step of the worker does, except in the two stages that declare the
\* run completed.
LEMMA WorkerTracks == ASSUME Typed, Tracked, WorkerStep PROVE Tracked'
<1>1. /\ worker \in Workers /\ (worker.pc \in Under => Here \in Slots /\ worker.stage \in Stages)
      /\ slots \in [Slots -> SlotRecord] /\ ledger \in [Keys -> Entries]
  BY DEF Typed, WorkerTyped, SlotsTyped, DiskTyped
<1>2. alive /\ alive'
  <2>1. alive' = alive
    BY DEF WorkerStep, SkipStoppedSlot, SkipEmptySlot, StartSlot, BeginStage, StageRaises, IntakeSpec, TakeSnapshot,
           ParseSpec, CheckPolicy, PreviewImpact, PassGate, RecordBaseline, FinishStage, CheckPromotion, LogRun,
           FinishQueue, history
  <2> QED BY <2>1, WorkerSpeaks
<1>3. worker.pc \in Under => Run \in Keys
  BY <1>1 DEF Run, SlotRecord
<1>4. ASSUME worker'.pc \in {"off", "loop"} PROVE Tracked'
  BY <1>2, <1>4 DEF Tracked, UnderWay, Quiet, CutKnown
<1>5. ASSUME NEW status, NEW stage, SlotEnds(status, stage) PROVE Tracked'
  BY <1>4, <1>5 DEF SlotEnds, Off
<1>6. CASE SkipStoppedSlot \/ SkipEmptySlot
  BY <1>1, <1>4, <1>6 DEF SkipStoppedSlot, SkipEmptySlot, At, Workers
<1>7. CASE StartSlot
  <2>1. worker'.pc = "enter" /\ worker'.stage = Intake
    BY <1>1, <1>7 DEF StartSlot, Workers
  <2> QED BY <1>2, <2>1 DEF Tracked, UnderWay, Quiet, CutKnown, Intake, Impact, Gate, Regression
<1>8. CASE BeginStage
  <2>1. /\ worker.pc = "enter" /\ worker'.stage = worker.stage /\ worker'.slot = worker.slot /\ slots' = slots
        /\ worker'.pc \in {"baseline", "body"} /\ Here \in Slots /\ worker.stage \in 1..13
    BY <1>1, <1>8, StageFacts DEF BeginStage, At, Workers, Under
  <2>2. Run' = Run /\ Run \in Keys
    BY <1>3, <2>1 DEF Run, Here, Under
  <2>3. CASE DurableState[worker.stage] = "none" /\ ledger' = ledger
    <3>1. worker.stage \in {Impact, Gate, Regression}
      BY <2>1, <2>3 DEF DurableState, Impact, Gate, Regression
    <3> QED BY <1>2, <2>1, <2>2, <2>3, <3>1 DEF Tracked, UnderWay, Quiet, Unfinished, CutKnown, NotTerminal
  <2>4. CASE RecordTransition(Run, Here, DurableState[worker.stage])
    <3>1. ledger'[Run].state = DurableState[worker.stage]
      BY <1>1, <2>2, <2>4 DEF RecordTransition, Entries
    <3>2. worker.stage \notin {Outcome, Logging} => DurableState[worker.stage] \notin {"COMPLETED", "FAILED"}
      BY <2>1 DEF DurableState, Outcome, Logging
    <3>3. CASE DurableState[worker.stage] # "none"
      BY <1>2, <2>1, <2>2, <3>1, <3>2, <3>3 DEF Tracked, UnderWay, Quiet, Unfinished, CutKnown, NotTerminal, Terminal
    <3> QED BY <1>8, <2>3, <3>3 DEF BeginStage
  <2> QED BY <1>8, <2>3, <2>4 DEF BeginStage
<1>9. CASE TakeSnapshot
  <2>1. /\ worker.pc = "snapshot" /\ worker'.pc = "enter" /\ worker'.stage = worker.stage /\ worker'.slot = worker.slot
        /\ slots' = slots /\ Run \in Keys
    BY <1>1, <1>3, <1>9 DEF TakeSnapshot, At, Workers, Under
  <2>2. Run' = Run
    BY <2>1 DEF Run, Here
  <2>3. Unfinished => Unfinished'
    <3> SUFFICES ASSUME Unfinished, Run # NoRun PROVE NotTerminal(ledger'[Run])
      BY <2>2 DEF Unfinished, NotTerminal
    <3>1. Known(Run)
      BY DEF Unfinished, NotTerminal, Known, NoEntry
    <3>2. ledger'[Run].state = "SNAPSHOT_READY"
      BY <1>1, <1>9, <2>1, <3>1 DEF TakeSnapshot, Entries
    <3> QED BY <3>2 DEF NotTerminal, Terminal
  <2>4. Quiet' => UnderWay
    BY <2>1 DEF Quiet, UnderWay, Impact, Gate, Regression, Outcome, Logging
  <2> QED BY <1>2, <2>1, <2>3, <2>4 DEF Tracked, UnderWay, CutKnown
<1>10. CASE RecordBaseline /\ worker' = [worker EXCEPT !.pc = "body"] /\ UNCHANGED slots
  <2>1. /\ worker.pc = "baseline" /\ worker'.pc = "body" /\ worker'.stage = worker.stage /\ worker'.slot = worker.slot
        /\ ledger' = ledger
    BY <1>1, <1>10 DEF RecordBaseline, At, Workers, disk
  <2> QED BY <1>2, <1>10, <2>1 DEF Tracked, UnderWay, Quiet, Unfinished, CutKnown, Run, Here, NotTerminal
<1>11. CASE StageRaises \/ LogRun \/ (RecordBaseline /\ Failed)
  BY <1>5, <1>11 DEF StageRaises, LogRun, Stopped, Failed
<1>12. CASE FinishQueue
  BY <1>4, <1>12 DEF FinishQueue, Off
<1>13. CASE IntakeSpec \/ ParseSpec \/ CheckPolicy \/ PreviewImpact \/ PassGate \/ FinishStage \/ CheckPromotion
  <2>1. worker.pc = "body" /\ worker.stage # Logging /\ Here \in Slots /\ ledger' = ledger
    BY <1>1, <1>13 DEF IntakeSpec, ParseSpec, CheckPolicy, PreviewImpact, PassGate, FinishStage, CheckPromotion,
       AtStage, At, disk, Intake, Parsing, PreExec, Impact, Gate, Environment, TaskExecution, Structural,
       Verification, Regression, Outcome, PrePromote, Logging, Under
  <2>2. slots[Here].spec \in AnySpec /\ Run \in Keys /\ worker.spec \in AnySpec
    BY <1>1, <2>1, SpecFacts DEF SlotRecord, Run, Workers
  <2> DEFINE w1 == [worker EXCEPT !.spec = slots[Here].spec]
             w2 == [worker EXCEPT !.risk = slots[Here].spec.risk]
             w3 == [worker EXCEPT !.key = Run]
             w4 == [worker EXCEPT !.spec.dry = TRUE]
  <2>3. w1 \in Workers /\ w1.slot = worker.slot /\ w1.stage = worker.stage
    BY <1>1, <2>2 DEF Workers
  <2>4. slots[Here].spec.risk \in {"low", "high", "denied"} /\ [worker.spec EXCEPT !.dry = TRUE] \in AnySpec
    BY <2>2 DEF AnySpec
  <2>5. w2 \in Workers /\ w2.slot = worker.slot /\ w2.stage = worker.stage
    BY <1>1, <2>4 DEF Workers
  <2>6. w3 \in Workers /\ w3.slot = worker.slot /\ w3.stage = worker.stage
    BY <1>1, <2>2 DEF Workers
  <2>7. w4 \in Workers /\ w4.slot = worker.slot /\ w4.stage = worker.stage
    BY <1>1, <2>4 DEF Workers
  <2>8. \/ \E st, stage : SlotEnds(st, stage)
        \/ worker' = Off
        \/ Pass(worker) \/ Pass(w1) \/ Pass(w2) \/ Pass(w3) \/ Pass(w4)
    BY <1>13 DEF IntakeSpec, ParseSpec, CheckPolicy, PreviewImpact, PassGate, FinishStage, CheckPromotion, Failed,
       PauseForApproval
  <2>9. worker' = Off => Tracked'
    BY <1>4 DEF Off
  <2> HIDE DEF w1, w2, w3, w4
  <2> QED BY <1>1, <1>2, <1>5, <2>1, <2>3, <2>5, <2>6, <2>7, <2>8, <2>9, PassTracks
<1> QED BY <1>6, <1>7, <1>8, <1>9, <1>10, <1>11, <1>12, <1>13 DEF WorkerStep, RecordBaseline

\* A run that a crash cut in the middle of a stage is marked INTERRUPTED at
\* startup (CrashFound), unless that stage had declared it COMPLETED.
THEOREM CrashIsFound == QueueSpec => CrashFound
<1>1. Init => Tracked
  <2> SUFFICES ASSUME Init PROVE Tracked
    OBVIOUS
  <2>1. worker.pc = "off" /\ alive
    BY DEF Init, Off
  <2> QED BY <2>1 DEF Tracked, UnderWay, Quiet, CutKnown
<1>2. Typed /\ Tracked /\ [Next]_vars => Tracked'
  <2> SUFFICES ASSUME Typed, Tracked, [Next]_vars PROVE Tracked'
    OBVIOUS
  <2>1. /\ worker \in Workers /\ (worker.pc \in Under => Here \in Slots) /\ slots \in [Slots -> SlotRecord]
        /\ ledger \in [Keys -> Entries]
    BY DEF Typed, WorkerTyped, SlotsTyped, DiskTyped
  <2>2. UnderWay \/ Quiet => Here \in Slots /\ Run \in Keys
    BY <2>1 DEF UnderWay, Quiet, Under, Run, SlotRecord
  \* Steps that leave the worker, and of the runs change no entry in use.
  <2>3. ASSUME worker' = worker, alive, alive',
               \A s \in Slots : slots'[s].run \in {slots[s].run, NoRun},
               \A s \in Slots : ledger'[slots[s].run] = ledger[slots[s].run]
        PROVE  Tracked'
    BY <2>2, <2>3 DEF Tracked, UnderWay, Quiet, Unfinished, CutKnown, Run, Here, NotTerminal
  <2>4. ASSUME NEW sl \in [Slots -> SlotRecord], NEW r, StartQueueWith(sl, r), alive, \A s \in Slots : sl[s].run = slots[s].run
        PROVE  Tracked'
    <3>1. ledger' = ledger /\ alive'
      BY <2>4 DEF StartQueueWith
    <3>2. CASE NotStarted(sl)
      BY <2>3, <2>4, <3>1, <3>2 DEF NotStarted
    <3>3. CASE Started(sl, r)
      BY <3>1, <3>3 DEF Started, Off, Tracked, UnderWay, Quiet, CutKnown
    <3> QED BY <2>4, <3>2, <3>3 DEF StartQueueWith
  <2>5. CASE StartQueue \/ ApproveImpact \/ \E s \in Slots : ResumeRun(s)
    <3>1. alive /\ \E r : StartQueueWith(slots, r)
      BY <2>5 DEF StartQueue, ApproveImpact, ResumeRun, Judged
    <3> QED BY <2>1, <2>4, <3>1
  <2>6. ASSUME NEW s \in Slots, TriggerRerun(s) PROVE Tracked'
    <3> DEFINE sl == [slots EXCEPT ![s].status = "ready"]
    <3>1. sl \in [Slots -> SlotRecord] /\ \A t \in Slots : sl[t].run = slots[t].run
      BY <2>1 DEF SlotRecord, SlotStates
    <3>2. alive /\ StartQueueWith(sl, NoRun)
      BY <2>6 DEF TriggerRerun
    <3> HIDE DEF sl
    <3> QED BY <2>4, <3>1, <3>2
  <2>7. ASSUME NEW s \in Slots, SubmitSpec(s) \/ ClearSlot(s) PROVE Tracked'
    <3>1. \A t \in Slots : slots'[t].run \in {slots[t].run, NoRun}
      <4>1. CASE SubmitSpec(s)
        <5>1. PICK spec \in Specs : slots' = [slots EXCEPT ![s].spec = spec, ![s].status = "ready"]
          BY <4>1 DEF SubmitSpec
        <5> QED BY <2>1, <5>1 DEF SlotRecord
      <4>2. CASE ClearSlot(s)
        BY <2>1, <4>2 DEF ClearSlot, EmptySlot, SlotRecord
      <4> QED BY <2>7, <4>1, <4>2
    <3>2. worker' = worker /\ alive /\ alive' /\ ledger' = ledger
      BY <2>7 DEF SubmitSpec, ClearSlot, disk, history
    <3> QED BY <2>3, <3>1, <3>2
  <2>8. ASSUME NEW s \in Slots, ReplayRun(s) PROVE Tracked'
    <3>1. RunsToSpare /\ slots' = slots /\ worker' = worker /\ alive /\ alive'
      BY <2>8 DEF ReplayRun, memory, history
    <3>2. \A t \in Slots : ledger'[slots[t].run] = ledger[slots[t].run]
      <4>1. \A t \in Slots : slots[t].run \in Keys
        BY <2>1 DEF SlotRecord
      <4> QED BY <2>1, <2>8, <3>1, <4>1, SpareFresh, FreshFacts DEF ReplayRun
    <3> QED BY <2>3, <3>1, <3>2
  <2>9. CASE UserStep
    <3>1. \/ UNCHANGED <<slots, worker, ledger>> /\ alive /\ alive'
          \/ StartQueue \/ ApproveImpact \/ \E s \in Slots : ResumeRun(s)
          \/ \E s \in Slots : TriggerRerun(s) \/ SubmitSpec(s) \/ ClearSlot(s) \/ ReplayRun(s)
      BY <2>9 DEF UserStep, StopQueue, RejectImpact, EditSpec, Decide, Judged, disk, memory, history
    <3> QED BY <2>3, <2>5, <2>6, <2>7, <2>8, <3>1
  <2>10. CASE HandleMessage
    BY <2>3, <2>10 DEF HandleMessage, disk, history
  <2>11. CASE Crash
    <3>1. UNCHANGED <<slots, worker, ledger>>
      BY <2>11 DEF Crash, memory, disk
    <3>2. CASE worker.pc \in {"body", "baseline"}
      <4>1. cut'.run = Run /\ cut'.stage = worker.stage /\ Run \in Keys
        BY <2>1, <2>11, <3>2 DEF Crash, Under, Run, SlotRecord
      <4> QED BY <3>1, <3>2, <4>1 DEF Tracked, UnderWay, Quiet, Unfinished, CutKnown, Run, Here, NotTerminal
    <3>3. CASE worker.pc \notin {"body", "baseline"}
      <4>1. cut'.run = NoRun
        BY <2>11, <3>3 DEF Crash
      <4> QED BY <3>1, <4>1 DEF Tracked, UnderWay, Quiet, Unfinished, CutKnown, Run, Here, NotTerminal
    <3> QED BY <3>2, <3>3
  <2>12. CASE StartupRecovery
    BY <2>12 DEF StartupRecovery, Off, Tracked, UnderWay, Quiet, CutKnown
  <2>13. CASE UNCHANGED vars
    BY <2>13 DEF vars, memory, disk, history, Tracked, UnderWay, Quiet, Unfinished, CutKnown, Run, Here, NotTerminal
  <2> QED BY <2>9, <2>10, <2>11, <2>12, <2>13, WorkerTracks DEF Next
<1>3. Typed /\ Tracked /\ [Next]_vars
        => [~alive /\ alive' /\ cut.run # NoRun /\ cut.stage \notin {Outcome, Logging}
              => ledger'[cut.run].state = "INTERRUPTED"]_vars
  <2> SUFFICES ASSUME Typed, Tracked, Next, ~alive, alive', cut.run # NoRun, cut.stage \notin {Outcome, Logging}
               PROVE  ledger'[cut.run].state = "INTERRUPTED"
    OBVIOUS
  <2>1. ~WorkerStep
    BY WorkerSpeaks
  <2>2. ~UserStep /\ ~HandleMessage /\ ~Crash
    BY DEF UserStep, StartQueue, StopQueue, ApproveImpact, RejectImpact, SubmitSpec, ClearSlot, EditSpec, TriggerRerun,
           ResumeRun, ReplayRun, Decide, Judged, HandleMessage, Crash
  <2>3. StartupRecovery
    BY <2>1, <2>2 DEF Next
  <2>4. cut.run \in Keys /\ NotTerminal(ledger[cut.run]) /\ ledger[cut.run] \in Entries
    BY DEF Tracked, CutKnown, Typed, DiskTyped
  <2>5. ledger'[cut.run] = [ledger[cut.run] EXCEPT !.state = "INTERRUPTED"]
    BY <2>3, <2>4 DEF StartupRecovery
  <2> QED BY <2>4, <2>5 DEF Entries
<1> QED BY <1>1, <1>2, <1>3, TypedInvariant, PTL DEF QueueSpec, CrashFound
=============================================================================
