--------------------------- MODULE OrchestratorProofs ---------------------------
(***************************************************************************)
(* A run of the orchestrator is in one place and got there stage by stage, *)
(* whoever drives it, in any order of calls, but for what resume_run leaves *)
(* running and for the stages it, and going on from waiting, pass over; and *)
(* what the operations console shows of the runs.                          *)
(***************************************************************************)
EXTENDS Orchestrator, OpsConsole, FiniteSetTheorems, TLAPS

Aside == {"COMPILE_REPAIR", "FAILED", "BLOCKED", "AWAITING_USER"}

\* The places in the pipeline the transition table singles out.
LEMMA PipelineFacts ==
    /\ Len(Pipeline) = 15 /\ DOMAIN Pipeline = 1..15
    /\ Pipeline[4] = "PLANNING_SKELETON" /\ Pipeline[5] = "CLARIFICATION_GATE"
    /\ Pipeline[6] = "DRAFT_SPEC_GENERATION" /\ Pipeline[7] = "COMPILE"
    /\ Pipeline[10] = "APPROVAL_GATE" /\ Pipeline[11] = "EXECUTION" /\ Pipeline[15] = "COMPLETED"
    /\ \A k \in 1..15 : Pipeline[k] \in Stage \ Aside
<1>1. Len(Pipeline) = 15 /\ DOMAIN Pipeline = 1..15
  BY DEF Pipeline
<1>2. /\ Pipeline[4] = "PLANNING_SKELETON" /\ Pipeline[5] = "CLARIFICATION_GATE"
      /\ Pipeline[6] = "DRAFT_SPEC_GENERATION" /\ Pipeline[7] = "COMPILE"
      /\ Pipeline[10] = "APPROVAL_GATE" /\ Pipeline[11] = "EXECUTION" /\ Pipeline[15] = "COMPLETED"
  BY DEF Pipeline
<1>3. ASSUME NEW k \in 1..15 PROVE Pipeline[k] \in Stage \ Aside
  <2>1. Pipeline[k] \in Stage
    BY <1>1 DEF Stage, InPipeline
  <2>2. Pipeline[k] \notin Aside
    BY DEF Pipeline, Aside
  <2> QED BY <2>1, <2>2
<1> QED BY <1>1, <1>2, <1>3

\* No stage stands twice in the pipeline.
LEMMA PipelineOnce == ASSUME NEW j \in 1..15, NEW k \in 1..15, Pipeline[j] = Pipeline[k] PROVE j = k
BY DEF Pipeline

\* Every stage there is.
LEMMA StagesAre == Aside \subseteq Stage /\ Stage = Aside \union {Pipeline[k] : k \in 1..15} /\ InPipeline \subseteq Stage
BY PipelineFacts DEF Stage, InPipeline, Aside

\* Where a transition can lead (state_machine.py).
LEMMA Edges ==
    ASSUME NEW from, NEW to, CanTransition(from, to)
    PROVE  \/ to \in {"FAILED", "BLOCKED"}
           \/ \E k \in 1..14 : from = Pipeline[k] /\ to = Pipeline[k + 1]
           \/ from \in {Pipeline[5], Pipeline[10]} /\ to = "AWAITING_USER"
           \/ from = "AWAITING_USER" /\ to \in {Pipeline[4], Pipeline[6], Pipeline[11]}
           \/ from = Pipeline[7] /\ to = "COMPILE_REPAIR"
           \/ from = "COMPILE_REPAIR" /\ to = Pipeline[7]
BY PipelineFacts DEF CanTransition, Transitions

\* The stage after another in the pipeline is a stage of the pipeline.
LEMMA NextIsNormal ==
    ASSUME NEW from, NEW s \in NextNormalStage(from)
    PROVE  \E k \in 1..14 : from = Pipeline[k] /\ s = Pipeline[k + 1]
BY PipelineFacts DEF NextNormalStage

-----------------------------------------------------------------------------
(* What the controller's methods do to a run.                              *)

\* A mark changes one stage.
LEMMA Marking ==
    ASSUME NEW r \in Run, NEW s \in Stage, NEW st \in StageStatus, NEW c \in Stage
    PROVE  /\ [Mark(r, s, st) EXCEPT !.current = c] \in Run
           /\ [Mark(r, s, st) EXCEPT !.current = c].current = c
           /\ [Mark(r, s, st) EXCEPT !.current = c].status[s] = st
           /\ \A u \in Stage : u # s => [Mark(r, s, st) EXCEPT !.current = c].status[u] = r.status[u]
BY DEF Mark, Run

\* The stages that were left keep their status, except that the one that ran is completed (advance_stage).
LEMMA Entering ==
    ASSUME NEW r \in Run, NEW to \in Stage
    PROVE  /\ Entered(r, to) \in Run
           /\ Entered(r, to).current = to /\ Entered(r, to).status[to] = "running"
           /\ \A u \in Stage : u # to =>
                \/ Entered(r, to).status[u] = r.status[u] /\ (u = r.current => r.status[u] # "running")
                \/ u = r.current /\ r.status[u] = "running" /\ Entered(r, to).status[u] = "completed"
<1> DEFINE left == IF r.status[r.current] = "running" THEN Mark(r, r.current, "completed") ELSE r
<1>1. left \in Run /\ \A u \in Stage :
        \/ left.status[u] = r.status[u] /\ (u = r.current => r.status[u] # "running")
        \/ u = r.current /\ r.status[u] = "running" /\ left.status[u] = "completed"
  BY DEF Mark, Run, StageStatus
<1>2. Entered(r, to) = [Mark(left, to, "running") EXCEPT !.current = to]
  BY DEF Entered
<1>3. "running" \in StageStatus
  BY DEF StageStatus
<1> HIDE DEF left
<1> QED BY <1>1, <1>2, <1>3, Marking

Left(r, r2, to, st) ==
  /\ r2 \in Run /\ r2.current = to /\ to \in Aside /\ r2.status[r.current] = st /\ st \notin {"running", "pending"}
  /\ \A u \in Stage : u # r.current => r2.status[u] = r.status[u]

\* Failing, blocking and awaiting mark the stage that is left and go aside.
LEMMA GoingAside ==
    ASSUME NEW r \in Run
    PROVE  /\ Left(r, FailedRun(r), "FAILED", "failed")
           /\ Left(r, BlockedRun(r), "BLOCKED", "blocked")
           /\ Left(r, AwaitingRun(r), "AWAITING_USER", "awaiting_user")
<1>1. {"failed", "blocked", "awaiting_user"} \subseteq StageStatus \ {"running", "pending"}
  BY DEF StageStatus
<1>2. {"FAILED", "BLOCKED", "AWAITING_USER"} \subseteq Stage \intersect Aside
  BY StagesAre DEF Aside
<1>3. ASSUME NEW to \in Stage \intersect Aside, NEW st \in StageStatus \ {"running", "pending"}
      PROVE  Left(r, [Mark(r, r.current, st) EXCEPT !.current = to], to, st)
  <2> DEFINE r2 == [Mark(r, r.current, st) EXCEPT !.current = to]
  <2>1. r.current \in Stage
    BY DEF Run
  <2>2. /\ r2 \in Run /\ r2.current = to /\ r2.status[r.current] = st
        /\ \A u \in Stage : u # r.current => r2.status[u] = r.status[u]
    BY <1>3, <2>1, Marking
  <2>3. ASSUME NEW x, x = r2 PROVE Left(r, x, to, st)
    BY <1>3, <2>2, <2>3 DEF Left
  <2> QED BY <2>3
<1>4. Left(r, FailedRun(r), "FAILED", "failed")
  BY <1>1, <1>2, <1>3 DEF FailedRun
<1>5. Left(r, BlockedRun(r), "BLOCKED", "blocked")
  BY <1>1, <1>2, <1>3 DEF BlockedRun
<1>6. Left(r, AwaitingRun(r), "AWAITING_USER", "awaiting_user")
  BY <1>1, <1>2, <1>3 DEF AwaitingRun
<1> QED BY <1>4, <1>5, <1>6

-----------------------------------------------------------------------------
(* Where a stage stands, and what the history notes.                       *)

LEMMA PlacesAre ==
  /\ \A k \in 1..15 : Places(Pipeline[k]) = {k}
  /\ Places("COMPILE_REPAIR") = {7}
  /\ \A s \in Aside : s # "COMPILE_REPAIR" => Places(s) = {}
<1>1. \A k \in 1..15 : Pipeline[k] # "COMPILE_REPAIR"
  BY PipelineFacts DEF Aside
<1>2. \A k \in 1..15 : Places(Pipeline[k]) = {k}
  BY <1>1, PipelineFacts, PipelineOnce DEF Places
<1>3. Places("COMPILE_REPAIR") = {7}
  <2>1. \A k \in 1..15 : Pipeline[k] = "COMPILE" <=> k = 7
    BY PipelineFacts, PipelineOnce
  <2> QED BY <2>1, PipelineFacts DEF Places
<1>4. ASSUME NEW s \in Aside, s # "COMPILE_REPAIR" PROVE Places(s) = {}
  BY <1>4, PipelineFacts DEF Places
<1> QED BY <1>2, <1>3, <1>4

Notes == [place : 1..Len(Pipeline), passed : SUBSET Stage, left : SUBSET Stage]

LEMMA BetweenIs ==
  ASSUME trail \in Notes, NEW to \in Stage
  PROVE  /\ Between(to) \subseteq Stage
         /\ \A k \in 1..15 : Places(to) = {k} => \A j \in 1..15 : trail.place <= j /\ j < k => Pipeline[j] \in Between(to)
BY PipelineFacts DEF Between

\* A stage beside the pipeline leaves the place; one in it is the place.
LEMMA Noting ==
    ASSUME trail \in Notes, NEW to \in Stage, NEW over \in SUBSET Stage, NEW left \in SUBSET Stage
    PROVE  /\ TrailOf(to, over, left) \in Notes
           /\ TrailOf(to, over, left).left = trail.left \union left
           /\ TrailOf(to, over, left).passed = trail.passed \union over
           /\ Places(to) = {} => TrailOf(to, over, left).place = trail.place
           /\ \A k \in 1..15 : Places(to) = {k} => TrailOf(to, over, left).place = k
<1> DEFINE p == IF Places(to) = {} THEN trail.place ELSE CHOOSE k \in Places(to) : TRUE
           n == TrailOf(to, over, left)
<1>1. n = [place |-> p, passed |-> trail.passed \union over, left |-> trail.left \union left]
  BY DEF TrailOf
<1>2. Places(to) \subseteq 1..15 /\ p \in 1..Len(Pipeline)
  BY PipelineFacts DEF Places, Notes
<1>3. (Places(to) = {} => p = trail.place) /\ \A k \in 1..15 : Places(to) = {k} => p = k
  OBVIOUS
<1> HIDE DEF p, n
<1>4. n.place = p /\ n.passed = trail.passed \union over /\ n.left = trail.left \union left /\ n \in Notes
  BY <1>1, <1>2 DEF Notes
<1> QED BY <1>3, <1>4 DEF n

-----------------------------------------------------------------------------
(* The type.                                                               *)

\* What a method does to the run and to its history.
Handled ==
  \/ UNCHANGED <<run, trail>>
  \/ \E to \in Stage : Advance(to)
  \/ HandleStageFailure \/ BlockRun \/ AwaitUser
  \/ \E frm \in ResumeStages : ResumeRun(frm)

LEMMA StepsChange == ResumesAtStages /\ [Next]_vars => Handled
<1> SUFFICES ASSUME ResumesAtStages, [Next]_vars PROVE Handled
  OBVIOUS
<1>1. CASE UNCHANGED vars
  BY <1>1 DEF vars, Handled
<1>2. CASE Call
  BY <1>2, StagesAre DEF Call, Handled, Aside
<1>3. CASE Loop
  <2>1. CASE StartLoop \/ LoopEnds \/ RequestStop
    BY <2>1 DEF StartLoop, LoopEnds, RequestStop, Handled
  <2>2. CASE LoopStops
    BY <2>2 DEF LoopStops, Handled
  <2>3. ASSUME NEW s \in Stage, LoopStage(s) PROVE Handled
    BY <2>3 DEF LoopStage, Handled
  <2>4. ASSUME NEW frm \in ResumeStages, Resume(frm) PROVE Handled
    BY <2>4 DEF Resume, Handled
  <2> QED BY <1>3, <2>1, <2>2, <2>3, <2>4 DEF Loop
<1> QED BY <1>1, <1>2, <1>3 DEF Next

\* resume_run marks the stage it is called with, and changes no other.
LEMMA Resuming ==
    ASSUME NEW r \in Run, NEW frm \in Stage
    PROVE  /\ ResumedRun(r, frm) \in Run /\ ResumedRun(r, frm).current = frm /\ ResumedRun(r, frm).status[frm] = "running"
           /\ \A u \in Stage : u # frm => ResumedRun(r, frm).status[u] = r.status[u]
<1>1. "running" \in StageStatus
  BY DEF StageStatus
<1> QED BY <1>1, Marking DEF ResumedRun

\* Every stage and status the controller writes is one of stages.py's, whatever it is called with.
LEMMA TypeStep == ResumesAtStages /\ TypeOK /\ [Next]_vars => TypeOK'
<1> SUFFICES ASSUME ResumesAtStages, TypeOK, [Next]_vars PROVE TypeOK'
  OBVIOUS
<1>1. run \in Run /\ run.current \in Stage /\ trail \in Notes
  BY DEF TypeOK, Run, Notes
<1>2. {FailedRun(run), BlockedRun(run), AwaitingRun(run)} \subseteq Run
  BY <1>1, GoingAside DEF Left
<1>3. \A to \in Stage : Entered(run, to) \in Run
  BY <1>1, Entering
<1>4. ASSUME NEW frm \in ResumeStages PROVE ResumedRun(run, frm) \in Run
  BY <1>1, Resuming DEF ResumesAtStages
<1>5. ASSUME NEW s \in Stage PROVE Filing(run, Gives[s]) \in [Stage -> SUBSET Result]
  BY <1>5 DEF Filing, Gives, Result, TypeOK
<1>6. run' \in Run
  BY <1>1, <1>2, <1>3, <1>4, StepsChange DEF Handled, Advance, HandleStageFailure, BlockRun, AwaitUser, ResumeRun
<1>7. trail' \in Notes
  <2>1. ASSUME NEW to \in Stage, Advance(to) PROVE trail' \in Notes
    <3>1. Over(to) \in SUBSET Stage /\ {} \in SUBSET Stage
      BY <1>1, BetweenIs DEF Over
    <3> QED BY <1>1, <2>1, <3>1, Noting DEF Advance
  <2>2. ASSUME NEW frm \in ResumeStages, ResumeRun(frm) PROVE trail' \in Notes
    <3>1. frm \in Stage /\ {s \in {run.current} : run.status[s] = "running"} \in SUBSET Stage /\ Between(frm) \in SUBSET Stage
      BY <1>1, BetweenIs DEF ResumesAtStages
    <3> QED BY <1>1, <2>2, <3>1, Noting DEF ResumeRun
  <2> QED BY <1>1, <2>1, <2>2, StepsChange DEF Handled, HandleStageFailure, BlockRun, AwaitUser
<1>8. filed' \in [Stage -> SUBSET Result]
  BY <1>5 DEF TypeOK, Next, vars, Call, Loop, StartLoop, LoopStops, LoopEnds, LoopStage, RequestStop, Resume
<1>9. driver' \in {"caller", "loop"} /\ looping' \in BOOLEAN /\ stopped' \in BOOLEAN
  BY DEF TypeOK, Next, vars, Call, Loop, StartLoop, LoopStops, LoopEnds, LoopStage, RequestStop, Resume
<1>10. detours' \in Nat
  BY DEF TypeOK, Next, vars, Call, Detour, Loop, StartLoop, LoopStops, LoopEnds, LoopStage, RequestStop, Resume
<1> QED BY <1>6, <1>7, <1>8, <1>9, <1>10 DEF TypeOK, Notes

\* The first state has its types.
LEMMA TypeInit == Init => TypeOK
<1>1. Pipeline[1] \in Stage /\ {"running", "pending"} \subseteq StageStatus /\ 1 \in 1..Len(Pipeline)
  BY PipelineFacts DEF StageStatus
<1>2. NewRun \in Run
  BY <1>1 DEF NewRun, Run
<1> DEFINE t == [place |-> 1, passed |-> {}, left |-> {}]
<1>3. t \in Notes
  BY <1>1 DEF Notes
<1>4. ASSUME Init PROVE run \in Run /\ trail \in Notes
  BY <1>2, <1>3, <1>4 DEF Init
<1> HIDE DEF t
<1>5. ASSUME Init PROVE filed \in [Stage -> SUBSET Result] /\ detours \in Nat
  BY <1>5 DEF Init
<1>6. ASSUME Init PROVE driver \in {"caller", "loop"} /\ looping \in BOOLEAN /\ stopped \in BOOLEAN
  BY <1>6 DEF Init
<1> QED BY <1>4, <1>5, <1>6 DEF TypeOK, Notes

-----------------------------------------------------------------------------
(* The invariant.                                                          *)

\* What a run has behind it: every stage before its place was entered or passed over; where the run is in the pipeline,
\* that is its place and was entered.
Behind(r, t) ==
  /\ \A j \in 1..15 : j < t.place => r.status[Pipeline[j]] # "pending" \/ Pipeline[j] \in t.passed
  /\ \A k \in 1..15 : r.current = Pipeline[k] => t.place = k /\ r.status[Pipeline[k]] # "pending"
  /\ r.current = "COMPILE_REPAIR" => t.place = 7

Single(r, t) == \A s \in Stage : r.status[s] = "running" => s = r.current \/ s \in t.left

TrailInv == TypeOK /\ Single(run, trail) /\ Behind(run, trail)

\* Leaving a stage for one outside the pipeline leaves none running but what was left so before.
LEMMA AsideKeeps ==
    ASSUME NEW r \in Run, NEW r2, NEW to, NEW st, Left(r, r2, to, st), to # "COMPILE_REPAIR", NEW t \in Notes,
           Single(r, t), Behind(r, t)
    PROVE  Single(r2, t) /\ Behind(r2, t)
<1>1. \A u \in Stage : r.status[u] # "pending" => r2.status[u] # "pending"
  BY DEF Left
<1>2. \A k \in 1..15 : Pipeline[k] \in Stage \ Aside
  BY PipelineFacts
<1>3. Single(r2, t)
  BY DEF Left, Single
<1>4. Behind(r2, t)
  BY <1>1, <1>2 DEF Left, Behind
<1> QED BY <1>3, <1>4

\* Entering a stage, or marking it running, keeps what is behind the run when all up to it was passed over, or when it
\* is where the table leads without a jump.
LEMMA ThereKeeps ==
    ASSUME NEW r \in Run, NEW r2 \in Run, NEW to \in Stage, NEW t \in Notes, NEW t2 \in Notes,
           Behind(r, t), r2.current = to, r2.status[to] # "pending",
           \A u \in Stage : r.status[u] # "pending" => r2.status[u] # "pending",
           t.passed \subseteq t2.passed,
           Places(to) = {} => t2.place = t.place,
           \A k \in 1..15 : Places(to) = {k} => t2.place = k,
           \/ \A k \in 1..15 : Places(to) = {k} => \A j \in 1..15 : t.place <= j /\ j < k => Pipeline[j] \in t2.passed
           \/ CanTransition(r.current, to) /\ r.current # "AWAITING_USER"
    PROVE  Behind(r2, t2)
<1>1. \A k \in 1..15 : Pipeline[k] \in Stage /\ Pipeline[k] \notin Aside
  BY PipelineFacts
<1>2. t.place \in 1..15 /\ t2.place \in 1..15
  BY PipelineFacts DEF Notes
<1> DEFINE Known(j) == r2.status[Pipeline[j]] # "pending" \/ Pipeline[j] \in t2.passed
<1>3. \A j \in 1..15 : j < t.place => Known(j)
  BY <1>1 DEF Behind
<1>4. ASSUME NEW k \in 1..15, Places(to) = {k} PROVE \A j \in 1..15 : j < k => Known(j)
  <2>1. CASE \A l \in 1..15 : Places(to) = {l} => \A j \in 1..15 : t.place <= j /\ j < l => Pipeline[j] \in t2.passed
    <3>1. \A j \in 1..15 : t.place <= j /\ j < k => Known(j)
      BY <1>4, <2>1
    <3> HIDE DEF Known
    <3> QED BY <1>2, <1>3, <3>1
  <2>2. CASE CanTransition(r.current, to) /\ r.current # "AWAITING_USER"
    <3>1. to = Pipeline[k] \/ (to = "COMPILE_REPAIR" /\ k = 7)
      <4>1. CASE to \in Aside
        BY <1>4, <4>1, PlacesAre
      <4>2. ASSUME NEW l \in 1..15, to = Pipeline[l] PROVE l = k
        BY <1>4, <4>2, PlacesAre
      <4> QED BY <4>1, <4>2, StagesAre
    <3>2. \/ \E l \in 1..14 : r.current = Pipeline[l] /\ to = Pipeline[l + 1]
          \/ r.current = Pipeline[7] /\ to = "COMPILE_REPAIR"
          \/ r.current = "COMPILE_REPAIR" /\ to = Pipeline[7]
      BY <1>1, <2>2, <3>1, Edges DEF Aside
    <3>3. ASSUME NEW l \in 1..14, r.current = Pipeline[l], to = Pipeline[l + 1] PROVE \A j \in 1..15 : j < k => Known(j)
      <4>1. k = l + 1
        BY <1>1, <3>1, <3>3, PipelineOnce DEF Aside
      <4>2. t.place = l /\ r.status[Pipeline[l]] # "pending"
        BY <3>3 DEF Behind
      <4>3. Known(l)
        BY <1>1, <4>2
      <4> HIDE DEF Known
      <4> QED BY <1>3, <4>1, <4>2, <4>3
    <3>4. ASSUME \/ r.current = Pipeline[7] /\ to = "COMPILE_REPAIR"
                 \/ r.current = "COMPILE_REPAIR" /\ to = Pipeline[7]
          PROVE  \A j \in 1..15 : j < k => Known(j)
      <4>1. k = 7 /\ t.place = 7
        BY <1>1, <3>1, <3>4, PipelineOnce DEF Behind, Aside
      <4> HIDE DEF Known
      <4> QED BY <1>3, <4>1
    <3> HIDE DEF Known
    <3> QED BY <3>2, <3>3, <3>4
  <2> QED BY <2>1, <2>2
<1>5. CASE to \in Aside \ {"COMPILE_REPAIR"}
  <2>1. Places(to) = {}
    BY <1>5, PlacesAre
  <2>2. t2.place = t.place
    BY <2>1
  <2> QED BY <1>1, <1>3, <1>5, <2>2 DEF Behind
<1>6. CASE to = "COMPILE_REPAIR"
  <2>1. Places(to) = {7} /\ t2.place = 7
    BY <1>6, PlacesAre
  <2>2. \A j \in 1..15 : j < 7 => Known(j)
    BY <1>4, <2>1
  <2> QED BY <1>1, <1>6, <2>1, <2>2 DEF Behind, Aside
<1>7. ASSUME NEW k \in 1..15, to = Pipeline[k] PROVE Behind(r2, t2)
  <2>1. Places(to) = {k} /\ t2.place = k /\ \A l \in 1..15 : Pipeline[l] = to => l = k
    BY <1>7, PlacesAre, PipelineOnce
  <2>2. \A j \in 1..15 : j < k => Known(j)
    BY <1>4, <2>1
  <2>3. to # "COMPILE_REPAIR"
    BY <1>1, <1>7 DEF Aside
  <2> QED BY <2>1, <2>2, <2>3 DEF Behind
<1> QED BY <1>5, <1>6, <1>7, StagesAre

\* Every method keeps the trail of stages in order, in any order of calls.
LEMMA TrailStep == ResumesAtStages /\ TrailInv /\ [Next]_vars => TrailInv'
<1> SUFFICES ASSUME ResumesAtStages, TrailInv, [Next]_vars PROVE TrailInv'
  OBVIOUS
<1>1. TypeOK'
  BY TypeStep DEF TrailInv
<1>2. run \in Run /\ run.current \in Stage /\ trail \in Notes /\ run' \in Run /\ trail' \in Notes
  BY <1>1 DEF TrailInv, TypeOK, Run, Notes
<1>3. Single(run, trail) /\ Behind(run, trail)
  BY DEF TrailInv
<1>4. CASE UNCHANGED <<run, trail>>
  BY <1>1, <1>3, <1>4 DEF TrailInv
<1>5. CASE HandleStageFailure \/ BlockRun \/ AwaitUser
  <2>1. trail' = trail /\ \E to \in {"FAILED", "BLOCKED", "AWAITING_USER"}, st \in {"failed", "blocked", "awaiting_user"} : Left(run, run', to, st)
    BY <1>2, <1>5, GoingAside DEF HandleStageFailure, BlockRun, AwaitUser
  <2>2. Single(run', trail) /\ Behind(run', trail)
    BY <1>2, <1>3, <2>1, AsideKeeps
  <2> QED BY <1>1, <2>1, <2>2 DEF TrailInv
<1>6. ASSUME NEW to \in Stage, Advance(to) PROVE TrailInv'
  <2>1. /\ run' = Entered(run, to) /\ trail' = TrailOf(to, Over(to), {}) /\ CanTransition(run.current, to)
        /\ Over(to) \in SUBSET Stage /\ {} \in SUBSET Stage
    BY <1>2, <1>6, BetweenIs DEF Advance, Over
  <2>2. /\ run'.current = to /\ run'.status[to] = "running"
        /\ \A u \in Stage : u # to =>
             \/ run'.status[u] = run.status[u] /\ (u = run.current => run.status[u] # "running")
             \/ u = run.current /\ run.status[u] = "running" /\ run'.status[u] = "completed"
    BY <1>2, <2>1, Entering
  <2>3. /\ trail'.left = trail.left /\ trail'.passed = trail.passed \union Over(to)
        /\ Places(to) = {} => trail'.place = trail.place
        /\ \A k \in 1..15 : Places(to) = {k} => trail'.place = k
    <3>1. trail' = [place |-> IF Places(to) = {} THEN trail.place ELSE CHOOSE k \in Places(to) : TRUE,
                    passed |-> trail.passed \union Over(to), left |-> trail.left]
      BY <2>1 DEF TrailOf
    <3>2. \A k \in 1..15 : {k} # {}
      OBVIOUS
    <3> QED BY <3>1, <3>2
  <2>4. \A u \in Stage : run.status[u] # "pending" => run'.status[u] # "pending"
    BY <2>2
  <2>5. \/ \A k \in 1..15 : Places(to) = {k} => \A j \in 1..15 : trail.place <= j /\ j < k => Pipeline[j] \in trail'.passed
        \/ CanTransition(run.current, to) /\ run.current # "AWAITING_USER"
    BY <1>2, <2>1, <2>3, BetweenIs DEF Over
  <2>6. Single(run', trail')
    BY <1>3, <2>2, <2>3 DEF Single
  <2>7. Behind(run', trail')
    BY <1>2, <1>3, <2>2, <2>3, <2>4, <2>5, ThereKeeps
  <2> QED BY <1>1, <2>6, <2>7 DEF TrailInv
<1>7. ASSUME NEW frm \in ResumeStages, ResumeRun(frm) PROVE TrailInv'
  <2> DEFINE left == {s \in {run.current} : run.status[s] = "running"}
  <2>1. /\ frm \in Stage /\ left \in SUBSET Stage /\ Between(frm) \in SUBSET Stage
        /\ run' = ResumedRun(run, frm) /\ trail' = TrailOf(frm, Between(frm), left)
    BY <1>2, <1>7, BetweenIs DEF ResumesAtStages, ResumeRun
  <2>2. run'.current = frm /\ run'.status[frm] = "running" /\ \A u \in Stage : u # frm => run'.status[u] = run.status[u]
    BY <1>2, <2>1, Resuming
  <2>3. /\ trail'.left = trail.left \union left /\ trail'.passed = trail.passed \union Between(frm)
        /\ Places(frm) = {} => trail'.place = trail.place
        /\ \A k \in 1..15 : Places(frm) = {k} => trail'.place = k
    <3>1. Between(frm) \in SUBSET Stage /\ left \in SUBSET Stage /\ frm \in Stage
      BY <2>1
    <3> HIDE DEF left
    <3>2. /\ TrailOf(frm, Between(frm), left).left = trail.left \union left /\ TrailOf(frm, Between(frm), left).passed = trail.passed \union Between(frm)
          /\ Places(frm) = {} => TrailOf(frm, Between(frm), left).place = trail.place
          /\ \A k \in 1..15 : Places(frm) = {k} => TrailOf(frm, Between(frm), left).place = k
      BY <1>2, <3>1, Noting
    <3> QED BY <2>1, <3>2
  <2>4. \A u \in Stage : run.status[u] # "pending" => run'.status[u] # "pending"
    BY <2>2
  <2>5. \A k \in 1..15 : Places(frm) = {k} => \A j \in 1..15 : trail.place <= j /\ j < k => Pipeline[j] \in trail'.passed
    BY <1>2, <2>1, <2>3, BetweenIs
  <2>6. Single(run', trail')
    BY <1>3, <2>2, <2>3 DEF Single
  <2>7. Behind(run', trail')
    BY <1>2, <1>3, <2>1, <2>2, <2>3, <2>4, <2>5, ThereKeeps
  <2> QED BY <1>1, <2>6, <2>7 DEF TrailInv
<1> QED BY <1>4, <1>5, <1>6, <1>7, StepsChange DEF Handled

\* A new run has an orderly trail.
LEMMA TrailInit == Init => TrailInv
<1> SUFFICES ASSUME Init PROVE TrailInv
  OBVIOUS
<1>1. run = NewRun /\ run.current = Pipeline[1] /\ trail.place = 1
  BY DEF Init, NewRun
<1>2. \A s \in Stage : run.status[s] = IF s = Pipeline[1] THEN "running" ELSE "pending"
  BY <1>1 DEF NewRun
<1>3. Single(run, trail)
  BY <1>1, <1>2 DEF Single
<1>4. Pipeline[1] \in Stage \ Aside /\ \A k \in 1..15 : Pipeline[k] = Pipeline[1] => k = 1
  BY PipelineFacts, PipelineOnce
<1>5. Behind(run, trail)
  BY <1>1, <1>2, <1>4 DEF Behind, Aside
<1> QED BY <1>3, <1>5, TypeInit DEF TrailInv

\* The invariant says that the stages are in order.
LEMMA TrailSays == TrailInv => StagesInOrder
<1> SUFFICES ASSUME TrailInv PROVE StagesInOrder
  OBVIOUS
<1>1. OneRunning
  BY DEF TrailInv, Single, OneRunning
<1>2. InOrder
  BY PipelineFacts DEF TrailInv, Behind, InOrder
<1> QED BY <1>1, <1>2 DEF StagesInOrder

-----------------------------------------------------------------------------
(* The theorems.                                                           *)

\* Every variable keeps its type (stages.py, run_model.py).
THEOREM RunTypeCorrect == ASSUME ResumesAtStages PROVE Spec => []TypeOK
<1>1. TypeOK /\ [Next]_vars => TypeOK'
  BY TypeStep
<1> QED BY <1>1, TypeInit, PTL DEF Spec

\* For any order of the methods' calls, from any stage resume_run is called with: a second stage is running only
\* because resume_run left it so, and a stage before the current one is pending only because a jump passed over it.
THEOREM StagesStayInOrder == ASSUME ResumesAtStages PROVE Spec => []StagesInOrder
<1>1. TrailInv /\ [Next]_vars => TrailInv'
  BY TrailStep
<1> QED BY <1>1, TrailInit, TrailSays, PTL DEF Spec

\* The loop never returns with a stage of the pipeline under way (run_orchestrator).
THEOREM LoopReturnsSettled == ASSUME ResumesAtStages PROVE Spec => ReturnsSettled
<1>1. TypeOK /\ [Next]_vars => TypeOK'
  BY TypeStep
<1>2. TypeOK /\ [Next]_vars => [looping /\ ~looping' => run'.current \notin InPipeline \ {"COMPLETED"}]_vars
  <2> SUFFICES ASSUME TypeOK, Next, looping, ~looping' PROVE run'.current \notin InPipeline \ {"COMPLETED"}
    OBVIOUS
  <2>1. run \in Run /\ Aside \intersect InPipeline = {}
    BY PipelineFacts DEF TypeOK, Aside, InPipeline
  <2>2. CASE LoopEnds
    <3>1. run' = run /\ NextNormalStage(run.current) = {}
      BY <2>2 DEF LoopEnds
    <3>2. ASSUME NEW k \in 1..14, run.current = Pipeline[k] PROVE FALSE
      <4>1. k \in {j \in 1..(Len(Pipeline) - 1) : Pipeline[j] = run.current}
        BY <3>2, PipelineFacts
      <4>2. Pipeline[k + 1] \in NextNormalStage(run.current)
        BY <4>1 DEF NextNormalStage
      <4> QED BY <3>1, <4>2
    <3> QED BY <3>1, <3>2, PipelineFacts DEF InPipeline
  <2>3. CASE HandleStageFailure \/ BlockRun \/ AwaitUser
    <3>1. run'.current \in Aside
      BY <2>1, <2>3, GoingAside DEF HandleStageFailure, BlockRun, AwaitUser, Left
    <3> QED BY <2>1, <3>1
  <2>4. LoopEnds \/ HandleStageFailure \/ BlockRun \/ AwaitUser
    BY DEF Next, Call, Loop, StartLoop, LoopStops, LoopStage, RequestStop, Resume
  <2> QED BY <2>2, <2>3, <2>4
<1> QED BY <1>1, <1>2, TypeInit, PTL DEF Spec, ReturnsSettled

-----------------------------------------------------------------------------
(***************************************************************************)
(* The operations console: what it shows, for any runs, any threads that   *)
(* rebuild and any number of changes, rebuilds and exits in between.       *)
(***************************************************************************)

Alerting == {"banners", "saving banners", "health", "saving health"}
Summaries == [counts : AllCounts, banners : Alerts]
Healths == {"OK", "WARN", "FAIL"}
Picture(counts) == [counts |-> counts, banners |-> Banners(counts)]
Agreed(counts) == summary = Whole(Picture(counts))

\* Whose rebuild met no other one is alone at it; who has a file open that another one has open too did meet.
Alone(b) == \A o \in Others(b) : ~Rebuilding(o)
Met == /\ \A b \in Threads : Rebuilding(b) /\ b \notin disturbed => Alone(b)
       /\ \A b \in contested : Rebuilding(b) /\ b \in disturbed

\* Where an undisturbed rebuild is says which files are already those of the indices.
Follows(b) ==
  /\ building[b] \in Alerting \union {"summary"} => trends = Whole(Trends)
  /\ building[b] = "banners" => Load(summary, NoSummary).counts = Counts(index)
  /\ building[b] \in Alerting \ {"banners"} => evaluated[b] = Counts(index)
  /\ building[b] \in {"health", "saving health"} => Agreed(evaluated[b])
Underway ==
  \A b \in Threads : /\ Rebuilding(b) => ~complete
                     /\ building[b] \in Alerting => cut
                     /\ b \notin disturbed => Follows(b)

\* A rebuild that went to its end left nothing the indices contradict.
Finished == complete => ~cut /\ Agreed(Counts(index)) /\ health = Whole(Overall(Counts(index))) /\ trends = Whole(Trends)

\* The tabs half filled show the dashboard of the indices the others will show.
Filling ==
  building["window"] = "tabs" /\ "window" \notin disturbed =>
    /\ \A b \in Threads : ~Rebuilding(b)
    /\ complete => shown.dashboard = Picture(Counts(index)) /\ shown.health = Overall(Counts(index))

\* The parts of ConsoleSound that need no help but this.
AlertsAgree == ~cut => \/ summary = Absent /\ health = Absent
                       \/ \E counts \in {Load(summary, NoSummary).counts} : Agreed(counts) /\ health = Whole(Overall(counts))
OnePicture ==
  shown.complete => shown.dashboard = Picture(Counts(shown.index)) /\ shown.health = Overall(Counts(shown.index))
VerdictWasGiven == index.regression # NoVerdict => \E n \in DOMAIN run_dirs : run_dirs[n] = index.regression

ConsoleInv == OpsTypeOK /\ Met /\ Underway /\ Finished /\ Filling /\ AlertsAgree /\ OnePicture /\ VerdictWasGiven

\* What is read of a whole file is what was written; a file is absent, torn or whole.
LEMMA LoadWhole == ASSUME NEW content, NEW default PROVE Load(Whole(content), default) = content
  BY DEF Load, Whole

LEMMA WholeIsFile == ASSUME NEW contents, NEW content \in contents PROVE FileOf(contents, Whole(content))
  BY DEF FileOf, Whole

LEMMA TornIsFile == \A contents : FileOf(contents, Half) /\ FileOf(contents, Absent)
  BY DEF FileOf

\* What is counted, shown as a banner or given as the health is of its type.
LEMMA CountsAreCounts == ASSUME ConsoleConstants, NEW at \in Indices PROVE Counts(at) \in AllCounts
<1>1. Live(at.runs) \subseteq Runs /\ at.recovery \subseteq Runs
  BY DEF Live, Indices
<1>2. Cardinality(Live(at.runs)) \in Nat /\ Cardinality(at.recovery) \in Nat
  BY <1>1, FS_Subset, FS_CardinalityType DEF ConsoleConstants
<1>3. Waiting(at) \in Nat
  BY DEF Waiting, Indices
<1>4. QED
  BY <1>2, <1>3 DEF Counts, AllCounts, Indices

LEMMA BannersAreAlerts == \A counts : Banners(counts) \in Alerts
  BY DEF Banners, Alerts

LEMMA OverallIsHealth == \A counts \in AllCounts : Overall(counts) \in Healths
  BY DEF Overall, Healths, AllCounts, Backlog

LEMMA NoIndexIsIndex == NoIndex \in Indices
  BY DEF NoIndex, Indices, QueueStates, RunStates, NoVerdict

LEMMA LoadedSummary == ASSUME ConsoleConstants, FileOf(Summaries, summary) PROVE Load(summary, NoSummary) \in Summaries
<1>1. NoSummary \in Summaries
  BY CountsAreCounts, NoIndexIsIndex DEF NoSummary, Summaries, Alerts
<1>2. QED
  BY <1>1 DEF Load, FileOf, Absent, Half, Whole

\* The types, with the names used here.
LEMMA ConsoleTypes == OpsTypeOK <=>
    /\ run_dirs \in Seq({NoVerdict, TornVerdict} \union Verdicts) /\ queue_state \in QueueStates /\ run_states \in [Runs -> RunStates]
    /\ pending \in Nat /\ approvals_file \in Nat \union {TornApprovals}
    /\ index \in Indices /\ building \in [Threads -> Stages] /\ evaluated \in [Threads -> AllCounts]
    /\ contested \subseteq Threads /\ disturbed \subseteq Threads
    /\ FileOf(Summaries, summary) /\ FileOf(Healths, health) /\ shown \in Tabs
    /\ complete \in BOOLEAN /\ cut \in BOOLEAN /\ changes \in Nat /\ rebuilds \in Nat /\ exits \in Nat
  BY DEF OpsTypeOK, Summaries, Healths

LEMMA BlankIsTabs == ASSUME ConsoleConstants PROVE Blank \in Tabs
  BY CountsAreCounts, NoIndexIsIndex DEF Blank, Tabs, NoSummary, Alerts

LEMMA ConsoleInvInit == ASSUME ConsoleConstants, OpsInit PROVE ConsoleInv
<1>0. ConsoleIdle
  BY DEF OpsInit
<1>1. Counts(NoIndex) \in AllCounts /\ NoIndex \in Indices
  BY CountsAreCounts, NoIndexIsIndex
<1>2. FileOf(Summaries, Absent) /\ FileOf(Healths, Absent)
  BY TornIsFile
<1>3. run_dirs \in Seq({NoVerdict, TornVerdict} \union Verdicts)
  <2>1. [status |-> "FAIL"] \in {NoVerdict, TornVerdict} \union Verdicts
    BY DEF Verdicts
  <2>2. \A begun \in {NoVerdict, TornVerdict} : <<[status |-> "FAIL"], begun>> \in Seq({NoVerdict, TornVerdict} \union Verdicts)
    BY <2>1
  <2> QED BY <2>2 DEF OpsInit
<1>4. OpsTypeOK
  BY <1>0, <1>1, <1>2, <1>3, BlankIsTabs, ConsoleTypes DEF ConsoleIdle, QueueStates, RunStates, Backlog, Stages
<1>5. \A b \in Threads : building[b] = "nothing"
  BY <1>0 DEF ConsoleIdle
<1>6. Met /\ Underway
  BY <1>0, <1>5 DEF ConsoleIdle, Met, Underway, Rebuilding, Resting, Follows, Alerting
<1>7. Finished /\ Filling /\ AlertsAgree
  BY <1>0, <1>5 DEF ConsoleIdle, Finished, Filling, AlertsAgree, ConsoleConstants
<1>8. OnePicture /\ VerdictWasGiven
  BY <1>0 DEF ConsoleIdle, OnePicture, VerdictWasGiven, Blank, NoIndex
<1>9. QED
  BY <1>4, <1>6, <1>7, <1>8 DEF ConsoleInv

\* Who records an event or asks for an approval rebuilds nothing, and touches neither indices, alerts nor tabs.
Aloof(b, from, to) ==
  /\ building[b] = from /\ building' = [building EXCEPT ![b] = to]
  /\ UNCHANGED <<index, trends, summary, health, evaluated, cut, contested, shown, complete, disturbed, run_dirs>>

LEMMA AloofKeeps ==
    ASSUME ConsoleInv, NEW b \in Threads, NEW from \in Resting \ {"tabs"}, NEW to \in Resting \ {"tabs"}, Aloof(b, from, to), OpsTypeOK'
    PROVE  ConsoleInv'
<1>1. /\ \A o \in Threads : building'[o] = IF o = b THEN to ELSE building[o]
      /\ UNCHANGED <<index, trends, summary, health, evaluated, cut, contested, shown, complete, disturbed, run_dirs>>
  BY DEF ConsoleInv, OpsTypeOK, Aloof
<1>2. \A o \in Threads : (Rebuilding(o))' <=> Rebuilding(o)
  BY <1>1 DEF Aloof, Rebuilding, Resting
<1>3. contested \subseteq Threads /\ \A o \in Threads : Others(o) \subseteq Threads
  BY DEF ConsoleInv, OpsTypeOK, Others
<1>4. Met'
  BY <1>1, <1>2, <1>3 DEF ConsoleInv, Met, Alone, Others
<1>5. Underway'
  <2> SUFFICES ASSUME NEW o \in Threads
               PROVE  /\ Rebuilding(o)' => ~complete'
                      /\ building'[o] \in Alerting => cut'
                      /\ o \notin disturbed' => Follows(o)'
    BY DEF Underway
  <2>1. Rebuilding(o)' => ~complete'
    BY <1>1, <1>2 DEF ConsoleInv, Underway
  <2>2. building'[o] \in Alerting => cut'
    BY <1>1 DEF ConsoleInv, Underway, Resting, Alerting
  <2>3. CASE o = b
    BY <1>1, <2>1, <2>2, <2>3 DEF Follows, Resting, Alerting
  <2>4. CASE o # b
    <3>1. Follows(o) => Follows(o)'
      BY <1>1, <2>4 DEF Follows, Agreed, Picture, Trends
    <3>2. o \notin disturbed' => Follows(o)
      BY <1>1 DEF ConsoleInv, Underway
    <3> QED BY <2>1, <2>2, <3>1, <3>2
  <2> QED BY <2>3, <2>4
<1>6. Finished' /\ AlertsAgree' /\ OnePicture' /\ VerdictWasGiven'
  BY <1>1 DEF ConsoleInv, Finished, AlertsAgree, OnePicture, VerdictWasGiven, Agreed, Picture, Trends
<1>7. Filling'
  <2> SUFFICES ASSUME building'["window"] = "tabs", "window" \notin disturbed
               PROVE  /\ \A o \in Threads : ~Rebuilding(o)
                      /\ complete => shown.dashboard = Picture(Counts(index)) /\ shown.health = Overall(Counts(index))
    BY <1>1, <1>2 DEF Filling
  <2>1. building["window"] = "tabs"
    BY DEF Aloof, ConsoleInv, OpsTypeOK
  <2> QED BY <2>1 DEF ConsoleInv, Filling
<1> QED BY <1>4, <1>5, <1>6, <1>7 DEF ConsoleInv

LEMMA FilesMoveKeep ==
    ASSUME ConsoleConstants, ConsoleInv, NEW b \in Threads, RecordEvent(b) \/ AskApproval(b) \/ SaveApprovals(b) \/ DecideApproval
    PROVE  ConsoleInv'
<1>1. /\ pending \in Nat /\ changes \in Nat /\ run_states \in [Runs -> RunStates] /\ queue_state \in QueueStates
      /\ approvals_file \in Nat \union {TornApprovals}
  BY DEF ConsoleInv, OpsTypeOK
<1>2. \E o \in Threads, from \in Resting \ {"tabs"}, to \in Resting \ {"tabs"} : Aloof(o, from, to)
  <2>1. CASE RecordEvent(b)
    <3>1. Aloof(b, "nothing", "event")
      BY <2>1 DEF RecordEvent, Aloof, alertVars
    <3> QED BY <3>1 DEF Resting
  <2>2. CASE AskApproval(b)
    <3>1. Aloof(b, "nothing", "asking")
      BY <2>2 DEF AskApproval, Asks, Aloof, alertVars
    <3> QED BY <3>1 DEF Resting
  <2>3. CASE SaveApprovals(b)
    <3>1. Aloof(b, "asking", "nothing")
      BY <2>3 DEF SaveApprovals, Asks, Aloof, alertVars
    <3> QED BY <3>1 DEF Resting
  <2>4. CASE DecideApproval
    <3>1. Aloof("window", "nothing", "nothing")
      BY <2>4 DEF DecideApproval, Asks, Aloof, alertVars
    <3> QED BY <3>1 DEF Resting, ConsoleConstants
  <2> QED BY <2>1, <2>2, <2>3, <2>4
<1>3. /\ changes' \in Nat /\ queue_state' \in QueueStates /\ run_states' \in [Runs -> RunStates]
      /\ pending' \in Nat /\ approvals_file' \in Nat \union {TornApprovals} /\ UNCHANGED <<rebuilds, exits>>
  <2>1. CASE RecordEvent(b)
    BY <1>1, <2>1 DEF RecordEvent, Changed
  <2>2. CASE AskApproval(b)
    BY <1>1, <2>2 DEF AskApproval, Asks, Changed
  <2>3. CASE SaveApprovals(b)
    BY <1>1, <2>3 DEF SaveApprovals, Asks
  <2>4. CASE DecideApproval
    BY <1>1, <2>4 DEF DecideApproval, Asks, Changed
  <2> QED BY <2>1, <2>2, <2>3, <2>4
<1>4. PICK o \in Threads, from \in Resting \ {"tabs"}, to \in Resting \ {"tabs"} : Aloof(o, from, to)
  BY <1>2
<1>5. OpsTypeOK'
  <2>1. building' \in [Threads -> Stages]
    BY <1>4 DEF Aloof, Resting, Stages, ConsoleInv, OpsTypeOK
  <2>2. UNCHANGED <<index, trends, summary, health, evaluated, cut, contested, shown, complete, disturbed, run_dirs>>
    BY <1>4 DEF Aloof
  <2> QED BY <1>3, <2>1, <2>2 DEF ConsoleInv, OpsTypeOK
<1> QED BY <1>4, <1>5, AloofKeeps

\* A suite gives a verdict where none was, so one that an index holds stays given.
LEMMA SuiteMovesKeeps == ASSUME ConsoleInv, SuiteMoves PROVE ConsoleInv'
<1> DEFINE Files == {NoVerdict, TornVerdict} \union Verdicts
<1>1. run_dirs \in Seq(Files) /\ changes \in Nat /\ index.regression \in {NoVerdict} \union Verdicts
  BY DEF ConsoleInv, OpsTypeOK, Indices
<1>2. NoVerdict \notin Verdicts /\ TornVerdict \notin Verdicts
  BY DEF NoVerdict, TornVerdict, Verdicts
<1>3. /\ changes' = changes + 1
      /\ UNCHANGED <<queue_state, run_states, pending, approvals_file, index, trends, summary, health, evaluated, cut, building, contested,
                     shown, complete, disturbed, rebuilds, exits>>
  BY DEF SuiteMoves, Changed, alertVars, atWork
<1>5. \/ run_dirs' = Append(run_dirs, NoVerdict)
      \/ /\ run_dirs # <<>> /\ run_dirs[Len(run_dirs)] \in {NoVerdict, TornVerdict}
         /\ \E v \in Files : run_dirs' = [run_dirs EXCEPT ![Len(run_dirs)] = v]
  <2>1. CASE run_dirs' = Append(run_dirs, NoVerdict)
    BY <2>1
  <2>2. CASE LatestVerdict = NoVerdict /\ run_dirs # <<>> /\ run_dirs' = [run_dirs EXCEPT ![Len(run_dirs)] = TornVerdict]
    BY <2>2 DEF LatestVerdict
  <2>3. CASE LatestVerdict = TornVerdict /\ \E v \in Verdicts : run_dirs' = [run_dirs EXCEPT ![Len(run_dirs)] = v]
    <3>1. run_dirs # <<>>
      BY <2>3 DEF LatestVerdict, NoVerdict, TornVerdict
    <3>2. QED
      BY <2>3, <3>1 DEF LatestVerdict
  <2>4. QED
    BY <2>1, <2>2, <2>3 DEF SuiteMoves
<1>6. NoVerdict \in Files
  OBVIOUS
<1> HIDE DEF Files
<1>7. run_dirs' \in Seq(Files) /\ \A n \in DOMAIN run_dirs : n \in DOMAIN run_dirs' /\ (run_dirs[n] \in Verdicts => run_dirs'[n] = run_dirs[n])
  <2>1. CASE run_dirs' = Append(run_dirs, NoVerdict)
    BY <1>1, <1>6, <2>1
  <2>2. CASE run_dirs # <<>> /\ run_dirs[Len(run_dirs)] \in {NoVerdict, TornVerdict} /\ \E v \in Files : run_dirs' = [run_dirs EXCEPT ![Len(run_dirs)] = v]
    BY <1>1, <1>2, <2>2
  <2>3. QED
    BY <1>5, <2>1, <2>2
<1>8. VerdictWasGiven'
  BY <1>1, <1>3, <1>7 DEF ConsoleInv, VerdictWasGiven
<1>9. OpsTypeOK'
  BY <1>3, <1>7 DEF ConsoleInv, OpsTypeOK, Files
<1>10. Met' /\ Underway' /\ Filling'
  BY <1>3 DEF ConsoleInv, Met, Alone, Underway, Follows, Filling, Rebuilding, Agreed, Trends
<1>11. Finished' /\ AlertsAgree' /\ OnePicture'
  BY <1>3 DEF ConsoleInv, Finished, AlertsAgree, OnePicture, Agreed, Trends
<1>12. QED
  BY <1>8, <1>9, <1>10, <1>11 DEF ConsoleInv

-----------------------------------------------------------------------------
(* The steps of a rebuild.                                                 *)

\* Only files a rebuild saves are open.
LEMMA OpenIs == ASSUME NEW stage, stage \in Resting PROVE Open(stage) = {}
  BY DEF Open

\* Where everyone is when a thread has gone on, and who has met whom at a file.
LEMMA GoesIs ==
    ASSUME OpsTypeOK, NEW b \in Threads, NEW to \in Stages, Goes(b, to)
    PROVE  /\ building' \in [Threads -> Stages] /\ building'[b] = to /\ \A o \in Threads : o # b => building'[o] = building[o]
           /\ contested' \subseteq Threads
           /\ \A o \in contested' : \/ o \in contested /\ o # b
                                    \/ to \notin Resting /\ o = b /\ ~Alone(b)
                                    \/ to \notin Resting /\ o # b /\ Rebuilding(o)
<1> DEFINE met == {o \in Others(b) : Open(building[o]) \intersect Open(to) # {}}
<1>1. building \in [Threads -> Stages] /\ contested \subseteq Threads /\ met \subseteq Threads
  BY DEF OpsTypeOK, Others
<1>2. building' = [building EXCEPT ![b] = to] /\ contested' = (contested \ {b}) \union met \union (IF met = {} THEN {} ELSE {b})
  BY DEF Goes
<1>3. ASSUME NEW o \in met PROVE o # b /\ Rebuilding(o) /\ to \notin Resting /\ ~Alone(b)
  <2>1. o \in Others(b) /\ Open(building[o]) # {} /\ Open(to) # {}
    OBVIOUS
  <2>2. building[o] \notin Resting /\ to \notin Resting
    BY <2>1, OpenIs
  <2> QED BY <2>1, <2>2 DEF Others, Rebuilding, Alone
<1> HIDE DEF met
<1>4. contested' \subseteq Threads
  BY <1>1, <1>2
<1>5. ASSUME NEW o \in contested'
      PROVE  \/ o \in contested /\ o # b
             \/ to \notin Resting /\ o = b /\ ~Alone(b)
             \/ to \notin Resting /\ o # b /\ Rebuilding(o)
  <2>1. (o \in contested /\ o # b) \/ o \in met \/ (o = b /\ met # {})
    BY <1>2
  <2> QED BY <1>3, <2>1
<1>6. building' \in [Threads -> Stages] /\ building'[b] = to /\ \A o \in Threads : o # b => building'[o] = building[o]
  BY <1>1, <1>2
<1> QED BY <1>4, <1>5, <1>6

\* A step of a rebuild that met no other one finds its thread alone, with its files its own.
LEMMA AtWork ==
    ASSUME ConsoleInv, NEW b \in Threads, Rebuilding(b)
    PROVE  /\ ~complete /\ (b \notin disturbed => Alone(b) /\ b \notin contested /\ Follows(b))
           /\ \A o \in Threads : o # b /\ Rebuilding(o) => o \in disturbed /\ b \in disturbed
<1>1. ~complete /\ (b \notin disturbed => Alone(b) /\ b \notin contested /\ Follows(b))
  BY DEF ConsoleInv, Met, Underway
<1>2. ASSUME NEW o \in Threads, o # b, Rebuilding(o) PROVE o \in disturbed /\ b \in disturbed
  <2>1. o \in Others(b) /\ b \in Others(o)
    BY <1>2 DEF Others
  <2>2. ~Alone(b) /\ ~Alone(o)
    BY <1>2, <2>1 DEF Alone
  <2> QED BY <1>2, <2>2 DEF ConsoleInv, Met
<1> QED BY <1>1, <1>2

\* Going on keeps the invariant if the files do: the indices, the trends and the alerts of a rebuild nobody met.
LEMMA OnwardKeeps ==
    ASSUME ConsoleConstants, ConsoleInv, NEW b \in Threads, NEW from \in Stages \ Resting, NEW to \in Stages \ (Resting \ {"nothing"}), Onward(b, from, to),
           UNCHANGED <<shown, rebuilds>>, ~complete' \/ (~cut' /\ to = "nothing" /\ b \notin disturbed), complete' \in BOOLEAN, cut' \in BOOLEAN,
           to \in Alerting => cut', cut => cut' \/ b \notin disturbed,
           b \notin disturbed => Follows(b)',
           index' \in Indices, evaluated' \in [Threads -> AllCounts], FileOf(Summaries, summary'), FileOf(Healths, health'),
           Finished', AlertsAgree', VerdictWasGiven'
    PROVE  ConsoleInv'
<1>1. building[b] = from /\ Goes(b, to) /\ UNCHANGED <<run_dirs, queue_state, run_states, pending, approvals_file, disturbed, changes, exits>>
  BY DEF Onward, sourceVars
<1>2. /\ building' \in [Threads -> Stages] /\ building'[b] = to /\ \A o \in Threads : o # b => building'[o] = building[o]
      /\ contested' \subseteq Threads
      /\ \A o \in contested' : \/ o \in contested /\ o # b
                               \/ to \notin Resting /\ o = b /\ ~Alone(b)
                               \/ to \notin Resting /\ o # b /\ Rebuilding(o)
  BY <1>1, GoesIs DEF ConsoleInv
<1>3. /\ Rebuilding(b) /\ (b \notin disturbed => Alone(b))
      /\ \A o \in Threads : o # b /\ Rebuilding(o) => o \in disturbed /\ b \in disturbed
  <2>1. Rebuilding(b)
    BY <1>1 DEF Rebuilding
  <2> QED BY <2>1, AtWork
<1>4. \A o \in Threads : o # b => (Rebuilding(o)' <=> Rebuilding(o))
  BY <1>2 DEF Rebuilding
<1>5. Rebuilding(b)' <=> to \notin Resting
  BY <1>2 DEF Rebuilding
<1>6. OpsTypeOK'
  BY <1>1, <1>2 DEF ConsoleInv, OpsTypeOK, Summaries, Healths
<1>7. Met'
  <2>1. ASSUME NEW o \in Threads, Rebuilding(o)', o \notin disturbed' PROVE Alone(o)'
    <3>1. o = b
      BY <1>1, <1>3, <1>4, <2>1
    <3>2. Alone(b)
      BY <1>1, <1>3, <2>1, <3>1
    <3>3. \A w \in Others(b) : w \in Threads /\ w # b
      BY DEF Others
    <3> QED BY <1>4, <3>1, <3>2, <3>3 DEF Alone, Others
  <2>2. ASSUME NEW o \in contested' PROVE Rebuilding(o)' /\ o \in disturbed'
    <3>1. CASE o \in contested /\ o # b
      BY <1>1, <1>2, <1>4, <3>1 DEF ConsoleInv, Met
    <3>2. CASE to \notin Resting /\ o = b /\ ~Alone(b)
      BY <1>1, <1>3, <1>5, <3>2
    <3>3. CASE to \notin Resting /\ o # b /\ Rebuilding(o)
      BY <1>1, <1>2, <1>3, <1>4, <3>3
    <3> QED BY <1>2, <3>1, <3>2, <3>3
  <2> QED BY <2>1, <2>2 DEF Met
<1>8. Underway'
  <2> SUFFICES ASSUME NEW o \in Threads
               PROVE  /\ Rebuilding(o)' => ~complete'
                      /\ building'[o] \in Alerting => cut'
                      /\ o \notin disturbed' => Follows(o)'
    BY DEF Underway
  <2>1. CASE o = b
    BY <1>1, <1>2, <1>5, <2>1 DEF Resting
  <2>2. CASE o # b
    <3>1. Rebuilding(o)' => o \in disturbed' /\ b \in disturbed
      BY <1>1, <1>3, <1>4, <2>2
    <3>2. building'[o] \in Alerting \union {"summary"} => Rebuilding(o)'
      BY DEF Rebuilding, Alerting, Resting
    <3>3. building[o] \in Alerting => cut
      BY DEF ConsoleInv, Underway
    <3>4. o \notin disturbed' => Follows(o)'
      BY <3>1, <3>2 DEF Follows, Alerting
    <3>5. building'[o] \in Alerting => cut'
      BY <1>2, <2>2, <3>1, <3>2, <3>3
    <3> QED BY <3>1, <3>4, <3>5
  <2> QED BY <2>1, <2>2
<1>9. Filling'
  <2> SUFFICES ASSUME building'["window"] = "tabs", "window" \notin disturbed PROVE FALSE
    BY <1>1 DEF Filling
  <2>1. building["window"] = "tabs" /\ b \in Threads
    BY <1>2 DEF Resting, ConsoleConstants
  <2> QED BY <1>3, <2>1 DEF ConsoleInv, Filling
<1>10. OnePicture'
  BY DEF ConsoleInv, OnePicture
<1> QED BY <1>6, <1>7, <1>8, <1>9, <1>10 DEF ConsoleInv

\* The rebuild that starts is undisturbed only if no other one is on.
LEMMA StartRebuildKeeps == ASSUME ConsoleConstants, ConsoleInv, NEW b \in Threads, StartRebuild(b) PROVE ConsoleInv'
<1>1. /\ building[b] \in {"nothing", "event"} /\ Goes(b, "queue") /\ complete' = FALSE /\ rebuilds' = rebuilds + 1
      /\ UNCHANGED <<run_dirs, queue_state, run_states, pending, approvals_file, index, trends, summary, health, evaluated, cut, shown, changes, exits>>
  BY DEF StartRebuild, alertVars, sourceVars
<1>2. /\ building' \in [Threads -> Stages] /\ building'[b] = "queue" /\ \A o \in Threads : o # b => building'[o] = building[o]
      /\ contested' \subseteq Threads
      /\ \A o \in contested' : o \in contested \/ (o = b /\ ~Alone(b)) \/ (o # b /\ Rebuilding(o))
  <2>1. "queue" \in Stages
    BY DEF Stages
  <2> QED BY <1>1, <2>1, GoesIs DEF ConsoleInv
<1>3. /\ disturbed' \subseteq Threads
      /\ \A o \in Threads : o # b => (o \in disturbed' <=> (o \in disturbed \/ building[o] # "nothing"))
      /\ b \in disturbed' <=> ~Alone(b)
  BY DEF StartRebuild, Alone
<1>4. \A o \in Threads : (o # b => (Rebuilding(o)' <=> Rebuilding(o))) /\ (Rebuilding(o) => building[o] # "nothing" /\ o # b)
  BY <1>1, <1>2 DEF Rebuilding, Resting
<1>5. OpsTypeOK'
  <2>1. rebuilds' \in Nat
    BY <1>1 DEF ConsoleInv, OpsTypeOK
  <2> QED BY <1>1, <1>2, <1>3, <2>1 DEF ConsoleInv, OpsTypeOK
<1>6. Met'
  <2>1. ASSUME NEW o \in Threads, Rebuilding(o)', o \notin disturbed' PROVE Alone(o)'
    <3>1. o = b /\ Alone(b)
      BY <1>3, <1>4, <2>1
    <3>2. \A w \in Others(b) : w \in Threads /\ w # b
      BY DEF Others
    <3> QED BY <1>4, <3>1, <3>2 DEF Alone, Others
  <2>2. ASSUME NEW o \in contested' PROVE Rebuilding(o)' /\ o \in disturbed'
    <3>1. "queue" \notin Resting
      BY DEF Resting
    <3>2. CASE o \in contested
      <4>1. Rebuilding(o) /\ o \in Threads
        BY <3>2 DEF ConsoleInv, Met, OpsTypeOK
      <4> QED BY <1>3, <1>4, <4>1
    <3>3. CASE o = b /\ ~Alone(b)
      BY <1>2, <1>3, <3>1, <3>3 DEF Rebuilding
    <3>4. CASE o # b /\ Rebuilding(o)
      BY <1>2, <1>3, <1>4, <3>4
    <3> QED BY <1>2, <3>2, <3>3, <3>4
  <2> QED BY <2>1, <2>2 DEF Met
<1>7. Underway'
  <2> SUFFICES ASSUME NEW o \in Threads
               PROVE  /\ building'[o] \in Alerting => cut'
                      /\ o \notin disturbed' => Follows(o)'
    BY <1>1 DEF Underway
  <2>1. CASE o = b
    BY <1>2, <2>1 DEF Alerting, Follows
  <2>2. CASE o # b
    <3>1. building'[o] \in Alerting => cut'
      BY <1>1, <1>2, <2>2 DEF ConsoleInv, Underway
    <3>2. o \notin disturbed' => building'[o] = "nothing"
      BY <1>2, <1>3, <2>2
    <3> QED BY <3>1, <3>2 DEF Follows, Alerting
  <2> QED BY <2>1, <2>2
<1>8. Filling'
  <2> SUFFICES ASSUME building'["window"] = "tabs", "window" \notin disturbed' PROVE FALSE
    BY DEF Filling
  <2> QED BY <1>2, <1>3 DEF ConsoleConstants
<1>9. Finished' /\ AlertsAgree' /\ OnePicture' /\ VerdictWasGiven'
  BY <1>1 DEF ConsoleInv, Finished, AlertsAgree, OnePicture, VerdictWasGiven, Agreed, Picture
<1> QED BY <1>5, <1>6, <1>7, <1>8, <1>9 DEF ConsoleInv

\* A step that leaves the alerts alone: an index, the trends, a rebuild that raises.
LEMMA PlainKeeps ==
    ASSUME ConsoleConstants, ConsoleInv, NEW b \in Threads, NEW from \in Stages \ Resting, NEW to \in Stages \ (Resting \ {"nothing"}),
           Onward(b, from, to), to \notin Alerting, UNCHANGED <<summary, health, evaluated, cut, shown, complete, rebuilds>>,
           to = "summary" /\ b \notin disturbed => trends' = Whole(Trends)', index' \in Indices, VerdictWasGiven'
    PROVE  ConsoleInv'
<1>1. building[b] = from /\ building'[b] = to /\ UNCHANGED disturbed
  <2>1. building[b] = from /\ Goes(b, to) /\ UNCHANGED disturbed
    BY DEF Onward
  <2> QED BY <2>1, GoesIs DEF ConsoleInv
<1>2. ~complete
  BY <1>1, AtWork DEF Rebuilding
<1>3. b \notin disturbed => Follows(b)'
  BY <1>1 DEF Follows, Alerting
<1>4. Finished' /\ AlertsAgree'
  BY <1>2 DEF ConsoleInv, Finished, AlertsAgree, Agreed, Picture
<1>5. /\ evaluated' \in [Threads -> AllCounts] /\ FileOf(Summaries, summary') /\ FileOf(Healths, health') /\ complete' \in BOOLEAN /\ cut' \in BOOLEAN
  BY ConsoleTypes DEF ConsoleInv
<1> QED BY <1>2, <1>3, <1>4, <1>5, OnwardKeeps

\* An index holds what its rebuild read, or half of that, which reads as nothing, or what it held.
LEMMA IndexedKeeps ==
    ASSUME ConsoleConstants, ConsoleInv, NEW b \in Threads, NEW part \in {"queue", "runs", "approvals", "regression", "recovery"},
           NEW to \in {"runs", "approvals", "regression", "recovery", "trends"}, NEW content, Indexed(b, part, to, content),
           [index EXCEPT ![part] = content] \in Indices, part = "regression" => content = LatestVerdict
    PROVE  ConsoleInv'
<1>1. index \in Indices /\ NoIndex \in Indices
  BY NoIndexIsIndex DEF ConsoleInv, OpsTypeOK
<1>2. PICK left \in {content, NoIndex[part], index[part]} : index' = [index EXCEPT ![part] = left]
  BY DEF Indexed, Saved
<1>3. index' \in Indices
  BY <1>1, <1>2 DEF Indices
<1>4. VerdictWasGiven'
  <2>1. UNCHANGED run_dirs
    BY DEF Indexed, Save, Onward, sourceVars
  <2>2. index'.regression = index.regression \/ index'.regression = NoVerdict \/ index'.regression = LatestVerdict
    <3>1. CASE part = "regression"
      BY <1>1, <1>2, <3>1 DEF Indices, NoIndex
    <3>2. CASE part # "regression"
      BY <1>1, <1>2, <3>2 DEF Indices
    <3> QED BY <3>1, <3>2
  <2>3. CASE index'.regression = index.regression \/ index'.regression = NoVerdict
    BY <2>1, <2>3 DEF ConsoleInv, VerdictWasGiven, NoVerdict
  <2>4. CASE index'.regression = LatestVerdict
    <3>1. run_dirs \in Seq({NoVerdict, TornVerdict} \union Verdicts)
      BY DEF ConsoleInv, OpsTypeOK
    <3>2. CASE run_dirs = <<>>
      BY <2>4, <3>2 DEF VerdictWasGiven, LatestVerdict, NoVerdict
    <3>3. CASE run_dirs # <<>>
      <4>1. Len(run_dirs) \in DOMAIN run_dirs
        BY <3>1, <3>3
      <4> QED BY <2>1, <2>4, <3>3, <4>1 DEF VerdictWasGiven, LatestVerdict
    <3> QED BY <3>2, <3>3
  <2> QED BY <2>2, <2>3, <2>4
<1>5. UNCHANGED <<trends, summary, health, evaluated, cut, shown, complete, rebuilds>> /\ Save(b, part, to)
  BY DEF Indexed, alertVars
<1>6. part \in Stages \ Resting /\ to \in Stages \ (Resting \ {"nothing"}) /\ "nothing" \in Stages \ (Resting \ {"nothing"})
  BY DEF Stages, Resting
<1>7. to \notin Alerting /\ to # "summary" /\ "nothing" \notin Alerting
  BY DEF Alerting
<1>8. Onward(b, part, to) \/ Onward(b, part, "nothing")
  BY <1>5 DEF Save
<1> QED BY <1>3, <1>4, <1>5, <1>6, <1>7, <1>8, PlainKeeps

LEMMA IndicesKeep ==
    ASSUME ConsoleConstants, ConsoleInv, NEW b \in Threads,
           BuildQueue(b) \/ BuildRuns(b) \/ BuildApprovals(b) \/ BuildRegression(b) \/ BuildRecovery(b)
    PROVE  ConsoleInv'
<1>1. /\ index \in Indices /\ queue_state \in QueueStates /\ run_states \in [Runs -> RunStates]
      /\ approvals_file \in Nat \union {TornApprovals}
  BY DEF ConsoleInv, OpsTypeOK
<1>2. LatestVerdict \in {NoVerdict, TornVerdict} \union Verdicts
  <2>1. run_dirs \in Seq({NoVerdict, TornVerdict} \union Verdicts)
    BY DEF ConsoleInv, OpsTypeOK
  <2> DEFINE Files == {NoVerdict, TornVerdict} \union Verdicts
  <2>2. run_dirs \in Seq(Files) /\ NoVerdict \in Files
    BY <2>1
  <2> HIDE DEF Files
  <2>3. LatestVerdict \in Files
    BY <2>2 DEF LatestVerdict
  <2>4. QED
    BY <2>3 DEF Files
<1>3. CASE BuildQueue(b)
  <2>1. [index EXCEPT !["queue"] = queue_state] \in Indices
    BY <1>1 DEF Indices
  <2> QED BY <1>3, <2>1, IndexedKeeps DEF BuildQueue
<1>4. CASE BuildRuns(b)
  <2>1. [index EXCEPT !["runs"] = run_states] \in Indices
    BY <1>1 DEF Indices
  <2> QED BY <1>4, <2>1, IndexedKeeps DEF BuildRuns
<1>5. CASE BuildApprovals(b)
  <2>1. approvals_file \in Nat
    BY <1>1, <1>5 DEF BuildApprovals
  <2>2. [index EXCEPT !["approvals"] = approvals_file] \in Indices
    BY <1>1, <2>1 DEF Indices
  <2> QED BY <1>5, <2>2, IndexedKeeps DEF BuildApprovals
<1>6. CASE BuildRegression(b)
  <2>1. LatestVerdict \in {NoVerdict} \union Verdicts
    BY <1>2, <1>6 DEF BuildRegression
  <2>2. [index EXCEPT !["regression"] = LatestVerdict] \in Indices
    BY <1>1, <2>1 DEF Indices
  <2> QED BY <1>6, <2>2, IndexedKeeps DEF BuildRegression
<1>7. CASE BuildRecovery(b)
  <2>1. Recoverable(run_states) \in SUBSET Runs
    BY DEF Recoverable
  <2>2. [index EXCEPT !["recovery"] = Recoverable(run_states)] \in Indices
    BY <1>1, <2>1 DEF Indices
  <2> QED BY <1>7, <2>2, IndexedKeeps DEF BuildRecovery
<1> QED BY <1>3, <1>4, <1>5, <1>6, <1>7

\* A rebuild that raises, and one that has written the trends.
LEMMA FailureAndTrendsKeep == ASSUME ConsoleConstants, ConsoleInv, NEW b \in Threads, RebuildFails(b) \/ BuildTrends(b) PROVE ConsoleInv'
<1>1. "nothing" \in Stages \ (Resting \ {"nothing"}) /\ "summary" \in Stages \ (Resting \ {"nothing"}) /\ {"nothing", "summary"} \intersect Alerting = {}
      /\ {"approvals", "regression", "banners", "trends"} \subseteq Stages \ Resting
  BY DEF Stages, Resting, Alerting
<1>2. CASE RebuildFails(b)
  <2>1. \E from \in {"approvals", "regression", "banners"} : Onward(b, from, "nothing")
    BY <1>2 DEF RebuildFails
  <2>2. UNCHANGED <<index, trends, summary, health, evaluated, cut, shown, complete, rebuilds>>
    BY <1>2 DEF RebuildFails, alertVars
  <2>3. UNCHANGED run_dirs
    BY <2>1 DEF Onward, sourceVars
  <2>4. index' \in Indices /\ VerdictWasGiven'
    BY <2>2, <2>3 DEF ConsoleInv, OpsTypeOK, VerdictWasGiven
  <2> QED BY <1>1, <2>1, <2>2, <2>4, PlainKeeps
<1>3. CASE BuildTrends(b)
  <2>1. Save(b, "trends", "summary") /\ trends' \in Saved(b, Whole(Trends), Half, trends)
        /\ UNCHANGED <<index, summary, health, evaluated, cut, shown, complete, rebuilds>>
    BY <1>3 DEF BuildTrends
  <2>2. UNCHANGED run_dirs
    BY <2>1 DEF Save, Onward, sourceVars
  <2>3. index' \in Indices /\ VerdictWasGiven'
    BY <2>1, <2>2 DEF ConsoleInv, OpsTypeOK, VerdictWasGiven
  <2>4. b \notin disturbed => trends' = Whole(Trends)'
    <3>1. b \notin disturbed => b \notin contested
      BY DEF ConsoleInv, Met
    <3> QED BY <2>1, <3>1 DEF Saved, Trends, Whole
  <2>5. Onward(b, "trends", "summary") \/ Onward(b, "trends", "nothing")
    BY <2>1 DEF Save
  <2> QED BY <1>1, <2>1, <2>3, <2>4, <2>5, PlainKeeps
<1> QED BY <1>2, <1>3

\* The alerts, a file at a time: cut until the last of them.
LEMMA AlertingKeeps ==
    ASSUME ConsoleConstants, ConsoleInv, NEW b \in Threads, NEW from \in {"summary"} \union Alerting, NEW to \in {"nothing"} \union Alerting,
           Onward(b, from, to), UNCHANGED <<index, shown, complete, rebuilds>>, cut',
           b \notin disturbed => Follows(b)', evaluated' \in [Threads -> AllCounts], FileOf(Summaries, summary'), FileOf(Healths, health'),
           cut' \in BOOLEAN
    PROVE  ConsoleInv'
<1>1. from \in Stages \ Resting /\ to \in Stages \ (Resting \ {"nothing"})
  BY DEF Stages, Resting, Alerting
<1>2. building[b] = from /\ UNCHANGED run_dirs
  BY DEF Onward, sourceVars
<1>3. ~complete
  BY <1>1, <1>2, AtWork DEF Rebuilding
<1>4. Finished' /\ AlertsAgree' /\ VerdictWasGiven' /\ index' \in Indices /\ complete' \in BOOLEAN
  BY <1>2, <1>3 DEF ConsoleInv, Finished, AlertsAgree, VerdictWasGiven, OpsTypeOK
<1> QED BY <1>1, <1>3, <1>4, OnwardKeeps

\* What a rebuild nobody met knows of its own files, where it saves its alerts.
LEMMA AlertingFollows ==
    ASSUME ConsoleInv, NEW b \in Threads, NEW from \in {"summary"} \union Alerting, building[b] = from
    PROVE  /\ from \in Alerting => cut
           /\ b \notin disturbed => Follows(b) /\ b \notin contested
<1>1. Rebuilding(b)
  BY DEF Rebuilding, Resting, Alerting
<1> QED BY <1>1, AtWork DEF ConsoleInv, Underway

LEMMA AlertsKeep ==
    ASSUME ConsoleConstants, ConsoleInv, NEW b \in Threads, BuildSummary(b) \/ OpenBanners(b) \/ WriteBanners(b) \/ OpenHealth(b)
    PROVE  ConsoleInv'
<1>1. /\ index \in Indices /\ Counts(index) \in AllCounts /\ evaluated \in [Threads -> AllCounts]
      /\ FileOf(Summaries, summary) /\ FileOf(Healths, health) /\ Load(summary, NoSummary) \in Summaries
  BY CountsAreCounts, LoadedSummary, ConsoleTypes DEF ConsoleInv
<1>2. CASE BuildSummary(b)
  <2> DEFINE new == [counts |-> Counts(index), banners |-> {}]
  <2>1. /\ Save(b, "summary", "banners") /\ summary' \in Saved(b, Whole(new), Half, summary) /\ cut' = TRUE
        /\ UNCHANGED <<index, trends, health, evaluated, shown, complete, rebuilds>>
    BY <1>2 DEF BuildSummary
  <2>2. new \in Summaries
    BY <1>1 DEF Summaries, Alerts
  <2>3. FileOf(Summaries, summary')
    BY <1>1, <2>1, <2>2, WholeIsFile, TornIsFile DEF Saved
  <2>4. Load(Whole(new), NoSummary) = new
    BY LoadWhole
  <2> HIDE DEF new
  <2>5. ASSUME NEW to \in {"nothing", "banners"}, Onward(b, "summary", to) PROVE ConsoleInv'
    <3>1. building[b] = "summary" /\ building'[b] = to /\ UNCHANGED disturbed
      <4>1. to \in Stages /\ building[b] = "summary" /\ Goes(b, to) /\ UNCHANGED disturbed
        BY <2>5 DEF Onward, Stages
      <4> QED BY <4>1, GoesIs DEF ConsoleInv
    <3>2. b \notin disturbed => Follows(b) /\ summary' = Whole(new)
      BY <2>1, <3>1, AlertingFollows DEF Saved
    <3>3. b \notin disturbed => Load(summary, NoSummary)'.counts = Counts(index)' /\ trends' = Whole(Trends)'
      <4>1. b \notin disturbed => Load(summary, NoSummary)' = new /\ trends = Whole(Trends)
        BY <2>4, <3>1, <3>2 DEF Follows, Load, Whole
      <4> QED BY <2>1, <4>1 DEF new, Counts, Live, Waiting, Trends, Whole
    <3>4. b \notin disturbed => Follows(b)'
      BY <3>1, <3>3 DEF Follows, Alerting
    <3>5. to \in {"nothing"} \union Alerting /\ cut' /\ cut' \in BOOLEAN /\ evaluated' \in [Threads -> AllCounts] /\ FileOf(Healths, health')
      BY <1>1, <2>1 DEF Alerting
    <3> QED BY <2>1, <2>3, <2>5, <3>4, <3>5, AlertingKeeps
  <2> QED BY <2>1, <2>5 DEF Save
<1>3. CASE OpenBanners(b)
  <2>1. /\ Onward(b, "banners", "saving banners") /\ summary' = Half
        /\ evaluated' = [evaluated EXCEPT ![b] = Load(summary, NoSummary).counts]
        /\ UNCHANGED <<index, trends, health, cut, shown, complete, rebuilds>>
    BY <1>3 DEF OpenBanners
  <2>2. building[b] = "banners" /\ building'[b] = "saving banners" /\ UNCHANGED disturbed
    <3>1. "saving banners" \in Stages /\ building[b] = "banners" /\ Goes(b, "saving banners") /\ UNCHANGED disturbed
      BY <2>1 DEF Onward, Stages
    <3> QED BY <3>1, GoesIs DEF ConsoleInv
  <2>3. cut /\ (b \notin disturbed => Follows(b))
    BY <2>2, AlertingFollows DEF Alerting
  <2>4. evaluated' \in [Threads -> AllCounts] /\ evaluated'[b] = Load(summary, NoSummary).counts
    BY <1>1, <2>1 DEF Summaries
  <2>5. b \notin disturbed => Follows(b)'
    BY <2>1, <2>2, <2>3, <2>4 DEF Follows, Alerting, Trends
  <2>6. FileOf(Summaries, summary') /\ FileOf(Healths, health') /\ cut' /\ cut' \in BOOLEAN
    BY <1>1, <2>1, <2>3, TornIsFile DEF ConsoleInv, OpsTypeOK
  <2> QED BY <2>1, <2>4, <2>5, <2>6, AlertingKeeps DEF Alerting
<1>4. CASE WriteBanners(b)
  <2> DEFINE new == Picture(evaluated[b])
  <2>1. /\ Onward(b, "saving banners", "health") /\ summary' \in Saved(b, Whole(new), Half, summary)
        /\ UNCHANGED <<index, trends, health, evaluated, cut, shown, complete, rebuilds>>
    BY <1>4 DEF WriteBanners, Picture
  <2>2. building[b] = "saving banners" /\ building'[b] = "health" /\ UNCHANGED disturbed
    <3>1. "health" \in Stages /\ building[b] = "saving banners" /\ Goes(b, "health") /\ UNCHANGED disturbed
      BY <2>1 DEF Onward, Stages
    <3> QED BY <3>1, GoesIs DEF ConsoleInv
  <2>3. cut /\ (b \notin disturbed => Follows(b) /\ b \notin contested)
    BY <2>2, AlertingFollows DEF Alerting
  <2>4. new \in Summaries
    BY <1>1, BannersAreAlerts DEF Summaries, Picture
  <2>5. FileOf(Summaries, summary') /\ FileOf(Healths, health') /\ cut' /\ cut' \in BOOLEAN /\ evaluated' \in [Threads -> AllCounts]
    BY <1>1, <2>1, <2>3, <2>4, WholeIsFile, TornIsFile DEF Saved, ConsoleInv, OpsTypeOK
  <2>6. b \notin disturbed => summary' = Whole(Picture(evaluated'[b]))
    BY <2>1, <2>3 DEF Saved
  <2>7. b \notin disturbed => Follows(b)'
    BY <2>1, <2>2, <2>3, <2>6 DEF Follows, Alerting, Trends, Agreed
  <2> QED BY <2>1, <2>5, <2>7, AlertingKeeps DEF Alerting
<1>5. CASE OpenHealth(b)
  <2>1. Onward(b, "health", "saving health") /\ health' = Half /\ UNCHANGED <<index, trends, summary, evaluated, cut, shown, complete, rebuilds>>
    BY <1>5 DEF OpenHealth
  <2>2. building[b] = "health" /\ building'[b] = "saving health" /\ UNCHANGED disturbed
    <3>1. "saving health" \in Stages /\ building[b] = "health" /\ Goes(b, "saving health") /\ UNCHANGED disturbed
      BY <2>1 DEF Onward, Stages
    <3> QED BY <3>1, GoesIs DEF ConsoleInv
  <2>3. cut /\ (b \notin disturbed => Follows(b))
    BY <2>2, AlertingFollows DEF Alerting
  <2>4. b \notin disturbed => Follows(b)'
    BY <2>1, <2>2, <2>3 DEF Follows, Alerting, Trends, Agreed
  <2>5. FileOf(Summaries, summary') /\ FileOf(Healths, health') /\ cut' /\ cut' \in BOOLEAN /\ evaluated' \in [Threads -> AllCounts]
    BY <1>1, <2>1, <2>3, TornIsFile DEF ConsoleInv, OpsTypeOK
  <2> QED BY <2>1, <2>4, <2>5, AlertingKeeps DEF Alerting
<1> QED BY <1>2, <1>3, <1>4, <1>5

\* The last write: of a rebuild nobody met, over what it read itself.
LEMMA WriteHealthKeeps == ASSUME ConsoleConstants, ConsoleInv, NEW b \in Threads, WriteHealth(b) PROVE ConsoleInv'
<1>1. /\ Onward(b, "saving health", "nothing") /\ health' \in Saved(b, Whole(Overall(evaluated[b])), Half, health)
      /\ complete' = (b \notin disturbed) /\ cut' = (b \in disturbed)
      /\ UNCHANGED <<index, trends, summary, evaluated, shown, rebuilds>>
  BY DEF WriteHealth
<1>2. building[b] = "saving health" /\ building'[b] = "nothing" /\ UNCHANGED <<disturbed, run_dirs>>
  <2>1. "nothing" \in Stages /\ building[b] = "saving health" /\ Goes(b, "nothing") /\ UNCHANGED <<disturbed, run_dirs>>
    BY <1>1 DEF Onward, Stages, sourceVars
  <2> QED BY <2>1, GoesIs DEF ConsoleInv
<1>3. cut /\ (b \notin disturbed => Follows(b) /\ b \notin contested)
  BY <1>2, AlertingFollows DEF Alerting
<1>4. evaluated \in [Threads -> AllCounts] /\ FileOf(Summaries, summary) /\ FileOf(Healths, health) /\ index \in Indices
  BY ConsoleTypes DEF ConsoleInv
<1>5. FileOf(Healths, health')
  <2>1. Overall(evaluated[b]) \in Healths
    BY <1>4, OverallIsHealth
  <2> QED BY <1>1, <1>4, <2>1, WholeIsFile, TornIsFile DEF Saved
<1>6. ASSUME b \notin disturbed
      PROVE  evaluated[b] = Counts(index) /\ Agreed(Counts(index)) /\ trends = Whole(Trends) /\ health' = Whole(Overall(Counts(index)))
  BY <1>1, <1>2, <1>3, <1>6 DEF Follows, Alerting, Saved
<1>7. Finished'
  <2> SUFFICES ASSUME b \notin disturbed
               PROVE  (~cut /\ Agreed(Counts(index)) /\ health = Whole(Overall(Counts(index))) /\ trends = Whole(Trends))'
    BY <1>1 DEF Finished
  <2>1. Agreed(Counts(index))' /\ Whole(Trends)' = Whole(Trends) /\ Overall(Counts(index))' = Overall(Counts(index))
    BY <1>1, <1>6 DEF Agreed, Trends
  <2>2. ~cut' /\ trends' = Whole(Trends)'
    BY <1>1, <1>6, <2>1
  <2>3. health' = Whole(Overall(Counts(index)))'
    BY <1>1, <1>6
  <2> QED BY <2>1, <2>2, <2>3
<1>8. AlertsAgree'
  <2> SUFFICES ASSUME b \notin disturbed
               PROVE  (\E counts \in {Load(summary, NoSummary).counts} : Agreed(counts) /\ health = Whole(Overall(counts)))'
    BY <1>1 DEF AlertsAgree
  <2>1. Load(summary, NoSummary)'.counts = Counts(index)
    <3>1. Load(summary, NoSummary).counts = Counts(index)
      BY <1>6, LoadWhole DEF Agreed, Picture
    <3> QED BY <1>1, <3>1 DEF Load
  <2>2. Agreed(Counts(index))' /\ health' = Whole(Overall(Counts(index)))
    BY <1>1, <1>6 DEF Agreed
  <2> QED BY <1>1, <2>1, <2>2
<1>9. VerdictWasGiven'
  BY <1>1, <1>2 DEF ConsoleInv, VerdictWasGiven
<1>10. /\ "saving health" \in Stages \ Resting /\ "nothing" \in Stages \ (Resting \ {"nothing"}) /\ "nothing" \notin Alerting
  BY DEF Stages, Resting, Alerting
<1>14. complete' \in BOOLEAN /\ cut' \in BOOLEAN
  <2>1. (b \notin disturbed) \in BOOLEAN /\ (b \in disturbed) \in BOOLEAN
    OBVIOUS
  <2>2. complete' = (b \notin disturbed) /\ cut' = (b \in disturbed)
    BY <1>1
  <2> QED BY ONLY <2>1, <2>2, Zenon
<1>11. Follows(b)'
  BY <1>2 DEF Follows, Alerting
<1>12. /\ ~complete' \/ (~cut' /\ "nothing" = "nothing" /\ b \notin disturbed)
       /\ cut => cut' \/ b \notin disturbed
  BY <1>1
<1>13. index' \in Indices /\ evaluated' \in [Threads -> AllCounts] /\ FileOf(Summaries, summary') /\ UNCHANGED <<shown, rebuilds>>
  BY <1>1, <1>4
<1> QED BY <1>1, <1>5, <1>7, <1>8, <1>9, <1>10, <1>11, <1>12, <1>13, <1>14, OnwardKeeps

\* The tabs filled: whoever rebuilds in between disturbs them, and no one else moves the indices.
LEMMA TabsKeep == ASSUME ConsoleConstants, ConsoleInv, ShowDashboard \/ ShowIndices PROVE ConsoleInv'
<1>1. \E from \in {"nothing", "tabs"}, to \in {"nothing", "tabs"} : building["window"] = from /\ Goes("window", to)
  BY DEF ShowDashboard, ShowIndices, Onward
<1>2. PICK from \in {"nothing", "tabs"}, to \in {"nothing", "tabs"} : building["window"] = from /\ Goes("window", to)
  BY <1>1
<1>3. UNCHANGED <<run_dirs, queue_state, run_states, pending, approvals_file, index, trends, summary, health, evaluated, cut, complete,
                  changes, rebuilds, exits>>
  BY DEF ShowDashboard, ShowIndices, Onward, sourceVars, alertVars
<1>4. /\ building' \in [Threads -> Stages] /\ building'["window"] = to /\ \A o \in Threads : o # "window" => building'[o] = building[o]
      /\ contested' \subseteq Threads /\ \A o \in contested' : o \in contested /\ o # "window"
  <2>1. to \in Stages /\ to \in Resting
    BY DEF Stages, Resting
  <2> QED BY <1>2, <2>1, GoesIs DEF ConsoleInv, ConsoleConstants
<1>5. disturbed' \subseteq Threads /\ (\A o \in Threads : o # "window" => (o \in disturbed' <=> o \in disturbed))
  BY DEF ShowDashboard, ShowIndices, Onward, ConsoleInv, OpsTypeOK, ConsoleConstants
<1>6. \A o \in Threads : (Rebuilding(o)' <=> Rebuilding(o)) /\ (Rebuilding(o) => o # "window")
  BY <1>2, <1>4 DEF Rebuilding, Resting
<1>7. OpsTypeOK'
  <2>1. shown \in Tabs /\ index \in Indices /\ complete \in BOOLEAN /\ FileOf(Summaries, summary) /\ FileOf(Healths, health)
    BY ConsoleTypes DEF ConsoleInv
  <2>2. shown' \in Tabs
    <3>1. CASE ShowDashboard
      <4>1. shown' = [shown EXCEPT !.complete = FALSE, !.dashboard = Load(summary, NoSummary), !.health = Load(health, "UNKNOWN")]
        BY <3>1 DEF ShowDashboard
      <4>2. Load(summary, NoSummary) \in Summaries /\ Load(health, "UNKNOWN") \in {"UNKNOWN", "OK", "WARN", "FAIL"}
        BY <2>1, LoadedSummary DEF Load, FileOf, Absent, Half, Whole, Healths
      <4> QED BY <2>1, <4>1, <4>2 DEF Tabs, Summaries
    <3>2. CASE ShowIndices
      BY <2>1, <3>2 DEF ShowIndices, Tabs
    <3> QED BY <3>1, <3>2
  <2> QED BY <1>3, <1>4, <1>5, <2>2 DEF ConsoleInv, OpsTypeOK
<1>8. Met'
  <2>1. ASSUME NEW o \in Threads, Rebuilding(o)', o \notin disturbed' PROVE Alone(o)'
    <3>1. Alone(o)
      BY <1>5, <1>6, <2>1 DEF ConsoleInv, Met
    <3>2. \A w \in Others(o) : w \in Threads
      BY DEF Others
    <3> QED BY <1>6, <3>1, <3>2 DEF Alone, Others
  <2>2. ASSUME NEW o \in contested' PROVE Rebuilding(o)' /\ o \in disturbed'
    <3>1. o \in Threads /\ Rebuilding(o) /\ o \in disturbed /\ o # "window"
      BY <1>4 DEF ConsoleInv, Met
    <3> QED BY <1>5, <1>6, <3>1
  <2> QED BY <2>1, <2>2 DEF Met
<1>9. Underway'
  <2> SUFFICES ASSUME NEW o \in Threads
               PROVE  /\ Rebuilding(o)' => ~complete'
                      /\ building'[o] \in Alerting => cut'
                      /\ o \notin disturbed' => Follows(o)'
    BY DEF Underway
  <2>1. Rebuilding(o)' => ~complete'
    BY <1>3, <1>6 DEF ConsoleInv, Underway
  <2>2. CASE o = "window"
    BY <1>4, <2>1, <2>2 DEF Follows, Alerting
  <2>3. CASE o # "window"
    <3>1. Follows(o) => Follows(o)'
      BY <1>3, <1>4, <2>3 DEF Follows, Agreed, Trends
    <3>2. /\ building[o] \in Alerting => cut
          /\ o \notin disturbed => Follows(o)
      BY DEF ConsoleInv, Underway
    <3> QED BY <1>3, <1>4, <1>5, <2>1, <2>3, <3>1, <3>2
  <2> QED BY <2>2, <2>3
<1>10. Finished' /\ AlertsAgree' /\ VerdictWasGiven'
  BY <1>3 DEF ConsoleInv, Finished, AlertsAgree, VerdictWasGiven, Agreed, Trends
<1>11. ASSUME complete
       PROVE  Load(summary, NoSummary) = Picture(Counts(index)) /\ Load(health, "UNKNOWN") = Overall(Counts(index))
  BY <1>11, LoadWhole DEF ConsoleInv, Finished, Agreed
<1>12. Filling' /\ OnePicture'
  <2>1. CASE ShowDashboard
    <3>1. /\ shown'.complete = FALSE /\ shown'.dashboard = Load(summary, NoSummary) /\ shown'.health = Load(health, "UNKNOWN")
          /\ "window" \notin disturbed' => Alone("window")
      BY <2>1 DEF ShowDashboard, ConsoleInv, OpsTypeOK, Tabs, Alone
    <3>2. OnePicture'
      BY <3>1 DEF OnePicture
    <3>3. "window" \notin disturbed' => \A o \in Threads : ~Rebuilding(o)'
      BY <1>6, <3>1 DEF Alone, Others
    <3>4. complete' => (shown.dashboard = Picture(Counts(index)) /\ shown.health = Overall(Counts(index)))'
      BY <1>3, <1>11, <3>1
    <3> QED BY <3>2, <3>3, <3>4 DEF Filling
  <2>2. CASE ShowIndices
    <3>1. /\ shown'.complete = (complete /\ "window" \notin disturbed) /\ shown'.index = index
          /\ shown'.dashboard = shown.dashboard /\ shown'.health = shown.health /\ building["window"] = "tabs"
      BY <2>2 DEF ShowIndices, Onward, ConsoleInv, OpsTypeOK, Tabs
    <3>2. OnePicture'
      BY <3>1 DEF OnePicture, ConsoleInv, Filling
    <3>3. building'["window"] = "nothing"
      <4>1. Goes("window", "nothing") /\ "nothing" \in Stages
        BY <2>2 DEF ShowIndices, Onward, Stages
      <4> QED BY <4>1, GoesIs DEF ConsoleInv, ConsoleConstants
    <3> QED BY <3>2, <3>3 DEF Filling
  <2> QED BY <2>1, <2>2
<1> QED BY <1>7, <1>8, <1>9, <1>10, <1>12 DEF ConsoleInv

\* The window is closed or killed: what was on disk stays.
LEMMA ExitKeeps == ASSUME ConsoleConstants, ConsoleInv, Exit PROVE ConsoleInv'
<1>1. /\ exits' = exits + 1 /\ building' = [b \in Threads |-> "nothing"] /\ contested' = {} /\ disturbed' = {} /\ shown' = Blank
      /\ pending' = (IF approvals_file = TornApprovals THEN 0 ELSE approvals_file)
      /\ UNCHANGED <<run_dirs, queue_state, run_states, approvals_file, index, trends, summary, health, evaluated, cut, complete, rebuilds, changes>>
  BY DEF Exit, alertVars
<1>2. exits' \in Nat /\ pending' \in Nat /\ building' \in [Threads -> Stages]
  <2>1. exits \in Nat /\ approvals_file \in Nat \union {TornApprovals}
    BY DEF ConsoleInv, OpsTypeOK
  <2>2. exits' \in Nat /\ pending' \in Nat
    BY <1>1, <2>1
  <2> QED BY <1>1, <2>2 DEF Stages
<1>3. OpsTypeOK'
  BY <1>1, <1>2, BlankIsTabs DEF ConsoleInv, OpsTypeOK
<1>4. \A b \in Threads : building'[b] = "nothing" /\ ~Rebuilding(b)'
  BY <1>1 DEF Rebuilding, Resting
<1>5. Met' /\ Underway' /\ Filling' /\ OnePicture'
  BY <1>1, <1>4 DEF Met, Underway, Follows, Filling, OnePicture, Blank, Alerting, ConsoleConstants
<1>6. Finished' /\ AlertsAgree' /\ VerdictWasGiven'
  BY <1>1 DEF ConsoleInv, Finished, AlertsAgree, VerdictWasGiven, Agreed, Trends
<1> QED BY <1>3, <1>5, <1>6 DEF ConsoleInv

LEMMA RebuildKeeps == ASSUME ConsoleConstants, ConsoleInv, NEW b \in Threads, Rebuild(b) PROVE ConsoleInv'
<1>1. CASE BuildQueue(b) \/ BuildRuns(b) \/ BuildApprovals(b) \/ BuildRegression(b) \/ BuildRecovery(b)
  BY <1>1, IndicesKeep
<1>2. CASE RebuildFails(b) \/ BuildTrends(b)
  BY <1>2, FailureAndTrendsKeep
<1>3. CASE BuildSummary(b) \/ OpenBanners(b) \/ WriteBanners(b) \/ OpenHealth(b)
  BY <1>3, AlertsKeep
<1>4. CASE WriteHealth(b)
  BY <1>4, WriteHealthKeeps
<1> QED BY <1>1, <1>2, <1>3, <1>4 DEF Rebuild

LEMMA ConsoleInvNext == ASSUME ConsoleConstants, ConsoleInv, [OpsNext]_opsVars PROVE ConsoleInv'
<1>1. CASE SuiteMoves
  BY <1>1, SuiteMovesKeeps
<1>2. CASE DecideApproval
  BY <1>2, FilesMoveKeep DEF ConsoleConstants
<1>3. CASE \E b \in Threads : RecordEvent(b) \/ AskApproval(b) \/ SaveApprovals(b)
  BY <1>3, FilesMoveKeep
<1>4. CASE \E b \in Threads : StartRebuild(b)
  BY <1>4, StartRebuildKeeps
<1>5. CASE \E b \in Threads : Rebuild(b)
  BY <1>5, RebuildKeeps
<1>6. CASE ShowDashboard \/ ShowIndices
  BY <1>6, TabsKeep
<1>7. CASE Exit
  BY <1>7, ExitKeeps
<1>8. CASE UNCHANGED opsVars
  <2>1. UNCHANGED <<index, trends, summary, health, evaluated, cut, building, contested, complete, disturbed, rebuilds, run_dirs, queue_state,
                    run_states, pending, approvals_file, changes, exits, shown>>
    BY <1>8 DEF opsVars, sourceVars, alertVars, atWork
  <2>2. OpsTypeOK' /\ VerdictWasGiven'
    BY <2>1 DEF ConsoleInv, OpsTypeOK, VerdictWasGiven
  <2>3. Met' /\ Underway' /\ Filling'
    BY <2>1 DEF ConsoleInv, Met, Alone, Underway, Follows, Filling, Rebuilding, Agreed, Trends
  <2>4. Finished' /\ AlertsAgree' /\ OnePicture'
    BY <2>1 DEF ConsoleInv, Finished, AlertsAgree, OnePicture, Agreed, Trends
  <2> QED BY <2>2, <2>3, <2>4 DEF ConsoleInv
<1> QED BY <1>1, <1>2, <1>3, <1>4, <1>5, <1>6, <1>7, <1>8 DEF OpsNext

LEMMA ConsoleInvHolds == ASSUME ConsoleConstants PROVE OpsSpec => []ConsoleInv
<1>1. ConsoleConstants /\ OpsInit => ConsoleInv
  BY ConsoleInvInit
<1>2. ConsoleConstants /\ ConsoleInv /\ [OpsNext]_opsVars => ConsoleInv'
  BY ConsoleInvNext
<1> QED BY <1>1, <1>2, PTL DEF OpsSpec

\* The console's files, what it reads from them and what it shows keep to their types, torn files included (rebuild_all,
\* evaluate).
THEOREM ConsoleTypeCorrect == ASSUME ConsoleConstants PROVE OpsSpec => []OpsTypeOK
<1>1. ConsoleInv => OpsTypeOK
  BY DEF ConsoleInv
<1> QED BY <1>1, ConsoleInvHolds, PTL

\* The console contradicts neither itself nor what was run (rebuild_all, evaluate, _refresh_ops_console), for any runs,
\* any threads that rebuild, one over another, and any number of changes, rebuilds, failures and exits in between.
THEOREM ConsoleIsSound == ASSUME ConsoleConstants PROVE OpsSpec => []ConsoleSound
<1>1. ASSUME Finished, complete PROVE Load(summary, NoSummary).counts = Counts(index) /\ trends = Whole(Trends)
  <2>1. Load(summary, NoSummary) = Picture(Counts(index))
    BY <1>1, LoadWhole DEF Finished, Agreed
  <2> QED BY <1>1, <2>1 DEF Finished, Picture
<1>2. ConsoleInv => ConsoleSound
  BY <1>1 DEF ConsoleInv, AlertsAgree, OnePicture, VerdictWasGiven, Agreed, Picture, ConsoleSound
<1> QED BY <1>2, ConsoleInvHolds, PTL
=============================================================================
