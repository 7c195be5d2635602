----------------------------- MODULE Orchestrator -----------------------------
(***************************************************************************)
(* OrchestratorController (orchestrator/controller.py): one run, driven    *)
(* either call by call through the controller's methods, as the queue      *)
(* worker and the tests do, or by its own execution loop run_orchestrator, *)
(* which asks a service for each stage and files what it returned.         *)
(***************************************************************************)
EXTENDS OrchestratedRun

CONSTANTS
    ResumeStages,   \* stages that resume_run is called with: it takes any
    MaxDetours      \* bound: calls that every stage allows: those that fail, block, ask or resume

\* A caller resumes at a stage.
ResumesAtStages == ResumeStages \subseteq Stage /\ MaxDetours \in Nat

VARIABLES
    filed,      \* stage -> results stored in that stage's outputs
    looping,    \* run_orchestrator is on the stack
    stopped,    \* its stop_requested_func says stop
    detours

vars == <<driver, run, trail, filed, looping, stopped, detours>>

Result == {"normalized", "skeleton", "session", "draft", "plan"}

TypeOK ==
  /\ driver \in {"caller", "loop"}
  /\ run \in Run
  /\ trail \in [place : 1..Len(Pipeline), passed : SUBSET Stage, left : SUBSET Stage]
  /\ filed \in [Stage -> SUBSET Result]
  /\ looping \in BOOLEAN /\ stopped \in BOOLEAN /\ detours \in Nat

Init ==
  /\ driver \in {"caller", "loop"}
  /\ run = NewRun /\ trail = [place |-> 1, passed |-> {}, left |-> {}]
  /\ filed = [s \in Stage |-> {}]
  /\ looping = FALSE /\ stopped = FALSE /\ detours = 0

-------------------------------------------------------------------------------
(* The controller's methods, in any order a caller chooses.                 *)

\* File a result: advance_stage hands it to the stage that is being LEFT, and
\* mark_completed keeps it only if that stage was running.
Filing(r, out) ==
  IF r.status[r.current] = "running" THEN [filed EXCEPT ![r.current] = @ \cup out] ELSE filed

\* Going on from AWAITING_USER is a jump: the table lets it lead past stages, and back.
Over(to) == IF run.current = "AWAITING_USER" THEN Between(to) ELSE {}

\* Mutant: the stage that is left is not marked completed.
Bug_AdvanceLeavesRunning(to) ==
  /\ CanTransition(run.current, to)
  /\ run' = [Mark(run, to, "running") EXCEPT !.current = to] /\ trail' = TrailOf(to, Over(to), {})

Advance(to) ==
  /\ CanTransition(run.current, to)
  /\ run' = Entered(run, to) /\ trail' = TrailOf(to, Over(to), {})

HandleStageFailure == run' = FailedRun(run) /\ UNCHANGED trail
BlockRun           == run' = BlockedRun(run) /\ UNCHANGED trail
AwaitUser          == run' = AwaitingRun(run) /\ UNCHANGED trail

\* It asks neither where the run is nor whether a stage of it is running.
ResumeRun(frm) ==
  /\ run' = ResumedRun(run, frm)
  /\ trail' = TrailOf(frm, Between(frm), {s \in {run.current} : run.status[s] = "running"})

Detour == detours < MaxDetours /\ detours' = detours + 1

Call ==
  /\ \/ UNCHANGED detours /\ \E to \in Stage \ {"FAILED", "BLOCKED"} : Advance(to)
     \/ Detour /\ (Advance("FAILED") \/ Advance("BLOCKED") \/ HandleStageFailure \/ BlockRun \/ AwaitUser)
     \/ Detour /\ \E frm \in ResumeStages : ResumeRun(frm)
  /\ UNCHANGED <<filed, looping, stopped>>

-------------------------------------------------------------------------------
(* run_orchestrator: one iteration of its loop.                             *)

\* What execute_stage must find filed before it calls the stage's service ...
Needs == [ s \in Stage |->
  CASE s = "PLANNING_SKELETON"  -> {<<"NORMALIZATION", "normalized">>}
    [] s = "CLARIFICATION_GATE" -> {<<"NORMALIZATION", "normalized">>, <<"PLANNING_SKELETON", "skeleton">>}
    [] s = "COMPILE"            -> {<<"DRAFT_SPEC_GENERATION", "draft">>}
    [] s = "PREVIEW_SIMULATION" -> {<<"COMPILE", "plan">>}
    [] OTHER                    -> {} ]

\* ... and what the service returns; the other stages return {}.
Gives == [ s \in Stage |->
  CASE s = "NORMALIZATION"         -> {"normalized"}
    [] s = "PLANNING_SKELETON"     -> {"skeleton"}
    [] s = "CLARIFICATION_GATE"    -> {"session"}
    [] s = "DRAFT_SPEC_GENERATION" -> {"draft"}
    [] s = "COMPILE"               -> {"plan"}
    [] OTHER                       -> {} ]

Gated(s) == \E need \in Needs[s] : need[2] \notin filed[need[1]]

StartLoop ==
  /\ ~looping
  /\ looping' = TRUE /\ stopped' \in BOOLEAN
  /\ UNCHANGED <<run, trail, filed, detours>>

\* Mutant: the loop breaks without blocking the run.
Bug_StopsWithoutBlocking ==
  /\ looping /\ stopped /\ run.current # "COMPLETED"
  /\ looping' = FALSE
  /\ UNCHANGED <<run, trail, filed, stopped, detours>>

LoopStops ==
  /\ looping /\ stopped /\ run.current # "COMPLETED"
  /\ BlockRun
  /\ looping' = FALSE
  /\ UNCHANGED <<filed, stopped, detours>>

\* Mutant: the loop leaves only when the run is COMPLETED.
Bug_EndsOnlyCompleted ==
  /\ looping /\ run.current = "COMPLETED"
  /\ looping' = FALSE
  /\ UNCHANGED <<run, trail, filed, stopped, detours>>

\* COMPLETED, or a current stage that has no successor.
LoopEnds ==
  /\ looping
  /\ NextNormalStage(run.current) = {} /\ (stopped => run.current = "COMPLETED")
  /\ looping' = FALSE
  /\ UNCHANGED <<run, trail, filed, stopped, detours>>

LoopStage(s) ==
  /\ looping /\ ~stopped
  /\ s \in NextNormalStage(run.current)
  /\ \/ /\ Gated(s)                                   \* "BLOCKED"
        /\ BlockRun /\ looping' = FALSE
        /\ UNCHANGED filed
     \/ /\ ~Gated(s) /\ s = "CLARIFICATION_GATE"      \* "AWAITING_USER"
        /\ AwaitUser /\ looping' = FALSE
        /\ UNCHANGED filed
     \/ /\ ~Gated(s) /\ Gives[s] # {}                 \* the service raises
        /\ HandleStageFailure /\ looping' = FALSE
        /\ UNCHANGED filed
     \/ /\ ~Gated(s)
        /\ Advance(s)
        /\ filed' = Filing(run, Gives[s])
        /\ UNCHANGED looping
  /\ UNCHANGED <<stopped, detours>>

RequestStop ==
  /\ ~stopped
  /\ stopped' = TRUE
  /\ UNCHANGED <<run, trail, filed, looping, detours>>

\* resume_run between two loops: run_orchestrator holds its caller until it ends, and nothing it calls resumes a run.
Resume(frm) == ~looping /\ ResumeRun(frm) /\ Detour /\ UNCHANGED <<filed, looping, stopped>>

Loop ==
  \/ StartLoop \/ LoopStops \/ LoopEnds \/ RequestStop
  \/ \E s \in Stage : LoopStage(s)
  \/ \E frm \in ResumeStages : Resume(frm)

Next ==
  \/ driver = "caller" /\ Call /\ UNCHANGED driver
  \/ driver = "loop" /\ Loop /\ UNCHANGED driver

\* Only the loop, which a thread of the program is in, has to go on.
LoopGoesOn == (LoopStops \/ LoopEnds \/ \E s \in Stage : LoopStage(s)) /\ UNCHANGED driver

Spec == Init /\ [][Next]_vars /\ WF_vars(LoopGoesOn)

-------------------------------------------------------------------------------
(* Properties: StagesInOrder of OrchestratedRun, and                       *)

\* The execution loop gives the run back settled: it never returns with a stage of the pipeline still under way (a run
\* that was resumed at COMPILE_REPAIR comes straight back, since that stage leads nowhere in the pipeline).
ReturnsSettled == [][looping /\ ~looping' => run'.current \notin InPipeline \ {"COMPLETED"}]_vars

===============================================================================
