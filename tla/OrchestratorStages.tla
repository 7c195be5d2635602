-------------------------- MODULE OrchestratorStages --------------------------
(***************************************************************************)
(* The stages of an orchestrated request (orchestrator/stages.py), the     *)
(* table of legal transitions (state_machine.py) and what each method of   *)
(* OrchestratorController does to a run (controller.py, run_model.py).     *)
(* A run is a record: the name of its current stage and the status of      *)
(* every stage.  Orchestrator and SpecQueue are built on these operators.  *)
(***************************************************************************)
EXTENDS Integers, Sequences

\* get_next_normal_stage's pipeline.
Pipeline ==
  << "REQUEST_RECEIVED", "NORMALIZATION", "INTENT_DECOMPOSITION",
     "PLANNING_SKELETON", "CLARIFICATION_GATE", "DRAFT_SPEC_GENERATION",
     "COMPILE", "PLAN_MATERIALIZATION", "PREVIEW_SIMULATION",
     "APPROVAL_GATE", "EXECUTION", "APPLY_CHANGESET",
     "POST_APPLY_VERIFICATION", "METRICS_AGGREGATION", "COMPLETED" >>

InPipeline == {Pipeline[k] : k \in 1..Len(Pipeline)}
Stage == InPipeline \cup {"COMPILE_REPAIR", "FAILED", "BLOCKED", "AWAITING_USER"}
StageStatus == {"pending", "running", "completed", "failed", "blocked", "awaiting_user"}
Run == [current : Stage, status : [Stage -> StageStatus]]

\* The transition table; a stage that has no entry leads nowhere.
Transitions ==
  { <<Pipeline[k], Pipeline[k + 1]>> : k \in 1..(Len(Pipeline) - 1) }
    \cup { <<Pipeline[k], "FAILED">> : k \in 1..(Len(Pipeline) - 1) }
    \cup ( {"CLARIFICATION_GATE", "APPROVAL_GATE"} \X {"AWAITING_USER", "BLOCKED"} )
    \cup ( {"AWAITING_USER"} \X {"PLANNING_SKELETON", "DRAFT_SPEC_GENERATION", "EXECUTION", "FAILED"} )
    \cup { <<"COMPILE", "COMPILE_REPAIR">>, <<"COMPILE_REPAIR", "COMPILE">>,
           <<"COMPILE_REPAIR", "FAILED">> }

\* Mutant: an approved plan may go straight from COMPILE to the gate.
Bug_ShortCut(from, to) ==
  to \in {"FAILED", "BLOCKED"} \/ <<from, to>> \in Transitions \cup {<<"COMPILE", "APPROVAL_GATE">>}

CanTransition(from, to) ==
  to \in {"FAILED", "BLOCKED"} \/ <<from, to>> \in Transitions

NextNormalStage(from) ==
  {Pipeline[k + 1] : k \in {j \in 1..(Len(Pipeline) - 1) : Pipeline[j] = from}}

\* create_run.
NewRun ==
  [current |-> Pipeline[1],
   status  |-> [s \in Stage |-> IF s = Pipeline[1] THEN "running" ELSE "pending"]]

Mark(run, stage, st) == [run EXCEPT !.status[stage] = st]

\* advance_stage, once can_transition has let it pass.
Entered(run, to) ==
  LET left == IF run.status[run.current] = "running"
              THEN Mark(run, run.current, "completed") ELSE run
  IN  [Mark(left, to, "running") EXCEPT !.current = to]

\* handle_stage_failure, block_run, await_user and resume_run: none of them
\* asks can_transition.  (The mutant stores the stage's name as its status.)
Bug_FailedRun(run)   == [Mark(run, run.current, "FAILED") EXCEPT !.current = "FAILED"]
FailedRun(run)       == [Mark(run, run.current, "failed") EXCEPT !.current = "FAILED"]
BlockedRun(run)      == [Mark(run, run.current, "blocked") EXCEPT !.current = "BLOCKED"]
AwaitingRun(run)     == [Mark(run, run.current, "awaiting_user") EXCEPT !.current = "AWAITING_USER"]
ResumedRun(run, frm) == [Mark(run, frm, "running") EXCEPT !.current = frm]
===============================================================================
