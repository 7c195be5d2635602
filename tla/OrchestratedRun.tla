---------------------------- MODULE OrchestratedRun ----------------------------
(***************************************************************************)
(* What an orchestrated run promises those who look at it, whoever drives  *)
(* it: the run's record and the order of its stages.  Orchestrator says    *)
(* how the record changes.                                                 *)
(***************************************************************************)
EXTENDS OrchestratorStages

VARIABLES
    driver,     \* who drives the run: "caller" or the controller's own "loop"
    run,        \* the OrchestratorRun
    trail       \* history: the place in the pipeline it has come to, the stages jumps passed over, and those that
                \* resume_run left running

\* Repair stands at the place of the compilation it repairs; a stage beside the pipeline has none.
Places(s) == {k \in 1..Len(Pipeline) : Pipeline[k] = IF s = "COMPILE_REPAIR" THEN "COMPILE" ELSE s}

\* The stages from where the run is to another.
Between(to) == {Pipeline[j] : j \in {i \in 1..Len(Pipeline) : \E k \in Places(to) : trail.place <= i /\ i < k}}

TrailOf(to, over, left) ==
  [place  |-> IF Places(to) = {} THEN trail.place ELSE CHOOSE k \in Places(to) : TRUE,
   passed |-> trail.passed \cup over, left |-> trail.left \cup left]

\* However the methods are called, and in the loop, advancing, failing, blocking and asking leave no second stage
\* running behind the current one: resume_run alone does, at a stage that still ran when it was called.
OneRunning == \A s \in Stage : run.status[s] = "running" => s = run.current \/ s \in trail.left

\* Every stage before the current one in the pipeline has been entered, unless the run jumped over it: on from
\* waiting for the user, or by resume_run.
InOrder ==
  \A j, k \in 1..Len(Pipeline) :
    j < k /\ Pipeline[k] = run.current => run.status[Pipeline[j]] # "pending" \/ Pipeline[j] \in trail.passed

\* Both at once: whoever drives it, a run is in one place and got there stage by stage, but for what resume_run
\* leaves behind and jumps pass over (advance_stage, handle_stage_failure, block_run, await_user, resume_run).
StagesInOrder == OneRunning /\ InOrder
================================================================================
