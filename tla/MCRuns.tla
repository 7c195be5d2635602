--------------------------------- MODULE MCRuns ---------------------------------
(***************************************************************************)
(* What a request of the user becomes: stages of an orchestrated run, the  *)
(* tasks of a spec, a compiled plan.  They never meet; which says which    *)
(* one a behaviour is about, and the variables of the others keep one of   *)
(* their initial values.                                                   *)
(***************************************************************************)
EXTENDS CompiledRun, OrchestratedRun, TaskExecutor

VARIABLES which, filed, looping, stopped, detours

requestVars == <<driver, run, trail, filed, looping, stopped, detours>>

Fun == <<"def f", "    pass">>
Decorated == <<"", "@d">> \o Fun \o <<"", "x = 1">>

Of(kind, content, op, anchor) == [kind |-> kind, content |-> content, op |-> op, anchor |-> anchor]
Whole(kind, content) == Of(kind, content, "", "")

Asked == {
  Whole("create", Fun), Whole("create", None), Whole("modify", <<"x = 1", "x = 1">>),
  Whole("delete", None), Whole("run", None), Whole("validate", None),
  Of("edit", Fun, "ensure_function", "function"), Of("edit", None, "ensure_function", "function"),
  Of("edit", <<"import m">>, "ensure_import", "import"), Of("edit", <<"import m">>, "append_if_missing", "file_end"),
  Of("edit", <<"import m", "import m">>, "ensure_import", "import"), Of("edit", <<"import m">> \o Fun, "ensure_function", "function"),
  Of("edit", <<"x = 1">>, "insert_after", "class"), Of("edit", None, "replace_block", "function"),
  Of("edit", <<>>, "delete_block", "line_match")}

FileTexts == {Missing, Binary, Fun, Decorated, <<"import m", "x = 1">>}
ModelAnswers == {Fun, <<"class C", "    pass">>, <<"x = 1">>, <<"(">>, <<"">>, <<>>}

Planned(type, path, deps) == [type |-> type, path |-> path, deps |-> deps]
Three == {<<Planned(a, "p", {}), Planned(b, "p", d), Planned(c, "p", e)>> :
  a \in {"GENERATE_FILE", "GENERATE_PATCH", "RUN", "READ_CONTEXT"},
  b \in {"GENERATE_FILE", "REPLACE_FILE", "RUN", "RUN_DENIED", "RUN_TESTS", "APPLY_MUTATIONS", "VALIDATION", "MODIFY"},
  c \in {"APPLY_MUTATIONS", "RUN", "VALIDATION", "GENERATE_PATCH"},
  d \in {{}, {1}}, e \in {{2}, {1, 2}}}

OneFile == {"p"}
NewOrOld == {"new", "old"}
Reruns == {[kind |-> "RERUN_FAILED_TASK", from |-> 0], [kind |-> "RERUN_FROM_TASK", from |-> 0],
           [kind |-> "RERUN_VALIDATION_SUFFIX", from |-> 0]}

OnePlan == <<Planned("RUN", "p", {}), Planned("RUN", "p", {}), Planned("RUN", "p", {2})>>

\* resume_run's comment: "we usually go back to a stage like PLANNING_SKELETON or DRAFT_SPEC_GENERATION"; and
\* COMPILE_REPAIR, from which no loop goes on.
Request == INSTANCE Orchestrator WITH ResumeStages <- {"PLANNING_SKELETON", "DRAFT_SPEC_GENERATION", "COMPILE_REPAIR"}, MaxDetours <- 2
ASSUME RequestResumes == Request!ResumesAtStages

-----------------------------------------------------------------------------
SpecInit == disk = Fun /\ tasks = <<Whole("run", None)>> /\ taskFailFast = TRUE /\ mode = "apply"
PlanInit == plan = OnePlan /\ failFast = TRUE /\ files = [p \in {"p"} |-> "old"]
LoopInit == driver = "loop"

RunsInit ==
  /\ \/ which = "spec" /\ PlanInit /\ LoopInit
     \/ which = "plan" /\ SpecInit /\ LoopInit
     \/ which = "loop" /\ SpecInit /\ PlanInit
  /\ TasksInit /\ Init /\ Request!Init

SpecStep(A) == which = "spec" /\ A /\ UNCHANGED <<which, vars, requestVars>>
PlanStep(A) == which = "plan" /\ A /\ UNCHANGED <<which, taskVars, requestVars>>
LoopStep(A) == which = "loop" /\ A /\ UNCHANGED <<which, taskVars, vars>>

RunsNext == SpecStep(TasksNext) \/ PlanStep(Next) \/ LoopStep(Request!Next)

\* The worker goes on, and so does the thread the request is in; nobody has to ask or answer anything.
RunsFairness ==
  /\ which = "spec" => TasksFairness
  /\ WF_<<which, taskVars, vars, requestVars>>(PlanStep(Work) \/ LoopStep(Request!LoopGoesOn))

RunsSpec == RunsInit /\ [][RunsNext]_<<which, taskVars, vars, requestVars>> /\ RunsFairness

-----------------------------------------------------------------------------
\* Every part's variables have their types.
RunsTypeOK == TasksTypeOK /\ TypeOK /\ Request!TypeOK

\* What is under way ends, a request comes back settled, and so does a file an ensuring edit was made to.
SomeUnderWay ==
  \/ which = "spec" /\ TasksUnderWay
  \/ which = "plan" /\ UnderWay
  \/ which = "loop" /\ looping
RunsEnd == (SomeUnderWay ~> ~SomeUnderWay) /\ Request!ReturnsSettled /\ EnsureSettles
=============================================================================
