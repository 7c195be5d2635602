--------------------------- MODULE RegressionRunner ---------------------------
(***************************************************************************)
(* run_regression.py (Demo10): the cases of a suite, one after another,    *)
(* each in a copy of its fixture, its outcome compared with the baseline   *)
(* beside it or written there.  What a case's tasks and checks come to is  *)
(* an outcome here.                                                        *)
(***************************************************************************)
EXTENDS Integers, Sequences, FiniteSets

CONSTANTS
  Cases,        \* how many directories the suite has
  Fields,       \* final_status, verification, regression, runtime
  Values,       \* what a field may be
  MaxSuites

VARIABLES
  baselines,    \* expected_outcome.json of each case
  run_dirs,     \* the summary.json of every directory of regression_runs, the latest last
  suite,        \* where the runner is
  nth, updating, case_results,
  actual,       \* the outcome of the case under way
  folder,       \* the second a case's run folder is named after
  workspaces,   \* the folders that hold an execution workspace
  stained       \* the workspace of the case under way was there before it

runnerVars == <<baselines, run_dirs, suite, nth, updating, case_results, actual, folder, workspaces, stained>>

Outcomes == [Fields -> Values]
NotYet == [status |-> "none"]             \* no summary yet, no baseline
HalfWritten == [status |-> "torn"]             \* opened for writing and never written
Failed(results) == {n \in DOMAIN results : results[n].status = "fail"}
Summary(results) == [status |-> IF Failed(results) # {} THEN "FAIL" ELSE "PASS"]

\* A field the baseline does not name is not compared.
Agrees(outcome, baseline) == \A f \in DOMAIN baseline : outcome[f] = baseline[f]
Baselines == UNION {[part -> Values] : part \in SUBSET Fields}

\* A suite that is there has a case (one without any passes), and no outcome looks like the file that is missing or torn.
SuiteConstants == Cases \in Nat \ {0} /\ MaxSuites \in Nat /\ {NotYet, HalfWritten} \intersect Baselines = {}

-----------------------------------------------------------------------------
\* One command runs one suite: the next one begins in a later second.
StartSuite ==
  /\ suite = "idle" /\ Len(run_dirs) < MaxSuites
  /\ run_dirs' = Append(run_dirs, NotYet) /\ updating' \in BOOLEAN
  /\ suite' = "case" /\ nth' = 1 /\ case_results' = <<>> /\ folder' = folder + 1 /\ stained' = FALSE
  /\ UNCHANGED <<baselines, actual, workspaces>>

CaseEnds(status, outcome) ==
  /\ case_results' = Append(case_results, [status |-> status, actual |-> outcome]) /\ nth' = nth + 1 /\ stained' = FALSE
  /\ suite' = IF nth = Cases THEN "summing" ELSE "case"
  /\ UNCHANGED <<run_dirs, updating, actual, folder>>

\* No spec.yaml, or one that cannot be parsed.
Unreadable == suite = "case" /\ CaseEnds("fail", NotYet) /\ UNCHANGED <<baselines, workspaces>>

\* create_run_folder takes the second for a name: a case that begins in the second of the one before gets its folder.
Isolate ==
  /\ suite = "case" /\ suite' = "isolated"
  /\ folder' \in {folder, folder + 1}
  /\ stained' = (folder' \in workspaces) /\ workspaces' = workspaces \union {folder'}
  /\ UNCHANGED <<baselines, run_dirs, nth, updating, case_results, actual>>

\* The profile, the interpreter, a task or a check raises, or rmtree does: the case failed and its workspace stays.
Raises == suite \in {"isolated", "cleaning"} /\ CaseEnds("fail", NotYet) /\ UNCHANGED <<baselines, workspaces>>

RunCase ==
  /\ suite = "isolated" /\ actual' \in Outcomes
  /\ suite' = IF updating THEN "writing" ELSE "cleaning"
  /\ baselines' = IF updating THEN [baselines EXCEPT ![nth] = HalfWritten] ELSE baselines
  /\ UNCHANGED <<run_dirs, nth, updating, case_results, folder, workspaces, stained>>

WriteBaseline ==
  /\ suite = "writing" /\ suite' = "cleaning" /\ baselines' = [baselines EXCEPT ![nth] = actual]
  /\ UNCHANGED <<run_dirs, nth, updating, case_results, actual, folder, workspaces, stained>>

Bug_Judge == IF updating \/ (baselines[nth] # NotYet /\ \E f \in DOMAIN baselines[nth] : actual[f] = baselines[nth][f]) THEN "pass" ELSE "fail"
Judge == IF updating \/ (baselines[nth] \notin {NotYet, HalfWritten} /\ Agrees(actual, baselines[nth])) THEN "pass" ELSE "fail"

Clean ==
  /\ suite = "cleaning" /\ CaseEnds(Judge, IF updating THEN NotYet ELSE actual)
  /\ workspaces' = workspaces \ {folder} /\ UNCHANGED baselines

OpenSummary ==
  /\ suite = "summing" /\ suite' = "saving" /\ run_dirs' = [run_dirs EXCEPT ![Len(run_dirs)] = HalfWritten]
  /\ UNCHANGED <<baselines, nth, updating, case_results, actual, folder, workspaces, stained>>

WriteSummary ==
  /\ suite = "saving" /\ suite' = "idle" /\ run_dirs' = [run_dirs EXCEPT ![Len(run_dirs)] = Summary(case_results)]
  /\ UNCHANGED <<baselines, nth, updating, case_results, actual, folder, workspaces, stained>>

RunnerStops ==
  /\ suite # "idle" /\ suite' = "idle" /\ nth' = 1 /\ case_results' = <<>> /\ stained' = FALSE
  /\ UNCHANGED <<baselines, run_dirs, updating, actual, folder, workspaces>>

-----------------------------------------------------------------------------
RunnerRests ==
  /\ suite = "idle" /\ nth = 1 /\ updating = FALSE /\ case_results = <<>> /\ actual = NotYet
  /\ folder = 0 /\ workspaces = {} /\ stained = FALSE
RunnerInit == RunnerRests /\ run_dirs = <<>> /\ baselines \in [1..Cases -> Baselines \union {NotYet}]

RunnerNext ==
  StartSuite \/ Unreadable \/ Isolate \/ Raises \/ RunCase \/ WriteBaseline \/ Clean \/ OpenSummary \/ WriteSummary \/ RunnerStops
RunnerSpec == RunnerInit /\ [][RunnerNext]_runnerVars

RunnerTypeOK ==
  /\ baselines \in [1..Cases -> Baselines \union {NotYet, HalfWritten}]
  /\ run_dirs \in Seq({NotYet, HalfWritten, [status |-> "PASS"], [status |-> "FAIL"]})
  /\ suite \in {"idle", "case", "isolated", "writing", "cleaning", "summing", "saving"}
  /\ nth \in 1..(Cases + 1) /\ updating \in BOOLEAN /\ case_results \in Seq([status : {"pass", "fail"}, actual : Outcomes \union {NotYet}])
  /\ actual \in Outcomes \union {NotYet} /\ folder \in Nat /\ workspaces \subseteq 0..folder /\ stained \in BOOLEAN

\* What a suite says can be trusted (run_suite, run_case): while its results are in hand every case that passed has a
\* whole baseline, and unless it was just written the outcome it reports agrees with it; a case runs in what another one
\* left behind only after a case of the suite failed; and the summary of a suite that came to its end is of every case.
VerdictEarned ==
  /\ \A n \in DOMAIN case_results :
       case_results[n].status = "pass" =>
         baselines[n] \notin {NotYet, HalfWritten} /\ (~updating => Agrees(case_results[n].actual, baselines[n]))
  /\ stained => Failed(case_results) # {}
  /\ suite = "idle" /\ case_results # <<>> => Len(case_results) = Cases /\ run_dirs[Len(run_dirs)] = Summary(case_results)

\* What others may see of a suite is a directory made, its summary opened and written, and never that of an earlier one
\* touched (run_suite); the console's module takes just these steps of it.
SuiteSteps ==
  [][LET n == Len(run_dirs) IN
       \/ run_dirs' = Append(run_dirs, NotYet)
       \/ n > 0 /\ <<run_dirs[n], run_dirs'>> = <<NotYet, [run_dirs EXCEPT ![n] = HalfWritten]>>
       \/ n > 0 /\ run_dirs[n] = HalfWritten /\ \E verdict \in {"PASS", "FAIL"} : run_dirs' = [run_dirs EXCEPT ![n] = [status |-> verdict]]
    ]_run_dirs
=============================================================================
