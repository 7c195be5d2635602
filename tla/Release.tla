-------------------------------- MODULE Release --------------------------------
(***************************************************************************)
(* From a request given as one command to its release (Demo10): execute    *)
(* it, replay the golden runs of the suite, classify what drifted, let the *)
(* environment's policy decide, and keep a history of such decisions.      *)
(* What compiling and planning come to are outcomes here.                  *)
(***************************************************************************)
EXTENDS Naturals, Sequences, FiniteSets

CONSTANTS
  Goldens,      \* ids of golden runs
  Traces,       \* what a run can leave: [status, steps, rollback], a step being [status, out, tries]
  MaxCommands, MaxRecords

VARIABLES
  goldens,      \* GoldenStore: the directory of each golden run
  suites,       \* the default suite's file: none or one set of golden ids
  stage,        \* where the command is
  strict,       \* its strictness; the environment it asks for is read once, and chosen there
  commands, queue,
  results,      \* GoldenRunResults of the last verification
  overall,      \* its verdict
  outcome,
  history,      \* promotion_history/<version>.json
  recording     \* decisions _update_history is writing

gvars == <<goldens, suites>>
cvars == <<stage, strict, commands, queue, results, overall, outcome>>
hvars == <<history, recording>>
releaseVars == <<gvars, cvars, hvars>>

Environments == {"dev", "staging", "prod"}
TornFile == <<[env |-> "torn", decision |-> "torn"]>>

-----------------------------------------------------------------------------
(* Replay and comparison.                                                  *)

Started(trace) == {i \in DOMAIN trace.steps : trace.steps[i].status # "skipped"}

\* Steps are sorted by when they started; a time cannot be compared with the "" of a step that was skipped.
Sortable(trace) == Started(trace) \in {{}, DOMAIN trace.steps}

\* Both plans are the one the source run names, so they always match, and with them the order and the number of steps.
Compare(source, replay) ==
  LET Differ(field(_)) == \E i \in DOMAIN source.steps : field(source.steps[i]) # field(replay.steps[i])
      StatusOf(x) == x.status
      OutOf(x) == x.out
      TriesOf(x) == x.tries
  IN [steps    |-> ~Differ(StatusOf),
      status   |-> source.status = replay.status /\ ~Differ(StatusOf),
      outputs  |-> ~Differ(OutOf),
      retries  |-> ~Differ(TriesOf),
      rollback |-> source.rollback = replay.rollback]

Verdict(c) ==
  IF c.status /\ c.outputs /\ c.rollback /\ c.retries THEN "exact_match"
  ELSE IF c.status /\ c.rollback THEN "structural_match"
  ELSE IF c.status THEN "outcome_match"
  ELSE "mismatch"

\* Mutant: the steps are not looked at, only the run.
Bug_Drifts(c) == {d \in {"retry_drift"} : ~c.retries}

Drifts(c) ==
  {d \in {"execution_drift"} : ~c.steps} \union {d \in {"retry_drift"} : ~c.retries}
  \union {d \in {"rollback_drift"} : ~c.rollback} \union {d \in {"output_drift"} : ~c.outputs}

Class(verdict) ==
  CASE verdict \in {"exact_match", "structural_match"} -> "pass"
    [] verdict = "outcome_match"                       -> IF strict THEN "fail" ELSE "warn"
    [] OTHER                                           -> "fail"

AnyTrace == CHOOSE t \in Traces : TRUE

Failed(golden, drifts) ==
  [golden |-> golden, source |-> AnyTrace, replay |-> AnyTrace, verdict |-> "fail", class |-> "fail", drifts |-> drifts]

Classified(golden, source, replay) ==
  LET c == Compare(source, replay)
      verdict == Verdict(c)
  IN IF verdict = "mismatch" THEN Failed(golden, Drifts(c))
     ELSE [golden |-> golden, source |-> source, replay |-> replay, verdict |-> verdict, class |-> Class(verdict), drifts |-> Drifts(c)]

\* Mutant: files that have no checksum are not missed.
Bug_Intact(golden) == goldens[golden] # "altered"

\* verify_integrity: there are checksums, and they agree.
Intact(golden) == goldens[golden] = "whole"

\* The plan of a golden run may have been gone when it was blessed; a working copy of the same id is used, whole or not.
Result(golden, plan, source, replay) ==
  IF ~Intact(golden) THEN Failed(golden, {"environment_drift"})
  ELSE IF plan = "missing" THEN Failed(golden, {"execution_drift"})
  ELSE IF plan = "unreadable" THEN Failed(golden, {"plan_drift", "execution_drift", "rollback_drift", "output_drift"})
  ELSE IF ~Sortable(source) \/ ~Sortable(replay) THEN Failed(golden, {"execution_drift"})
  ELSE Classified(golden, source, replay)

\* Mutant: a suite passes when some golden run does.
Bug_Overall(rs) ==
  IF \E r \in rs : r.class = "pass" THEN "pass"
  ELSE IF \E r \in rs : r.class = "warn" THEN "pass_with_warnings"
  ELSE "fail"

\* A suite without golden runs passes.
Overall(rs) ==
  IF \E r \in rs : r.class = "fail" THEN "fail"
  ELSE IF \E r \in rs : r.class = "warn" THEN "pass_with_warnings"
  ELSE "pass"

-----------------------------------------------------------------------------
(* The policies of the environments and the rules of the promotion engine. *)

\* Mutant: production blocks no category of drift.
Bug_Blocked(env) == IF env = "staging" THEN {"plan_drift", "execution_drift", "output_drift"} ELSE {}

Blocked(env) ==
  CASE env = "dev"     -> {}
    [] env = "staging" -> {"plan_drift", "execution_drift", "output_drift"}
    [] env = "prod"    -> {"plan_drift", "execution_drift", "output_drift", "rollback_drift"}

AllowsWarn(env) == env # "prod"
AllowsNotComparable(env) == env = "dev"
RequiredVerdict(env) == IF env = "prod" THEN "pass" ELSE "pass_with_warnings"
MaxFailures == 0

\* The rules ask for warn_count and fail_count; the suite's summary has warn and fail.
SummaryKeys == {"total_runs", "pass", "warn", "fail"}
Counted(key, class, rs) == IF key \in SummaryKeys THEN Cardinality({r \in rs : r.class = class}) ELSE 0

Rejected(env, rs, verdict) ==
  \/ verdict = "fail"
  \/ RequiredVerdict(env) = "pass" /\ verdict = "pass_with_warnings"
  \/ ~AllowsWarn(env) /\ Counted("warn_count", "warn", rs) > 0
  \/ ~AllowsNotComparable(env) /\ \E r \in rs : r.verdict = "fail"
  \/ \E r \in rs : r.drifts \intersect Blocked(env) # {}
  \/ Counted("fail_count", "fail", rs) > MaxFailures

Evaluate(env, rs, verdict) ==
  IF Rejected(env, rs, verdict) THEN "rejected"
  ELSE IF verdict = "pass_with_warnings" THEN "approved_with_warnings"
  ELSE "approved"

-----------------------------------------------------------------------------
None == "none"

ReleaseInit ==
  /\ goldens = [g \in Goldens |-> "absent"] /\ suites = {}
  /\ stage = "idle" /\ strict = TRUE /\ commands = 0 /\ queue = {}
  /\ results = {} /\ overall = None /\ outcome = None
  /\ history = <<>> /\ recording = <<>>

\* create_golden_run: the artifacts are copied, then their checksums written.  Later somebody, or the disk, changes one.
Becomes(g, from, to) ==
  /\ goldens[g] = from /\ goldens' = [goldens EXCEPT ![g] = to]
  /\ UNCHANGED <<suites, cvars, hvars>>

CopyGolden(g) == Becomes(g, "absent", "partial")
SealGolden(g) == Becomes(g, "partial", "whole")
AlterGolden(g) == Becomes(g, "whole", "altered")

CreateSuite ==
  /\ suites = {} /\ \E S \in SUBSET Goldens : suites' = {S}
  /\ UNCHANGED <<goldens, cvars, hvars>>

CommandEnded(status) == stage' = "over" /\ outcome' = status
CommandOnward(to) == stage' = to /\ UNCHANGED outcome

Start ==
  /\ stage \in {"idle", "over"} /\ recording = <<>> /\ commands < MaxCommands
  /\ stage' = "compile" /\ strict' \in BOOLEAN /\ commands' = commands + 1
  /\ queue' = {} /\ results' = {} /\ overall' = None /\ outcome' = None
  /\ UNCHANGED <<gvars, hvars>>

\* Blocked, when no repair is left to apply or three rounds of them did not help.
Compile ==
  /\ stage = "compile"
  /\ CommandEnded("blocked") \/ CommandOnward("plan")
  /\ UNCHANGED <<gvars, strict, commands, queue, results, overall, hvars>>

BuildPlan ==
  /\ stage = "plan"
  /\ CommandEnded("failed") \/ CommandOnward("execute")
  /\ UNCHANGED <<gvars, strict, commands, queue, results, overall, hvars>>

\* In place the run changes the user's files before anything is verified, and a rejection later leaves them changed.
ExecuteCommand ==
  /\ stage = "execute"
  /\ CommandEnded("failed") \/ CommandOnward("suite")
  /\ UNCHANGED <<gvars, strict, commands, queue, results, overall, hvars>>

\* Without the file of the suite load_suite raises.
LoadSuite ==
  /\ stage = "suite"
  /\ IF suites = {} THEN CommandEnded("failed") ELSE CommandOnward("verify")
  /\ queue' = UNION suites
  /\ UNCHANGED <<gvars, strict, commands, results, overall, hvars>>

\* Mutant: a golden run that failed is tried again.
Bug_Rest(g, result) == IF result.class = "fail" THEN queue ELSE queue \ {g}

Rest(g, result) == queue \ {g}

\* The golden run's own plan is replayed in an empty directory: it may come to anything a run of its plan can.
VerifyGolden(g) ==
  /\ stage = "verify" /\ g \in queue
  /\ \E plan \in {"kept", "missing", "unreadable"}, source, replay \in Traces :
       /\ Len(source.steps) = Len(replay.steps)
       /\ results' = results \union {Result(g, plan, source, replay)}
       /\ queue' = Rest(g, Result(g, plan, source, replay))
  /\ UNCHANGED <<gvars, stage, strict, commands, overall, outcome, hvars>>

Verified ==
  /\ stage = "verify" /\ queue = {}
  /\ overall' = Overall(results)
  /\ IF strict /\ overall' = "fail" THEN CommandEnded("failed") ELSE CommandOnward("decide")
  /\ UNCHANGED <<gvars, strict, commands, queue, results, hvars>>

DecideRelease ==
  /\ stage = "decide"
  /\ \E env \in Environments, warnings \in BOOLEAN :
       LET decision == Evaluate(env, results, overall)
       IN CommandEnded(IF decision = "rejected" THEN "rejected"
                ELSE IF warnings \/ decision = "approved_with_warnings" THEN "completed_with_warnings"
                ELSE "completed")
  /\ UNCHANGED <<gvars, strict, commands, queue, results, overall, hvars>>

\* Mutant: the decisions of before are not read.
Bug_Record(env, word) ==
  /\ recording = <<>> /\ history # TornFile /\ Len(history) < MaxRecords
  /\ recording' = <<[env |-> env, decision |-> word]>>
  /\ history' = TornFile

\* promote and override_promotion of a candidate: the history is read, and rewritten in place.  One that does not
\* parse raises, now and ever after.
Record(env, word) ==
  /\ recording = <<>> /\ history # TornFile /\ Len(history) < MaxRecords
  /\ recording' = Append(history, [env |-> env, decision |-> word])
  /\ history' = TornFile

PromoteCandidate(env) == stage = "over" /\ overall # None /\ Record(env, Evaluate(env, results, overall)) /\ UNCHANGED <<gvars, cvars>>
OverrideCandidate(env) == stage = "over" /\ overall # None /\ Record(env, "approved_with_override") /\ UNCHANGED <<gvars, cvars>>

WriteHistory ==
  /\ recording # <<>>
  /\ history' = recording /\ recording' = <<>>
  /\ UNCHANGED <<gvars, cvars>>

\* The process ends between the opening of the file and its last byte.
Interrupted ==
  /\ recording # <<>> /\ recording' = <<>> /\ stage' = "idle"
  /\ results' = {} /\ overall' = None /\ outcome' = None
  /\ UNCHANGED <<gvars, strict, commands, queue, history>>

Command ==
  \/ Compile \/ BuildPlan \/ ExecuteCommand \/ LoadSuite
  \/ (\E g \in Goldens : VerifyGolden(g)) \/ Verified \/ DecideRelease

ReleaseNext ==
  \/ \E g \in Goldens : CopyGolden(g) \/ SealGolden(g) \/ AlterGolden(g)
  \/ CreateSuite \/ Start \/ Command
  \/ \E env \in Environments : PromoteCandidate(env) \/ OverrideCandidate(env)
  \/ WriteHistory \/ Interrupted

ReleaseFairness == WF_releaseVars(Command)
ReleaseSpec == ReleaseInit /\ [][ReleaseNext]_releaseVars /\ ReleaseFairness

-----------------------------------------------------------------------------
(* Properties.                                                             *)

ReleaseTypeOK ==
  /\ stage \in {"idle", "compile", "plan", "execute", "suite", "verify", "decide", "over"}
  /\ outcome \in {None, "blocked", "failed", "rejected", "completed_with_warnings", "completed"}
  /\ overall \in {None, "pass", "pass_with_warnings", "fail"}
  /\ (stage = "over") <=> (outcome # None)
  /\ (outcome \in {"rejected", "completed", "completed_with_warnings"}) => overall # None

Approves(env) == Evaluate(env, results, overall) # "rejected"

\* What may be promoted to production may be promoted to staging, and what may go there to dev (policies.py).
LadderHolds == overall # None => (Approves("prod") => Approves("staging")) /\ (Approves("staging") => Approves("dev"))

\* An approval stands on a replay of every golden run of the suite, each with the checksums it was blessed with, whose
\* steps came out as they did then; beyond dev they also produced the same, and for production any rollback was the same.
ApprovedReproduces ==
  \A env \in Environments : overall # None /\ Approves(env) =>
    /\ {r.golden : r \in results} = UNION suites
    /\ \A r \in results :
         LET c == Compare(r.source, r.replay)
         IN /\ r.verdict # "fail" /\ goldens[r.golden] \in {"whole", "altered"}
            /\ c.status
            /\ env # "dev" => c.outputs
            /\ env = "prod" => c.rollback

\* What was promoted climbed the ladder on evidence, and a golden run that was approved replays.
ReleaseSound == LadderHolds /\ ApprovedReproduces

\* The history only grows, and an environment once reached is never forgotten, unless a crash tears the file.
AuditKept == [][history # TornFile => history' \in {history, TornFile} /\
                 (recording' # <<>> => SubSeq(recording', 1, Len(history)) = history)]_releaseVars

CommandUnderWay == stage \notin {"idle", "over"}
=============================================================================
