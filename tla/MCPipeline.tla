------------------------------ MODULE MCPipeline ------------------------------
(***************************************************************************)
(* Demo10's way from words to a released change, a part at a time: which   *)
(* says whose behaviour this is, the others keep their initial state, so   *)
(* the state space is the sum of theirs and not the product.               *)
(***************************************************************************)
EXTENDS PolicyGate, Release, SpecParser
LOCAL INSTANCE SequencesExt

VARIABLES which,
  request, skeleton, issues, questions, answers, session_status,
  ir, eligibility, plan, files, repairs, named,
  text, compiled, submitted, fresh, phase, current, attempts, session, report, edits,
  saved, fragments, proposals, macros, contracts, active, todo, revised, halved,
  plans, candidates, variants, adopted, marks, calls,
  folder, current_session, session_file, at, opened, resetting, acts, ended, exits, recorded, raced,
  baselines, run_dirs, suite, nth, updating, case_results, actual, folder_second, workspaces, stained,
  queue_state, run_states, pending, approvals_file, index, trends, summary, health, building, contested, evaluated, shown, complete, cut,
  disturbed, changes, rebuilds, closings

-----------------------------------------------------------------------------
(* What the model may split a request into: one intent, two that may share their id, three that do, six. *)

Intent(id, type, has, hint) == [id |-> id, type |-> type, has |-> has, hint |-> hint]
Some == {Intent("i1", type, has, hint) :
           type \in {"add_ui", "add_persistence", "fix_bug", "create_app"}, has \in {{}, {"framework"}, {"target"}}, hint \in BOOLEAN}
Requests ==
  {<<a>> : a \in Some} \union {<<a, [b EXCEPT !.id = id]>> : a, b \in Some, id \in {"i1", "i2"}}
  \union {<<Intent("i1", "add_ui", {}, FALSE), Intent("i1", "add_persistence", {}, FALSE), Intent("i1", "add_ui", {}, FALSE)>>,
          <<Intent("i1", "add_ui", {}, FALSE), Intent("i2", "add_persistence", {}, FALSE), Intent("i3", "fix_bug", {}, TRUE),
            Intent("i4", "add_ui", {}, FALSE), Intent("i5", "add_ui", {"framework"}, FALSE), Intent("i6", "create_app", {}, FALSE)>>}
Clarify == INSTANCE Clarification WITH status <- session_status

(* What the model may make of a request: up to three operations on two files. *)
Op(type, target, words, deps) == [type |-> type, target |-> target, words |-> words, deps |-> deps]
FirstOps ==
  {Op("create_file", t, {}, {}) : t \in {"", "a", "b.py"}} \union {Op("modify_file", t, w, {}) : t \in {"", "a.py"}, w \in {{}, {"delete"}}}
  \union {Op("write_spec", "", {}, {}), Op("write_spec", "next", {"vague"}, {}), Op("run_command", "", {}, {}),
          Op("search_code", "a.py", {}, {}), Op("analyze_codebase", "this project", {}, {})}
SecondOps ==
  {Op("modify_file", t, w, d) : t \in {"", "a.py", "b.py"}, w \in {{}, {"keep"}, {"remove"}}, d \in {{}, {"b.py"}, {"#1"}}}
  \union {Op("create_file", "a.py", {}, {}), Op("write_spec", "", {}, {})}
Extracts ==
  {[title |-> title, ops |-> <<a>>] : title \in BOOLEAN, a \in FirstOps}
  \union {[title |-> TRUE, ops |-> <<a, b>>] : a \in FirstOps, b \in SecondOps}
  \union {[title |-> TRUE, ops |-> <<a, b, c>>] : a \in {Op("create_file", "b.py", {}, {}), Op("modify_file", "a.py", {"delete"}, {})},
            b \in {op \in SecondOps : op.target # ""}, c \in {Op("modify_file", "", {}, {"b.py"}), Op("modify_file", "b.py", {"keep"}, {"#1"})}}
MacroStep(type, target) == [type |-> type, target |-> target]
Macro(types, steps, expands) == [types |-> types, steps |-> steps, expands |-> expands]
Library ==
  {Macro(<<"create_file", "modify_file">>, <<MacroStep("create_file", "b.py"), MacroStep("write_file", "b.py")>>, TRUE),
   Macro(<<"create_file">>, <<MacroStep("create_file", "b.py")>>, TRUE), Macro(<<"run_command">>, <<>>, FALSE),
   Macro(<<"write_spec">>, <<MacroStep("read_file", "a.py"), MacroStep("create_file", "x")>>, TRUE)}
ActiveMacro(expands) ==
  [type \in {"modify_file"} |-> [steps |-> <<MacroStep("write_file", "b.py"), MacroStep("write_file", "own"), MacroStep("read_file", "x")>>,
                                 expands |-> expands]]
Inputs == INSTANCE Intake WITH
  Names <- {"a.py", "new.py"}, Existing <- {"a.py", "b.py", "spec_001.md"}, SpecNames <- <<"spec_001.md", "spec_002.md">>,
  Inside <- {<<"a", "a.py">>, <<"b.py", "b.py">>}, Macros <- Library, Actives <- {ActiveMacro(TRUE), ActiveMacro(FALSE)}, MaxRepairs <- 2, status <- eligibility

(* Drafts of two and three tasks with ids that clash, are empty or missing, and what the user may type instead. *)
Id(name, tail) == [name |-> name, tail |-> tail]
A == Id("a", <<>>)
B == Id("b", <<>>)
ADup == Id("a", <<2>>)                   \* the name a repair gives to a second a
NoId == Id("", <<>>)
Missing == Id("absent", <<>>)
Task(id, type, path, deps) == [id |-> id, type |-> type, path |-> path, depends_on |-> deps]
Draft(ts, title, doubts) == [readable |-> TRUE, supported |-> TRUE, title |-> title, tasks |-> ts, doubts |-> doubts]
Chain(x, y, z, dy, dz) == <<Task(x, "CREATE", "p", <<>>), Task(y, "generate_file", "q", dy), Task(z, "RUN", "p", dz)>>
Drafts ==
  {<<Draft(Chain(x, y, z, dy, dz), TRUE, <<>>)>> :
     x \in {A, Missing}, y \in {A, B, NoId}, z \in {ADup, A, B}, dy \in {<<>>, <<A>>, <<ADup>>}, dz \in {<<A>>, <<B, A>>, <<NoId, B>>}}
  \union {<<Draft(<<Task(A, type, "p", <<B>>), Task(B, "MODIFY", "q", deps)>>, title, doubts)>> :
     type \in {"MODIFY", "make_file", "unknown"}, deps \in {<<>>, <<A>>}, title \in BOOLEAN,
     doubts \in {<<>>, <<"warning">>, <<"blocking", "info", "blocking">>}}
Typed ==
  {[Draft(<<>>, TRUE, <<>>) EXCEPT !.readable = FALSE], Draft(<<>>, TRUE, <<>>), [Draft(<<Task(B, "RUN", "q", <<>>)>>, TRUE, <<>>) EXCEPT !.supported = FALSE],
   Draft(<<Task(B, "CREATE", "b", <<>>)>>, TRUE, <<>>),
   Draft(<<Task(A, "CREATE", "a", <<>>), Task(B, "CREATE", "b", <<>>), Task(ADup, "CREATE", "c", <<>>)>>, TRUE, <<>>)}
Compiler == INSTANCE DraftCompiler WITH
  Edits <- Typed, MaxEdits <- 1, MaxEditFiles <- 2, plan <- compiled, status <- report

(* Specs of two tasks from a menu. *)
Entry(type, path, command, long, block) == [type |-> type, path |-> path, command |-> command, long |-> long, block |-> block]
Menu == {Entry("CREATE", "plain", "none", FALSE, FALSE), Entry("CREATE", "critical", "none", FALSE, FALSE),
         Entry("MODIFY", "plain", "none", FALSE, FALSE), Entry("MODIFY", "plain", "none", FALSE, TRUE),
         Entry("MODIFY", "high", "none", FALSE, FALSE), Entry("DELETE", "plain", "none", FALSE, FALSE),
         Entry("RUN", "plain", "plain", FALSE, FALSE), Entry("RUN", "plain", "shell", FALSE, FALSE),
         Entry("RUN", "plain", "denied", FALSE, FALSE), Entry("RUN", "plain", "plain", TRUE, FALSE),
         Entry("VALIDATE", "plain", "none", FALSE, FALSE)}

(* Two golden runs, and what a run of two steps can leave. *)
Step(status, out, tries) == [status |-> status, out |-> out, tries |-> tries]
Run(status, steps, rollback) == [status |-> status, steps |-> steps, rollback |-> rollback]
Fine == Step("completed", "a", 1)
Broken == Step("failed", "none", 1)
ModelTraces ==
  {Run("completed", <<Fine, step>>, "none") : step \in {Fine, Step("completed", "b", 1), Step("completed", "a", 2)}}
  \union {Run("failed", <<Fine, Broken>>, rollback) : rollback \in {"clean", "partial"}}
  \union {Run("failed", <<Broken, Step("skipped", "none", 0)>>, "none")}
TwoGoldens == {"g1", "g2"}

(* Four plans, an analysis of three of them, and two versions of one macro. *)
Past(t, d) == [type |-> t, deps |-> d]
Recorded ==
  <<<<Past("validate_output", {}), Past("read_file", {}), Past("write_file", {2})>>,
    <<Past("read_file", {}), Past("write_file", {1}), Past("validate_output", {})>>,
    <<Past("run_command", {}), Past("read_file", {}), Past("write_file", {2})>>,
    <<Past("create_file", {}), Past("read_file", {1}), Past("write_file", {2})>>>>
Mid(v) == [name |-> "m", version |-> v]
Macros == INSTANCE MacroLibrary WITH Recorded <- Recorded, Window <- 3, Ids <- {Mid("v1"), Mid("v2")}, MaxProposals <- 2, MaxInterrupts <- 1

(* Plans as the planner builds them: an operation's steps in a chain, its first step after the last of every earlier one on its target. *)
Template(op) == CASE op.type = "create_file" -> <<"create_file", "verify_file_exists">>
                  [] op.type = "modify_file" -> <<"read_file", "write_file">>
                  [] OTHER -> <<"validate_output">>
Made(op, n, ops) ==
  [i \in DOMAIN Template(op) |->
     [id |-> <<n, i>>, type |-> Template(op)[i], target |-> op.target, words |-> op.words,
      deps |-> IF i > 1 THEN {<<n, i - 1>>}
               ELSE {<<m, Len(Template(ops[m]))>> : m \in {m \in 1..(n - 1) : ops[m].target = op.target \/ ops[m].target = op.after}}]]
PlanOf(ops) ==
  LET steps == FlattenSeq([n \in DOMAIN ops |-> Made(ops[n], n, ops)])
      all == {steps[i] : i \in DOMAIN steps}
  IN [steps |-> steps, roots |-> {s.id : s \in {s \in all : s.deps = {}}},
      terminals |-> {s.id : s \in all} \ UNION {s.deps : s \in all}]
Do(type, target, words, after) == [type |-> type, target |-> target, words |-> words, after |-> after]
Review(t) == Do("review_output", t, "w", "none")
First == {Do("create_file", "a", "w", "none"), Do("modify_file", "a", "w", "none"), Review("a"), Review("b")}
Second == {Do("create_file", "b", "w", "none"), Do("modify_file", "a", "w", "none"), Review("a"), Do("review_output", "a", "v", "none")}
Third == {Review("a"), Do("modify_file", "b", "w", "a"), Do("review_output", "b", "w", "a")}
Fourth == {Review("a"), Review("b")}
Free(id, type) == [id |-> <<9, id>>, type |-> type, target |-> "", words |-> "w", deps |-> {}]
Routed ==
  LET all == {<<9, i>> : i \in 1..3} IN
  [steps |-> <<Free(1, "write_file"), Free(2, "read_file"), Free(3, "write_file")>>, roots |-> all, terminals |-> all]
Saved ==
  {<<PlanOf(<<a, b, c, d>>)>> : a \in First, b \in Second, c \in Third, d \in Fourth}
  \union {<<Routed, PlanOf(<<Review("a"), Review("a"), Do("create_file", "b", "w", "a"), Review("b")>>)>>,
          <<PlanOf(<<Review("a"), Review("a"), Review("b")>>), PlanOf(<<Review("a"), Review("b"), Review("b")>>)>>}
Optimize == INSTANCE Optimizer WITH MaxVariants <- 1, MaxCalls <- 3

(* The memory of two folders with room for two files and one failure; a run that changed both files and failed two checks. *)
Ended == {[success |-> FALSE, modified |-> <<"a", "b">>, failed |-> <<"t", "u">>]}
Memory == INSTANCE SessionMemory WITH Folders <- {"p", "q"}, NoFolder <- "none", Home <- "p", Outcomes <- Ended, MaxPrimary <- 2, MaxFailures <- 1,
            MaxRecent <- 2, MaxEntries <- 2, MaxClicks <- 3, MaxRuns <- 2, MaxCrashes <- 1, MaxLookUps <- 1, path <- opened, runs <- ended, crashes <- exits

(* Specs in YAML of three tasks that wait for each other, of one task of every type, and with every kind of fault; sentences. *)
Entries(type) == {"id", "type"} \union TaskNeeds[type]
Item(id, type, deps) ==
  [has |-> Entries(type), id |-> id, type |-> type, inside |-> TRUE, fits |-> TRUE, aim |-> "line", listed |-> TRUE, deps |-> deps]
NoneInside == [section \in DOMAIN SectionKeys |-> {}]
Yaml(ts) ==
  [keys |-> {"spec_version", "spec_id", "tasks", "verification"}, misfits |-> {}, inner |-> NoneInside, wrong |-> {},
   checks |-> <<>>, tasks |-> ts, lines |-> <<>>]
Waits == {<<>>, <<"a">>, <<"b">>, <<"c">>, <<"c", "a">>, <<"b", "b">>}
Lists == {<<Item(ids[1], "create_file", d), Item(ids[2], "run_command", e), Item(ids[3], "update_file", f)>> :
            ids \in {<<"a", "b", "c">>, <<"c", "a", "b">>, <<"a", "a", "b">>, <<"a", "b", "a">>}, d, e, f \in Waits}
Good == Item("a", "insert_after", <<>>)
Files == Item("a", "update_file", <<>>)
Odd == {[Good EXCEPT !.aim = "bare"], [Good EXCEPT !.has = {"id", "type", "file", "target"}], [Good EXCEPT !.inside = FALSE], [Good EXCEPT !.listed = FALSE],
        [Files EXCEPT !.has = @ \union {"target"}], [Files EXCEPT !.has = @ \union {"target"}, !.aim = "bare"], [Files EXCEPT !.type = "unknown"],
        [Files EXCEPT !.id = ""], [Item("a", "ensure_class", <<>>) EXCEPT !.has = @ \union {"mode"}, !.fits = FALSE],
        [Files EXCEPT !.has = @ \union {"priority"}], [Good EXCEPT !.aim = "class"]}
Check(type, has, fits) == [type |-> type, has |-> has, fits |-> fits]
Faulty ==
  LET whole == Yaml(<<Good>>) IN
  {[whole EXCEPT !.keys = @ \union {"notes"}], [whole EXCEPT !.keys = @ \ {"spec_id"}], [whole EXCEPT !.misfits = {"verification"}],
   [whole EXCEPT !.misfits = {"metadata"}], [whole EXCEPT !.inner.verification = {"speed"}], [whole EXCEPT !.wrong = {"mode"}]}
  \union {[whole EXCEPT !.checks = <<check>>] : check \in {Check("file_exists", {"path"}, TRUE), Check("file_exists", {}, TRUE),
            Check("task_status", {"task_id", "expected"}, FALSE), Check("none", {}, TRUE)}}
Prose == {[Yaml(<<>>) EXCEPT !.keys = {}, !.lines = <<a, b>>] : a, b \in {{}, {1, 6}, {3, 10}, {7}, {5, 8}, {9}}}
ModelSources ==
  {Yaml(ts) : ts \in Lists} \union {Yaml(<<Item("a", type, <<>>)>>) : type \in DOMAIN TaskNeeds} \union {Yaml(<<t>>) : t \in Odd}
  \union {Yaml(<<t, Item("b", "validate", <<"a", "">>)>>) : t \in Odd} \union Faulty \union Prose

Suite == INSTANCE RegressionRunner WITH Cases <- 2, Fields <- {"final_status", "verification"}, Values <- {0, 1}, MaxSuites <- 1, folder <- folder_second
Console == INSTANCE OpsConsole WITH Runs <- {"r"}, Threads <- {"window", "worker"}, MaxChanges <- 1, MaxRebuilds <- 2, exits <- closings

\* The suite has a case, its values are none of its marks, the console's runs are finitely many, and the
\* plans the library looks at are in the order of their dependencies; a request is a sequence of intents.
ASSUME PartsConstants == Suite!SuiteConstants /\ Console!ConsoleConstants /\ Macros!LibraryConstants /\ Clarify!RequestConstants

-----------------------------------------------------------------------------
clarify == <<request, skeleton, issues, questions, answers, session_status>>
inputs == <<ir, eligibility, plan, files, repairs, named>>
compiler == <<text, compiled, submitted, fresh, phase, current, attempts, session, report, edits>>
library == <<saved, fragments, proposals, macros, contracts, active, todo, revised, halved>>
optimizer == <<plans, candidates, variants, adopted, marks, calls>>
memory == <<folder, current_session, session_file, at, opened, resetting, acts, ended, exits, recorded, raced>>
parser == parserVars
suites_run == <<baselines, suite, nth, updating, case_results, actual, folder_second, workspaces, stained>>
console == <<queue_state, run_states, pending, approvals_file, index, trends, summary, health, building, contested, evaluated, shown,
             complete, cut, disturbed, changes, rebuilds, closings>>
ops == <<run_dirs, suites_run, console>>
rest == <<optimizer, memory, parser, ops>>
pipeline == <<which, clarify, inputs, compiler, vars, releaseVars, library, rest>>

PipelineInit ==
  /\ which \in {"clarify", "inputs", "compiler", "gate", "shipping", "library", "optimizer", "memory", "parser", "suite", "console"}
  /\ which # "inputs" => files = {}
  /\ which # "compiler" => text = <<>>
  /\ which # "gate" => tasks = {}
  /\ IF which = "optimizer" THEN plans \in Saved ELSE plans = <<>>
  /\ Clarify!Init /\ ReleaseInit /\ Macros!Init /\ Optimize!Init /\ Memory!Init
  /\ IF which = "parser" THEN ParserInit ELSE source = <<>> /\ ParserRests
  /\ Suite!RunnerRests /\ Console!ConsoleIdle
  /\ IF which = "suite" THEN Suite!RunnerInit ELSE baselines = [n \in 1..2 |-> Suite!NotYet]
  /\ IF which = "console" THEN Console!OpsInit ELSE run_dirs = <<>>
  /\ IF which = "inputs" THEN Inputs!Init ELSE Inputs!Idle
  /\ IF which = "compiler" THEN Compiler!Init ELSE Compiler!Idle
  /\ IF which = "gate" THEN Init ELSE Idle

ClarifyNext == which = "clarify" /\ Clarify!Next /\ UNCHANGED <<which, inputs, compiler, vars, releaseVars, library, rest>>
InputsNext == which = "inputs" /\ Inputs!Next /\ UNCHANGED <<which, clarify, compiler, vars, releaseVars, library, rest>>
CompilerNext == which = "compiler" /\ Compiler!Next /\ UNCHANGED <<which, clarify, inputs, vars, releaseVars, library, rest>>
GateNext == which = "gate" /\ Next /\ UNCHANGED <<which, clarify, inputs, compiler, releaseVars, library, rest>>
ShippingNext == which = "shipping" /\ ReleaseNext /\ UNCHANGED <<which, clarify, inputs, compiler, vars, library, rest>>
LibraryNext == which = "library" /\ Macros!Next /\ UNCHANGED <<which, clarify, inputs, compiler, vars, releaseVars, rest>>
OptimizerNext == which = "optimizer" /\ Optimize!Next /\ UNCHANGED <<which, clarify, inputs, compiler, vars, releaseVars, library, memory, parser, ops>>
MemoryNext == which = "memory" /\ Memory!Next /\ UNCHANGED <<which, clarify, inputs, compiler, vars, releaseVars, library, optimizer, parser, ops>>
before == <<which, clarify, inputs, compiler, vars, releaseVars, library, optimizer, memory>>
ParserPart(step) == which = "parser" /\ step /\ UNCHANGED <<before, ops>>
SuiteNext == which = "suite" /\ Suite!RunnerNext /\ UNCHANGED <<before, parser, console>>
ConsoleNext == which = "console" /\ Console!OpsNext /\ UNCHANGED <<before, parser, suites_run>>

PipelineNext == ClarifyNext \/ InputsNext \/ CompilerNext \/ GateNext \/ ShippingNext \/ LibraryNext \/ OptimizerNext \/ MemoryNext
                \/ ParserPart(ParserNext) \/ SuiteNext \/ ConsoleNext

\* A compile is one call in the window's thread, a command one run of the program: neither stops half-way.
PipelineFairness ==
  WF_pipeline(\/ which = "compiler" /\ Compiler!Step /\ UNCHANGED <<which, clarify, inputs, vars, releaseVars, library, rest>>
              \/ which = "shipping" /\ Command /\ UNCHANGED <<which, clarify, inputs, compiler, vars, library, rest>>
              \/ ParserPart(ParserNext)
              \/ which = "library" /\ Macros!Write /\ UNCHANGED <<which, clarify, inputs, compiler, vars, releaseVars, rest>>)

PipelineSpec == PipelineInit /\ [][PipelineNext]_pipeline /\ PipelineFairness

-----------------------------------------------------------------------------
\* The variables of the part a behaviour is about have their types; the others keep their initial values.
PipelineTypeOK ==
  /\ which = "clarify" => Clarify!TypeOK
  /\ which = "inputs" => Inputs!TypeOK
  /\ which = "compiler" => Compiler!TypeOK
  /\ which = "gate" => TypeOK
  /\ which = "shipping" => ReleaseTypeOK
  /\ which = "library" => Macros!TypeOK
  /\ which = "optimizer" => Optimize!TypeOK
  /\ which = "memory" => Memory!TypeOK
  /\ which = "parser" => ParserTypeOK
  /\ which = "suite" => Suite!RunnerTypeOK
  /\ which = "console" => Console!OpsTypeOK

\* What is compiled is sound on every way there: a request with its doubts settled, a plan of operations in their
\* order and aimed where the user said, a plan of the draft with its tasks in the order of their dependencies, a spec's
\* tasks in that of theirs, a macro that was vetted, a variant that dropped no needed step.  What a session remembers for
\* them is of its own folder, bounded and, unless two saves meet, all on disk; and what is said of finished work can be
\* trusted: the verdict of a regression suite, the picture of the console.
PartsSound ==
  /\ Clarify!ClarificationSettles /\ Inputs!PlansOrdered /\ Inputs!HarshNamed /\ Compiler!PlanSound
  /\ Macros!LibrarySound /\ Optimize!VariantsSound /\ Memory!MemoryKept /\ PlanFollowsSpec /\ CycleIsReal
  /\ Suite!VerdictEarned /\ Console!ConsoleSound

\* Repairing a draft loses no task and no dependency of it, and a suite's run touches no directory but its own.
RepairKeeps == Compiler!RepairKeeps /\ Suite!SuiteSteps

\* A compile, a command, an update of the macro library and the reading of a spec come to an end.
UnderWay ==
  (which = "compiler" /\ Compiler!UnderWay) \/ (which = "shipping" /\ CommandUnderWay) \/ (which = "library" /\ Macros!UnderWay)
  \/ (which = "parser" /\ ParserUnderWay)
Ends == UnderWay ~> ~UnderWay
=============================================================================
