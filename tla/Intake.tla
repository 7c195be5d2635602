--------------------------------- MODULE Intake ---------------------------------
(***************************************************************************)
(* From a request in plain words to a plan of steps (Demo10): the model    *)
(* splits it into operations, rules fill in targets from what the          *)
(* workspace holds at that moment, a validator decides whether it may go   *)
(* on, the user repairs what blocks, and the planner expands every         *)
(* operation by its type's active macro or template, or macros that cover  *)
(* them all, into ordered steps.                                           *)
(***************************************************************************)
EXTENDS Naturals, Sequences, FiniteSets

CONSTANTS
  Extracts,       \* what the model may make of a request: [title, ops], an op being [type, target, words, deps]
  Names,          \* targets the user may type in
  Existing,       \* files the workspace may hold at first, and get later
  SpecNames,      \* spec_001.md, spec_002.md, ...
  Inside,         \* pairs <<x, f>>: the text x occurs in the path f of a file
  Macros,         \* macros a rule may route to: [types, steps, expands], the types they cover and [type, target]
  Actives,        \* what the library may have active for types of operations: [type -> [steps, expands]]
  MaxRepairs

VARIABLES
  ir, status, plan, files, repairs,
  named           \* history: the operations whose target the model or the user gave

vars == <<ir, status, plan, files, repairs, named>>

None == ""
Auto == "title.py"                          \* the name rule 1 makes of the title
Root == "root"
Position == <<"#1", "#2", "#3">>            \* how a dependency names an operation by its place
FileOps == {"create_file", "modify_file", "write_spec"}
Harsh == {"delete", "remove"}
Highest(S) == CHOOSE n \in S : \A k \in S : k <= n

-----------------------------------------------------------------------------
(* The default rules, in the order 6, 3, 1, 5, 4; rule 2 does nothing      *)
(* while the active directory is always the root.                          *)

NextSpec(fs) == SpecNames[Highest({0} \union {n \in DOMAIN SpecNames : SpecNames[n] \in fs}) + 1]

Rule6(t) == IF t = "this project" THEN Root ELSE t
Rule3(op, t, fs) == IF op.type = "write_spec" /\ t \in {None, "next"} THEN NextSpec(fs) ELSE t
Rule1(op, t) == IF op.type = "create_file" /\ t = None THEN Auto ELSE t

\* Mutant: whatever the operation is told to do.
Bug_Rule5(op, t, recent) ==
  IF t = None /\ op.type \in {"modify_file", "analyze_codebase"} /\ Cardinality(recent) = 1
  THEN CHOOSE f \in recent : TRUE ELSE t

\* Only one recent file, and nothing destructive.
Rule5(op, t, recent) ==
  IF t = None /\ op.type \in {"modify_file", "analyze_codebase"} /\ Cardinality(recent) = 1 /\ op.words \intersect Harsh = {}
  THEN CHOOSE f \in recent : TRUE ELSE t

Rule4(t, fs) ==
  LET found == {f \in fs : <<t, f>> \in Inside}
  IN IF t # None /\ t \notin fs /\ Cardinality(found) = 1 THEN CHOOSE f \in found : TRUE ELSE t

Target(op, fs, recent) == Rule4(Rule5(op, Rule1(op, Rule3(op, Rule6(op.target), fs)), recent), fs)

Injected(spec, fs, recent) ==
  [spec EXCEPT !.ops = [i \in DOMAIN @ |-> [@[i] EXCEPT !.target = Target(spec.ops[i], fs, recent)]]]

-----------------------------------------------------------------------------
(* InputValidator.                                                         *)

NeedsTarget(op) == op.type \in FileOps /\ op.target = None

\* Compared with the operation before it on the same target, only.
Conflicts(ops, i) ==
  \E j \in 1..(i - 1) :
    /\ ops[i].target # None /\ ops[j].target = ops[i].target
    /\ \A k \in (j + 1)..(i - 1) : ops[k].target # ops[i].target
    /\ {"delete", "keep"} \subseteq ops[i].words \union ops[j].words

\* Mutant: an operation without a target is let through.
Bug_Errors(spec) ==
  {x \in {"title"} : ~spec.title} \union {x \in {"operations"} : spec.ops = <<>>}
  \union {x \in {"conflict"} : \E i \in DOMAIN spec.ops : Conflicts(spec.ops, i)}

Errors(spec) ==
  {x \in {"title"} : ~spec.title} \union {x \in {"operations"} : spec.ops = <<>>}
  \union {x \in {"target"} : \E i \in DOMAIN spec.ops : NeedsTarget(spec.ops[i])}
  \union {x \in {"conflict"} : \E i \in DOMAIN spec.ops : Conflicts(spec.ops, i)}

\* Defaults are a warning of this pass only: after a repair they are the operation's own targets.
Eligibility(before, spec) ==
  IF Errors(spec) # {} THEN "blocked"
  ELSE IF before # spec \/ \E i \in DOMAIN spec.ops : "vague" \in spec.ops[i].words THEN "compiled_with_warnings"
  ELSE "compiled_clean"

-----------------------------------------------------------------------------
(* The planner.                                                            *)

Writing == {"write_file", "modify_file", "create_file", "apply_modification"}

Template(type) ==
  CASE type = "create_file"      -> <<"validate_path", "create_file", "verify_file_exists">>
    [] type = "modify_file"      -> <<"read_file", "analyze_code", "apply_modification", "write_file", "verify_changes">>
    [] type = "write_spec"       -> <<"resolve_spec_number", "generate_spec_content", "create_file", "verify_file_exists">>
    [] type = "run_command"      -> <<"run_command">>
    [] type = "analyze_codebase" -> <<"analyze_code">>
    [] type = "review_output"    -> <<"validate_output">>
    [] OTHER                     -> <<>>           \* search_code has no template

Own == "own"                                \* a macro's step without a target of its own, or with the input's

\* A macro expands if the inputs it requires are there and it holds no other macro; else the template serves.
ByMacro(op, active) == op.type \in DOMAIN active /\ active[op.type].expands
StepsOf(op, active) ==
  IF ByMacro(op, active)
  THEN [n \in DOMAIN active[op.type].steps |->
          [active[op.type].steps[n] EXCEPT !.target = IF @ = Own THEN op.target ELSE @]]
  ELSE [n \in DOMAIN Template(op.type) |-> [type |-> Template(op.type)[n], target |-> op.target]]

\* _expand_operation: step <<i, n>> of operation i.
Expanded(ops, active) ==
  UNION {LET steps == StepsOf(ops[i], active)
         IN {[op |-> i, n |-> n, type |-> steps[n].type, target |-> steps[n].target] : n \in DOMAIN steps} : i \in DOMAIN ops}

First(steps, i) == {s \in steps : s.op = i /\ s.n = 1}
Last(steps, i) == {s \in steps : s.op = i /\ \A t \in steps : t.op = i => t.n <= s.n}

\* The references of the last operation are the only ones looked up; the others' are lost.
Refers(ops, i, j) == i = Len(ops) /\ j < i /\ {ops[j].target, Position[j]} \intersect ops[i].deps # {}

\* Mutant: operations on one file are not put in order.
Bug_Dependencies(ops, steps) ==
  {p \in steps \X steps : p[1].op = p[2].op /\ p[1].n = p[2].n + 1}
  \union UNION {UNION {First(steps, i) \X Last(steps, j) : j \in {k \in DOMAIN ops : Refers(ops, i, k)}} : i \in DOMAIN ops}

\* The file an operation is said to be on: that of its last step with a target.
FileOf(steps, i) ==
  LET aimed == {s \in steps : s.op = i /\ s.target # None}
  IN IF aimed = {} THEN None ELSE (CHOOSE s \in aimed : \A t \in aimed : t.n <= s.n).target

\* DependencyResolver: pairs <<step, step it depends on>>.
Dependencies(ops, steps) ==
  LET Same(i) == {j \in 1..(i - 1) : FileOf(steps, i) # None /\ FileOf(steps, j) = FileOf(steps, i)}
      Before(i) == {k \in DOMAIN ops : Refers(ops, i, k)} \union Same(i)
  IN {p \in steps \X steps : p[1].op = p[2].op /\ p[1].n = p[2].n + 1}
     \union UNION {UNION {First(steps, i) \X Last(steps, j) : j \in Before(i)} : i \in DOMAIN ops}

RECURSIVE Closure(_, _)
Closure(deps, S) ==
  LET more == S \union {p[2] : p \in {q \in deps : q[1] \in S}}
  IN IF more = S THEN S ELSE Closure(deps, more)

Below(deps, s) == Closure(deps, {p[2] : p \in {q \in deps : q[1] = s}})

Unordered(steps, deps) ==
  \E s, t \in steps : s # t /\ s.target = t.target /\ s.target # None /\ {s.type, t.type} \subseteq Writing
                      /\ s \notin Below(deps, t) /\ t \notin Below(deps, s)

Cyclic(steps, deps) == \E s \in steps : s \in Below(deps, s)

\* Routed to macros, the steps belong to no operation and wait for nothing.
MacroSteps(ms) ==
  UNION {{[op |-> 0, n |-> 10 * k + n, type |-> ms[k].steps[n].type, target |-> ms[k].steps[n].target] :
            n \in DOMAIN ms[k].steps} : k \in DOMAIN ms}

Count(ops, type) == Cardinality({i \in DOMAIN ops : ops[i].type = type})
CountIn(ms, type) == Cardinality({p \in (DOMAIN ms) \X (1..3) : p[2] \in DOMAIN ms[p[1]].types /\ ms[p[1]].types[p[2]] = type})
Types == FileOps \union {"run_command", "analyze_codebase", "review_output", "search_code"}

\* One macro that covers exactly the operations, or two of different outputs that do together.
Covers(ops, ms) == \A type \in Types : Count(ops, type) = CountIn(ms, type)
Targets(m) == {m.steps[n].target : n \in DOMAIN m.steps}
Routes(ops) ==
  {ms \in {<<m>> : m \in Macros} : Covers(ops, ms)}
  \union {ms \in {<<m, n>> : m, n \in Macros} : ms[1] # ms[2] /\ Targets(ms[1]) \intersect Targets(ms[2]) = {} /\ Covers(ops, ms)}

Plan(steps, deps, expanded) ==
  [steps |-> steps, deps |-> deps, macros |-> expanded,
   status |-> IF Cyclic(steps, deps) \/ Unordered(steps, deps) THEN "invalid" ELSE "ready"]

-----------------------------------------------------------------------------
NoSpec == [title |-> TRUE, ops |-> <<>>]
NoPlan == [steps |-> {}, deps |-> {}, macros |-> {}, status |-> "none"]

Idle == ir = NoSpec /\ status = "none" /\ plan = NoPlan /\ repairs = 0 /\ named = {}
Init == Idle /\ files \in SUBSET Existing

\* The session's working set may name one file, or none that counts.
Recent == {{}} \union {{f} : f \in files}

\* Another program, or a run, puts a file into the workspace.
FileAppears ==
  /\ status # "none" /\ \E f \in Existing \ files : files' = files \union {f}
  /\ UNCHANGED <<ir, status, plan, repairs, named>>

Validated(spec) ==
  \E recent \in Recent :
    /\ ir' = Injected(spec, files, recent)
    /\ status' = Eligibility(spec, ir')
    /\ plan' = NoPlan /\ UNCHANGED files

\* compile; an answer that does not parse, or anything that raises, is a blocked one without operations.
Compile ==
  /\ status = "none"
  /\ \E spec \in Extracts \union {[title |-> FALSE, ops |-> <<>>]} :
       Validated(spec) /\ named' = {i \in DOMAIN spec.ops : spec.ops[i].target # None}
  /\ UNCHANGED repairs

\* apply_input_repair of what is offered for the issues, then revalidate with a new look at the workspace.
SetTarget == \E i \in DOMAIN ir.ops, name \in Names :
  NeedsTarget(ir.ops[i]) /\ Validated([ir EXCEPT !.ops[i].target = name]) /\ named' = named \union {i}
AddOperation == \E type \in {"modify_file", "analyze_codebase", "review_output", "create_file"} :
  ir.ops = <<>> /\ Validated([ir EXCEPT !.ops = <<[type |-> type, target |-> None, words |-> {}, deps |-> {}]>>]) /\ UNCHANGED named
RemoveConflict == "conflict" \in Errors(ir) /\ Validated(ir) /\ UNCHANGED named    \* names no operation, and removes none
Repair ==
  /\ status = "blocked" /\ repairs < MaxRepairs /\ repairs' = repairs + 1
  /\ SetTarget \/ AddOperation \/ RemoveConflict

\* materialize_plan takes the operations as they are, blocked or not; without any it raises.  A route whose macros do
\* not all expand is no route: the operations are expanded one by one.
Expand(ms) == \A k \in DOMAIN ms : ms[k].expands
Materialize ==
  /\ ir.ops # <<>> /\ plan = NoPlan
  /\ \/ \E ms \in Routes(ir.ops) : Expand(ms) /\ plan' = Plan(MacroSteps(ms), {}, {0})
     \/ /\ Routes(ir.ops) = {} \/ \E ms \in Routes(ir.ops) : ~Expand(ms)
        /\ \E active \in Actives :
             plan' = LET steps == Expanded(ir.ops, active)
                     IN Plan(steps, Dependencies(ir.ops, steps), {i \in DOMAIN ir.ops : ByMacro(ir.ops[i], active)})
  /\ UNCHANGED <<ir, status, files, repairs, named>>

Next == FileAppears \/ Compile \/ Repair \/ Materialize
Spec == Init /\ [][Next]_vars

-----------------------------------------------------------------------------
(* Properties.                                                             *)

TypeOK ==
  /\ status \in {"none", "blocked", "compiled_with_warnings", "compiled_clean"}
  /\ plan.status \in {"none", "ready", "invalid"} /\ (status = "none" => plan = NoPlan)

\* What is let through names a file for every operation on one that its template expands, and a plan made of templates
\* is ready whatever the operations are: it has no cycle, everything it writes to one file it writes in the order of the
\* operations, and the steps of an operation follow each other (validator.py, dependency_resolver.py, plan_validator.py).
\* One with an operation expanded by a macro, which may write to other files than the operation's, is ready only when
\* that is so too; one routed to macros, whose steps are not ordered, only when no two of them write to one file.
PlansOrdered ==
  /\ status \in {"compiled_clean", "compiled_with_warnings"} =>
       \A s \in plan.steps : s.op \notin plan.macros /\ s.type \in Writing => s.target # None
  /\ plan.status # "none" /\ plan.macros = {} => plan.status = "ready"
  /\ plan.status = "ready" => \A s, t \in plan.steps :
       /\ s \notin Below(plan.deps, s)
       /\ s # t /\ s.op = t.op /\ s.op # 0 /\ s.n < t.n => s \in Below(plan.deps, t)
       /\ s # t /\ {s.type, t.type} \subseteq Writing /\ s.target = t.target /\ s.target # None =>
            \/ s.op <= t.op /\ s \in Below(plan.deps, t)
            \/ t.op <= s.op /\ t \in Below(plan.deps, s)

\* An instruction that destroys is aimed only where the model or the user said: the rules may complete the name, but
\* find no target of their own for it, in however many passes (default_rules.py 85-88).
HarshNamed ==
  \A i \in DOMAIN ir.ops :
    ir.ops[i].words \intersect Harsh # {} /\ ir.ops[i].type \in {"modify_file", "analyze_codebase"} /\ ir.ops[i].target # None => i \in named
=============================================================================
