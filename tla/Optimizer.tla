------------------------------- MODULE Optimizer -------------------------------
(***************************************************************************)
(* Demo10's plan optimizer, a command of optimization_cli.py at a time:    *)
(* steps that look redundant become candidates, a candidate applied to a   *)
(* plan gives a variant without that step, a verified variant is adopted.  *)
(***************************************************************************)
EXTENDS Naturals, Sequences, FiniteSets

CONSTANTS
  MaxVariants, MaxCalls     \* bounds: the variants made, the analyses and adoptions

VARIABLES
  plans,        \* the saved plans, newest first: [steps, roots, terminals]
  candidates,   \* candidates.json: a sequence of [type, step, status]
  variants,     \* variants.json: a sequence of [plan, made, result, status]
  adopted,      \* adopted_optimizations.json: the variants, in the order of their records
  marks,        \* the candidates the running adoption still has to mark
  calls

vars == <<plans, candidates, variants, adopted, marks, calls>>

\* A plan's steps are a sequence of [id, type, target, words, deps].
IdsOf(plan) == {plan.steps[i].id : i \in DOMAIN plan.steps}
StepOf(plan, id) == CHOOSE s \in {plan.steps[i] : i \in DOMAIN plan.steps} : s.id = id

-----------------------------------------------------------------------------
(* What looks redundant.                                                   *)

Mutating == {"write_file", "modify_file", "create_file"}

\* Mutant: a validation seen before is redundant whatever happened in between.
Bug_Duplicates(plan) ==
  LET s == plan.steps IN
  {[type |-> "duplicate_elimination", step |-> s[j].id] : j \in
     {j \in DOMAIN s : s[j].type = "validate_output"
        /\ \E i \in 1..(j - 1) : s[i].type = s[j].type /\ s[i].target = s[j].target /\ s[i].words = s[j].words}}

\* _find_duplicate_eliminations
Duplicates(plan) ==
  LET s == plan.steps IN
  {[type |-> "duplicate_elimination", step |-> s[j].id] : j \in
     {j \in DOMAIN s : s[j].type = "validate_output"
        /\ \E i \in 1..(j - 1) : /\ s[i].type = s[j].type /\ s[i].target = s[j].target /\ s[i].words = s[j].words
                                 /\ \A k \in (i + 1)..(j - 1) : ~(s[k].target = s[i].target /\ s[k].type \in Mutating)}}

\* Two steps of these types on one target, next to each other in the plan.
Adjacent(plan, first, second) ==
  {i \in 1..(Len(plan.steps) - 1) : /\ plan.steps[i].type = first /\ plan.steps[i + 1].type = second
                                    /\ plan.steps[i].target = plan.steps[i + 1].target}

\* _find_io_collapses: the read just after the write.
Collapses(plan) ==
  {[type |-> "io_collapse", step |-> plan.steps[i + 1].id] : i \in Adjacent(plan, "write_file", "read_file")}

\* _find_validation_collapses: the weaker check just before the stronger.
Weaker(plan) ==
  {[type |-> "validation_collapse", step |-> plan.steps[i].id] : i \in Adjacent(plan, "verify_file_exists", "validate_output")}

Found(plan) == Duplicates(plan) \union Collapses(plan) \union Weaker(plan)

\* _save_candidates: what is listed already, by its type and step and whatever plan it was of, stays as it is.
Listed(c) == \E i \in DOMAIN candidates : candidates[i].type = c.type /\ candidates[i].step = c.step
Merged(new) ==
  LET fresh == {c \in new : ~Listed(c)}
      order == CHOOSE f \in [1..Cardinality(fresh) -> fresh] : {f[i] : i \in DOMAIN f} = fresh
  IN candidates \o [i \in DOMAIN order |-> [type |-> order[i].type, step |-> order[i].step, status |-> "proposed"]]

-----------------------------------------------------------------------------
(* Taking a step out of a plan (_apply_optimization).                      *)

\* Mutant: the dependents only forget the step.
Bug_Relinked(s, gone) == [s EXCEPT !.deps = @ \ {gone.id}]

\* A dependent inherits what the removed step depended on.
Relinked(s, gone) == IF gone.id \in s.deps THEN [s EXCEPT !.deps = (@ \ {gone.id}) \union gone.deps] ELSE s

\* Mutant: the dependents of a removed root are not looked at.
Bug_NewRoots(plan, gone, kept) == plan.roots \ {gone.id}

NewRoots(plan, gone, kept) ==
  IF gone.id \notin plan.roots THEN plan.roots
  ELSE (plan.roots \ {gone.id}) \union {kept[i].id : i \in {i \in DOMAIN kept : kept[i].deps = {}
                                                     /\ gone.id \in StepOf(plan, kept[i].id).deps}}

\* The step itself still depends on its predecessors when they are looked at: none becomes terminal.
NewTerminals(plan, gone) == plan.terminals \ {gone.id}

Without(plan, id) ==
  IF id \notin IdsOf(plan) THEN plan
  ELSE LET gone == StepOf(plan, id)
           kept == [i \in DOMAIN plan.steps |-> Relinked(plan.steps[i], gone)]
           rest == SelectSeq(kept, LAMBDA s : s.id # id)
       IN [steps |-> rest, roots |-> NewRoots(plan, gone, rest), terminals |-> NewTerminals(plan, gone)]

\* The listed candidates among these, in the order of the file.
Optimized(plan, made) ==
  LET after[n \in 0..Len(candidates)] ==
        IF n = 0 THEN plan
        ELSE IF n \in made THEN Without(after[n - 1], candidates[n].step) ELSE after[n - 1]
  IN after[Len(candidates)]

Init == candidates = <<>> /\ variants = <<>> /\ adopted = <<>> /\ marks = {} /\ calls = 0

-----------------------------------------------------------------------------
(* The commands.                                                           *)

\* optimize-analyze
Analyze ==
  /\ marks = {} /\ calls < MaxCalls
  /\ candidates' = Merged(UNION {Found(plans[p]) : p \in DOMAIN plans})
  /\ calls' = calls + 1
  /\ UNCHANGED <<plans, variants, adopted, marks>>

\* optimize-materialize: any listed candidates, on any plan.
Materialize(made, p) ==
  /\ marks = {} /\ Len(variants) < MaxVariants
  /\ variants' = Append(variants, [plan |-> p, made |-> made, result |-> Optimized(plans[p], made), status |-> "pending"])
  /\ UNCHANGED <<plans, candidates, adopted, marks, calls>>

\* optimize-verify: the safety contract of a candidate is written with it and never changed, so it holds.
Verify(v) ==
  /\ marks = {}
  /\ variants' = [variants EXCEPT ![v].status = "passed"]
  /\ UNCHANGED <<plans, candidates, adopted, marks, calls>>

\* Mutant: a variant can be adopted as it was made.
Bug_MayAdopt(v) == TRUE

MayAdopt(v) == variants[v].status = "passed"

\* optimize-adopt writes the record ...
Adopt(v) ==
  /\ marks = {} /\ calls < MaxCalls /\ MayAdopt(v)
  /\ adopted' = Append(adopted, v)
  /\ marks' = variants[v].made
  /\ calls' = calls + 1
  /\ UNCHANGED <<plans, candidates, variants>>

\* ... and then the status of each candidate.
Mark(c) ==
  /\ c \in marks
  /\ candidates' = [candidates EXCEPT ![c].status = "adopted"]
  /\ marks' = marks \ {c}
  /\ UNCHANGED <<plans, variants, adopted, calls>>

\* The command is interrupted: the record stays, the candidates left are still proposed.
Interrupt == marks # {} /\ marks' = {} /\ UNCHANGED <<plans, candidates, variants, adopted, calls>>

Next ==
  \/ Analyze \/ Interrupt
  \/ \E made \in SUBSET DOMAIN candidates, p \in DOMAIN plans : made # {} /\ Materialize(made, p)
  \/ \E v \in DOMAIN variants : Verify(v) \/ Adopt(v)
  \/ \E c \in marks : Mark(c)

-----------------------------------------------------------------------------
TypeOK ==
  /\ \A i \in DOMAIN candidates : candidates[i].status \in {"proposed", "adopted"}
  /\ \A i, k \in DOMAIN candidates : i # k => candidates[i].step # candidates[k].step \/ candidates[i].type # candidates[k].type
  /\ \A v \in DOMAIN variants : variants[v].plan \in DOMAIN plans /\ variants[v].made \subseteq DOMAIN candidates
  /\ marks \subseteq DOMAIN candidates /\ calls \in 0..MaxCalls

(* What a variant keeps of its plan: a step waits for exactly the remaining *)
(* steps it waited for, directly or not; the roots are the steps that wait  *)
(* for nothing, and no terminal step has a dependent.                       *)
Ancestors(plan) ==
  LET s == plan.steps
      a[i \in DOMAIN s] == s[i].deps \union UNION {a[k] : k \in {k \in 1..(i - 1) : s[k].id \in s[i].deps}}
  IN a
OrderKept(plan, result) ==
  \A i \in DOMAIN plan.steps, k \in DOMAIN result.steps :
    plan.steps[i].id = result.steps[k].id => Ancestors(result)[k] = Ancestors(plan)[i] \intersect IdsOf(result)
EndsKept(result) ==
  /\ result.roots = {s.id : s \in {result.steps[i] : i \in {i \in DOMAIN result.steps : result.steps[i].deps = {}}}}
  /\ \A i \in DOMAIN result.steps : result.steps[i].deps \intersect result.terminals = {}

(* A check is only taken out of its own plan when a validation that stays   *)
(* looks at the same target, with nothing written to it in between.         *)
Own(v) == \A c \in variants[v].made : [type |-> candidates[c].type, step |-> candidates[c].step] \in Found(plans[variants[v].plan])
Gone(v, type) == {i \in DOMAIN plans[variants[v].plan].steps :
                    LET s == plans[variants[v].plan].steps[i] IN s.type = type /\ s.id \notin IdsOf(variants[v].result)}
Covered(v, i) ==
  LET s == plans[variants[v].plan].steps IN
  \E k \in DOMAIN s :
    /\ s[k].type = "validate_output" /\ s[k].target = s[i].target /\ s[k].id \in IdsOf(variants[v].result)
    /\ \A between \in (i + 1)..(k - 1) \union (k + 1)..(i - 1) : ~(s[between].target = s[i].target /\ s[between].type \in Mutating)
ChecksKept(v) == Own(v) => \A i \in Gone(v, "validate_output") \union Gone(v, "verify_file_exists") : Covered(v, i)

(* A candidate that says it is adopted is in a recorded variant that passed, *)
(* whenever the adoption was interrupted.                                    *)
AdoptionsRecorded ==
  /\ \A i \in DOMAIN adopted : variants[adopted[i]].status = "passed"
  /\ \A c \in DOMAIN candidates : candidates[c].status = "adopted" => \E i \in DOMAIN adopted : c \in variants[adopted[i]].made

\* A variant keeps the order, the ends and the checks of its plan, and adoptions are recorded.
VariantsSound ==
  /\ \A v \in DOMAIN variants :
       /\ OrderKept(plans[variants[v].plan], variants[v].result) /\ EndsKept(variants[v].result) /\ ChecksKept(v)
  /\ AdoptionsRecorded
=============================================================================
