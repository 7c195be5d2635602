----------------------------- MODULE DraftCompiler -----------------------------
(***************************************************************************)
(* From the draft in the window's editor to a compiled plan (Demo10):      *)
(* parse it, compile it, repair what can be repaired and compile again, at *)
(* most three times, then put the repaired draft back into its editor and  *)
(* the plan into the spec editor.  All of it runs in the window's thread.  *)
(* Both editors have other writers: keys, templates, and the queue's slot, *)
(* which keeps what was submitted to it.  A translation's answer and a     *)
(* request's IR are none: invalidate_stale_runs stands before the branches *)
(* of _handle_ui_message that would take them, so they never arrive.       *)
(***************************************************************************)
EXTENDS Naturals, Sequences, FiniteSets

CONSTANTS
  Drafts, Edits,      \* what the draft editor may hold at first, and what may be typed or put there instead
  MaxEdits,
  MaxEditFiles        \* PolicyConfig.max_edit_files

VARIABLES
  text,               \* draft_text
  plan,               \* spec_text: none, a note that the draft changed, other text, or a plan
  submitted,          \* spec_text of the selected slot
  fresh,              \* history: nothing but compile_draft has written to either editor since the plan was put there
  phase,              \* where compile_draft is
  current, attempts,  \* the repair loop's draft and number of attempts
  session,            \* its final_status
  status,             \* of the last compile report
  edits

vars == <<text, plan, submitted, fresh, phase, current, attempts, session, status, edits>>

MaxAttempts == 3
NoId == [name |-> "", tail |-> <<>>]
Absent == [name |-> "absent", tail |-> <<>>]
Set(seq) == {seq[i] : i \in DOMAIN seq}

\* _parse_translator_response: a task without an id gets a number, an empty id stays.
Parsed(d) ==
  [d EXCEPT !.tasks = [i \in DOMAIN d.tasks |->
     IF d.tasks[i].id = Absent THEN [d.tasks[i] EXCEPT !.id = [name |-> "task", tail |-> <<i>>]] ELSE d.tasks[i]]]

-----------------------------------------------------------------------------
(* What CompilerValidator finds.                                           *)

Missing(d, i) == d.tasks[i].id = NoId
Duplicate(d, i) == ~Missing(d, i) /\ \E j \in 1..(i - 1) : d.tasks[j].id = d.tasks[i].id
Ids(d) == {d.tasks[i].id : i \in DOMAIN d.tasks} \ {NoId}
Invalid(d, i) == Set(d.tasks[i].depends_on) \ Ids(d) # {}
KnownTypes == {"RUN", "CREATE", "MODIFY", "DELETE", "generate_file"}

Valid(d) ==
  /\ d.supported /\ d.title /\ "blocking" \notin Set(d.doubts)
  /\ \A i \in DOMAIN d.tasks :
       ~Missing(d, i) /\ ~Duplicate(d, i) /\ ~Invalid(d, i) /\ d.tasks[i].type \in KnownTypes

\* What a task becomes: of these types only generate_file has an entry in the table.
Lowered(task) == [task EXCEPT !.type = IF @ = "generate_file" THEN "GENERATE_FILE" ELSE "MODIFY"]

-----------------------------------------------------------------------------
(* DependencyGraphNormalizer: depth first, a task after what it depends on. *)

DepsOf(d, id) == LET i == CHOOSE i \in DOMAIN d.tasks : d.tasks[i].id = id IN d.tasks[i].depends_on

RECURSIVE Visit(_, _, _), VisitAll(_, _, _)
VisitAll(d, ids, walk) == IF ids = <<>> THEN walk ELSE VisitAll(d, Tail(ids), Visit(d, Head(ids), walk))
Visit(d, id, walk) ==
  CASE id \in walk.path       -> [walk EXCEPT !.cycle = TRUE]
    [] id \in Set(walk.order) -> walk
    [] OTHER ->
         LET below == VisitAll(d, DepsOf(d, id), [walk EXCEPT !.path = @ \union {id}])
         IN [below EXCEPT !.path = @ \ {id}, !.order = Append(@, id)]

Walk(d) == VisitAll(d, [i \in DOMAIN d.tasks |-> d.tasks[i].id], [path |-> {}, order |-> <<>>, cycle |-> FALSE])

\* Mutant: the order in which the draft names them.
Bug_Order(d) == [i \in DOMAIN d.tasks |-> d.tasks[i].id]

Order(d) == Walk(d).order

\* The policy for compiling: the number of files touched; creations are looked for under a type lowering never gives.
Touched(d) == Cardinality({Lowered(d.tasks[i]).path : i \in DOMAIN d.tasks})
Compiles(d) == Valid(d) /\ ~Walk(d).cycle /\ Touched(d) <= MaxEditFiles

-----------------------------------------------------------------------------
(* RepairStrategies.                                                       *)

NewId(d, i) ==
  IF Missing(d, i) THEN [name |-> "generated", tail |-> <<i>>]
  ELSE IF Duplicate(d, i) THEN [d.tasks[i].id EXCEPT !.tail = Append(@, i)]
  ELSE d.tasks[i].id

NewType(type) == IF type = "make_file" THEN "generate_file" ELSE type

\* Mutant: a task's dependencies are dropped together.
Bug_NewDeps(d, i) == IF Invalid(d, i) THEN <<>> ELSE d.tasks[i].depends_on

\* Only a task with an invalid dependency is looked at again, with the names the tasks have by then.
NewDeps(d, i) ==
  LET names == {NewId(d, j) : j \in DOMAIN d.tasks}
      IsName(id) == id \in names
  IN IF Invalid(d, i) THEN SelectSeq(d.tasks[i].depends_on, IsName) ELSE d.tasks[i].depends_on

\* What is wrong with the tasks, the title and the doubts; a cycle, the version or a policy leaves nothing to repair.
Repaired(d) ==
  IF Valid(d) THEN d
  ELSE [d EXCEPT !.title = TRUE,
                 !.doubts = [i \in DOMAIN @ |-> IF @[i] = "blocking" THEN "info" ELSE @[i]],
                 !.tasks = [i \in DOMAIN @ |-> [@[i] EXCEPT !.id = NewId(d, i), !.type = NewType(@),
                                                            !.depends_on = NewDeps(d, i)]]]

-----------------------------------------------------------------------------
NoPlan == [kind |-> "none", draft |-> <<>>, order |-> <<>>]
Changed == [NoPlan EXCEPT !.kind = "changed"]
Other == [NoPlan EXCEPT !.kind = "other"]

Idle ==
  /\ plan = NoPlan /\ submitted = NoPlan /\ fresh = FALSE
  /\ phase = "idle" /\ current = <<>> /\ attempts = 0 /\ session = "none" /\ status = "none" /\ edits = 0
Init == Idle /\ text \in Drafts

\* What the user does to the editors while no compile runs.
Writes == phase = "idle" /\ fresh' = FALSE /\ UNCHANGED <<phase, current, attempts, session, status>>

PutDraft == Writes /\ edits < MaxEdits /\ edits' = edits + 1 /\ (\E d \in Edits : text' = <<d>>) /\ UNCHANGED submitted

\* _on_draft_changed: a key in the draft editor; what the program itself puts there is not noticed.
EditDraft == PutDraft /\ plan' = Changed

\* A template's draft (apply_template_shortcut): the plan of the draft before stays.
SeedDraft == PutDraft /\ UNCHANGED plan

\* A key in the spec editor.
EditSpec == Writes /\ plan' = Other /\ UNCHANGED <<text, submitted, edits>>

\* The slot gets the spec editor's text and gives it back; another slot may be selected, or this one cleared.
SubmitSpec ==
  /\ phase = "idle" /\ submitted' \in {plan, Other}
  /\ UNCHANGED <<text, plan, fresh, phase, current, attempts, session, status, edits>>
LoadSlot == Writes /\ plan' = submitted /\ UNCHANGED <<text, submitted, edits>>

\* A text that yaml or the parser raises for is reported, and nothing changes.
Compile ==
  /\ phase = "idle" /\ text # <<>> /\ text[1].readable
  /\ phase' = "repair" /\ current' = <<Parsed(text[1])>> /\ attempts' = 0 /\ session' = "pending"
  /\ UNCHANGED <<text, plan, submitted, fresh, status, edits>>

\* Mutant: the loop ends where the draft is edited, without the compile that follows it.
Bug_Onward(outcome) == session' = outcome /\ phase' = "idle"

Onward(outcome) == session' = outcome /\ phase' = "final"

\* One round of run_repair_loop.
Round ==
  /\ phase = "repair"
  /\ LET d == current[1]
     IN \/ Compiles(d) /\ Onward("success") /\ UNCHANGED <<current, attempts>>
        \/ ~Compiles(d) /\ Repaired(d) = d /\ attempts' = attempts + 1 /\ Onward("failed") /\ UNCHANGED current
        \/ /\ ~Compiles(d) /\ Repaired(d) # d
           /\ current' = <<Repaired(d)>> /\ attempts' = attempts + 1
           /\ IF attempts + 1 = MaxAttempts THEN Onward("failed") ELSE UNCHANGED <<session, phase>>
  /\ UNCHANGED <<text, plan, submitted, fresh, status, edits>>

\* Mutant: the repaired draft is not put back.
Bug_Shown == text

\* The draft editor gets the repaired draft only when there were attempts.
Shown == IF attempts > 0 THEN current ELSE text

\* The compile after the loop, and what the window makes of it.
Final ==
  /\ phase = "final" /\ phase' = "idle"
  /\ text' = Shown
  /\ status' = IF Compiles(current[1]) THEN "success" ELSE "failed"
  /\ plan' = IF Compiles(current[1]) THEN [kind |-> "plan", draft |-> current, order |-> Order(current[1])] ELSE plan
  /\ fresh' = (fresh \/ Compiles(current[1]))
  /\ current' = <<>> /\ UNCHANGED <<submitted, attempts, session, edits>>

Step == Round \/ Final
Next == EditDraft \/ SeedDraft \/ EditSpec \/ SubmitSpec \/ LoadSlot \/ Compile \/ Step

Spec == Init /\ [][Next]_vars /\ WF_vars(Step)

-----------------------------------------------------------------------------
(* Properties.                                                             *)

TypeOK ==
  /\ phase \in {"idle", "repair", "final"} /\ (phase = "idle" <=> current = <<>>)
  /\ session \in {"none", "pending", "success", "failed"} /\ status \in {"none", "success", "failed"}
  /\ attempts <= MaxAttempts /\ fresh \in BOOLEAN /\ {plan.kind, submitted.kind} \subseteq {"none", "changed", "other", "plan"}

\* A plan runs every task of its draft once, after all it depends on, and no doubt that blocks is left in the draft
\* (dependency_graph.py, validator.py), wherever it is loaded from; and it is the plan of the draft the editor shows, as
\* long as nobody but compile_draft has written to either editor since.
PlanSound ==
  plan.kind = "plan" =>
    LET d == plan.draft[1]
        At(id) == CHOOSE n \in DOMAIN plan.order : plan.order[n] = id
    IN /\ fresh => plan.draft = text \/ (text # <<>> /\ plan.draft = <<Parsed(text[1])>>)
       /\ Len(plan.order) = Len(d.tasks) /\ Set(plan.order) = Ids(d)
       /\ \A i \in DOMAIN d.tasks : \A dep \in Set(d.tasks[i].depends_on) : At(dep) < At(d.tasks[i].id)
       /\ "blocking" \notin Set(d.doubts)

\* What a dependency leads to: the tasks of that name.
Leads(d, i) == UNION {{j \in DOMAIN d.tasks : d.tasks[j].id = dep} : dep \in Set(d.tasks[i].depends_on) \ {NoId}}

\* Names the repair itself could make, which the user has not used.
Plain(d) == \A i \in DOMAIN d.tasks : \A id \in {d.tasks[i].id} \union Set(d.tasks[i].depends_on) : id.tail = <<>>

\* A repaired draft is the user's: the same tasks in their places, and each still waits for what it waited for, the
\* first task of that name where there were several (repair_strategies.py, repair_controller.py).
RepairKeeps == [][
  phase = "final" /\ phase' = "idle" =>
    LET before == Parsed(text[1])
        after == current[1]
    IN /\ DOMAIN after.tasks = DOMAIN before.tasks
       /\ \A i \in DOMAIN after.tasks : after.tasks[i].path = before.tasks[i].path
       /\ Plain(text[1]) => \A i \in DOMAIN after.tasks :
            Leads(after, i) = {j \in Leads(before, i) : ~Duplicate(before, j)}]_vars

UnderWay == phase # "idle"
=============================================================================
