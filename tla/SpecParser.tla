------------------------------ MODULE SpecParser ------------------------------
(***************************************************************************)
(* From the text of a spec to the tasks the worker runs (Demo10): the keys *)
(* a spec in YAML must and may have, the order the planner gives its tasks *)
(* and the sentences of the older form.  A text is what yaml.safe_load and *)
(* the patterns find in it; an id that is no true value is "".             *)
(***************************************************************************)
EXTENDS Integers, Sequences, FiniteSets

CONSTANT
  Sources       \* texts: [keys, misfits, inner, wrong, checks, tasks, lines]

\* Strings are names here; a line is the set of the patterns found in it, by their places in Sentences.
ASSUME SourcesAreTexts == \A s \in Sources :
  /\ s.tasks \in Seq([has : SUBSET STRING, id : STRING, type : STRING, inside : BOOLEAN, fits : BOOLEAN, aim : STRING,
                      listed : BOOLEAN, deps : Seq(STRING)])
  /\ s.lines \in Seq(SUBSET (1..10))

VARIABLES
  source,       \* the text of the slot
  doing,        \* where SpecParserService.parse is
  in_degree, ready, execution_order,   \* build_task_graph's; ready counts the entries of its queue for each id
  parsed        \* the tasks it returns

parserVars == <<source, doing, in_degree, ready, execution_order, parsed>>

-----------------------------------------------------------------------------
(* What a spec must be.                                                    *)

RootKeys == {"spec_version", "spec_id", "metadata", "settings", "tasks", "verification", "execution", "promotion", "retention", "runtime"}
SectionKeys == [settings |-> {"fail_fast", "stop_on_error", "allow_legacy_fallback"},
          execution |-> {"mode", "source_policy"},
          promotion |-> {"enabled", "allow_on_status"},
          retention |-> {"keep_execution_workspace_on_failure", "keep_execution_workspace_on_success"},
          runtime |-> {"profile", "python_version", "env", "dependency_fingerprint", "command_policy", "drift_policy"},
          verification |-> {"mode", "checks", "regression"}]

\* The keys whose values are looked at; what the settings, the runtime and the retention say is taken as it comes.
JudgedKeys == {"mode", "source_policy", "allow_on_status", "checks", "regression"}

CheckNeeds == [file_exists |-> {"path"}, file_not_exists |-> {"path"}, line_count_range |-> {"path"},
               contains_text |-> {"path", "text"}, not_contains_text |-> {"path", "text"}, diff_contains |-> {"path", "text"},
               contains_regex |-> {"path", "pattern"}, import_exists |-> {"path", "import"},
               symbol_exists |-> {"path", "symbol_type", "symbol_name"}, symbol_not_exists |-> {"path", "symbol_type", "symbol_name"},
               command_exit_code |-> {"command"}, command_stdout_contains |-> {"command", "text"},
               json_value_equals |-> {"path", "json_path", "expected"}, task_status |-> {"task_id", "expected"}]

\* fits: its severity, and the type of a symbol, are known ones.
CheckValid(check) == check.type \in DOMAIN CheckNeeds /\ CheckNeeds[check.type] \subseteq check.has /\ check.fits

TaskKeys == {"id", "type", "depends_on", "file", "content", "mode", "import", "function_name", "class_name", "target", "command"}
TaskNeeds == [ensure_import |-> {"file", "import"},
              ensure_function |-> {"file", "function_name", "content"}, ensure_class |-> {"file", "class_name", "content"},
              replace_block |-> {"file", "target", "content"}, insert_before |-> {"file", "target", "content"},
              insert_after |-> {"file", "target", "content"}, delete_block |-> {"file", "target"},
              append_if_missing |-> {"file", "content"}, create_file |-> {"file", "content"},
              update_file |-> {"file"}, delete_file |-> {"file"}, run_command |-> {"command"}, validate |-> {}]

\* inside: its file stays in the workspace; fits: its mode is a known one; aim: its target's type, "bare" without type and value.
TaskValid(t) ==
  /\ t.has \subseteq TaskKeys /\ {"id", "type"} \subseteq t.has /\ t.type \in DOMAIN TaskNeeds
  /\ TaskNeeds[t.type] \subseteq t.has
  /\ "file" \in TaskNeeds[t.type] => t.inside
  /\ "target" \in TaskNeeds[t.type] => t.aim # "bare"
  /\ t.type \in {"ensure_function", "ensure_class"} /\ "mode" \in t.has => t.fits

IdsOf(ts) == {ts[i].id : i \in DOMAIN ts}

SpecValid(s) ==
  /\ {"spec_version", "spec_id", "tasks"} \subseteq s.keys /\ s.keys \subseteq RootKeys
  /\ s.misfits \intersect ({"spec_version", "tasks"} \union DOMAIN SectionKeys) = {}
  /\ \A section \in DOMAIN SectionKeys \intersect s.keys : s.inner[section] \subseteq SectionKeys[section]
  /\ s.wrong \intersect JudgedKeys = {}
  /\ \A n \in DOMAIN s.checks : CheckValid(s.checks[n])
  /\ \A i \in DOMAIN s.tasks : TaskValid(s.tasks[i])
  /\ \A i \in DOMAIN s.tasks :            \* looked at when there is no other error; nobody asks whether an id is given twice
       s.tasks[i].listed /\ \A k \in DOMAIN s.tasks[i].deps : s.tasks[i].deps[k] \in IdsOf(s.tasks) \ {""}

IsDsl(s) == {"spec_version", "tasks"} \subseteq s.keys

-----------------------------------------------------------------------------
(* The planner.                                                            *)

Ids == IdsOf(source.tasks)
Index(id) == CHOOSE i \in DOMAIN source.tasks : source.tasks[i].id = id /\ \A j \in DOMAIN source.tasks : source.tasks[j].id = id => i <= j
TaskMap(id) == source.tasks[CHOOSE i \in DOMAIN source.tasks : source.tasks[i].id = id /\ \A j \in DOMAIN source.tasks : source.tasks[j].id = id => j <= i]

\* The entries of the depends_on lists of the tasks with this id, by the task and the place in its list.
Named(ts, id) == {i \in DOMAIN ts : ts[i].id = id}
Bug_Needs(ts, id) == UNION {{i} \X (DOMAIN ts[i].deps \ {2}) : i \in Named(ts, id)}
Needs(ts, id) == UNION {{i} \X DOMAIN ts[i].deps : i \in Named(ts, id)}
NeedsOf(ts, id, dep) == {e \in Needs(ts, id) : ts[e[1]].deps[e[2]] = dep}

Parse ==
  /\ doing = "text" /\ UNCHANGED <<source, execution_order, parsed>>
  /\ IF ~IsDsl(source) THEN doing' = "sentences" /\ UNCHANGED <<in_degree, ready>>
     ELSE IF ~SpecValid(source) THEN doing' = "refused" /\ UNCHANGED <<in_degree, ready>>
     ELSE /\ doing' = "ordering"
          /\ in_degree' = [id \in Ids |-> Cardinality(Needs(source.tasks, id))]
          /\ ready' = [id \in Ids |-> IF in_degree'[id] = 0 THEN Cardinality(Named(source.tasks, id)) ELSE 0]

\* The queue is sorted by the place of the first task of an id.
Bug_Earlier(u, v) == Index(v) <= Index(u)
Earlier(u, v) == Index(u) <= Index(v)

\* One turn of the loop: of the ids that wait for nothing, the first; each entry that names
\* it is taken off, and an id is queued when its last one is.
Take ==
  /\ doing = "ordering"
  /\ \E u \in Ids :
       /\ ready[u] > 0 /\ \A v \in Ids : ready[v] > 0 => Earlier(u, v)
       /\ execution_order' = Append(execution_order, u)
       /\ in_degree' = [v \in Ids |-> in_degree[v] - Cardinality(NeedsOf(source.tasks, v, u))]
       /\ ready' = [v \in Ids |-> (IF v = u THEN ready[v] - 1 ELSE ready[v])
                                  + (IF in_degree[v] > 0 /\ in_degree'[v] <= 0 THEN 1 ELSE 0)]
  /\ UNCHANGED <<source, doing, parsed>>

-----------------------------------------------------------------------------
(* The tasks of the worker.                                                *)

Kind(t) == CASE t.type = "run_command" -> "RUN" [] t.type = "validate" -> "VALIDATE" [] t.type = "create_file" -> "CREATE"
             [] t.type = "delete_file" -> "DELETE" [] OTHER -> "MODIFY"
Operation(t) == IF t.type = "update_file" THEN "replace_block" ELSE t.type
Anchor(t) ==
  CASE t.type = "ensure_import" -> "import" [] t.type = "ensure_function" -> "function" [] t.type = "ensure_class" -> "class"
    [] OTHER -> IF "target" \notin t.has THEN "file_end"
                ELSE IF t.aim \in {"function", "class", "import", "region_marker"} THEN t.aim ELSE "line_match"
ToTask(t) == [id |-> t.id, type |-> Kind(t), edit |-> IF Kind(t) = "MODIFY" THEN <<Operation(t), Anchor(t)>> ELSE <<>>, deps |-> t.deps]

\* The target of a task that need not have one was never looked at: a bare one raises here.
Mappable(t) == Kind(t) = "MODIFY" /\ t.type \notin {"ensure_import", "ensure_function", "ensure_class"} /\ "target" \in t.has => t.aim # "bare"

Map ==
  /\ doing = "ordering" /\ \A id \in Ids : ready[id] = 0
  /\ IF Len(execution_order) # Len(source.tasks) THEN doing' = "cycle" /\ UNCHANGED parsed
     ELSE IF \E n \in DOMAIN execution_order : ~Mappable(TaskMap(execution_order[n])) THEN doing' = "refused" /\ UNCHANGED parsed
     ELSE doing' = "parsed" /\ parsed' = [n \in DOMAIN execution_order |-> ToTask(TaskMap(execution_order[n]))]
  /\ UNCHANGED <<source, in_degree, ready, execution_order>>

\* The patterns of the older form in the order they are tried; a line holds what several of them look for.
Sentence(type, edit) == [type |-> type, edit |-> edit]
Sentences ==
  <<Sentence("MODIFY", <<"replace_block", "function">>), Sentence("MODIFY", <<"ensure_import", "import">>),
    Sentence("MODIFY", <<"ensure_function", "function">>), Sentence("MODIFY", <<"insert_after", "class">>),
    Sentence("MODIFY", <<"delete_block", "function">>), Sentence("CREATE", <<>>), Sentence("MODIFY", <<>>),
    Sentence("DELETE", <<>>), Sentence("RUN", <<>>), Sentence("VALIDATE", <<>>)>>
Means(line) == Sentences[CHOOSE n \in line : \A k \in line : n <= k]

\* Each line is one task or nothing; the n-th task is task_n.
ParseLegacy ==
  /\ doing = "sentences" /\ doing' = "parsed"
  /\ LET Told(line) == line # {}
         told == SelectSeq(source.lines, Told)
     IN parsed' = [n \in DOMAIN told |-> [id |-> n, type |-> Means(told[n]).type, edit |-> Means(told[n]).edit, deps |-> <<>>]]
  /\ UNCHANGED <<source, in_degree, ready, execution_order>>

-----------------------------------------------------------------------------
ParserRests == doing = "text" /\ in_degree = <<>> /\ ready = <<>> /\ execution_order = <<>> /\ parsed = <<>>
ParserInit == source \in Sources /\ ParserRests

ParserNext == Parse \/ Take \/ Map \/ ParseLegacy
ParserSpec == ParserInit /\ [][ParserNext]_parserVars

ParserUnderWay == doing \in {"text", "ordering", "sentences"}

ParserTypeOK ==
  /\ source \in Sources /\ doing \in {"text", "ordering", "sentences", "parsed", "refused", "cycle"}
  /\ doing = "ordering" => in_degree \in [Ids -> Int] /\ ready \in [Ids -> Nat] /\ execution_order \in Seq(Ids)
  /\ parsed # <<>> => doing = "parsed"

Distinct(ts) == \A i, j \in DOMAIN ts : ts[i].id = ts[j].id => i = j

\* A spec in YAML that gives each of its tasks an id of its own is run as it reads: the tasks handed to the worker
\* (_parse_dsl) are the spec's, each once and for what its type says, none before one it depends on, and one goes
\* before another that was written earlier only when that one still waits for a task.
PlanFollowsSpec ==
  doing = "parsed" /\ IsDsl(source) /\ Distinct(source.tasks) =>
    /\ DOMAIN parsed = DOMAIN source.tasks
    /\ \A n \in DOMAIN parsed : \E i \in DOMAIN source.tasks : parsed[n] = ToTask(source.tasks[i])
    /\ \A n, m \in DOMAIN parsed : parsed[n].id = parsed[m].id => n = m
    /\ \A n \in DOMAIN parsed : \A k \in DOMAIN parsed[n].deps : \E m \in 1..(n - 1) : parsed[m].id = parsed[n].deps[k]
    /\ \A n, m \in DOMAIN parsed :
         n < m /\ Index(parsed[m].id) < Index(parsed[n].id) =>
           \E k \in DOMAIN parsed[m].deps : \A p \in 1..(n - 1) : parsed[p].id # parsed[m].deps[k]

\* A spec of distinct ids that is refused for a cycle (build_task_graph) has one: tasks that each wait for another of them.
CycleIsReal ==
  doing = "cycle" /\ Distinct(source.tasks) =>
    \E S \in SUBSET DOMAIN source.tasks :
      S # {} /\ \A i \in S : \E k \in DOMAIN source.tasks[i].deps, j \in S : source.tasks[j].id = source.tasks[i].deps[k]
=============================================================================
