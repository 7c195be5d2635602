------------------------------ MODULE Workbench ------------------------------
(***************************************************************************)
(* The one-shot operations of Demo10's window (ui/main_window.py): a click *)
(* starts a daemon thread, the thread puts its answer into ui_queue, and a *)
(* timer of the GUI thread hands the answers to _handle_ui_message in the  *)
(* order they came.  Some operations are guarded by an *_active flag the   *)
(* answer clears, some by a disabled button, some by nothing.              *)
(*                                                                         *)
(* _handle_ui_message ends after "restore_done".  The branches for the     *)
(* other answers stand in invalidate_stale_runs, which nobody calls from   *)
(* outside: those answers are taken from the queue and dropped.  With      *)
(* them go the compiled input, the planning skeleton and every bundle, so  *)
(* the buttons that need one only log that they are blocked; they change   *)
(* no state and are left out.  The queue's own buttons are in SpecQueue.   *)
(***************************************************************************)
EXTENDS Naturals, Sequences, FiniteSets

CONSTANTS Folders, Slots, Snapshots,
          Unset,    \* None
          MaxActs   \* bound on the user's actions

ASSUME BenchConstants == Slots # {} /\ Unset \notin Folders \cup Snapshots \cup Slots /\ MaxActs \in Nat

VARIABLES
  folder, slot,        \* current_folder, selected_slot_index
  tree,                \* the project the tree pane shows
  index, selection,    \* run_state_service: [status, of]
  slot_selection,      \* the selection result of each slot
  active, disabled,    \* the *_active flags; the buttons left disabled
  pending,             \* what confirm_restore would do
  jobs, ui_queue,      \* running threads; their answers
  clicks, crossed      \* history: two tree loads were under way at once

panes == <<tree, index, selection, slot_selection>>
input == <<folder, slot>>
guards == <<active, disabled>>
benchVars == <<input, panes, guards, pending, jobs, ui_queue, clicks, crossed>>

Exclusive == {"index", "selection", "restore", "llm"}
ButtonOnly == {"decompose", "compile_input"}
Free == {"tree", "other"}   \* other: refresh_models and run_command

\* What a thread was given when it was started.
Job == [kind : Exclusive \cup ButtonOnly \cup Free, id : 1..MaxActs,   \* tells jobs alike apart
        of : Folders \cup Snapshots \cup {Unset}, slot : Slots]

Idle == [status |-> "idle", of |-> Unset]
NoRestore == [type |-> "none", snapshot |-> Unset]

BenchInit ==
  /\ folder = Unset /\ slot = CHOOSE s \in Slots : TRUE
  /\ tree = Unset /\ index = Idle /\ selection = Idle
  /\ slot_selection = [s \in Slots |-> [of |-> Unset, from |-> Unset]]
  /\ active = {} /\ disabled = {} /\ pending = NoRestore
  /\ jobs = {} /\ ui_queue = <<>>
  /\ clicks = 0 /\ crossed = FALSE

UserActs == clicks < MaxActs /\ clicks' = clicks + 1

InFlight(kind) == {j \in jobs : j.kind = kind} \cup
  {ui_queue[i].job : i \in {k \in DOMAIN ui_queue : ui_queue[k].job.kind = kind}}

\* A thread is told apart from those of its kind by the least number they leave free.
Numbers(kind) == {j.id : j \in InFlight(kind)}
Spawn(kind, of) ==
  \E i \in {n \in 1..MaxActs : n \notin Numbers(kind) /\ 1..(n - 1) \subseteq Numbers(kind)} :
    jobs' = jobs \cup {[kind |-> kind, id |-> i, of |-> of, slot |-> slot]}
---------------------------------------------------------------------------
(* The user. *)

TreeWhileLoading == Unset

LoadTree(f) ==
  /\ Spawn("tree", f) /\ tree' = TreeWhileLoading
  /\ crossed' = (crossed \/ InFlight("tree") # {})

\* open_folder, which loads the project's session and refreshes the tree.
OpenFolder ==
  /\ UserActs /\ \E f \in Folders : folder' = f /\ LoadTree(f)
  /\ UNCHANGED <<slot, index, selection, slot_selection, guards, pending, ui_queue>>

RefreshTree ==
  /\ UserActs /\ folder # Unset /\ LoadTree(folder)
  /\ UNCHANGED <<input, index, selection, slot_selection, guards, pending, ui_queue>>

SelectSlot ==
  /\ UserActs /\ \E s \in Slots \ {slot} : slot' = s
  /\ UNCHANGED <<folder, panes, guards, pending, jobs, ui_queue, crossed>>

\* refresh_models and run_command: any number at a time.
StartFree ==
  /\ UserActs /\ Spawn("other", Unset)
  /\ UNCHANGED <<input, panes, guards, pending, ui_queue, crossed>>

\* Mutant: the guard reads the button only, which a click in the same event
\* loop turn still finds enabled.
Bug_FlagClear(kind) == TRUE

FlagClear(kind) == kind \notin active

\* Mutant: the last result stays while the next one is under way.
Bug_Restarted(state, status) == [state EXCEPT !.status = status]

\* begin_index_build and begin_selection.
Restarted(state, status) == [status |-> status, of |-> Unset]

BuildIndex ==
  /\ UserActs /\ FlagClear("index") /\ folder # Unset
  /\ active' = active \cup {"index"}
  /\ index' = Restarted(index, "building")
  /\ Spawn("index", folder)
  /\ UNCHANGED <<input, tree, selection, slot_selection, disabled, pending, ui_queue, crossed>>

\* The thread gets the index there is now, and the slot selected now.
SelectFiles ==
  /\ UserActs /\ FlagClear("selection") /\ index.of # Unset
  /\ active' = active \cup {"selection"}
  /\ selection' = Restarted(selection, "selecting")
  /\ Spawn("selection", index.of)
  /\ UNCHANGED <<input, tree, index, slot_selection, disabled, pending, ui_queue, crossed>>

\* The stream's events are all dropped: one answer stands for them.
RunLlm ==
  /\ UserActs /\ FlagClear("llm")
  /\ active' = active \cup {"llm"} /\ Spawn("llm", Unset)
  /\ UNCHANGED <<input, panes, disabled, pending, ui_queue, crossed>>

\* decompose_request, also by way of translate_request, which never finds a
\* planning skeleton and does not look at the other button.
Decompose ==
  /\ UserActs /\ Spawn("decompose", Unset)
  /\ disabled' = disabled \cup {"decompose"}
  /\ UNCHANGED <<input, panes, active, pending, ui_queue, crossed>>

CompileInput ==
  /\ UserActs /\ "compile_input" \notin disabled /\ Spawn("compile_input", Unset)
  /\ disabled' = disabled \cup {"compile_input"}
  /\ UNCHANGED <<input, panes, active, pending, ui_queue, crossed>>

\* A double click on any snapshot, whatever project it is of.
PreviewSnapshotRestore ==
  /\ UserActs /\ folder # Unset
  /\ \E s \in Snapshots : pending' = [type |-> "snapshot", snapshot |-> s]
  /\ UNCHANGED <<input, panes, guards, jobs, ui_queue, crossed>>

ConfirmRestore ==
  /\ UserActs /\ FlagClear("restore") /\ folder # Unset /\ pending.type = "snapshot"
  /\ active' = active \cup {"restore"} /\ pending' = NoRestore
  /\ Spawn("restore", pending.snapshot)
  /\ UNCHANGED <<input, panes, disabled, ui_queue, crossed>>
---------------------------------------------------------------------------
(* The threads. *)

Answer(j, ok) ==
  /\ jobs' = jobs \ {j}
  /\ ui_queue' = Append(ui_queue, [job |-> j, ok |-> ok])

ThreadEnds ==
  /\ \E j \in jobs, ok \in BOOLEAN :
       /\ j.kind # "restore" /\ Answer(j, ok)
       /\ j.kind \notin {"tree", "index", "selection"} => ok   \* the others answer alike
  /\ UNCHANGED <<input, panes, guards, pending, clicks, crossed>>

\* The request is made in the thread: the target is the folder open by then.
\* Workspaces has the restore itself; a failed one may have got half way.
RestoreEnds ==
  /\ \E j \in jobs : j.kind = "restore" /\ Answer(j, TRUE)
  /\ UNCHANGED <<input, panes, guards, pending, clicks, crossed>>
---------------------------------------------------------------------------
(* _process_ui_queue: one message after the other. *)

Receive(kind) ==
  /\ ui_queue # <<>> /\ Head(ui_queue).job.kind = kind
  /\ ui_queue' = Tail(ui_queue)
  /\ UNCHANGED <<input, disabled, pending, jobs, clicks, crossed>>

\* tree_loaded is drawn whatever folder is open by now; tree_error is logged.
TreeAnswer ==
  /\ Receive("tree")
  /\ tree' = IF Head(ui_queue).ok THEN Head(ui_queue).job.of ELSE tree
  /\ UNCHANGED <<index, selection, slot_selection, active>>

\* Mutant: a failed build leaves the flag set.
Bug_Released(kind, ok) == IF ok THEN active \ {kind} ELSE active

Released(kind, ok) == active \ {kind}

IndexAnswer ==
  /\ Receive("index")
  /\ LET m == Head(ui_queue)
     IN  /\ active' = Released("index", m.ok)
         /\ index' = IF m.ok THEN [status |-> "completed", of |-> m.job.of]
                     ELSE [index EXCEPT !.status = "failed"]
  /\ UNCHANGED <<tree, selection, slot_selection>>

\* Mutant: the result goes to the slot selected when it arrives.
Bug_ResultSlot(job) == slot

ResultSlot(job) == job.slot

SelectionAnswer ==
  /\ Receive("selection")
  /\ LET m == Head(ui_queue)
     IN  /\ active' = Released("selection", m.ok)
         /\ selection' = IF m.ok THEN [status |-> "completed", of |-> m.job.of]
                         ELSE [selection EXCEPT !.status = "failed"]
         /\ slot_selection' =
              IF m.ok THEN [slot_selection EXCEPT
                              ![ResultSlot(m.job)] = [of |-> m.job.of, from |-> m.job.slot]]
              ELSE slot_selection
  /\ UNCHANGED <<tree, index>>

\* models_loaded and command_done, and their errors, only change what is shown.
FreeAnswer ==
  /\ Receive("other")
  /\ UNCHANGED <<panes, active>>

\* snapshot_restore_done, restore_failed, llm_*, planning_ready,
\* decompose_done, input_ir_ready, compile_input_done.
DroppedAnswer ==
  /\ \E kind \in {"restore", "llm"} \cup ButtonOnly : Receive(kind)
  /\ UNCHANGED <<panes, active>>

WindowUser ==
  \/ OpenFolder \/ RefreshTree \/ SelectSlot \/ StartFree \/ BuildIndex \/ SelectFiles
  \/ RunLlm \/ Decompose \/ CompileInput \/ PreviewSnapshotRestore \/ ConfirmRestore

Threads == ThreadEnds \/ RestoreEnds

HandleUiMessage == TreeAnswer \/ IndexAnswer \/ SelectionAnswer \/ FreeAnswer \/ DroppedAnswer

BenchNext == WindowUser \/ Threads \/ HandleUiMessage

\* The event loop turns and the threads get on; nobody has to click.
BenchFairness == WF_benchVars(HandleUiMessage) /\ WF_benchVars(Threads)

BenchSpec == BenchInit /\ [][BenchNext]_benchVars /\ BenchFairness
---------------------------------------------------------------------------
(* Properties. *)

State(of) == [status : {"idle", "building", "selecting", "completed", "failed"}, of : of \cup {Unset}]

\* Types, and what the status of an index or a selection says about its value.
BenchTypeOK ==
  /\ folder \in Folders \cup {Unset} /\ slot \in Slots /\ tree \in Folders \cup {Unset}
  /\ {index, selection} \subseteq State(Folders)
  /\ \A s \in {index, selection} : (s.of # Unset) = (s.status = "completed")
  /\ active \subseteq Exclusive /\ disabled \subseteq ButtonOnly
  /\ jobs \subseteq Job /\ \A i \in DOMAIN ui_queue : ui_queue[i].job \in Job

\* An operation with a flag has at most one thread or unread answer, and has
\* none when its flag is clear: nothing it started can land on the next one.
OneAtATime ==
  \A kind \in Exclusive :
    /\ Cardinality(InFlight(kind)) <= 1
    /\ InFlight(kind) # {} => kind \in active

\* The tree pane catches up with the open folder, or stays empty if the load
\* failed, unless two loads were under way at once: the older may answer last.
TreeShowsFolder == InFlight("tree") = {} /\ ~crossed => tree \in {folder, Unset}

\* A selection is filed with the slot it was started for, whatever slot and
\* index the user has gone on to.
SelectionKeepsSlot == \A s \in Slots : slot_selection[s].from \in {s, Unset}

\* In these three respects what the window shows is what its operations will act on: what is under way, the open
\* folder's tree, and the slot a selection was made for.
PanelsAgree == OneAtATime /\ TreeShowsFolder /\ SelectionKeepsSlot

\* An index build and a selection end, well or badly, and their buttons return.
Busy(kind) == kind \in active
=============================================================================
