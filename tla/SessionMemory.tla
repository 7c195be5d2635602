----------------------------- MODULE SessionMemory -----------------------------
(***************************************************************************)
(* Demo10's memory of a project (services/session_memory): what was        *)
(* compiled and run in a folder, and the files that were touched last.     *)
(* Opening a folder loads its session from the folder's file; compiling,   *)
(* clearing and resetting change it in the GUI thread, the end of a run    *)
(* does so in the queue's worker.  Every change is followed by a save of   *)
(* the current session, which reads current_session once for the file's    *)
(* name and once more for what it writes; the other thread may come        *)
(* between.                                                                *)
(*                                                                         *)
(* The compiler of requests keeps a manager of its own on the same files   *)
(* (input_compiler/compiler.py): its thread looks up the session of Home,  *)
(* the program's directory, and puts a blank one in its place when what it *)
(* finds cannot be read.  The button that starts it stays disabled after   *)
(* the first request: compile_input_done is never handled.                 *)
(*                                                                         *)
(* No translation or restore is ever recorded (_handle_ui_message stops    *)
(* before those branches), so drafts, templates, restores, symbols and the *)
(* confidence keep their first values and are left out.                    *)
(***************************************************************************)
EXTENDS Naturals, Sequences
LOCAL INSTANCE SequencesExt

CONSTANTS Folders, NoFolder,
          Home,           \* Path.cwd(), which may be opened as any other folder
          Outcomes,       \* how a run may end: [success, modified, failed]
          MaxPrimary, MaxFailures, MaxRecent, MaxEntries,
          MaxClicks, MaxRuns, MaxCrashes, MaxLookUps   \* bounds: clicks, runs, crashes, starts with a look-up

VARIABLES
  folder,              \* current_folder
  current_session,     \* the session in memory
  session_file,        \* what each folder's file holds
  at, path, resetting, \* where each thread is, the file it has open; the save is reset_session's
  acts, runs, crashes,
  recorded, raced      \* history: the events of each folder; loads and saves have met or were cut short

mvars == <<folder, current_session, session_file>>
hvars == <<recorded, raced>>
vars == <<mvars, at, path, resetting, acts, runs, crashes, hvars>>

Threads == {"gui", "worker", "intake"}
Resting == {"idle", "done"}    \* nothing under way; a look-up is over until the next start
Rests(t) == at[t] \in Resting

Take(list, n) == SubSeq(list, 1, IF n < Len(list) THEN n ELSE Len(list))

NewSession(f) ==
  [root |-> f, status |-> "active", primary |-> <<>>, failures |-> <<>>, sources |-> <<>>,
   entries |-> <<>>, plans |-> <<>>, run_ids |-> <<>>, focus |-> [files |-> <<>>, last |-> "none"]]

\* What stands for no session, in memory and in a file.
No(why) == [NewSession(NoFolder) EXCEPT !.status = why]
Is(session) == session.root # NoFolder

Init ==
  /\ folder = NoFolder /\ current_session = No("none") /\ session_file = [f \in Folders |-> No("absent")]
  /\ at = [t \in Threads |-> "idle"] /\ path = [t \in Threads |-> NoFolder] /\ resetting = FALSE
  /\ acts = 0 /\ runs = 0 /\ crashes = 0 /\ recorded = [f \in Folders |-> <<>>] /\ raced = FALSE

-----------------------------------------------------------------------------
(* The working set and the entries. *)

\* Mutant: a file that is used again is put in front once more.
Bug_ToFront(list, file) == <<file>> \o list

ToFront(list, file) == <<file>> \o RemoveFirst(list, file)

\* update_primary_files and update_failure_files: the last of files comes first.
Updated(list, files, most) == Take(FoldLeft(ToFront, list, files), most)

Newest(entries) == SubSeq(entries, IF Len(entries) > MaxEntries THEN Len(entries) - MaxEntries + 1 ELSE 1, Len(entries))

Remembered(session, kind) ==
  [session EXCEPT !.entries = Newest(Append(@, kind)), !.focus = [files |-> Take(session.primary, 3), last |-> kind]]

CompileEvent(session, plan, success) ==
  Remembered([session EXCEPT !.plans = IF success THEN Take(<<plan>> \o @, MaxRecent) ELSE @],
             IF success THEN "compile_success" ELSE "compile_failure")

ExecutionEvent(session, run, end) ==
  Remembered([session EXCEPT !.run_ids = Take(<<run>> \o @, MaxRecent),
                             !.primary = Updated(@, end.modified, MaxPrimary),
                             !.sources = IF end.modified # <<>> THEN Take(<<run>> \o @, MaxRecent) ELSE @,
                             !.failures = Updated(@, end.failed, MaxFailures)],
             IF end.success THEN "run_success" ELSE "run_failure")

\* WorkingSetManager.clear, which leaves the summary of the focus as it is.
Cleared(session) == [session EXCEPT !.primary = <<>>, !.failures = <<>>, !.sources = <<>>]

-----------------------------------------------------------------------------
(* One step of a thread, and what the others were doing then. *)

Moves(t, stage) ==
  /\ at' = [at EXCEPT ![t] = stage]
  /\ raced' = (raced \/ (stage \notin Resting /\ \E u \in Threads \ {t} : ~Rests(u)))

Becomes(session) == current_session' = session

\* The event just recorded in the current session.
Noted == recorded' = [recorded EXCEPT ![current_session.root] = Append(@, current_session'.focus.last)]

-----------------------------------------------------------------------------
(* The GUI thread. *)

Click == acts < MaxClicks /\ acts' = acts + 1 /\ at["gui"] = "idle"

OpenFolder ==
  /\ Click /\ \E f \in Folders : folder' = f
  /\ Moves("gui", "load")
  /\ UNCHANGED <<current_session, session_file, path, resetting, runs, crashes, recorded>>

\* load_or_create_session: what the file holds is current before its root is looked at.
Load ==
  /\ at["gui"] = "load"
  /\ IF Is(session_file[folder])
       THEN Becomes(session_file[folder]) /\ Moves("gui", "check")
       ELSE Becomes(NewSession(folder)) /\ Moves("gui", "save")
  /\ UNCHANGED <<folder, session_file, path, resetting, acts, runs, crashes, recorded>>

\* Mutant: a session is taken as it is found.
Bug_IsOf(session, f) == TRUE

IsOf(session, f) == session.root = f

Check ==
  /\ at["gui"] = "check"
  /\ IF IsOf(current_session, folder)
       THEN Moves("gui", "idle") /\ UNCHANGED current_session
       ELSE Becomes(NewSession(folder)) /\ Moves("gui", "save")
  /\ UNCHANGED <<folder, session_file, path, resetting, acts, runs, crashes, recorded>>

CompileDraft ==
  /\ Click /\ Is(current_session) /\ Moves("gui", "save")
  /\ \E success \in BOOLEAN :
       Becomes(CompileEvent(current_session, acts, success))
  /\ Noted
  /\ UNCHANGED <<folder, session_file, path, resetting, runs, crashes>>

\* Mutant: the cleared set is not saved.
Bug_AfterClear == "idle"

AfterClear == "save"

ClearWorkingSet ==
  /\ Click /\ Is(current_session) /\ Moves("gui", AfterClear)
  /\ Becomes(Cleared(current_session))
  /\ UNCHANGED <<folder, session_file, path, resetting, runs, crashes, recorded>>

\* reset_session saves the session as inactive, and loads it again.
ResetSession ==
  /\ Click /\ folder # NoFolder /\ Moves("gui", "save")
  /\ Becomes([current_session EXCEPT !.status = "inactive"]) /\ resetting' = TRUE
  /\ UNCHANGED <<folder, session_file, path, runs, crashes, recorded>>

-----------------------------------------------------------------------------
(* The queue's worker, when a run has ended. *)

RunEnds ==
  /\ at["worker"] = "idle" /\ runs < MaxRuns /\ runs' = runs + 1
  /\ Is(current_session) /\ Moves("worker", "save")
  /\ \E end \in Outcomes :
       Becomes(ExecutionEvent(current_session, runs, end))
  /\ Noted
  /\ UNCHANGED <<folder, session_file, path, resetting, acts, crashes>>

-----------------------------------------------------------------------------
(* The request compiler's thread (ContextResolver.capture_snapshot). *)

LookUp ==
  /\ at["intake"] = "idle" /\ crashes < MaxLookUps
  /\ Moves("intake", IF Is(session_file[Home]) /\ IsOf(session_file[Home], Home) THEN "done" ELSE "save")
  /\ UNCHANGED <<mvars, path, resetting, acts, runs, crashes, recorded>>

-----------------------------------------------------------------------------
(* save_session, in any thread. *)

\* The current session of the thread's manager.
Mine(t) == IF t = "intake" THEN NewSession(Home) ELSE current_session

\* The file of the session that is current now is opened, and is empty from then on.
OpenFile(t) ==
  /\ at[t] = "save" /\ Moves(t, "dump")
  /\ path' = [path EXCEPT ![t] = Mine(t).root]
  /\ session_file' = [session_file EXCEPT ![path'[t]] = No("empty")]
  /\ UNCHANGED <<folder, current_session, resetting, acts, runs, crashes, recorded>>

\* The session that is current by now is written there; what two writers have written is a mixture or the last one's.
Dump(t) ==
  /\ at[t] = "dump"
  /\ \E content \in {Mine(t), No("torn")} :
       /\ content = No("torn") => \/ session_file[path[t]] # No("empty")
                                  \/ \E u \in Threads \ {t} : at[u] = "dump" /\ path[u] = path[t]
       /\ session_file' = [session_file EXCEPT ![path[t]] = content]
  /\ path' = [path EXCEPT ![t] = NoFolder]
  /\ Moves(t, CASE t = "gui" /\ resetting -> "load" [] t = "intake" -> "done" [] OTHER -> "idle")
  /\ resetting' = (resetting /\ t # "gui")
  /\ UNCHANGED <<folder, current_session, acts, runs, crashes, recorded>>

\* The program ends, at any point of a save, and is started again.
Crash ==
  /\ crashes < MaxCrashes /\ crashes' = crashes + 1
  /\ \E content \in {No("empty"), No("torn")} :
       session_file' = [f \in Folders |-> IF \E t \in Threads : at[t] = "dump" /\ path[t] = f THEN content ELSE session_file[f]]
  /\ folder' = NoFolder /\ current_session' = No("none")
  /\ at' = [t \in Threads |-> "idle"] /\ path' = [t \in Threads |-> NoFolder] /\ resetting' = FALSE
  /\ raced' = (raced \/ \E t \in Threads : ~Rests(t))
  /\ UNCHANGED <<acts, runs, recorded>>

Next ==
  \/ OpenFolder \/ Load \/ Check \/ CompileDraft \/ ClearWorkingSet \/ ResetSession
  \/ RunEnds \/ LookUp \/ (\E t \in Threads : OpenFile(t) \/ Dump(t)) \/ Crash

Spec == Init /\ [][Next]_vars

-----------------------------------------------------------------------------
TypeOK ==
  /\ folder \in Folders \union {NoFolder} /\ current_session.root \in Folders \union {NoFolder}
  /\ current_session.status \in {"none", "active", "inactive"}
  /\ \A f \in Folders : Is(session_file[f]) \/ session_file[f] \in {No(why) : why \in {"absent", "empty", "torn"}}
  /\ at \in [Threads -> {"idle", "load", "check", "save", "dump", "done"}]
  /\ path \in [Threads -> Folders \union {NoFolder}] /\ resetting \in BOOLEAN /\ raced \in BOOLEAN
  /\ acts \in 0..MaxClicks /\ runs \in 0..MaxRuns /\ crashes \in 0..MaxCrashes

\* However the threads' saves meet, and whichever file a save wrote another folder's session into, what the window
\* goes on with is a session of the folder that is open (load_or_create_session).
OwnSession == at["gui"] = "idle" => current_session.root = folder

\* The working set names every file once, the last ones used, and no more than the memory has room for (working_set_manager.py).
SetSound ==
  /\ IsInjective(current_session.primary) /\ IsInjective(current_session.failures)
  /\ Len(current_session.primary) <= MaxPrimary /\ Len(current_session.failures) <= MaxFailures
  /\ Len(current_session.entries) <= MaxEntries

\* As long as no thread loaded or saved while another was about it, and none was cut short, the file holds what the window
\* remembers, which is the newest of what ever happened in the folder, over any change of folders, resets and restarts and
\* whenever the request compiler looks (save_session); a look into a file that is being written costs what it held.
SavedAndWhole ==
  (\A t \in Threads : Rests(t)) /\ ~raced /\ folder # NoFolder =>
    /\ session_file[folder] = current_session
    /\ current_session.entries = Newest(recorded[folder])

MemoryKept == OwnSession /\ SetSound /\ SavedAndWhole
=============================================================================
