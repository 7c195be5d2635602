------------------------------ MODULE Workspaces ------------------------------
(***************************************************************************)
(* The copies of a project (workspace/): the canonical one the user works  *)
(* in, the execution workspace a run gets (create_execution_snapshot) and  *)
(* the baseline snapshot for undo (capture_baseline_snapshot).  The worker *)
(* promotes the changes of a run back when the canonical files have not    *)
(* drifted; the user may restore a snapshot in a thread of its own.        *)
(* Nothing locks the canonical workspace: the user's editor, a promotion   *)
(* and a restore meet there, file by file.                                 *)
(*                                                                         *)
(* A file is its version: an edit makes a new one and copy2 keeps it, as   *)
(* the fingerprint (size, mtime, content) does.  A handler that raises     *)
(* after its first writes leaves them, as the code does.  Retention (the   *)
(* ten newest snapshots) and spec data that resumes a run or fixes its     *)
(* base are not modelled here.                                             *)
(***************************************************************************)
EXTENDS Integers, FiniteSets

CONSTANTS Files,      \* the project's paths
          Local,      \* those among them that only the baseline snapshot's ignore list names
          MaxEdits, MaxRuns, MaxRestores   \* bounds

ASSUME WorkspacesConstants == Local \subseteq Files /\ {MaxEdits, MaxRuns, MaxRestores} \subseteq Nat

VARIABLES canonical, exec,   \* the user's files, the files of the current run
          manifest,          \* source_fingerprint of the current run
          snap,              \* the newest baseline snapshot
          worker, restore,   \* the two threads
          edits, runs, restores,
          origin,            \* history: the versions the run was given
          raced              \* history: files written while the run looked away

workspaceVars == <<canonical, exec, manifest, snap, worker, restore, edits, runs, restores, origin, raced>>

Absent == 0
RunVersion == MaxEdits + 2                 \* what a run writes
Version == 0..RunVersion                   \* 1 is the file at the start
Tree == [Files -> Version]
NoTree == [f \in Files |-> Absent]
Captured == Files \ Local

\* tree and torn are history: the project when the snapshot was begun, and
\* whether anyone wrote to it before the snapshot was complete.
NoSnap == [hash |-> NoTree, file |-> NoTree, kept |-> FALSE, tree |-> NoTree, torn |-> FALSE]
IdleWorker == [pc |-> "idle", left |-> {}, seen |-> NoTree, mode |-> "dry_run", outcome |-> "none"]
\* disturbed is history: whether others wrote to the project meanwhile.
IdleRestore == [pc |-> "idle", left |-> {}, seen |-> NoTree, of |-> NoSnap,
                disturbed |-> FALSE, outcome |-> "none"]

WorkspacesInit ==
  /\ canonical \in [Files -> {Absent, 1}]
  /\ exec = NoTree /\ manifest = NoTree /\ snap = NoSnap
  /\ worker = IdleWorker /\ restore = IdleRestore
  /\ edits = 0 /\ runs = 0 /\ restores = 0
  /\ origin = NoTree /\ raced = {}
---------------------------------------------------------------------------
(* History: who wrote a canonical file while whom. *)

\* The run has read f and will not look at it again before it acts on it.
Exposed(f) ==
  \/ worker.pc = "copy" /\ f \notin worker.left
  \/ worker.pc = "hash" /\ f \in worker.left
  \/ worker.pc = "drift" /\ f \notin worker.left
  \/ worker.pc \in {"promote", "delete"}

NoteRace(f) == raced' = IF Exposed(f) THEN raced \cup {f} ELSE raced
TornSnap == [snap EXCEPT !.torn = @ \/ worker.pc \in {"baseline", "store"}]
Disturbed == [restore EXCEPT !.disturbed = @ \/ restore.pc # "idle"]
---------------------------------------------------------------------------
(* The user edits, creates or deletes a file. *)

Edit(f) ==
  /\ edits < MaxEdits
  /\ edits' = edits + 1
  /\ \E v \in {Absent, edits + 2} \ {canonical[f]} : canonical' = [canonical EXCEPT ![f] = v]
  /\ NoteRace(f) /\ snap' = TornSnap /\ restore' = Disturbed
  /\ UNCHANGED <<exec, manifest, worker, runs, restores, origin>>
---------------------------------------------------------------------------
(* The worker: the isolated workspace. *)

WorkerTo(pc, left) == worker' = [worker EXCEPT !.pc = pc, !.left = left]
Done(f) == worker' = [worker EXCEPT !.left = @ \ {f}]
EndRun(outcome) == worker' = [IdleWorker EXCEPT !.outcome = outcome]
Others == UNCHANGED <<restore, edits, runs, restores, raced>>

StartRun ==
  /\ worker.pc = "idle" /\ runs < MaxRuns
  /\ runs' = runs + 1
  /\ exec' = NoTree /\ manifest' = NoTree /\ origin' = NoTree /\ raced' = {}
  /\ \E mode \in {"promote_on_success", "dry_run"} :
       worker' = [IdleWorker EXCEPT !.pc = "copy", !.left = Files, !.mode = mode]
  /\ UNCHANGED <<canonical, snap, restore, edits, restores>>

CopyFile(f) ==
  /\ worker.pc = "copy" /\ f \in worker.left
  /\ exec' = [exec EXCEPT ![f] = canonical[f]]
  /\ origin' = [origin EXCEPT ![f] = canonical[f]]
  /\ Done(f) /\ Others /\ UNCHANGED <<canonical, manifest, snap>>

\* The fingerprint is that of the source, computed after the copy.
HashFile(f) ==
  /\ worker.pc = "hash" /\ f \in worker.left
  /\ manifest' = [manifest EXCEPT ![f] = canonical[f]]
  /\ Done(f) /\ Others /\ UNCHANGED <<canonical, exec, snap, origin>>

EndIsolation ==
  /\ worker.left = {}
  /\ \/ worker.pc = "copy" /\ WorkerTo("hash", Files)
     \/ worker.pc = "hash" /\ WorkerTo("ready", {})
  /\ Others /\ UNCHANGED <<canonical, exec, manifest, snap, origin>>
---------------------------------------------------------------------------
(* The worker: the baseline snapshot of a run in promote mode. *)

BeginCapture ==
  /\ worker.pc = "ready" /\ worker.mode = "promote_on_success"
  /\ WorkerTo("baseline", Captured)
  /\ snap' = [NoSnap EXCEPT !.tree = canonical]
  /\ Others /\ UNCHANGED <<canonical, exec, manifest, origin>>

SkipCapture ==
  /\ worker.pc = "ready" /\ worker.mode # "promote_on_success"
  /\ WorkerTo("execute", {})
  /\ Others /\ UNCHANGED <<canonical, exec, manifest, snap, origin>>

FingerprintFile(f) ==
  /\ worker.pc = "baseline" /\ f \in worker.left
  /\ snap' = [snap EXCEPT !.hash[f] = canonical[f]]
  /\ Done(f) /\ Others /\ UNCHANGED <<canonical, exec, manifest, origin>>

\* Mutant: only what the run was given is stored.
Bug_BeginStore ==
  /\ worker.pc = "baseline" /\ worker.left = {}
  /\ WorkerTo("store", {f \in Captured : snap.hash[f] # Absent /\ manifest[f] # Absent})
  /\ Others /\ UNCHANGED <<canonical, exec, manifest, snap, origin>>

BeginStore ==
  /\ worker.pc = "baseline" /\ worker.left = {}
  /\ WorkerTo("store", {f \in Captured : snap.hash[f] # Absent})
  /\ Others /\ UNCHANGED <<canonical, exec, manifest, snap, origin>>

StoreFile(f) ==
  /\ worker.pc = "store" /\ f \in worker.left
  /\ canonical[f] # Absent                      \* otherwise copy2 raises
  /\ snap' = [snap EXCEPT !.file[f] = canonical[f]]
  /\ Done(f) /\ Others /\ UNCHANGED <<canonical, exec, manifest, origin>>

\* snapshot.json is written; the run goes on only if the ledger does not know
\* it: RunMetadata has no payload to note the snapshot in, and that raises.
EndCapture ==
  /\ worker.pc = "store" /\ worker.left = {}
  /\ snap' = [snap EXCEPT !.kept = TRUE]
  /\ \E known \in BOOLEAN : IF known THEN EndRun("failed") ELSE WorkerTo("execute", {})
  /\ Others /\ UNCHANGED <<canonical, exec, manifest, origin>>

\* A file that is gone or cannot be read raises, and ends the run.
RunRaises ==
  /\ worker.pc \in {"copy", "hash", "baseline", "store", "drift"} /\ worker.left # {}
  /\ EndRun("failed")
  /\ Others /\ UNCHANGED <<canonical, exec, manifest, snap, origin>>
---------------------------------------------------------------------------
(* The worker: the tasks, and the promotion gate. *)

Execute(f) ==
  /\ worker.pc = "execute"
  /\ \E v \in {Absent, RunVersion} \ {exec[f]} : exec' = [exec EXCEPT ![f] = v]
  /\ Others /\ UNCHANGED <<canonical, manifest, snap, worker, origin>>

\* detect_changes: the created, modified and deleted files of the run.
ChangedFiles == {f \in Files : exec[f] # manifest[f]}

\* The outcome may not be among the allowed ones; nothing may have changed.
EndExecution ==
  /\ worker.pc = "execute"
  /\ \/ EndRun("not promoted")
     \/ worker.mode = "promote_on_success" /\ ChangedFiles = {} /\ EndRun("nothing to promote")
     \/ worker.mode = "promote_on_success" /\ ChangedFiles # {} /\ WorkerTo("drift", Files)
  /\ Others /\ UNCHANGED <<canonical, exec, manifest, snap, origin>>

DriftHash(f) ==
  /\ worker.pc = "drift" /\ f \in worker.left
  /\ worker' = [worker EXCEPT !.left = @ \ {f}, !.seen[f] = canonical[f]]
  /\ Others /\ UNCHANGED <<canonical, exec, manifest, snap, origin>>

\* Mutant: a file the run creates is not compared.
Bug_Conflicts == {f \in ChangedFiles : manifest[f] # Absent /\ worker.seen[f] # manifest[f]}

Conflicts == {f \in ChangedFiles : worker.seen[f] # manifest[f]}

CheckDrift ==
  /\ worker.pc = "drift" /\ worker.left = {}
  /\ IF Conflicts # {} THEN EndRun("blocked")
     ELSE WorkerTo("promote", {f \in ChangedFiles : exec[f] # Absent})
  /\ Others /\ UNCHANGED <<canonical, exec, manifest, snap, origin>>

\* Promotion writes the canonical files while others may read or write them.
Promoted(f) ==
  /\ canonical' = [canonical EXCEPT ![f] = exec[f]]
  /\ Done(f) /\ restore' = Disturbed
  /\ UNCHANGED <<exec, manifest, snap, edits, runs, restores, origin, raced>>

PromoteFile(f) == worker.pc = "promote" /\ f \in worker.left /\ Promoted(f)
DeleteFile(f) == worker.pc = "delete" /\ f \in worker.left /\ Promoted(f)

\* Mutant: the deleted files of the run are forgotten.
Bug_BeginDeletes ==
  /\ worker.pc = "promote" /\ worker.left = {}
  /\ WorkerTo("delete", {})
  /\ Others /\ UNCHANGED <<canonical, exec, manifest, snap, origin>>

BeginDeletes ==
  /\ worker.pc = "promote" /\ worker.left = {}
  /\ WorkerTo("delete", {f \in ChangedFiles : exec[f] = Absent})
  /\ Others /\ UNCHANGED <<canonical, exec, manifest, snap, origin>>

\* promote catches the exception of a copy or an unlink and reports FAILED;
\* what it has written stays.
PromotionEnds ==
  /\ \/ worker.pc = "delete" /\ worker.left = {} /\ EndRun("applied")
     \/ worker.pc \in {"promote", "delete"} /\ worker.left # {} /\ EndRun("promotion failed")
  /\ Others /\ UNCHANGED <<canonical, exec, manifest, snap, origin>>
---------------------------------------------------------------------------
(* execute_restore of the newest snapshot, in a thread of its own. *)

RestoreTo(pc, left) ==
  restore' = [restore EXCEPT !.pc = pc, !.left = left, !.seen = NoTree]
EndRestore(outcome) == restore' = [IdleRestore EXCEPT !.outcome = outcome]
RestoreOnly == UNCHANGED <<exec, manifest, worker, edits, runs, origin>>
RestoreReads == RestoreOnly /\ UNCHANGED <<canonical, snap, restores, raced>>

StartRestore ==
  /\ restore.pc = "idle" /\ snap.kept /\ restores < MaxRestores
  /\ restores' = restores + 1
  /\ restore' = [IdleRestore EXCEPT !.pc = "preview", !.left = Files, !.of = snap]
  /\ RestoreOnly /\ UNCHANGED <<canonical, snap, raced>>

\* compute_fingerprint for the preview, and again for verify_restored_workspace.
RestoreHash(f) ==
  /\ restore.pc \in {"preview", "verify"} /\ f \in restore.left
  /\ restore' = [restore EXCEPT !.left = @ \ {f}, !.seen[f] = canonical[f]]
  /\ RestoreReads

\* Mutant: files that are not in the snapshot stay.
Bug_ToRemove == {}

\* The ignore list here is shorter than the snapshot's, so that Local files
\* count as files that were not there.
ToRemove == {f \in Files : restore.seen[f] # Absent /\ restore.of.hash[f] = Absent}
ToRestore == {f \in Files : restore.of.hash[f] \notin {Absent, restore.seen[f]}}

EndPreview ==
  /\ restore.pc = "preview" /\ restore.left = {}
  /\ restore' = [restore EXCEPT !.pc = "remove", !.left = ToRemove]
  /\ RestoreReads

RestoreWrites(f, v) ==
  /\ canonical' = [canonical EXCEPT ![f] = v]
  /\ restore' = [restore EXCEPT !.left = @ \ {f}]
  /\ NoteRace(f) /\ snap' = TornSnap
  /\ RestoreOnly /\ UNCHANGED restores

RemoveFile(f) ==
  restore.pc = "remove" /\ f \in restore.left /\ RestoreWrites(f, Absent)

EndRemove ==
  /\ restore.pc = "remove" /\ restore.left = {}
  /\ restore' = [restore EXCEPT !.pc = "replace", !.left = ToRestore]
  /\ RestoreReads

ReplaceFile(f) ==
  restore.pc = "replace" /\ f \in restore.left /\ RestoreWrites(f, restore.of.file[f])

BeginVerify ==
  /\ restore.pc = "replace" /\ restore.left = {}
  /\ RestoreTo("verify", Files)
  /\ RestoreReads

\* An exception ends the restore half done.
EndVerify ==
  /\ restore.pc = "verify" /\ restore.left = {}
  /\ EndRestore(IF restore.seen = restore.of.hash THEN "verified" ELSE "failed_verification")
  /\ RestoreReads

RestoreRaises ==
  /\ restore.pc # "idle" /\ restore.left # {}
  /\ EndRestore("failed")
  /\ RestoreReads
---------------------------------------------------------------------------
Worker ==
  \/ StartRun \/ EndIsolation \/ BeginCapture \/ SkipCapture \/ BeginStore \/ EndCapture
  \/ RunRaises \/ EndExecution \/ CheckDrift \/ BeginDeletes \/ PromotionEnds
  \/ \E f \in Files : CopyFile(f) \/ HashFile(f) \/ FingerprintFile(f) \/ StoreFile(f)
                        \/ Execute(f) \/ DriftHash(f) \/ PromoteFile(f) \/ DeleteFile(f)

Restore ==
  \/ StartRestore \/ EndPreview \/ EndRemove \/ BeginVerify \/ EndVerify \/ RestoreRaises
  \/ \E f \in Files : RestoreHash(f) \/ RemoveFile(f) \/ ReplaceFile(f)

WorkspacesNext == Worker \/ Restore \/ \E f \in Files : Edit(f)

WorkspacesSpec == WorkspacesInit /\ [][WorkspacesNext]_workspaceVars
---------------------------------------------------------------------------
(* Properties. *)

\* The types, and what the phases of the threads guarantee: a thread that is
\* idle has nothing left, the manifest of a snapshot names no Local file, and a
\* complete snapshot has stored every file its manifest names.
WorkspacesTypeOK ==
  /\ {canonical, exec, manifest, snap.hash, snap.file, worker.seen, restore.seen} \subseteq Tree
  /\ worker.left \subseteq Files /\ restore.left \subseteq Files /\ raced \subseteq Files
  /\ worker.pc = "idle" => worker.left = {}
  /\ \A f \in Local : snap.hash[f] = Absent
  /\ snap.kept => \A f \in Files : snap.hash[f] # Absent => snap.file[f] # Absent

\* What a promotion overwrites or deletes is the version the run was given.
\* The user's edit (or a restore) is lost only if it fell in a window in which
\* the run had read the file and not yet acted on it: between the copy and the
\* fingerprint, or between the drift check and the promotion.
PromotionKeepsEdits ==
  [][\A f \in Files \ raced :
       PromoteFile(f) \/ DeleteFile(f) => canonical[f] = origin[f]]_workspaceVars

\* When a promotion reports APPLIED, the canonical workspace has every file the
\* run created or modified as the run left it and none of those it deleted,
\* save the files others have written in the windows above.
PromotionComplete ==
  [][worker.pc = "delete" /\ worker'.outcome = "applied" =>
       \A f \in ChangedFiles \ raced : canonical[f] = exec[f]]_workspaceVars

\* A restore that nothing disturbed and that has not failed brings back every
\* file that the snapshot ignores nothing of, if the project was at rest while
\* the snapshot was made; whatever the snapshot, "verified" means that the
\* project is what its manifest says.  Local files are gone in both cases.
RestoreRoundTrip ==
  [][restore.pc = "verify" /\ restore'.pc = "idle" /\ restore'.outcome # "failed"
       /\ ~restore.disturbed =>
       /\ ~restore.of.torn =>
            /\ restore'.outcome = "verified"
            /\ canonical = [f \in Files |-> IF f \in Local THEN Absent ELSE restore.of.tree[f]]
       /\ restore'.outcome = "verified" => canonical = restore.of.hash]_workspaceVars

\* What promotions and restores leave of the user's files (promote,
\* execute_restore): the three properties above.
CanonicalKept == PromotionKeepsEdits /\ PromotionComplete /\ RestoreRoundTrip
=============================================================================
