-------------------------------- MODULE MCDisk --------------------------------
(***************************************************************************)
(* What Demo10 keeps on disk: the run ledger and the workspaces, checked   *)
(* side by side.  which says whose behaviour this is; the other keeps its  *)
(* initial state, so the state space is the sum of theirs.                 *)
(***************************************************************************)
EXTENDS RunLedger, Workspaces

OneRun == {"r1"}
OneReplay == {"p1"}

\* A file of the project and one the baseline snapshot ignores.
TwoFiles == {"app.py", "venv/cfg"}
OneLocal == {"venv/cfg"}

VARIABLE which

LedgerNext == which = "ledger" /\ Next /\ UNCHANGED <<which, workspaceVars>>
CopiesNext == which = "workspaces" /\ WorkspacesNext /\ UNCHANGED <<which, vars>>

DiskInit ==
  /\ which \in {"ledger", "workspaces"} /\ Init /\ WorkspacesInit
  /\ which = "ledger" => canonical = NoTree
DiskSpec == DiskInit /\ [][LedgerNext \/ CopiesNext]_<<which, vars, workspaceVars>>

\* Every variable of the ledger and of the workspaces has its type.
DiskTypeOK == TypeOK /\ WorkspacesTypeOK
=============================================================================
