-------------------------------- MODULE Saga --------------------------------
(***************************************************************************)
(* What a run of a plan promises about its reversible steps: they are done *)
(* in ascending order and, once the run gives up, taken back newest first, *)
(* each exactly once; the run ends with all of them standing (committed)   *)
(* or with a compensation tried for each (aborted).                        *)
(***************************************************************************)
EXTENDS Naturals

CONSTANT N      \* number of steps

VARIABLES
    mode,           \* "forward", "backward", "committed" or "aborted"
    outstanding     \* reversible steps done and not taken back

sagaVars == <<mode, outstanding>>

Init == mode = "forward" /\ outstanding = {}

Do(k) ==
    /\ mode = "forward"
    /\ \A j \in outstanding : j < k
    /\ outstanding' = outstanding \cup {k}
    /\ UNCHANGED mode

Commit ==
    /\ mode = "forward"
    /\ mode' = "committed"
    /\ UNCHANGED outstanding

GiveUp ==
    /\ mode = "forward"
    /\ mode' = IF outstanding = {} THEN "aborted" ELSE "backward"
    /\ UNCHANGED outstanding

Undo(k) ==
    /\ mode = "backward"
    /\ k \in outstanding
    /\ \A j \in outstanding : j <= k
    /\ outstanding' = outstanding \ {k}
    /\ UNCHANGED mode

Abort ==
    /\ mode = "backward" /\ outstanding = {}
    /\ mode' = "aborted"
    /\ UNCHANGED outstanding

Next == Commit \/ GiveUp \/ Abort \/ \E k \in 1..N : Do(k) \/ Undo(k)

Spec == Init /\ [][Next]_sagaVars
=============================================================================
