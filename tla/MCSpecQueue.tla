---------------------------- MODULE MCSpecQueue ----------------------------
(* Values for the constants of SpecQueue: the specs the runs submit. *)
EXTENDS SpecQueue

Promote == [format |-> "legacy", risk |-> "low", dry |-> FALSE]
DryRun == [format |-> "dsl", risk |-> "low", dry |-> TRUE]
RiskyDryRun == [format |-> "dsl", risk |-> "high", dry |-> TRUE]
DeniedDryRun == [format |-> "dsl", risk |-> "denied", dry |-> TRUE]
Plan == [format |-> "plan", risk |-> "low", dry |-> FALSE]

DrySpecs == {RiskyDryRun, DeniedDryRun}
AllSpecs == {Promote, DryRun, RiskyDryRun, Plan}
UserSpecs == {RiskyDryRun, Plan}

RiskyPair == <<DeniedDryRun, RiskyDryRun>>
PlanOnly == <<Plan>>
DryOnly == <<DryRun>>
============================================================================
