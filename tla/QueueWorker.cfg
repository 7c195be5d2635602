SPECIFICATION FairSpec
CONSTANTS
  N = 2
  MaxRuns = 3
  MaxStarts = 2
  MaxCrashes = 1
  Specs <- DrySpecs
  Initial <- RiskyPair
  Inputs = {"stop", "crash", "approvals", "clear", "replay"}
INVARIANTS
  TypeOK SlotsApart
PROPERTIES
  CrashFound
  QueueReturns
CHECK_DEADLOCK FALSE
