SPECIFICATION QueueSpec
CONSTANTS
  N = 1
  MaxRuns = 1
  MaxStarts = 1
  MaxCrashes = 0
  Specs <- AllSpecs
  Initial <- DryOnly
  Inputs = {"stop"}
INVARIANTS
  StagesStepThrough
CHECK_DEADLOCK FALSE
