SPECIFICATION QueueSpec
CONSTANTS
  N = 1
  MaxRuns = 1
  MaxStarts = 2
  MaxCrashes = 0
  Specs <- AllSpecs
  Initial <- PlanOnly
  Inputs = {"impact"}
PROPERTIES
  ApprovalRestartsWorker
CHECK_DEADLOCK FALSE
