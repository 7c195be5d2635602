SPECIFICATION QueueSpec
CONSTANTS
  N = 1
  MaxRuns = 2
  MaxStarts = 2
  MaxCrashes = 0
  Specs <- UserSpecs
  Initial <- PlanOnly
  Inputs = {"submit", "clear", "edit", "impact", "rerun", "resume", "stop", "approvals"}
INVARIANTS
  WorkerAccounted
  StopBounded
  TasksApproved
CHECK_DEADLOCK FALSE
