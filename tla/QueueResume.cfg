SPECIFICATION QueueSpec
CONSTANTS
  N = 1
  MaxRuns = 1
  MaxStarts = 2
  MaxCrashes = 1
  Specs <- AllSpecs
  Initial <- DryOnly
  Inputs = {"resume", "crash"}
PROPERTIES
  ResumeKeepsSnapshot
CHECK_DEADLOCK FALSE
