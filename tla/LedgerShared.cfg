SPECIFICATION DiskSpec
CONSTANTS
  SlotRuns <- OneRun
  ReplayRuns <- OneReplay
  MaxEvents = 6
  MaxCrashes = 2
  Files <- TwoFiles
  Local <- OneLocal
  MaxEdits = 1
  MaxRuns = 2
  MaxRestores = 1
INVARIANTS UpdatesKept
CHECK_DEADLOCK FALSE
