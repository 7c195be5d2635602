SPECIFICATION DiskSpec
CONSTANTS
  SlotRuns <- OneRun
  ReplayRuns <- OneReplay
  MaxEvents = 5
  MaxCrashes = 2
  Files <- TwoFiles
  Local <- OneLocal
  MaxEdits = 1
  MaxRuns = 2
  MaxRestores = 1
INVARIANTS
  DiskTypeOK
  StoreKept
PROPERTIES
  LogKept
  RecoverySettles
  CanonicalKept
CHECK_DEADLOCK FALSE
