SPECIFICATION PipelineSpec
CONSTANTS
  Sources <- ModelSources
  Goldens <- TwoGoldens
  Traces <- ModelTraces
  MaxCommands = 1
  MaxRecords = 2
  Tasks <- Menu
  MaxTasks = 2
  MaxRequests = 3
  MaxCrashes = 1
INVARIANTS
  PipelineTypeOK
  PartsSound
  ReleaseSound
PROPERTIES
  RepairKeeps
  GatesHold
  AuditKept
  Ends
CHECK_DEADLOCK FALSE
