SPECIFICATION ProgramsSpec
CONSTANTS
  Specs <- TwoSpecs
  Answers <- ModelAnswers
  MaxStarts = 2
  MaxAttempts = 3
  Strict = FALSE
  MaxPlies = 3
  MaxClicks = 4
  Folders = {"p1", "p2"}
  Slots = {"a", "b"}
  Snapshots = {"s1"}
  Unset = "none"
  MaxActs = 4
  Files <- Uploads
  Modes <- LookUps
  Nearest = 1
  Floor = 4
  Steep = 2
  Messages <- Sayings
  MaxUploads = 2
  MaxTurns = 1
  MaxRemoved = 1
  MaxSessions = 1
  MaxCrashes = 1
  Stored = {1, 2}
  Uploaded = {3}
  PageClicks = 3
  PageWaits = 2
  Said <- Sentences
  First <- Birthday
  Second <- Family
  PersonTerms = {"cornelia", "wife"}
  TopK = 1
  MaxSaid = 3
  MaxStops = 1
  Contacts = {"ann", "bob"}
  Nobody = "none"
  Length = 1
  MaxAsked = 3
  MaxOpen = 2
  Dirs <- Folder
  Root = "r"
  Parent <- Above
  Forbidden = {"d"}
  MaxOutstanding = 1
  MaxDepth = 3
  Threshold = 2
  MaxSplits = 2
  Scans = {1, 2}
  MaxWorkers = 1
  PoolScans = {1}
  PoolWorkers = 2
  PoolOutstanding = 3
  PoolDirs <- WideFolder
  PoolParent <- WideAbove
INVARIANTS
  ProgramsTypeOK
  TurnsHold
  PanelsAgree
  AnswersSound
PROPERTIES
  FactorySound
  ScanSound
  Settles
CHECK_DEADLOCK FALSE
