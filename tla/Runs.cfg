SPECIFICATION RunsSpec
CONSTANTS
  Plans <- Three
  Paths <- OneFile
  Critical <- OneFile
  Contents <- NewOrOld
  Requests <- Reruns
  Texts <- FileTexts
  Answers <- ModelAnswers
  Tasks <- Asked
  MaxTasks = 2
INVARIANTS RunsTypeOK RunTruthful ReuseIsSound GateHolds StagesInOrder
PROPERTIES FilesKept AppliedIsVerified RunsEnd
CHECK_DEADLOCK FALSE
