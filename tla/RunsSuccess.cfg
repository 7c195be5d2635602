SPECIFICATION RunsSpec
CONSTANTS
  Plans <- Three
  Paths <- OneFile
  Critical <- OneFile
  Contents <- NewOrOld
  Requests <- Reruns
  Texts <- FileTexts
  Answers <- ModelAnswers
  Tasks <- Asked
  MaxTasks = 2
INVARIANT SuccessIsOnDisk
CHECK_DEADLOCK FALSE
