SPECIFICATION FairSpec
CONSTANTS
  MaxSteps = 3
  MaxAnswers = 1
  Outcomes = {"completed", "failed"}
  RecursionLimit = 9
  FaultKinds <- AllFaults
  MaxFaults = 1
INVARIANTS
  TypeOK
  NoStrayJobs
  EditsCompletedWork
  CompletedIsDone
PROPERTIES
  CancelIsFinal
  RunningEnds
CHECK_DEADLOCK FALSE
