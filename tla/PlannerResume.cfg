SPECIFICATION Spec
CONSTANTS
  MaxSteps = 1
  MaxAnswers = 1
  Outcomes = {"completed", "failed"}
  RecursionLimit = 9
  FaultKinds <- NoFaults
  MaxFaults = 0
PROPERTIES
  ResumesAtNext
CHECK_DEADLOCK FALSE
