SPECIFICATION FairSpec
CONSTANTS
  t1 = t1
  t2 = t2
  k1 = k1
  Tasks = {t1, t2}
  Keys = {k1}
  Kinds <- Mixes
  MaxLoops <- Loops
  Unlucky = {t1}
  FaultKinds <- AllFaults
  MaxFaults = 1
INVARIANTS
  TypeOK
  MarkedIsComplete
  ChecksSeePackages
  CleanupSweeps
  NamesAreFree
  ResultSurvives
PROPERTIES
  GateReturns
CHECK_DEADLOCK FALSE
