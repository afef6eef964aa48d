CONSTANTS
  j1 = j1
  j2 = j2
  j3 = j3
  w1 = w1
  w2 = w2
  Jobs = {j1, j2, j3}
  Workers = {w1, w2}
  Requests = {c1}
  TypeOf <- AllTypes
  Service <- BothServices
  MaxJobs = 1
  MaxTries = 1
  MaxNodes = 1
  PoolSize = 1
  FaultKinds = {}
  MaxFaults = 0
SPECIFICATION FairSpec
CHECK_DEADLOCK FALSE
INVARIANT FinishedIsSettled
PROPERTY CancelReturns
