CONSTANTS
  j1 = j1
  j2 = j2
  j3 = j3
  w1 = w1
  w2 = w2
  Jobs = {j1}
  Workers = {w1}
  Requests = {c1, c2}
  TypeOf <- OneCoding
  Service <- CodingWorker
  MaxJobs = 1
  MaxTries = 3
  MaxNodes = 3
  PoolSize = 2
  FaultKinds <- AllFaults
  MaxFaults = 3
SPECIFICATION FairSpec
CHECK_DEADLOCK FALSE
INVARIANT TypeOK
INVARIANT CancelBounded
INVARIANT FinishedIsSettled
