CONSTANTS
  j1 = j1
  j2 = j2
  j3 = j3
  w1 = w1
  w2 = w2
  Jobs = {j1, j2}
  Workers = {w1}
  Requests = {c1}
  TypeOf <- BothCoding
  Service <- CodingWorker
  MaxJobs = 2
  MaxTries = 3
  MaxNodes = 1
  PoolSize = 2
  FaultKinds <- Restarts
  MaxFaults = 2
SPECIFICATION FairSpec
CHECK_DEADLOCK FALSE
INVARIANT SettledMeansIdle
PROPERTY ImplementsContract
PROPERTY EveryJobSettles
