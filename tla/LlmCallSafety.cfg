SPECIFICATION FairSpec
CONSTANTS
  MaxAttempts = 2
  Threads = 1
  MaxChunks = 1
  MaxCalls = 2
INVARIANTS
  TypeOK
  AnswerIsWhole
PROPERTIES
  NothingStartsAfterEnd
  CallEnds
CHECK_DEADLOCK FALSE
