SPECIFICATION Spec
CONSTANTS
  MaxSandboxLoops = 3
  MaxContractLoops = 2
  InfraMaxRetries = 1
  RecursionLimit = 20
  ExternalContract = FALSE
INVARIANTS
  TypeOK
  CompletedIsVerified
  JudgedByOthersTests
  LoopsPerPlan
  CritiqueIsCurrent
  ContractSettles
PROPERTIES
  FullBudgetBeforeReplan
  FeedbackReachesCoder
CHECK_DEADLOCK FALSE
