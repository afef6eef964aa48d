SPECIFICATION Spec
CONSTANTS
  MaxSandboxLoops = 2
  MaxContractLoops = 1
  InfraMaxRetries = 1
  RecursionLimit = 13
  ExternalContract = FALSE
PROPERTIES
  TransientFaultRetries
CHECK_DEADLOCK FALSE
