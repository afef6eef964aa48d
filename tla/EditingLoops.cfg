SPECIFICATION Spec
CONSTANTS
  main = main
  helper = helper
  testMain = testMain
  CodeFiles = {main}
  TestFiles = {testMain}
  MaxNamed = 1
  MaxSandboxLoops = 1
  MaxRegressionLoops = 1
  InfraMaxRetries = 0
  RecursionLimit = 14
INVARIANTS
  SandboxLoopsBounded
CHECK_DEADLOCK FALSE
