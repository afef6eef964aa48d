SPECIFICATION Spec
CONSTANTS
  main = main
  helper = helper
  testMain = testMain
  CodeFiles = {main, helper}
  TestFiles = {testMain}
  MaxNamed = 1
  MaxSandboxLoops = 2
  MaxRegressionLoops = 2
  InfraMaxRetries = 1
  RecursionLimit = 10
INVARIANTS
  TypeOK
  CompletedIsVerified
  CompletedPassedGate
  TestsByTestWriter
  ReturnsBounded
  RoutesMapped
PROPERTIES
  FeedbackReachesCode
CHECK_DEADLOCK FALSE
SYMMETRY Symmetry
