SPECIFICATION Spec
CONSTANTS
  Scenarios <- SlowScenarios
  MaxRequests = 3
INVARIANTS
  ResponseKept
CHECK_DEADLOCK FALSE
