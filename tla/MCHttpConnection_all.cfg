SPECIFICATION Spec
CONSTANTS
  Scenarios <- AllScenarios
  MaxRequests = 3
INVARIANTS
  ResponsesPaired
  ClosingResponseLast
  HandledSerially
  CrashExplained
PROPERTIES
  DueAnswered
  UsesSource
CHECK_DEADLOCK FALSE
