SPECIFICATION Spec
CONSTANTS
  Clients = {a, b}
  Rude = {b}
  MaxRequests = 2
  MaxCalls = 2
INVARIANTS
  CloseComplete
  FirstCallResolves
PROPERTIES
  CallsSettle
  NothingLeaks
CHECK_DEADLOCK FALSE
