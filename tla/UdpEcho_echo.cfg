SPECIFICATION Spec
CONSTANTS
  Clients = {a, b}
  Leaving = {b}
  MaxSends = 2
  MaxDuplicates = 1
INVARIANTS
  EchoesOwn
  EchoedNotReported
PROPERTIES
  SilenceTold
CHECK_DEADLOCK FALSE
