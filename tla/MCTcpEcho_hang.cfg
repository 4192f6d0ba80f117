SPECIFICATION Spec
CONSTANTS
  Sockets = {s1}
  HighWater = 2
  MaxChunk = 2
  s1 = s1
  s2 = s2
  MaxBytes <- MCLone
  Disturbances = {"close"}
PROPERTIES
  CloseCompletes
CHECK_DEADLOCK FALSE
