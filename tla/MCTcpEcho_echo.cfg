SPECIFICATION Spec
CONSTANTS
  Sockets = {s1, s2}
  HighWater = 2
  MaxChunk = 2
  s1 = s1
  s2 = s2
  MaxBytes <- MCMaxBytes
  Disturbances = {"reset", "close"}
INVARIANTS
  QueueBounded
  EchoedWhole
  CloseDrains
PROPERTIES
  Resumes
  FinCloses
CHECK_DEADLOCK FALSE
