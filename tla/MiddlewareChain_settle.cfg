SPECIFICATION Spec
CONSTANTS
  N = 6
INVARIANTS
  SettledOnce
  OneDriver
PROPERTIES
  Sequential
  ChainSettles
CHECK_DEADLOCK FALSE
