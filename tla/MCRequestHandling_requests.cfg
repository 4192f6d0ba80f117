SPECIFICATION Spec
CONSTANTS
  Scenarios <- AllScenarios
  TChar <- MCTChar
  Digit = {"1"}
  Supported = {"HTTP/1.1"}
  Version = {"HTTP/1.1", "HTTP/2.0"}
  Control = {"NUL", "BEL"}
  Forbidden = {"NUL"}
  DEL = "DEL"
  Escape <- MCEscape
  Malformed = {"%"}
  Root <- MCRoot
  Upper <- MCUpper
  Lower <- MCLower
  WordChar = {"a", "b", "x", "1"}
  Documents <- MCDocuments
  FileNames <- MCFileNames
  Contents <- MCContents
  MaxChanges = 2
INVARIANTS
  LinesAsGrammar
  RoutesBySegments
  FormsAgree
  OneAnswer
  HandlersGuarded
  FileServed
PROPERTIES
  InOrder
  Answered
CHECK_DEADLOCK FALSE
