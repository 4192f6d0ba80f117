SPECIFICATION Spec
CONSTANTS
  CR = "CR"
  LF = "LF"
  Text <- MCText
  StartLines <- MCStartLines
  FieldLines <- MCFieldLines
  SizeLines <- MCSizeLines
  MaxLineBytes = 2
  MaxHeaderBytes = 7
  MaxChunk = 3
  MaxResets <- OneReset
  Streams <- SectionStreams
INVARIANTS
  ResetRecovers
CHECK_DEADLOCK FALSE
