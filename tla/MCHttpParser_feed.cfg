SPECIFICATION Spec
CONSTANTS
  CR = "CR"
  LF = "LF"
  Text <- MCText
  StartLines <- MCStartLines
  FieldLines <- MCFieldLines
  SizeLines <- MCSizeLines
  MaxLineBytes = 2
  MaxHeaderBytes = 7
  MaxChunk = 40
  MaxResets <- UptoTwoResets
  Streams <- AllOrResetStreams
INVARIANTS
  BoundaryIndependent
  MessagesFramed
  BufferBounded
  ReadsAllFed
PROPERTIES
  SourceOfMessages
  ReadsAsWhole
  AdvanceReturns
CHECK_DEADLOCK FALSE
