SPECIFICATION RoundTripSpec
CONSTANTS
  CR = "CR"
  LF = "LF"
  Text <- SZText
  StartLines <- SZStartLines
  FieldLines <- SZFieldLines
  SizeLines <- SZSizeLines
  MaxLineBytes = 2
  MaxHeaderBytes = 30
  MaxChunk = 40
  MaxResets <- NoFramingResets
  Streams <- FramingStreams
  SoundStarts <- SZSoundStarts
  LengthField <- SZLengthField
  SizeLine <- SZSizeLine
  Utf8 <- SZUtf8
  HandMade <- NotHandMade
INVARIANTS
  ParsedRoundTrips
CHECK_DEADLOCK FALSE
