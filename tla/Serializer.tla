----------------------------- MODULE Serializer -----------------------------
(***************************************************************************)
(* serializeRequest() and serializeResponse() of                           *)
(* src/src/http/serializer.ts, and what the parser makes of their output:  *)
(* a message, read by parseRequest() or written by hand, is serialized and *)
(* parsed again (OneShot).                                                 *)
(***************************************************************************)
EXTENDS OneShot, SequencesExt

CONSTANTS
  SoundStarts,  \* start lines the serializer accepts: the method is a token,
                \* the status code is one of 100..599
  LengthField,  \* body length -> the Content-Length field that announces it
  SizeLine,     \* chunk size -> the line encodeChunked() writes for it
  Utf8,         \* character -> the bytes Buffer.from(string) writes for it
  HandMade      \* messages a caller builds itself

VARIABLES
  original,  \* <<message>> once one has been serialized
  chunked    \* opts.chunked of that call

roundTripVars == <<oneShotVars, original, chunked>>

ASSUME SerializerAssumption ==
  /\ \A n \in DOMAIN SizeLine :
       SizeLine[n] \in DOMAIN SizeLines /\ SizeLines[SizeLine[n]] = n
  /\ 0 \in DOMAIN SizeLine
  /\ \A n \in DOMAIN LengthField :
       /\ LengthField[n] \in Field
       /\ LengthField[n].name = "content-length" /\ LengthField[n].valid
       /\ LengthField[n].length = n
  /\ Utf8 \in [Text -> Seq(Byte)]
  /\ HandMade \subseteq Message

CRLF == <<CR, LF>>
Encoded(line) == FlattenSeq([i \in 1..Len(line) |-> Utf8[line[i]]])
Chunking == [name |-> "transfer-encoding", valid |-> TRUE, length |-> 0,
             coding |-> "chunked"]

(* The lines that declare a field; none for a name that is no token or a   *)
(* value with CR, LF or NUL.                                               *)
LinesOf(f) == {l \in DOMAIN FieldLines : FieldLines[l] = f}
Clean(fields) == \A i \in 1..Len(fields) : LinesOf(fields[i]) # {}

SetsFraming(fields) ==
  Named(fields, "content-length") # {} \/ Named(fields, "transfer-encoding") # {}

(* What makes serializing throw.                                           *)
Refuses(m, chunk) ==
  m.startLine \notin SoundStarts \/ ~Clean(m.headers) \/ (chunk /\ SetsFraming(m.headers))

(* Mutant of WithFraming: the length is left for the caller to set.        *)
WithFramingNever(m, chunk) ==
  IF chunk THEN Append(m.headers, Chunking) ELSE m.headers

(* withFramingHeaders(), on headers it does not refuse.                    *)
WithFraming(m, chunk) ==
  IF chunk THEN Append(m.headers, Chunking)
  ELSE IF SetsFraming(m.headers) THEN m.headers
  ELSE Append(m.headers, LengthField[Len(m.body)])

(* encodeChunked(): the body as one chunk, then the last chunk.            *)
EncodeChunked(body) ==
  (IF body = <<>> THEN <<>> ELSE SizeLine[Len(body)] \o CRLF \o body \o CRLF)
    \o SizeLine[0] \o CRLF \o CRLF

(* buildHeaderSection(), with the CRLF behind its last line.               *)
HeaderLine(f) == Encoded(CHOOSE l \in LinesOf(f) : TRUE)
HeaderLines(fields) ==
  FlattenSeq([i \in 1..Len(fields) |-> HeaderLine(fields[i]) \o CRLF])

Serialized(m, chunk) ==
  Encoded(m.startLine) \o CRLF \o HeaderLines(WithFraming(m, chunk)) \o CRLF
    \o (IF chunk THEN EncodeChunked(m.body) ELSE m.body)
-----------------------------------------------------------------------------
RoundTripInit == OneShotInit /\ original = <<>> /\ chunked = FALSE

(* A message is serialized and the bytes handed to parseRequest(), which   *)
(* makes a new parser.                                                     *)
Serialize(m, chunk) ==
  /\ original' = <<m>> /\ chunked' = chunk
  /\ \/ Refuses(m, chunk) /\ outcome' = "refused" /\ UNCHANGED vars
     \/ /\ ~Refuses(m, chunk)
        /\ outcome' = "pending"
        /\ unsent' = Serialized(m, chunk)
        /\ buffer' = <<>> /\ stateName' = "START" /\ current' = EmptyProgress
        /\ ready' = <<>> /\ lastError' = 0 /\ peeked' = <<>> /\ call' = "idle"
        /\ offered' = <<>> /\ taken' = <<>>
        /\ UNCHANGED <<allowed, resets>>

SerializeParsed(chunk) ==
  original = <<>> /\ outcome = "message" /\ Serialize(taken[1], chunk)

SerializeHandMade(m, chunk) ==
  original = <<>> /\ outcome = "pending" /\ offered = <<>> /\ Serialize(m, chunk)

RoundTripNext ==
  \/ OneShotNext /\ UNCHANGED <<original, chunked>>
  \/ \E chunk \in BOOLEAN : SerializeParsed(chunk)
  \/ \E chunk \in BOOLEAN, m \in HandMade : SerializeHandMade(m, chunk)

RoundTripSpec == RoundTripInit /\ [][RoundTripNext]_roundTripVars
-----------------------------------------------------------------------------
Back == original # <<>> /\ outcome \in {"message", "throws"}
Plain(m) == Named(m.headers, "transfer-encoding") = {}
            /\ \A i \in First(m.headers, "content-length") :
                 m.headers[i].length = Len(m.body)
Ascii(line) == Encoded(line) = line
Same(m) == /\ outcome = "message"
           /\ taken[1].startLine = m.startLine /\ taken[1].body = m.body

(* The serializer mirrors the parser (serializer.ts:14): a message whose   *)
(* headers do not name a transfer coding comes back with its start line,   *)
(* its body and its headers, and at most the framing header added.         *)
RoundTrips ==
  Back /\ Plain(original[1]) /\ Ascii(original[1].startLine) =>
    /\ Same(original[1])
    /\ IsPrefix(original[1].headers, taken[1].headers)
    /\ Len(taken[1].headers) <= Len(original[1].headers) + 1
    /\ taken[1].trailers = <<>>

(* What a parser can read of a message: a start line it accepts, a framing *)
(* it accepts, every line within MaxLineBytes, the header section within   *)
(* MaxHeaderBytes, and header lines that are still those of their fields   *)
(* as bytes.                                                               *)
OneLine(line) == Len(line) <= MaxLineBytes /\ \A i \in 1..Len(line) : line[i] \notin {CR, LF}
Readable(m, chunk) ==
  LET fields == WithFraming(m, chunk)
  IN  /\ m.startLine \in DOMAIN StartLines /\ StartLines[m.startLine] = 200
      /\ OneLine(m.startLine)
      /\ \A i \in 1..Len(fields) :
           HeaderLine(fields[i]) \in LinesOf(fields[i]) /\ OneLine(HeaderLine(fields[i]))
      /\ Len(HeaderLines(fields)) <= MaxHeaderBytes
      /\ BodyMode(fields) # "ERROR"
      /\ Len(m.body) \in DOMAIN LengthField \cap DOMAIN SizeLine
      /\ chunk => OneLine(SizeLine[0]) /\ OneLine(SizeLine[Len(m.body)])

(* spec/03-http-parser.md:141, translated: "serialize a parsed message and *)
(* parse it again: the same object", here its start line and its body.     *)
ParsedRoundTrips == Back => Same(original[1])
=============================================================================
