----------------------------- MODULE HttpParser -----------------------------
(***************************************************************************)
(* The incremental HTTP/1.1 parser of src/src/http/parser.ts, class        *)
(* HttpMessageParser.  A caller hands it pieces of a byte stream with      *)
(* feed(chunk), takes finished messages with next() and recovers from an   *)
(* error with reset().                                                     *)
(*                                                                         *)
(* feed() runs the loop of advance() to its end before it returns.  The    *)
(* loop is modelled one iteration of its switch at a time: while call =    *)
(* "advance" no other operation of the parser is enabled, so a call stays  *)
(* atomic for the caller and the loop needs no recursion.                  *)
(*                                                                         *)
(* A byte is CR, LF or a member of Text.  What the line parsers make of a  *)
(* line is given by three tables over lines: a line outside a table is one *)
(* its parser rejects with 400.                                            *)
(***************************************************************************)
EXTENDS Integers, Sequences

CONSTANTS
  CR, LF,          \* the two line-ending bytes
  Text,            \* every other byte
  StartLines,      \* start line -> 200 (accepted) or the status it is refused with
  FieldLines,      \* header line -> the field it declares
  SizeLines,       \* chunk-size line -> the size it declares
  MaxLineBytes,    \* MAX_LINE_BYTES
  MaxHeaderBytes,  \* DEFAULT_MAX_HEADER_BYTES
  Streams,         \* the byte streams a peer may send
  MaxChunk,        \* bound: bytes handed over by one feed
  MaxResets        \* bound: stream -> calls of reset() its caller may make

Byte == Text \cup {CR, LF}
Line == Seq(Byte)

(* A header field: its name, the number a Content-Length announces (valid  *)
(* is FALSE when the value is not a decimal number), the last coding a     *)
(* Transfer-Encoding names ("" when its value lists none).                 *)
Field == [name : {"content-length", "transfer-encoding", "other"},
          valid : BOOLEAN, length : Nat, coding : {"chunked", "other", ""}]

ASSUME ByteAssumption == CR # LF /\ CR \notin Text /\ LF \notin Text
ASSUME LimitAssumption == MaxLineBytes \in Nat /\ MaxHeaderBytes \in Nat
                          /\ MaxChunk \in Nat
ASSUME StreamAssumption == Streams \subseteq Seq(Byte) /\ MaxResets \in [Streams -> Nat]
ASSUME TableAssumption ==
  /\ DOMAIN StartLines \subseteq Line \ {<<>>}
  /\ \A l \in DOMAIN StartLines : StartLines[l] \in {200, 400, 505}
  /\ DOMAIN FieldLines \subseteq Line \ {<<>>}
  /\ \A l \in DOMAIN FieldLines : FieldLines[l] \in Field
  /\ DOMAIN SizeLines \subseteq Line \ {<<>>}
  /\ \A l \in DOMAIN SizeLines : SizeLines[l] \in Nat

VARIABLES
  buffer,      \* bytes fed and not yet consumed
  stateName,   \* state of the machine
  current,     \* the message being parsed
  ready,       \* messages finished and not yet taken
  lastError,   \* 0, or the status of the error that stopped the parser
  peeked,      \* <<line>> when peekLine() has cached a line, else <<>>
  call,        \* "advance" while feed() runs its loop, else "idle"
  unsent,      \* environment: bytes of the stream not yet fed
  allowed,     \* environment: calls of reset() the caller of this stream may make
  resets,      \* environment: calls of reset() so far
  offered,     \* history: bytes given to feed() since construction or reset()
  taken        \* history: messages returned by next() since then

progress == <<stateName, current, ready, lastError>>
environment == <<unsent, allowed, resets, offered, taken>>
vars == <<buffer, stateName, current, ready, lastError, peeked, call,
          unsent, allowed, resets, offered, taken>>

ParserState == {"START", "HEADERS", "BODY_LENGTH", "BODY_CHUNK_SIZE",
                "BODY_CHUNK_DATA", "BODY_CHUNK_TRAILERS", "DONE", "ERROR"}
LineStates == {"START", "HEADERS", "BODY_CHUNK_SIZE", "BODY_CHUNK_TRAILERS"}

(* ParseInProgress.  A size that the code leaves undefined is 0, as its    *)
(* "?? 0" reads it; an empty startLine is one not yet parsed.              *)
EmptyProgress ==
  [startLine |-> <<>>, headerLines |-> <<>>, headerBytes |-> 0,
   headersDone |-> FALSE, headers |-> <<>>, trailerLines |-> <<>>,
   trailerBytes |-> 0, body |-> <<>>, expected |-> 0,
   chunkSize |-> 0, chunkRead |-> 0]

Progress ==
  [startLine : Line, headerLines : Seq(Line), headerBytes : Nat,
   headersDone : BOOLEAN, headers : Seq(Field), trailerLines : Seq(Line),
   trailerBytes : Nat, body : Seq(Byte), expected : Nat,
   chunkSize : Nat, chunkRead : Nat]

Message == [startLine : Line, headers : Seq(Field), body : Seq(Byte),
            trailers : Seq(Field)]
-----------------------------------------------------------------------------
(* Helpers over sequences of bytes.                                        *)
Least(m, n) == IF m <= n THEN m ELSE n
Take(b, n) == SubSeq(b, 1, n)
Drop(b, n) == SubSeq(b, n + 1, Len(b))

(* How many CR and LF bytes stand before anything else: a set of one.      *)
LeadingBreaks(b) ==
  {n \in 0..Len(b) : /\ \A i \in 1..n : b[i] \in {CR, LF}
                     /\ n = Len(b) \/ b[n + 1] \notin {CR, LF}}

IsFirstCR(b, i) == b[i] = CR /\ \A j \in 1..(i - 1) : b[j] # CR
HasCR(b) == \E i \in 1..Len(b) : b[i] = CR

(* The line peekLine() returns on buffer b, with the number of bytes it    *)
(* and its CRLF occupy: a set of at most one record, empty where the       *)
(* method returns null or throws.                                          *)
PeekLine(b) ==
  IF peeked # <<>>
  THEN {[line |-> peeked[1], end |-> Len(peeked[1]) + 2]}
  ELSE {[line |-> Take(b, i - 1), end |-> i + 1] :
          i \in {k \in 1..(Len(b) - 1) :
                   IsFirstCR(b, k) /\ b[k + 1] = LF /\ k - 1 <= MaxLineBytes}}

(* Mutants of LineFault: a CR whose LF has not come yet taken for a bare   *)
(* one; no limit on a line that has not ended.                             *)
LineFaultEager(b) ==
  {400 : i \in {k \in 1..Len(b) : peeked = <<>> /\ IsFirstCR(b, k)
                                  /\ (k < Len(b) => b[k + 1] # LF)}}
LineFaultUnlimited(b) ==
  {400 : i \in {k \in 1..(Len(b) - 1) :
                  peeked = <<>> /\ IsFirstCR(b, k) /\ b[k + 1] # LF}}

(* The status peekLine() throws on buffer b, as a set of at most one: a    *)
(* bare CR is 400, a line longer than the limit 431.                       *)
LineFault(b) ==
  IF peeked # <<>> THEN {}
  ELSE {400 : i \in {k \in 1..(Len(b) - 1) : IsFirstCR(b, k) /\ b[k + 1] # LF}}
       \cup
       {431 : i \in {k \in 1..(Len(b) - 1) :
                       IsFirstCR(b, k) /\ b[k + 1] = LF /\ k - 1 > MaxLineBytes}}
       \cup
       {431 : i \in {n \in {Len(b)} : ~HasCR(b) /\ n > MaxLineBytes}}

LineIncomplete(b) == PeekLine(b) = {} /\ LineFault(b) = {}
-----------------------------------------------------------------------------
(* Header fields and the framing they announce.                            *)
FieldsOf(lines) == [i \in 1..Len(lines) |-> FieldLines[lines[i]]]
WellFormed(lines) == \A i \in 1..Len(lines) : lines[i] \in DOMAIN FieldLines

Named(fields, name) == {i \in 1..Len(fields) : fields[i].name = name}

(* getHeader(): the first field of that name, a set of at most one index.  *)
First(fields, name) ==
  {i \in Named(fields, name) : \A j \in 1..(i - 1) : fields[j].name # name}

(* The last coding the Transfer-Encoding fields name is chunked.           *)
IsChunked(fields) ==
  \E i \in Named(fields, "transfer-encoding") :
    /\ fields[i].coding = "chunked"
    /\ \A j \in Named(fields, "transfer-encoding") : j > i => fields[j].coding = ""

(* Mutant of BodyMode: a length beside a coding is not refused.            *)
BodyModeLenient(fields) ==
  LET lengths == {fields[i] : i \in First(fields, "content-length")}
  IN  IF Named(fields, "transfer-encoding") # {}
      THEN IF IsChunked(fields) THEN "BODY_CHUNK_SIZE" ELSE "ERROR"
      ELSE IF \E f \in lengths : ~f.valid THEN "ERROR"
      ELSE IF \E f \in lengths : f.length > 0 THEN "BODY_LENGTH" ELSE "DONE"

(* decideBodyMode(): the state the header section leads to; "DONE" stands  *)
(* for a message without a body, "ERROR" for a framing refused with 400.   *)
BodyMode(fields) ==
  LET encoded == Named(fields, "transfer-encoding") # {}
      lengths == {fields[i] : i \in First(fields, "content-length")}
  IN  IF encoded
      THEN IF lengths = {} /\ IsChunked(fields) THEN "BODY_CHUNK_SIZE" ELSE "ERROR"
      ELSE IF \E f \in lengths : ~f.valid THEN "ERROR"
      ELSE IF \E f \in lengths : f.length > 0 THEN "BODY_LENGTH" ELSE "DONE"

Announced(fields) ==
  IF BodyMode(fields) = "BODY_LENGTH"
  THEN fields[CHOOSE i \in First(fields, "content-length") : TRUE].length
  ELSE 0

Assemble(p, trailers) ==
  [startLine |-> p.startLine, headers |-> p.headers, body |-> p.body,
   trailers |-> trailers]
-----------------------------------------------------------------------------
Init ==
  /\ buffer = <<>>
  /\ stateName = "START"
  /\ current = EmptyProgress
  /\ ready = <<>>
  /\ lastError = 0
  /\ peeked = <<>>
  /\ call = "idle"
  /\ unsent \in Streams
  /\ allowed = MaxResets[unsent]
  /\ resets = 0
  /\ offered = <<>>
  /\ taken = <<>>

(* feed(chunk): the buffer takes the chunk and the loop starts.            *)
Feed(n) ==
  /\ call = "idle"
  /\ stateName # "ERROR"
  /\ n <= Len(unsent)
  /\ buffer' = buffer \o Take(unsent, n)
  /\ offered' = offered \o Take(unsent, n)
  /\ unsent' = Drop(unsent, n)
  /\ call' = "advance"
  /\ UNCHANGED <<progress, peeked, allowed, resets, taken>>

(* feed(chunk) on a parser in error: it throws lastError and keeps nothing *)
(* of the chunk.                                                           *)
FeedThrows(n) ==
  /\ call = "idle"
  /\ stateName = "ERROR"
  /\ n <= Len(unsent)
  /\ unsent' = Drop(unsent, n)
  /\ offered' = offered \o Take(unsent, n)
  /\ UNCHANGED <<buffer, progress, peeked, call, allowed, resets, taken>>

(* next(): the oldest finished message.                                    *)
TakeNext ==
  /\ call = "idle"
  /\ ready # <<>>
  /\ taken' = Append(taken, Head(ready))
  /\ ready' = Tail(ready)
  /\ UNCHANGED <<buffer, stateName, current, lastError, peeked, call,
                 unsent, allowed, resets, offered>>

(* reset(): every field but the two that cache a peeked line.              *)
Reset ==
  /\ call = "idle"
  /\ resets < allowed
  /\ resets' = resets + 1
  /\ buffer' = <<>>
  /\ stateName' = "START"
  /\ current' = EmptyProgress
  /\ ready' = <<>>
  /\ lastError' = 0
  /\ offered' = <<>>
  /\ taken' = <<>>
  /\ UNCHANGED <<peeked, call, unsent, allowed>>
-----------------------------------------------------------------------------
(* What an iteration of the loop may do: stop until more bytes arrive, go  *)
(* on in another state, throw, or finish a message.                        *)
Return == call' = "idle" /\ UNCHANGED progress

Goto(state, p) ==
  /\ stateName' = state
  /\ current' = p
  /\ UNCHANGED <<ready, lastError, call>>

(* Mutant of Fail: the finished messages are dropped with the error.       *)
FailEmpty(status, p) ==
  /\ stateName' = "ERROR"
  /\ lastError' = status
  /\ current' = p
  /\ call' = "idle"
  /\ ready' = <<>>

Fail(status, p) ==
  /\ stateName' = "ERROR"
  /\ lastError' = status
  /\ current' = p
  /\ call' = "idle"
  /\ UNCHANGED ready

FinishMessage(p, trailers) ==
  /\ ready' = Append(ready, Assemble(p, trailers))
  /\ current' = EmptyProgress
  /\ stateName' = "DONE"
  /\ UNCHANGED <<lastError, call>>

Consume(b, end) == buffer' = Drop(b, end) /\ peeked' = <<>>

(* The line a state waits for is not complete, or is one peekLine refuses. *)
AwaitLine(b) ==
  /\ buffer' = b
  /\ UNCHANGED peeked
  /\ \/ LineIncomplete(b) /\ Return
     \/ \E status \in LineFault(b) : Fail(status, current)

ParseStartLine ==
  /\ stateName = "START"
  /\ \E n \in LeadingBreaks(buffer) : LET b == Drop(buffer, n) IN
     \/ AwaitLine(b)
     \/ \E p \in PeekLine(b) :
          /\ Consume(b, p.end)
          /\ \/ /\ p.line \in DOMAIN StartLines
                /\ StartLines[p.line] = 200
                /\ Goto("HEADERS", [current EXCEPT !.startLine = p.line])
             \/ /\ p.line \in DOMAIN StartLines
                /\ StartLines[p.line] # 200
                /\ Fail(StartLines[p.line], current)
             \/ /\ p.line \notin DOMAIN StartLines
                /\ Fail(400, current)

(* One header line: counted against the limit before it is kept, and left  *)
(* in the peek cache when the limit is exceeded.                           *)
ParseHeaderLine ==
  /\ stateName = "HEADERS"
  /\ \/ AwaitLine(buffer)
     \/ \E p \in PeekLine(buffer) :
          LET counted == [current EXCEPT !.headerBytes = @ + Len(p.line) + 2]
          IN  /\ p.line # <<>>
              /\ \/ /\ counted.headerBytes > MaxHeaderBytes
                    /\ peeked' = <<p.line>>
                    /\ UNCHANGED buffer
                    /\ Fail(431, counted)
                 \/ /\ counted.headerBytes <= MaxHeaderBytes
                    /\ Consume(buffer, p.end)
                    /\ Goto("HEADERS",
                            [counted EXCEPT !.headerLines = Append(@, p.line)])

(* The blank line: the fields are parsed and the body mode decided.        *)
EndHeaders ==
  /\ stateName = "HEADERS"
  /\ \E p \in PeekLine(buffer) :
       LET lines  == current.headerLines
           fields == FieldsOf(lines)
           parsed == [current EXCEPT !.headers = fields, !.headersDone = TRUE,
                                     !.expected = Announced(fields)]
       IN  /\ p.line = <<>>
           /\ Consume(buffer, p.end)
           /\ \/ ~WellFormed(lines) /\ Fail(400, current)
              \/ /\ WellFormed(lines)
                 /\ BodyMode(fields) = "ERROR"
                 /\ Fail(400, parsed)
              \/ /\ WellFormed(lines)
                 /\ BodyMode(fields) = "DONE"
                 /\ FinishMessage(parsed, <<>>)
              \/ /\ WellFormed(lines)
                 /\ BodyMode(fields) \in {"BODY_LENGTH", "BODY_CHUNK_SIZE"}
                 /\ Goto(BodyMode(fields), parsed)

(* Mutants of ReadBody: whatever has come is the body; the loop goes round *)
(* on an empty buffer.                                                     *)
ReadBodyAnyLength ==
  /\ stateName = "BODY_LENGTH"
  /\ UNCHANGED peeked
  /\ \/ buffer = <<>> /\ UNCHANGED buffer /\ Return
     \/ /\ buffer # <<>>
        /\ buffer' = <<>>
        /\ FinishMessage([current EXCEPT !.body = @ \o buffer], <<>>)
ReadBodySpinning ==
  /\ stateName = "BODY_LENGTH"
  /\ UNCHANGED peeked
  /\ LET need == current.expected - Len(current.body)
         n    == Least(need, Len(buffer))
         read == [current EXCEPT !.body = @ \o Take(buffer, n)]
     IN  /\ buffer' = Drop(buffer, n)
         /\ \/ n = need /\ FinishMessage(read, <<>>)
            \/ n < need /\ Goto("BODY_LENGTH", read)

(* A body of announced length: as much of it as the buffer holds.          *)
ReadBody ==
  /\ stateName = "BODY_LENGTH"
  /\ UNCHANGED peeked
  /\ LET need == current.expected - Len(current.body)
         n    == Least(need, Len(buffer))
         read == [current EXCEPT !.body = @ \o Take(buffer, n)]
     IN  \/ need <= 0 /\ UNCHANGED buffer /\ FinishMessage(current, <<>>)
         \/ need > 0 /\ buffer = <<>> /\ UNCHANGED buffer /\ Return
         \/ /\ need > 0 /\ buffer # <<>>
            /\ buffer' = Drop(buffer, n)
            /\ \/ n = need /\ FinishMessage(read, <<>>)
               \/ n < need /\ Goto("BODY_LENGTH", read)

ParseChunkSize ==
  /\ stateName = "BODY_CHUNK_SIZE"
  /\ \/ AwaitLine(buffer)
     \/ \E p \in PeekLine(buffer) :
          /\ Consume(buffer, p.end)
          /\ \/ p.line \notin DOMAIN SizeLines /\ Fail(400, current)
             \/ /\ p.line \in DOMAIN SizeLines
                /\ Goto(IF SizeLines[p.line] = 0 THEN "BODY_CHUNK_TRAILERS"
                                                 ELSE "BODY_CHUNK_DATA",
                        [current EXCEPT !.chunkSize = SizeLines[p.line],
                                        !.chunkRead = 0])

(* Chunk data, as much as the buffer holds, then the CRLF that closes the  *)
(* chunk; both in one iteration when they are there.                       *)
ReadChunkData ==
  /\ stateName = "BODY_CHUNK_DATA"
  /\ UNCHANGED peeked
  /\ LET n    == Least(current.chunkSize - current.chunkRead, Len(buffer))
         read == [current EXCEPT !.body = @ \o Take(buffer, n), !.chunkRead = @ + n]
         rest == Drop(buffer, n)
         whole == read.chunkRead = read.chunkSize
     IN  \/ /\ ~whole \/ Len(rest) < 2
            /\ buffer' = rest
            /\ current' = read
            /\ call' = "idle"
            /\ UNCHANGED <<stateName, ready, lastError>>
         \/ /\ whole /\ Len(rest) >= 2
            /\ Take(rest, 2) # <<CR, LF>>
            /\ buffer' = rest
            /\ Fail(400, read)
         \/ /\ whole /\ Len(rest) >= 2
            /\ Take(rest, 2) = <<CR, LF>>
            /\ buffer' = Drop(rest, 2)
            /\ Goto("BODY_CHUNK_SIZE", read)

(* Trailer lines carry no limit of their own: parseHeaderLines() applies   *)
(* the one of the header section once the blank line has come.             *)
ParseTrailerLine ==
  /\ stateName = "BODY_CHUNK_TRAILERS"
  /\ \/ AwaitLine(buffer)
     \/ \E p \in PeekLine(buffer) :
          /\ p.line # <<>>
          /\ Consume(buffer, p.end)
          /\ Goto("BODY_CHUNK_TRAILERS",
                  [current EXCEPT !.trailerLines = Append(@, p.line),
                                  !.trailerBytes = @ + Len(p.line) + 2])

EndTrailers ==
  /\ stateName = "BODY_CHUNK_TRAILERS"
  /\ \E p \in PeekLine(buffer) :
       LET lines == current.trailerLines
       IN  /\ p.line = <<>>
           /\ Consume(buffer, p.end)
           /\ \/ current.trailerBytes > MaxHeaderBytes /\ Fail(431, current)
              \/ /\ current.trailerBytes <= MaxHeaderBytes
                 /\ ~WellFormed(lines)
                 /\ Fail(400, current)
              \/ /\ current.trailerBytes <= MaxHeaderBytes
                 /\ WellFormed(lines)
                 /\ FinishMessage(current, FieldsOf(lines))

(* Mutant of StartOver: the loop stops after every message.                *)
StartOverStopping ==
  /\ stateName = "DONE"
  /\ stateName' = "START"
  /\ current' = EmptyProgress
  /\ call' = "idle"
  /\ UNCHANGED <<buffer, ready, lastError, peeked>>

(* A finished message: back to START, and on with what is left.            *)
StartOver ==
  /\ stateName = "DONE"
  /\ stateName' = "START"
  /\ current' = EmptyProgress
  /\ call' = IF buffer = <<>> THEN "idle" ELSE call
  /\ UNCHANGED <<buffer, ready, lastError, peeked>>

Advance ==
  /\ call = "advance"
  /\ UNCHANGED environment
  /\ \/ ParseStartLine
     \/ ParseHeaderLine
     \/ EndHeaders
     \/ ReadBody
     \/ ParseChunkSize
     \/ ReadChunkData
     \/ ParseTrailerLine
     \/ EndTrailers
     \/ StartOver
-----------------------------------------------------------------------------
Next ==
  \/ \E n \in 1..MaxChunk : Feed(n) \/ FeedThrows(n)
  \/ TakeNext
  \/ Reset
  \/ Advance

(* feed() runs to its end; the caller owes the parser nothing.             *)
Spec == Init /\ [][Next]_vars /\ WF_vars(Advance)
-----------------------------------------------------------------------------
(* Every variable keeps its type: the fields of HttpMessageParser in         *)
(* parser.ts:58-62 and :299-300.                                           *)
TypeOK ==
  /\ buffer \in Seq(Byte)
  /\ stateName \in ParserState
  /\ current \in Progress
  /\ ready \in Seq(Message)
  /\ lastError \in {0, 400, 431, 505}
  /\ peeked \in Seq(Line) /\ Len(peeked) <= 1
  /\ call \in {"idle", "advance"}
  /\ unsent \in Seq(Byte)
  /\ resets \in Nat /\ allowed \in Nat
  /\ offered \in Seq(Byte)
  /\ taken \in Seq(Message)

Messages == {taken[i] : i \in 1..Len(taken)} \cup {ready[i] : i \in 1..Len(ready)}

(* The framing a header section announces, after RFC 9112, sections 6.1 to *)
(* 6.3, and spec/03, and not after decideBodyMode(): chunks, when the last *)
(* coding that is named is chunked and no length stands beside it; else    *)
(* the lengths the body may have, of which there is none when a coding is  *)
(* named or the length is no number, and one otherwise: what the first     *)
(* Content-Length says, 0 where none says anything.                        *)
AnnouncesChunks(fields) ==
  /\ \A i \in 1..Len(fields) : fields[i].name # "content-length"
  /\ \E i \in 1..Len(fields) :
       /\ fields[i].name = "transfer-encoding" /\ fields[i].coding = "chunked"
       /\ \A j \in 1..Len(fields) :
            fields[j].name = "transfer-encoding" /\ fields[j].coding # "" => j <= i
AnnouncedLengths(fields) ==
  LET names == {fields[i].name : i \in 1..Len(fields)}
      told  == {i \in 1..Len(fields) :
                  /\ fields[i].name = "content-length"
                  /\ \A j \in 1..Len(fields) : fields[j].name = "content-length" => i <= j}
  IN  IF "transfer-encoding" \in names THEN {}
      ELSE IF "content-length" \in names
      THEN {fields[i].length : i \in {k \in told : fields[k].valid}}
      ELSE {0}

(* The body of a message that left the parser is the one its own header    *)
(* fields announce: exactly Content-Length bytes, none when no field       *)
(* announces a body; and no message left it whose framing is to be refused *)
(* (both fields, a coding other than chunked, a length that is no number). *)
Framed(m) ==
  /\ \/ AnnouncesChunks(m.headers)
     \/ Len(m.body) \in AnnouncedLengths(m.headers) /\ m.trailers = <<>>
  /\ m.startLine # <<>>
MessagesFramed == \A m \in Messages : Framed(m)

(* Why it holds: what the machine knows of the message it is in the middle *)
(* of.  This is the inductive invariant, with TypeOK, behind               *)
(* MessagesFramed and ErrorLatched.                                        *)
Progressing ==
  /\ stateName \in {"START", "HEADERS"} => current.body = <<>>
  /\ stateName \notin {"START", "DONE", "ERROR"} => current.startLine # <<>>
  /\ stateName = "BODY_LENGTH" =>
       /\ BodyMode(current.headers) = "BODY_LENGTH"
       /\ current.expected = Announced(current.headers)
       /\ Len(current.body) < current.expected
  /\ stateName \in {"BODY_CHUNK_SIZE", "BODY_CHUNK_DATA", "BODY_CHUNK_TRAILERS"} =>
       BodyMode(current.headers) = "BODY_CHUNK_SIZE"
  /\ current.chunkRead <= current.chunkSize
  /\ stateName = "ERROR" => call = "idle"

ParserInv == TypeOK /\ Progressing /\ MessagesFramed

(* Between two calls the parser holds no byte it could have consumed: one  *)
(* unfinished line, of which at most the last byte is a CR, at most one of *)
(* the two bytes that close a chunk, nothing of a body.  However long a    *)
(* message, the buffer stays within the line limit and one fed chunk.      *)
BufferBounded ==
  call = "idle" =>
    /\ stateName \in LineStates =>
         IF HasCR(buffer)
         THEN IsFirstCR(buffer, Len(buffer)) /\ Len(buffer) <= MaxLineBytes + MaxChunk
         ELSE Len(buffer) <= MaxLineBytes
    /\ stateName = "BODY_LENGTH" => buffer = <<>>
    /\ stateName = "BODY_CHUNK_DATA" => Len(buffer) < 2
    /\ stateName # "DONE"

(* Why it holds: what a buffer may hold while feed() runs.  It never holds  *)
(* more than an unfinished line and a fed chunk, or else a line that is    *)
(* finished, with less than a chunk behind it; a peeked line that outlives *)
(* the error it was peeked for is met by nothing but a fed chunk.          *)
Most == MaxLineBytes + MaxChunk
Held(b) ==
  \/ Len(b) <= Most
  \/ \E k \in 1..(Len(b) - 1) : IsFirstCR(b, k) /\ Len(b) - k <= MaxChunk
BufferHeld ==
  call = "advance" =>
    /\ stateName \in LineStates => Held(buffer)
    /\ stateName \in {"BODY_LENGTH", "DONE"} => Len(buffer) <= Most
    /\ stateName = "BODY_CHUNK_DATA" => Len(buffer) <= Most + 1
PeekedHeld ==
  peeked # <<>> /\ stateName # "ERROR" =>
    /\ stateName = "START"
    /\ Len(buffer) <= IF call = "idle" THEN 0 ELSE MaxChunk
BufferInv == BufferBounded /\ BufferHeld /\ PeekedHeld

(* An error stays until reset(): feed() and next() neither leave ERROR nor *)
(* change the error, and no message is finished after it.                  *)
ErrorLatched ==
  [][stateName = "ERROR" /\ resets' = resets =>
       /\ UNCHANGED <<stateName, lastError, buffer, current>>
       /\ taken' \o ready' = taken \o ready]_vars

(* For its caller the parser is a queue of finished messages: they leave   *)
(* in the order they were finished, an error ends them but takes none away *)
(* (feed, next and reset, parser.ts:66-90).                                *)
Promised == INSTANCE MessageSource
              WITH queue <- ready, given <- taken, failed <- (stateName = "ERROR")
SourceOfMessages == Promised!Spec

(* feed() returns: the loop of advance() stops on every buffer.            *)
AdvanceReturns == call = "advance" ~> call = "idle"
=============================================================================
