--------------------------- MODULE HttpReference ---------------------------
(***************************************************************************)
(* What a byte string means, read as a whole: the messages it holds and    *)
(* the error that stops it, by recursion on the string.  This is the       *)
(* reference the incremental machine of HttpParser is compared with; it    *)
(* has no buffer, no states and no peek cache.                             *)
(***************************************************************************)
EXTENDS HttpParser

(* The outcome of reading one piece of grammar at the front of a string:   *)
(* "ok" with its value and the rest, "more" when the string ends first,    *)
(* "bad" with a status.  at is the string the reading stopped in.          *)
Ok(value, rest) == [kind |-> "ok", value |-> value, at |-> rest, status |-> 0]
More(b) == [kind |-> "more", value |-> <<>>, at |-> b, status |-> 0]
Bad(status, b) == [kind |-> "bad", value |-> <<>>, at |-> b, status |-> status]
Outcome(Values) == [kind : {"ok", "more", "bad"}, value : Values \cup {<<>>},
                    at : Seq(Byte), status : {0, 400, 431, 505}]

LineEndingAt(b, i) ==
  IF i = Len(b) THEN More(b)
  ELSE IF b[i + 1] # LF THEN Bad(400, b)
  ELSE IF i - 1 > MaxLineBytes THEN Bad(431, b)
  ELSE Ok(Take(b, i - 1), Drop(b, i + 1))

ReadLine(b) ==
  IF HasCR(b) THEN LineEndingAt(b, CHOOSE i \in 1..Len(b) : IsFirstCR(b, i))
  ELSE IF Len(b) > MaxLineBytes THEN Bad(431, b) ELSE More(b)

(* Lines up to a blank one, with their size, which may be limited while    *)
(* they are read: of the header section it is, of the trailers it is not.  *)
Section == [at : Seq(Byte), lines : Seq(Line), size : Nat, limited : BOOLEAN]
Opened(b, limited) == [at |-> b, lines |-> <<>>, size |-> 0, limited |-> limited]
WithLine(s, l) ==
  [s EXCEPT !.at = l.at, !.lines = Append(@, l.value), !.size = @ + Len(l.value) + 2]
TooLong(s) == s.limited /\ s.size > MaxHeaderBytes

ReadSection[s \in Section] ==
  LET l == ReadLine(s.at)
  IN  IF l.kind # "ok" THEN l
      ELSE IF l.value = <<>> THEN Ok(s, l.at)
      ELSE IF TooLong(WithLine(s, l)) THEN Bad(431, <<>>)
      ELSE ReadSection[WithLine(s, l)]

(* A chunked body, up to and with its last, empty chunk.                   *)
Chunks == [at : Seq(Byte), body : Seq(Byte)]
ChunkThere(n, c) == Len(c.at) >= n + 2 /\ SubSeq(c.at, n + 1, n + 2) = <<CR, LF>>
WithChunk(n, c) == [at |-> Drop(c.at, n + 2), body |-> c.body \o Take(c.at, n)]
NoChunk(n, c) == IF Len(c.at) < n + 2 THEN More(<<>>) ELSE Bad(400, <<>>)

ReadChunks[c \in Chunks] ==
  LET l    == ReadLine(c.at)
      n    == SizeLines[l.value]
      data == [c EXCEPT !.at = l.at]
  IN  IF l.kind # "ok" THEN l
      ELSE IF l.value \notin DOMAIN SizeLines THEN Bad(400, <<>>)
      ELSE IF n = 0 THEN Ok(c.body, l.at)
      ELSE IF ChunkThere(n, data) THEN ReadChunks[WithChunk(n, data)]
      ELSE NoChunk(n, data)

(* What a message is once a part of it has been read: its trailers, its    *)
(* chunks, its header section, its start line.                             *)
Message1(line, fields, body, trailers) ==
  [startLine |-> line, headers |-> fields, body |-> body, trailers |-> trailers]

AfterTrailers(line, fields, body, t) ==
  IF t.kind # "ok" THEN t
  ELSE IF t.value.size > MaxHeaderBytes THEN Bad(431, <<>>)
  ELSE IF ~WellFormed(t.value.lines) THEN Bad(400, <<>>)
  ELSE Ok(Message1(line, fields, body, FieldsOf(t.value.lines)), t.at)

AfterChunks(line, fields, c) ==
  IF c.kind # "ok" THEN c
  ELSE AfterTrailers(line, fields, c.value, ReadSection[Opened(c.at, FALSE)])

ReadCounted(line, fields, b, n) ==
  IF Len(b) < n THEN More(<<>>)
  ELSE Ok(Message1(line, fields, Take(b, n), <<>>), Drop(b, n))

ReadBodyOf(line, fields, b) ==
  IF AnnouncesChunks(fields)
  THEN AfterChunks(line, fields, ReadChunks[[at |-> b, body |-> <<>>]])
  ELSE IF AnnouncedLengths(fields) = {} THEN Bad(400, <<>>)
  ELSE ReadCounted(line, fields, b, CHOOSE n \in AnnouncedLengths(fields) : TRUE)

AfterHeaders(line, h) ==
  IF h.kind # "ok" THEN h
  ELSE IF ~WellFormed(h.value.lines) THEN Bad(400, <<>>)
  ELSE ReadBodyOf(line, FieldsOf(h.value.lines), h.at)

AfterStartLine(l) ==
  IF l.kind # "ok" THEN l
  ELSE IF l.value \notin DOMAIN StartLines THEN Bad(400, <<>>)
  ELSE IF StartLines[l.value] # 200 THEN Bad(StartLines[l.value], <<>>)
  ELSE AfterHeaders(l.value, ReadSection[Opened(l.at, TRUE)])

Unbroken(b) == Drop(b, CHOOSE n \in LeadingBreaks(b) : TRUE)
ReadMessage(b) == AfterStartLine(ReadLine(Unbroken(b)))

(* All messages of a string, and where and why the reading stopped.        *)
Reading == [at : Seq(Byte), messages : Seq(Message)]
Stopped(r, m) == [messages |-> r.messages, status |-> m.status, at |-> m.at]
WithMessage(r, m) == [at |-> m.at, messages |-> Append(r.messages, m.value)]

ReadMessages[r \in Reading] ==
  LET m == ReadMessage(r.at)
  IN  IF m.kind = "ok" THEN ReadMessages[WithMessage(r, m)] ELSE Stopped(r, m)

Meaning(b) == ReadMessages[[at |-> b, messages |-> <<>>]]

(* The reading stopped in a line longer than the limit.                    *)
InLongLine(at) ==
  LET line == {n \in 0..Len(at) : /\ \A i \in 1..n : at[i] # CR
                                  /\ n = Len(at) \/ at[n + 1] = CR}
  IN  \A n \in line : n > MaxLineBytes
-----------------------------------------------------------------------------
Agrees(meaning) ==
  /\ taken \o ready = meaning.messages
  /\ \/ lastError = meaning.status
     \/ lastError = 431 /\ InLongLine(meaning.at)
  /\ (stateName = "ERROR") <=> (lastError # 0)

(* feed() "must give the same result at any byte boundary" (parser.ts:20,  *)
(* comment, translated): whatever the chunks, between two calls the        *)
(* messages that came out are those the bytes hold read as a whole, in     *)
(* order, and the parser is in error exactly when they are, with the same  *)
(* status.  In one respect the code falls short of that: a line over the   *)
(* limit is refused with 431 before its CR has come (parser.ts:304-307),   *)
(* where the whole of it may be a 400, or not yet refused.                 *)
BoundaryIndependent == call = "idle" => Agrees(Meaning(offered))

(* After reset() the parser reads what it is fed as a new one would:       *)
(* parser.ts:68-74, "reset 호출 시에만 복구" (spec/03, section 8).                 *)
ResetRecovers == resets > 0 => BoundaryIndependent
=============================================================================
