-------------------------- MODULE HttpParserProofs --------------------------
(***************************************************************************)
(* Theorems about HttpParser and WholeStream, for every alphabet, table,   *)
(* limit and stream.                                                       *)
(***************************************************************************)
EXTENDS WholeStream, SequenceTheorems, WellFoundedInduction, TLAPS

(* Every nonempty set of natural numbers has a least element: what         *)
(* indexOf() finds, and what stands for induction in these proofs.         *)
LEMMA LeastElement ==
  ASSUME NEW T \in SUBSET Nat, T # {}
  PROVE  \E m \in T : \A n \in T : m <= n
<1> DEFINE R == {ss \in Nat \X Nat : ss[1] < ss[2]}
<1>1. IsWellFoundedOn(R, Nat)
  BY NatLessThanWellFounded DEF OpToRel
<1> HIDE DEF R
<1>2. PICK m \in T : \A n \in T : ~(<<n, m>> \in R)
  BY <1>1, WFMin
<1>3. \A n \in T : ~(n < m)
  BY <1>2 DEF R
<1> QED
  BY <1>3

(* A prefix and a suffix of a sequence are sequences of the same elements. *)
LEMMA TakeType ==
  ASSUME NEW S, NEW b \in Seq(S), NEW n \in 0..Len(b)
  PROVE  Take(b, n) \in Seq(S) /\ Len(Take(b, n)) = n
<1>1. \A i \in 1..n : b[i] \in S
  BY ElementOfSeq, LenProperties
<1> QED
  BY <1>1, SubSeqProperties, LenProperties DEF Take

(* What is left of a buffer after its first bytes is a sequence of bytes:  *)
(* Buffer.subarray.                                                        *)
LEMMA DropType ==
  ASSUME NEW S, NEW b \in Seq(S), NEW n \in Nat
  PROVE  Drop(b, n) \in Seq(S)
<1>1. \A i \in (n + 1)..Len(b) : b[i] \in S
  BY ElementOfSeq, LenProperties
<1> QED
  BY <1>1, SubSeqProperties, LenProperties DEF Drop

(* What peekLine() returns is a line and a number of bytes.                *)
LEMMA PeekLineType ==
  ASSUME TypeOK, NEW b \in Seq(Byte), NEW p \in PeekLine(b)
  PROVE  p.line \in Line /\ p.end \in Nat
<1>1. CASE peeked # <<>>
  <2>1. peeked \in Seq(Line) /\ Len(peeked) \in Nat /\ Len(peeked) # 0
    BY <1>1, LenProperties, EmptySeq DEF TypeOK
  <2>2. peeked[1] \in Line
    BY <2>1, ElementOfSeq
  <2>3. p = [line |-> peeked[1], end |-> Len(peeked[1]) + 2]
    BY <1>1 DEF PeekLine
  <2> QED
    BY <2>2, <2>3, LenProperties DEF Line
<1>2. CASE peeked = <<>>
  <2>1. PICK i \in 1..(Len(b) - 1) : p = [line |-> Take(b, i - 1), end |-> i + 1]
    BY <1>2 DEF PeekLine
  <2>2. i - 1 \in 0..Len(b)
    BY LenProperties
  <2> QED
    BY <2>1, <2>2, TakeType DEF Line
<1> QED
  BY <1>1, <1>2

(* A status peekLine() throws is 400 or 431.                               *)
LEMMA LineFaultType ==
  ASSUME NEW b, NEW status \in LineFault(b)
  PROVE  status \in {400, 431}
BY DEF LineFault
-----------------------------------------------------------------------------
(* The parts of TypeOK an iteration of the loop works on, and what each of *)
(* its outcomes keeps of them.                                             *)
MachineOK ==
  /\ stateName \in ParserState
  /\ current \in Progress
  /\ ready \in Seq(Message)
  /\ lastError \in {0, 400, 431, 505}
  /\ call \in {"idle", "advance"}

PeekedOK == peeked \in Seq(Line) /\ Len(peeked) <= 1

(* The empty progress of parser.ts:335-343 has the type of a progress.     *)
LEMMA EmptyProgressType == EmptyProgress \in Progress
BY EmptySeq DEF EmptyProgress, Progress, Line

(* Moving to another parser state keeps the machine typed.                 *)
LEMMA GotoType ==
  ASSUME MachineOK, NEW s \in ParserState, NEW p \in Progress, Goto(s, p)
  PROVE  MachineOK'
BY DEF MachineOK, Goto

(* Recording a parse error (parser.ts:281-289) keeps the machine typed.    *)
LEMMA FailType ==
  ASSUME MachineOK, NEW status \in {400, 431, 505}, NEW p \in Progress, Fail(status, p)
  PROVE  MachineOK'
BY DEF MachineOK, Fail, ParserState

(* What assemble() builds from a typed progress is a message               *)
(* (parser.ts:355-367).                                                    *)
LEMMA AssembleType ==
  ASSUME NEW p \in Progress, NEW trailers \in Seq(Field)
  PROVE  Assemble(p, trailers) \in Message
BY DEF Assemble, Message, Progress

(* Finishing a message (parser.ts:274-279) keeps the machine typed.        *)
LEMMA FinishType ==
  ASSUME MachineOK, NEW p \in Progress, NEW trailers \in Seq(Field),
         FinishMessage(p, trailers)
  PROVE  MachineOK'
<1>1. Assemble(p, trailers) \in Message
  BY AssembleType
<1> QED
  BY <1>1, EmptyProgressType DEF MachineOK, FinishMessage, ParserState

(* Waiting for the rest of a line (parser.ts:292-297) keeps machine and    *)
(* buffer typed.                                                           *)
LEMMA AwaitType ==
  ASSUME TypeOK, NEW b \in Seq(Byte), AwaitLine(b)
  PROVE  MachineOK' /\ PeekedOK' /\ buffer' \in Seq(Byte)
<1>1. MachineOK /\ PeekedOK
  BY DEF TypeOK, MachineOK, PeekedOK
<1>2. PeekedOK' /\ buffer' \in Seq(Byte)
  BY <1>1 DEF AwaitLine, PeekedOK
<1>3. CASE Return
  BY <1>1, <1>2, <1>3 DEF Return, progress, MachineOK
<1>4. ASSUME NEW status \in LineFault(b), Fail(status, current)
      PROVE  MachineOK'
  <2>1. status \in {400, 431, 505}
    BY LineFaultType
  <2> QED
    BY <1>1, <1>4, <2>1, FailType DEF MachineOK
<1> QED
  BY <1>2, <1>3, <1>4 DEF AwaitLine

(* Consuming a line (parser.ts:323-328) leaves a typed buffer and no       *)
(* peeked line.                                                            *)
LEMMA ConsumeType ==
  ASSUME NEW b \in Seq(Byte), NEW n \in Nat, Consume(b, n)
  PROVE  PeekedOK' /\ buffer' \in Seq(Byte)
BY DropType DEF Consume, PeekedOK

(* Well-formed header lines parse to as many fields (parse-                *)
(* headers.ts:23-71).                                                      *)
LEMMA FieldsType ==
  ASSUME NEW lines \in Seq(Line), WellFormed(lines)
  PROVE  FieldsOf(lines) \in Seq(Field) /\ Len(FieldsOf(lines)) = Len(lines)
<1>1. \A i \in 1..Len(lines) : FieldLines[lines[i]] \in Field
  BY TableAssumption DEF WellFormed
<1>2. Len(lines) \in Nat
  BY LenProperties
<1>3. FieldsOf(lines) \in [1..Len(lines) -> Field]
  BY <1>1 DEF FieldsOf
<1> QED
  BY <1>2, <1>3, SeqDef, LenProperties

(* The length a Content-Length announces is a natural number               *)
(* (parser.ts:249-265).                                                    *)
LEMMA AnnouncedType ==
  ASSUME NEW fields \in Seq(Field)
  PROVE  Announced(fields) \in Nat
<1>1. CASE BodyMode(fields) = "BODY_LENGTH"
  <2>1. First(fields, "content-length") # {}
    BY <1>1 DEF BodyMode
  <2>2. \A i \in First(fields, "content-length") : i \in 1..Len(fields)
    BY DEF First, Named
  <2>3. (CHOOSE i \in First(fields, "content-length") : TRUE) \in 1..Len(fields)
    BY <2>1, <2>2
  <2>4. fields[CHOOSE i \in First(fields, "content-length") : TRUE] \in Field
    BY <2>3, ElementOfSeq
  <2> QED
    BY <1>1, <2>4 DEF Announced, Field
<1>2. CASE BodyMode(fields) # "BODY_LENGTH"
  BY <1>2 DEF Announced
<1> QED
  BY <1>1, <1>2
(* A field that is named comes first somewhere.                            *)
LEMMA FirstNamed ==
  ASSUME NEW fields \in Seq(Field), NEW name, Named(fields, name) # {}
  PROVE  First(fields, name) # {}
<1> DEFINE T == Named(fields, name)
<1>1. Len(fields) \in Nat
  BY LenProperties
<1>2. PICK i \in T : \A j \in T : i <= j
  <2>1. T \in SUBSET Nat
    BY <1>1 DEF Named
  <2> HIDE DEF T
  <2> QED
    BY <2>1, LeastElement DEF T
<1>3. i \in 1..Len(fields) /\ fields[i].name = name
  BY DEF Named
<1>4. ASSUME NEW j \in 1..(i - 1) PROVE fields[j].name # name
  <2>1. j \in 1..Len(fields) /\ ~(i <= j)
    BY <1>1, <1>3
  <2> QED
    BY <1>2, <2>1 DEF Named
<1> QED
  BY <1>3, <1>4 DEF First, Named

(* decideBodyMode() decides what the header fields announce                *)
(* (parser.ts:221-272).                                                    *)
LEMMA FramingIs ==
  ASSUME NEW fields \in Seq(Field)
  PROVE  /\ AnnouncesChunks(fields) <=> BodyMode(fields) = "BODY_CHUNK_SIZE"
         /\ BodyMode(fields) = "ERROR" => AnnouncedLengths(fields) = {}
         /\ BodyMode(fields) \in {"BODY_LENGTH", "DONE"} =>
              AnnouncedLengths(fields) = {Announced(fields)}
<1> DEFINE n == Len(fields)
           cl == First(fields, "content-length")
           names == {fields[i].name : i \in 1..n}
           told == {i \in 1..n : /\ fields[i].name = "content-length"
                                 /\ \A j \in 1..n : fields[j].name = "content-length" => i <= j}
<1>1. n \in Nat /\ \A i \in 1..n : fields[i] \in Field /\ fields[i].length \in Nat
  <2>1. \A f \in Field : f.length \in Nat
    BY DEF Field
  <2> QED
    BY <2>1, LenProperties, ElementOfSeq
<1>2. cl = told
  BY <1>1 DEF First, Named
<1>3. cl = {} <=> "content-length" \notin names
  <2>1. cl = {} => Named(fields, "content-length") = {}
    BY FirstNamed
  <2> QED
    BY <2>1 DEF First, Named
<1>4. Named(fields, "transfer-encoding") # {} <=> "transfer-encoding" \in names
  BY DEF Named
<1>5. IsChunked(fields) <=>
        \E i \in 1..n :
          /\ fields[i].name = "transfer-encoding" /\ fields[i].coding = "chunked"
          /\ \A j \in 1..n :
               fields[j].name = "transfer-encoding" /\ fields[j].coding # "" => j <= i
  <2> DEFINE T == Named(fields, "transfer-encoding")
             Last(i) == \A j \in T : j > i => fields[j].coding = ""
             After(i) == \A j \in 1..n :
                           fields[j].name = "transfer-encoding" /\ fields[j].coding # "" => j <= i
  <2>1. T = {i \in 1..n : fields[i].name = "transfer-encoding"}
    BY DEF Named
  <2> HIDE DEF T
  <2>2. ASSUME NEW i \in 1..n PROVE Last(i) <=> After(i)
    <3>1. \A j \in 1..n : ~(j > i) <=> j <= i
      BY <1>1
    <3> QED
      BY <2>1, <3>1
  <2>3. IsChunked(fields) <=> \E i \in T : fields[i].coding = "chunked" /\ Last(i)
    BY Zenon DEF IsChunked, T
  <2> HIDE DEF Last
  <2> QED
    BY <2>1, <2>2, <2>3
<1>6. AnnouncesChunks(fields) <=> "content-length" \notin names /\ IsChunked(fields)
  BY <1>5 DEF AnnouncesChunks
<1>7. IsChunked(fields) => Named(fields, "transfer-encoding") # {}
  BY DEF IsChunked
<1>8. AnnouncesChunks(fields) <=> BodyMode(fields) = "BODY_CHUNK_SIZE"
  BY <1>3, <1>6, <1>7 DEF BodyMode
<1>9. AnnouncedLengths(fields) =
        IF Named(fields, "transfer-encoding") # {} THEN {}
        ELSE IF cl = {} THEN {0}
        ELSE {fields[i].length : i \in {k \in cl : fields[k].valid}}
  BY <1>2, <1>3, <1>4 DEF AnnouncedLengths
<1>10. \A i, j \in cl : i = j
  BY <1>1, <1>2
<1>11. cl \subseteq 1..n
  BY DEF First, Named
<1> HIDE DEF n, cl, names, told
<1>12. ASSUME BodyMode(fields) = "ERROR" PROVE AnnouncedLengths(fields) = {}
  <2>1. \/ Named(fields, "transfer-encoding") # {}
        \/ \E i \in cl : ~fields[i].valid
    BY <1>12 DEF BodyMode, cl
  <2> QED
    BY <1>9, <1>10, <2>1
<1>13. ASSUME BodyMode(fields) \in {"BODY_LENGTH", "DONE"}
       PROVE  AnnouncedLengths(fields) = {Announced(fields)}
  <2>1. Named(fields, "transfer-encoding") = {} /\ \A i \in cl : fields[i].valid
    BY <1>13 DEF BodyMode, cl
  <2>2. CASE cl = {}
    <3>1. BodyMode(fields) # "BODY_LENGTH"
      BY <2>2 DEF BodyMode, cl
    <3> QED
      BY <1>9, <2>1, <2>2, <3>1 DEF Announced
  <2>3. ASSUME NEW i \in cl PROVE AnnouncedLengths(fields) = {Announced(fields)}
    <3>1. cl = {i}
      BY <1>10, <2>3
    <3>2. AnnouncedLengths(fields) = {fields[i].length}
      BY <1>9, <2>1, <3>1
    <3>3. (CHOOSE k \in cl : TRUE) = i
      BY <3>1
    <3>4. fields[i].length \in Nat
      BY <1>1, <1>11, <2>3
    <3>5. CASE BodyMode(fields) = "BODY_LENGTH"
      BY <3>2, <3>3, <3>5 DEF Announced, cl
    <3>6. CASE BodyMode(fields) = "DONE"
      <4>1. ~(fields[i].length > 0)
        BY <2>3, <3>6 DEF BodyMode, cl
      <4> QED
        BY <3>2, <3>4, <3>6, <4>1 DEF Announced
    <3> QED
      BY <1>13, <3>5, <3>6
  <2> QED
    BY <2>2, <2>3
<1> QED
  BY <1>8, <1>12, <1>13
-----------------------------------------------------------------------------
(* One lemma per iteration of the loop: what it may do to the variables    *)
(* the loop works on.                                                      *)
LoopOK == MachineOK /\ PeekedOK /\ buffer \in Seq(Byte)

(* START_LINE keeps the types (parser.ts:96-110).                          *)
LEMMA ParseStartLineType ==
  ASSUME TypeOK, ParseStartLine
  PROVE  LoopOK'
<1>0. MachineOK /\ PeekedOK
  BY DEF TypeOK, MachineOK, PeekedOK
<1>1. PICK n \in LeadingBreaks(buffer) :
        \/ AwaitLine(Drop(buffer, n))
        \/ \E p \in PeekLine(Drop(buffer, n)) :
             /\ Consume(Drop(buffer, n), p.end)
             /\ \/ Goto("HEADERS", [current EXCEPT !.startLine = p.line])
                \/ /\ p.line \in DOMAIN StartLines
                   /\ StartLines[p.line] # 200
                   /\ Fail(StartLines[p.line], current)
                \/ Fail(400, current)
  BY DEF ParseStartLine
<1> DEFINE b == Drop(buffer, n)
<1>2. b \in Seq(Byte)
  <2>1. n \in Nat
    BY LenProperties DEF TypeOK, LeadingBreaks
  <2> QED
    BY <2>1, DropType DEF TypeOK
<1> HIDE DEF b
<1>3. CASE AwaitLine(b)
  BY <1>2, <1>3, AwaitType DEF LoopOK
<1>4. ASSUME NEW p \in PeekLine(b), Consume(b, p.end),
             \/ Goto("HEADERS", [current EXCEPT !.startLine = p.line])
             \/ /\ p.line \in DOMAIN StartLines
                /\ StartLines[p.line] # 200
                /\ Fail(StartLines[p.line], current)
             \/ Fail(400, current)
      PROVE  LoopOK'
  <2>1. p.line \in Line /\ p.end \in Nat
    BY <1>2, PeekLineType
  <2>2. PeekedOK' /\ buffer' \in Seq(Byte)
    BY <1>2, <1>4, <2>1, ConsumeType
  <2>3. CASE Goto("HEADERS", [current EXCEPT !.startLine = p.line])
    <3>1. [current EXCEPT !.startLine = p.line] \in Progress
      BY <1>0, <2>1 DEF MachineOK, Progress
    <3>2. "HEADERS" \in ParserState
      BY DEF ParserState
    <3> QED
      BY <1>0, <2>2, <2>3, <3>1, <3>2, GotoType DEF LoopOK
  <2>4. CASE /\ p.line \in DOMAIN StartLines
             /\ StartLines[p.line] # 200
             /\ Fail(StartLines[p.line], current)
    <3>1. StartLines[p.line] \in {400, 431, 505}
      BY <2>4, TableAssumption
    <3>2. current \in Progress
      BY <1>0 DEF MachineOK
    <3> QED
      BY <1>0, <2>2, <2>4, <3>1, <3>2, FailType DEF LoopOK
  <2>5. CASE Fail(400, current)
    BY <1>0, <2>2, <2>5, FailType DEF LoopOK, MachineOK
  <2> QED
    BY <1>4, <2>3, <2>4, <2>5
<1> QED
  BY <1>1, <1>3, <1>4 DEF b

(* A header line keeps the types (parser.ts:111-133).                      *)
LEMMA ParseHeaderLineType ==
  ASSUME TypeOK, ParseHeaderLine
  PROVE  LoopOK'
<1>0. MachineOK /\ PeekedOK /\ buffer \in Seq(Byte) /\ current \in Progress
  BY DEF TypeOK, MachineOK, PeekedOK
<1>1. CASE AwaitLine(buffer)
  BY <1>0, <1>1, AwaitType DEF LoopOK
<1> DEFINE counted(p) == [current EXCEPT !.headerBytes = @ + Len(p.line) + 2]
<1>2. ASSUME NEW p \in PeekLine(buffer),
             \/ /\ peeked' = <<p.line>>
                /\ UNCHANGED buffer
                /\ Fail(431, counted(p))
             \/ /\ Consume(buffer, p.end)
                /\ Goto("HEADERS",
                        [counted(p) EXCEPT !.headerLines = Append(@, p.line)])
      PROVE  LoopOK'
  <2>1. p.line \in Line /\ p.end \in Nat /\ Len(p.line) \in Nat
    BY <1>0, PeekLineType, LenProperties DEF Line
  <2>2. counted(p) \in Progress
    <3>1. current.headerBytes \in Nat
      BY <1>0 DEF Progress
    <3>2. current.headerBytes + Len(p.line) + 2 \in Nat
      BY <2>1, <3>1
    <3> QED
      BY <1>0, <3>2 DEF Progress
  <2>3. [counted(p) EXCEPT !.headerLines = Append(@, p.line)] \in Progress
    <3> HIDE DEF counted
    <3>1. Append(counted(p).headerLines, p.line) \in Seq(Line)
      BY <2>1, <2>2, AppendProperties DEF Progress
    <3> QED
      BY <2>2, <3>1 DEF Progress
  <2> HIDE DEF counted
  <2>4. CASE peeked' = <<p.line>> /\ UNCHANGED buffer /\ Fail(431, counted(p))
    BY <1>0, <2>1, <2>2, <2>4, FailType DEF LoopOK, PeekedOK
  <2>5. CASE /\ Consume(buffer, p.end)
             /\ Goto("HEADERS", [counted(p) EXCEPT !.headerLines = Append(@, p.line)])
    <3>1. PeekedOK' /\ buffer' \in Seq(Byte)
      BY <1>0, <2>1, <2>5, ConsumeType
    <3>2. "HEADERS" \in ParserState
      BY DEF ParserState
    <3> QED
      BY <1>0, <2>3, <2>5, <3>1, <3>2, GotoType DEF LoopOK
  <2> QED
    BY <1>2, <2>4, <2>5
<1> QED
  BY <1>1, <1>2 DEF ParseHeaderLine

(* The empty line after the headers keeps the types (parser.ts:115-123).   *)
LEMMA EndHeadersType ==
  ASSUME TypeOK, EndHeaders
  PROVE  LoopOK'
<1>0. MachineOK /\ PeekedOK /\ buffer \in Seq(Byte) /\ current \in Progress
  BY DEF TypeOK, MachineOK, PeekedOK
<1> DEFINE fields == FieldsOf(current.headerLines)
           parsed == [current EXCEPT !.headers = fields, !.headersDone = TRUE,
                                     !.expected = Announced(fields)]
<1>1. PICK p \in PeekLine(buffer) :
        /\ Consume(buffer, p.end)
        /\ \/ Fail(400, current)
           \/ /\ WellFormed(current.headerLines)
              /\ \/ Fail(400, parsed)
                 \/ FinishMessage(parsed, <<>>)
                 \/ /\ BodyMode(fields) \in {"BODY_LENGTH", "BODY_CHUNK_SIZE"}
                    /\ Goto(BodyMode(fields), parsed)
  BY DEF EndHeaders
<1>2. PeekedOK' /\ buffer' \in Seq(Byte)
  BY <1>0, <1>1, PeekLineType, ConsumeType
<1>3. CASE Fail(400, current)
  BY <1>0, <1>2, <1>3, FailType DEF LoopOK
<1>4. CASE WellFormed(current.headerLines)
  <2>1. current.headerLines \in Seq(Line)
    BY <1>0 DEF Progress
  <2>2. fields \in Seq(Field) /\ Announced(fields) \in Nat
    BY <1>4, <2>1, FieldsType, AnnouncedType
  <2>3. parsed \in Progress
    BY <1>0, <2>2 DEF Progress
  <2>4. <<>> \in Seq(Field) /\ {"BODY_LENGTH", "BODY_CHUNK_SIZE"} \subseteq ParserState
    BY EmptySeq DEF ParserState
  <2> HIDE DEF fields, parsed
  <2>5. CASE Fail(400, parsed)
    BY <1>0, <1>2, <2>3, <2>5, FailType DEF LoopOK
  <2>6. CASE FinishMessage(parsed, <<>>)
    BY <1>0, <1>2, <2>3, <2>4, <2>6, FinishType DEF LoopOK
  <2>7. CASE /\ BodyMode(fields) \in {"BODY_LENGTH", "BODY_CHUNK_SIZE"}
             /\ Goto(BodyMode(fields), parsed)
    BY <1>0, <1>2, <2>3, <2>4, <2>7, GotoType DEF LoopOK
  <2> QED
    BY <1>1, <1>3, <2>5, <2>6, <2>7
<1> QED
  BY <1>1, <1>3, <1>4

(* BODY_LENGTH keeps the types (parser.ts:134-149).                        *)
LEMMA ReadBodyType ==
  ASSUME TypeOK, ReadBody
  PROVE  LoopOK'
<1>0. MachineOK /\ PeekedOK /\ buffer \in Seq(Byte) /\ current \in Progress
  BY DEF TypeOK, MachineOK, PeekedOK
<1> DEFINE need == current.expected - Len(current.body)
           n    == Least(need, Len(buffer))
           read == [current EXCEPT !.body = @ \o Take(buffer, n)]
<1>1. PeekedOK' /\ <<>> \in Seq(Field) /\ "BODY_LENGTH" \in ParserState
  BY <1>0, EmptySeq DEF ReadBody, PeekedOK, ParserState
<1>2. CASE UNCHANGED buffer /\ FinishMessage(current, <<>>)
  BY <1>0, <1>1, <1>2, FinishType DEF LoopOK
<1>3. CASE UNCHANGED buffer /\ Return
  BY <1>0, <1>1, <1>3 DEF LoopOK, MachineOK, Return, progress
<1>4. CASE /\ need > 0
           /\ buffer' = Drop(buffer, n)
           /\ \/ FinishMessage(read, <<>>)
              \/ Goto("BODY_LENGTH", read)
  <2>1. Len(current.body) \in Nat /\ current.expected \in Nat /\ current.body \in Seq(Byte)
    BY <1>0, LenProperties DEF Progress
  <2>2. n \in 0..Len(buffer)
    BY <1>0, <1>4, <2>1, LenProperties DEF Least
  <2>3. Take(buffer, n) \in Seq(Byte) /\ buffer' \in Seq(Byte)
    BY <1>0, <1>4, <2>2, TakeType, DropType, LenProperties
  <2> HIDE DEF n
  <2>4. current.body \o Take(buffer, n) \in Seq(Byte)
    BY <2>1, <2>3, ConcatProperties
  <2>5. read \in Progress
    BY <1>0, <2>4 DEF Progress
  <2> HIDE DEF read
  <2> QED
    BY <1>0, <1>1, <1>4, <2>3, <2>5, FinishType, GotoType DEF LoopOK
<1> QED
  BY <1>2, <1>3, <1>4 DEF ReadBody

(* BODY_CHUNK_SIZE keeps the types (parser.ts:150-166).                    *)
LEMMA ParseChunkSizeType ==
  ASSUME TypeOK, ParseChunkSize
  PROVE  LoopOK'
<1>0. MachineOK /\ PeekedOK /\ buffer \in Seq(Byte) /\ current \in Progress
  BY DEF TypeOK, MachineOK, PeekedOK
<1>1. CASE AwaitLine(buffer)
  BY <1>0, <1>1, AwaitType DEF LoopOK
<1> DEFINE next(p) == IF SizeLines[p.line] = 0 THEN "BODY_CHUNK_TRAILERS"
                                               ELSE "BODY_CHUNK_DATA"
           sized(p) == [current EXCEPT !.chunkSize = SizeLines[p.line], !.chunkRead = 0]
<1>2. ASSUME NEW p \in PeekLine(buffer),
             Consume(buffer, p.end),
             \/ Fail(400, current)
             \/ p.line \in DOMAIN SizeLines /\ Goto(next(p), sized(p))
      PROVE  LoopOK'
  <2>1. PeekedOK' /\ buffer' \in Seq(Byte)
    BY <1>0, <1>2, PeekLineType, ConsumeType
  <2>2. CASE Fail(400, current)
    BY <1>0, <2>1, <2>2, FailType DEF LoopOK
  <2>3. CASE p.line \in DOMAIN SizeLines /\ Goto(next(p), sized(p))
    <3>1. SizeLines[p.line] \in Nat
      BY <2>3, TableAssumption
    <3>2. sized(p) \in Progress
      BY <1>0, <3>1 DEF Progress
    <3>3. next(p) \in ParserState
      BY DEF ParserState
    <3> HIDE DEF sized, next
    <3> QED
      BY <1>0, <2>1, <2>3, <3>2, <3>3, GotoType DEF LoopOK
  <2> QED
    BY <1>2, <2>2, <2>3
<1> QED
  BY <1>1, <1>2 DEF ParseChunkSize

(* BODY_CHUNK_DATA keeps the types (parser.ts:167-187).                    *)
LEMMA ReadChunkDataType ==
  ASSUME TypeOK, ReadChunkData, current.chunkRead <= current.chunkSize
  PROVE  LoopOK'
<1>0. MachineOK /\ PeekedOK /\ buffer \in Seq(Byte) /\ current \in Progress
  BY DEF TypeOK, MachineOK, PeekedOK
<1> DEFINE n    == Least(current.chunkSize - current.chunkRead, Len(buffer))
           read == [current EXCEPT !.body = @ \o Take(buffer, n), !.chunkRead = @ + n]
           rest == Drop(buffer, n)
<1>1. PeekedOK'
  BY <1>0 DEF ReadChunkData, PeekedOK
<1>2. /\ current.chunkSize \in Nat /\ current.chunkRead \in Nat
      /\ current.body \in Seq(Byte)
  BY <1>0 DEF Progress
<1>3. n \in 0..Len(buffer)
  BY <1>0, <1>2, LenProperties DEF Least
<1>4. Take(buffer, n) \in Seq(Byte) /\ rest \in Seq(Byte)
  BY <1>0, <1>3, TakeType, DropType, LenProperties
<1>5. ReadChunkData =>
        \/ buffer' = rest /\ current' = read /\ call' = "idle"
           /\ UNCHANGED <<stateName, ready, lastError>>
        \/ buffer' = rest /\ Fail(400, read)
        \/ buffer' = Drop(rest, 2) /\ Goto("BODY_CHUNK_SIZE", read)
  BY DEF ReadChunkData
<1> HIDE DEF n, rest
<1>6. current.body \o Take(buffer, n) \in Seq(Byte) /\ current.chunkRead + n \in Nat
  BY <1>0, <1>2, <1>3, <1>4, ConcatProperties, LenProperties
<1>7. read \in Progress
  BY <1>0, <1>6 DEF Progress
<1> HIDE DEF read
<1>8. Drop(rest, 2) \in Seq(Byte) /\ "BODY_CHUNK_SIZE" \in ParserState
  BY <1>4, DropType DEF ParserState
<1>9. CASE buffer' = rest /\ current' = read /\ call' = "idle"
           /\ UNCHANGED <<stateName, ready, lastError>>
  BY <1>0, <1>1, <1>4, <1>7, <1>9 DEF LoopOK, MachineOK
<1> QED
  BY <1>0, <1>1, <1>4, <1>5, <1>7, <1>8, <1>9, FailType, GotoType DEF LoopOK

(* A trailer line keeps the types (parser.ts:188-207).                     *)
LEMMA ParseTrailerLineType ==
  ASSUME TypeOK, ParseTrailerLine
  PROVE  LoopOK'
<1>0. MachineOK /\ PeekedOK /\ buffer \in Seq(Byte) /\ current \in Progress
  BY DEF TypeOK, MachineOK, PeekedOK
<1>1. CASE AwaitLine(buffer)
  BY <1>0, <1>1, AwaitType DEF LoopOK
<1> DEFINE kept(p) == [current EXCEPT !.trailerLines = Append(@, p.line),
                                      !.trailerBytes = @ + Len(p.line) + 2]
<1>2. ASSUME NEW p \in PeekLine(buffer), Consume(buffer, p.end),
             Goto("BODY_CHUNK_TRAILERS", kept(p))
      PROVE  LoopOK'
  <2>1. p.line \in Line /\ p.end \in Nat /\ Len(p.line) \in Nat
    BY <1>0, PeekLineType, LenProperties DEF Line
  <2>2. PeekedOK' /\ buffer' \in Seq(Byte)
    BY <1>0, <1>2, <2>1, ConsumeType
  <2>3. current.trailerBytes \in Nat /\ current.trailerLines \in Seq(Line)
    BY <1>0 DEF Progress
  <2>4. /\ Append(current.trailerLines, p.line) \in Seq(Line)
        /\ current.trailerBytes + Len(p.line) + 2 \in Nat
    BY <2>1, <2>3, AppendProperties
  <2>5. kept(p) \in Progress
    BY <1>0, <2>4 DEF Progress
  <2>6. "BODY_CHUNK_TRAILERS" \in ParserState
    BY DEF ParserState
  <2> HIDE DEF kept
  <2> QED
    BY <1>0, <1>2, <2>2, <2>5, <2>6, GotoType DEF LoopOK
<1> QED
  BY <1>1, <1>2 DEF ParseTrailerLine

(* The empty line after the trailers keeps the types (parser.ts:193-202).  *)
LEMMA EndTrailersType ==
  ASSUME TypeOK, EndTrailers
  PROVE  LoopOK'
<1>0. MachineOK /\ PeekedOK /\ buffer \in Seq(Byte) /\ current \in Progress
  BY DEF TypeOK, MachineOK, PeekedOK
<1> DEFINE lines == current.trailerLines
<1>1. PICK p \in PeekLine(buffer) :
        /\ Consume(buffer, p.end)
        /\ \/ Fail(431, current)
           \/ Fail(400, current)
           \/ WellFormed(lines) /\ FinishMessage(current, FieldsOf(lines))
  BY DEF EndTrailers
<1>2. PeekedOK' /\ buffer' \in Seq(Byte)
  BY <1>0, <1>1, PeekLineType, ConsumeType
<1>3. CASE Fail(431, current) \/ Fail(400, current)
  BY <1>0, <1>2, <1>3, FailType DEF LoopOK
<1>4. CASE WellFormed(lines) /\ FinishMessage(current, FieldsOf(lines))
  <2>1. lines \in Seq(Line)
    BY <1>0 DEF Progress
  <2>2. FieldsOf(lines) \in Seq(Field)
    BY <1>4, <2>1, FieldsType
  <2> QED
    BY <1>0, <1>2, <1>4, <2>2, FinishType DEF LoopOK
<1> QED
  BY <1>1, <1>3, <1>4

(* MESSAGE_COMPLETE keeps the types (parser.ts:208-214).                   *)
LEMMA StartOverType ==
  ASSUME TypeOK, StartOver
  PROVE  LoopOK'
BY EmptyProgressType DEF TypeOK, StartOver, LoopOK, MachineOK, PeekedOK, ParserState
-----------------------------------------------------------------------------
(* The framing half of the invariant, outcome by outcome.                  *)
FramingOK == Progressing /\ MessagesFramed

(* A step that delivers and takes no message keeps every message framed.   *)
LEMMA SameMessages ==
  ASSUME MessagesFramed, UNCHANGED <<ready, taken>>
  PROVE  MessagesFramed'
BY DEF MessagesFramed, Messages, Framed

(* Waiting for the rest of a line keeps the framing (parser.ts:292-297).   *)
LEMMA AwaitFraming ==
  ASSUME ParserInv, UNCHANGED taken, NEW b, AwaitLine(b)
  PROVE  FramingOK'
<1>1. UNCHANGED <<current, ready>> /\ call' = "idle"
      /\ (stateName' = stateName \/ stateName' = "ERROR")
  BY DEF AwaitLine, Return, Fail, progress
<1>2. MessagesFramed'
  BY <1>1, SameMessages DEF ParserInv
<1>3. Progressing'
  BY <1>1 DEF ParserInv, Progressing
<1> QED
  BY <1>2, <1>3 DEF FramingOK

(* Recording a parse error keeps the framing (parser.ts:281-289).          *)
LEMMA FailFraming ==
  ASSUME ParserInv, UNCHANGED taken, NEW p, NEW status, Fail(status, p),
         p.chunkRead <= p.chunkSize
  PROVE  FramingOK'
<1>1. MessagesFramed'
  BY SameMessages DEF ParserInv, Fail
<1>2. Progressing'
  BY DEF Fail, Progressing
<1> QED
  BY <1>1, <1>2 DEF FramingOK

(* Delivering a message that is framed as announced keeps the framing      *)
(* (parser.ts:274-279).                                                    *)
LEMMA FinishFraming ==
  ASSUME ParserInv, UNCHANGED taken, NEW p \in Progress, NEW trailers \in Seq(Field),
         FinishMessage(p, trailers), Framed(Assemble(p, trailers))
  PROVE  FramingOK'
<1> DEFINE m == Assemble(p, trailers)
<1>1. m \in Message
  BY AssembleType
<1>2. ready \in Seq(Message) /\ ready' = Append(ready, m) /\ taken' = taken
  BY DEF ParserInv, TypeOK, FinishMessage
<1> HIDE DEF m
<1>3. Messages' \subseteq Messages \cup {m}
  BY <1>1, <1>2, AppendProperties, LenProperties DEF Messages
<1>4. MessagesFramed'
  BY <1>3 DEF m, ParserInv, MessagesFramed, Framed
<1>5. Progressing'
  BY DEF FinishMessage, Progressing, EmptyProgress
<1> QED
  BY <1>4, <1>5 DEF FramingOK

(* A message without a body, and one whose last body byte has come, are    *)
(* framed as announced.                                                    *)
LEMMA AssembleFramed ==
  ASSUME NEW p \in Progress, NEW trailers, p.startLine # <<>>,
         \/ BodyMode(p.headers) = "BODY_CHUNK_SIZE"
         \/ /\ BodyMode(p.headers) \in {"BODY_LENGTH", "DONE"}
            /\ Len(p.body) = Announced(p.headers)
            /\ trailers = <<>>
  PROVE  Framed(Assemble(p, trailers))
<1>1. /\ Assemble(p, trailers).headers = p.headers
      /\ Assemble(p, trailers).body = p.body
      /\ Assemble(p, trailers).trailers = trailers
      /\ Assemble(p, trailers).startLine = p.startLine
  BY DEF Assemble
<1>2. p.headers \in Seq(Field)
  BY DEF Progress
<1>3. \/ AnnouncesChunks(p.headers)
      \/ Len(p.body) \in AnnouncedLengths(p.headers) /\ trailers = <<>>
  BY <1>2, FramingIs
<1> QED
  BY <1>1, <1>3 DEF Framed
-----------------------------------------------------------------------------
(* START_LINE keeps the framing (parser.ts:96-110).                        *)
LEMMA ParseStartLineFraming ==
  ASSUME ParserInv, UNCHANGED taken, ParseStartLine
  PROVE  FramingOK'
<1>1. PICK n \in LeadingBreaks(buffer) :
        \/ AwaitLine(Drop(buffer, n))
        \/ \E p \in PeekLine(Drop(buffer, n)) :
             \/ /\ p.line \in DOMAIN StartLines
                /\ Goto("HEADERS", [current EXCEPT !.startLine = p.line])
             \/ \E status \in {400, 505} \cup {StartLines[p.line]} : Fail(status, current)
  BY DEF ParseStartLine
<1>2. CASE AwaitLine(Drop(buffer, n))
  BY <1>2, AwaitFraming
<1>3. ASSUME NEW status, Fail(status, current)
      PROVE  FramingOK'
  BY <1>3, FailFraming DEF ParserInv, Progressing
<1>4. ASSUME NEW p, p.line \in DOMAIN StartLines,
             Goto("HEADERS", [current EXCEPT !.startLine = p.line])
      PROVE  FramingOK'
  <2>1. p.line # <<>>
    BY <1>4, TableAssumption
  <2>2. MessagesFramed'
    BY <1>4, SameMessages DEF ParserInv, Goto
  <2>3. current.body = <<>> /\ current \in Progress /\ current.chunkRead <= current.chunkSize
    BY DEF ParserInv, Progressing, TypeOK, ParseStartLine
  <2>4. /\ stateName' = "HEADERS"
        /\ current'.body = current.body
        /\ current'.startLine = p.line
        /\ current'.chunkRead = current.chunkRead
        /\ current'.chunkSize = current.chunkSize
    BY <1>4, <2>3 DEF Goto, Progress
  <2>5. Progressing'
    BY <2>1, <2>3, <2>4 DEF Progressing
  <2> QED
    BY <2>2, <2>5 DEF FramingOK
<1> QED
  BY <1>1, <1>2, <1>3, <1>4

(* A header line keeps the framing (parser.ts:111-133).                    *)
LEMMA ParseHeaderLineFraming ==
  ASSUME ParserInv, UNCHANGED taken, ParseHeaderLine
  PROVE  FramingOK'
<1>0. stateName = "HEADERS" /\ current \in Progress /\ Progressing
  BY DEF ParseHeaderLine, ParserInv, TypeOK
<1>1. CASE AwaitLine(buffer)
  BY <1>1, AwaitFraming
<1> DEFINE counted(p) == [current EXCEPT !.headerBytes = @ + Len(p.line) + 2]
           kept(p) == [counted(p) EXCEPT !.headerLines = Append(@, p.line)]
<1>2. ASSUME NEW p, Fail(431, counted(p))
      PROVE  FramingOK'
  <2>1. counted(p).chunkRead <= counted(p).chunkSize
    BY <1>0 DEF Progressing, Progress
  <2> QED
    BY <1>2, <2>1, FailFraming
<1>3. ASSUME NEW p, Goto("HEADERS", kept(p))
      PROVE  FramingOK'
  <2>1. MessagesFramed'
    BY <1>3, SameMessages DEF ParserInv, Goto
  <2>2. /\ stateName' = "HEADERS"
        /\ current'.body = current.body
        /\ current'.startLine = current.startLine
        /\ current'.chunkRead = current.chunkRead
        /\ current'.chunkSize = current.chunkSize
    BY <1>0, <1>3 DEF Goto, Progress
  <2>3. Progressing'
    BY <1>0, <2>2 DEF Progressing
  <2> QED
    BY <2>1, <2>3 DEF FramingOK
<1> QED
  BY <1>1, <1>2, <1>3 DEF ParseHeaderLine

(* The end of the headers keeps the framing: an empty body is delivered at *)
(* once (parser.ts:115-123).                                               *)
LEMMA EndHeadersFraming ==
  ASSUME ParserInv, UNCHANGED taken, EndHeaders
  PROVE  FramingOK'
<1>0. stateName = "HEADERS" /\ current \in Progress /\ Progressing
  BY DEF EndHeaders, ParserInv, TypeOK
<1> DEFINE fields == FieldsOf(current.headerLines)
           parsed == [current EXCEPT !.headers = fields, !.headersDone = TRUE,
                                     !.expected = Announced(fields)]
<1>1. \/ Fail(400, current)
      \/ /\ WellFormed(current.headerLines)
         /\ \/ Fail(400, parsed)
            \/ BodyMode(fields) = "DONE" /\ FinishMessage(parsed, <<>>)
            \/ /\ BodyMode(fields) \in {"BODY_LENGTH", "BODY_CHUNK_SIZE"}
               /\ Goto(BodyMode(fields), parsed)
  BY DEF EndHeaders
<1>2. CASE Fail(400, current)
  BY <1>0, <1>2, FailFraming DEF Progressing
<1>3. CASE WellFormed(current.headerLines)
  <2>1. fields \in Seq(Field) /\ Announced(fields) \in Nat
    BY <1>0, <1>3, FieldsType, AnnouncedType DEF Progress
  <2>2. /\ parsed \in Progress
        /\ parsed.headers = fields
        /\ parsed.expected = Announced(fields)
        /\ parsed.body = current.body
        /\ parsed.startLine = current.startLine
        /\ parsed.chunkRead = current.chunkRead
        /\ parsed.chunkSize = current.chunkSize
    BY <1>0, <2>1 DEF Progress
  <2>3. current.body = <<>> /\ Len(<<>>) = 0 /\ <<>> \in Seq(Field)
        /\ current.startLine # <<>> /\ current.chunkRead <= current.chunkSize
    BY <1>0, EmptySeq DEF Progressing
  <2> HIDE DEF fields, parsed
  <2>4. CASE Fail(400, parsed)
    BY <2>2, <2>3, <2>4, FailFraming
  <2>5. CASE BodyMode(fields) = "DONE" /\ FinishMessage(parsed, <<>>)
    <3>1. Len(parsed.body) = Announced(parsed.headers)
      BY <2>2, <2>3, <2>5 DEF Announced
    <3>2. Framed(Assemble(parsed, <<>>))
      BY <2>2, <2>3, <2>5, <3>1, AssembleFramed
    <3> QED
      BY <2>2, <2>3, <2>5, <3>2, FinishFraming
  <2>6. CASE /\ BodyMode(fields) \in {"BODY_LENGTH", "BODY_CHUNK_SIZE"}
             /\ Goto(BodyMode(fields), parsed)
    <3>1. MessagesFramed'
      BY <2>6, SameMessages DEF ParserInv, Goto
    <3>2. stateName' = BodyMode(fields) /\ current' = parsed
      BY <2>6 DEF Goto
    <3>3. BodyMode(fields) = "BODY_LENGTH" => Announced(fields) > 0
      <4>1. SUFFICES ASSUME BodyMode(fields) = "BODY_LENGTH"
                     PROVE  Announced(fields) > 0
        OBVIOUS
      <4>2. PICK i \in First(fields, "content-length") : fields[i].length > 0
        BY <4>1 DEF BodyMode
      <4>3. \A j \in First(fields, "content-length") : j = i
        <5>1. SUFFICES ASSUME NEW j \in First(fields, "content-length"), j # i
                       PROVE  FALSE
          OBVIOUS
        <5>2. i \in Nat /\ j \in Nat /\ 1 <= i /\ 1 <= j
          BY <2>1, LenProperties DEF First, Named
        <5> QED
          BY <5>1, <5>2 DEF First, Named
      <4> QED
        BY <4>1, <4>2, <4>3 DEF Announced
    <3>4. Progressing'
      BY <2>1, <2>2, <2>3, <2>6, <3>2, <3>3 DEF Progressing
    <3> QED
      BY <3>1, <3>4 DEF FramingOK
  <2> QED
    BY <1>1, <1>2, <1>3, <2>4, <2>5, <2>6
<1> QED
  BY <1>1, <1>2, <1>3

(* BODY_LENGTH delivers a body of the announced length                     *)
(* (parser.ts:134-149).                                                    *)
LEMMA ReadBodyFraming ==
  ASSUME ParserInv, UNCHANGED taken, ReadBody
  PROVE  FramingOK'
<1> DEFINE need == current.expected - Len(current.body)
           n    == Least(need, Len(buffer))
           read == [current EXCEPT !.body = @ \o Take(buffer, n)]
<1>0. /\ stateName = "BODY_LENGTH" /\ current \in Progress /\ Progressing
      /\ current.body \in Seq(Byte) /\ buffer \in Seq(Byte)
      /\ Len(current.body) \in Nat /\ Len(buffer) \in Nat /\ current.expected \in Nat
      /\ <<>> \in Seq(Field)
  BY LenProperties, EmptySeq DEF ReadBody, ParserInv, TypeOK, Progress
<1>1. need > 0
  BY <1>0 DEF Progressing
<1>2. CASE Return
  <2>1. UNCHANGED <<stateName, current, ready, taken>>
    BY <1>2 DEF Return, progress
  <2>2. MessagesFramed'
    BY <2>1, SameMessages DEF ParserInv
  <2>3. Progressing'
    BY <1>0, <2>1 DEF Progressing
  <2> QED
    BY <2>2, <2>3 DEF FramingOK
<1>3. n \in 0..Len(buffer) /\ n <= need
  BY <1>0, <1>1 DEF Least
<1> HIDE DEF n
<1>4. Take(buffer, n) \in Seq(Byte) /\ Len(Take(buffer, n)) = n
  BY <1>0, <1>3, TakeType
<1>5. /\ current.body \o Take(buffer, n) \in Seq(Byte)
      /\ Len(current.body \o Take(buffer, n)) = Len(current.body) + n
  <2>1. \A t \in Seq(Byte) : /\ current.body \o t \in Seq(Byte)
                             /\ Len(current.body \o t) = Len(current.body) + Len(t)
    BY <1>0, ConcatProperties
  <2> QED
    BY <1>4, <2>1
<1>6. /\ read \in Progress
      /\ Len(read.body) = Len(current.body) + n
      /\ read.headers = current.headers
      /\ read.expected = current.expected
      /\ read.startLine = current.startLine
      /\ read.chunkRead = current.chunkRead
      /\ read.chunkSize = current.chunkSize
  BY <1>0, <1>5 DEF Progress
<1> HIDE DEF read
<1>7. CASE n = need /\ FinishMessage(read, <<>>)
  <2>1. Framed(Assemble(read, <<>>))
    BY <1>0, <1>3, <1>6, <1>7, AssembleFramed DEF Progressing
  <2> QED
    BY <1>0, <1>6, <1>7, <2>1, FinishFraming
<1>8. CASE n < need /\ Goto("BODY_LENGTH", read)
  <2>1. MessagesFramed'
    BY <1>8, SameMessages DEF ParserInv, Goto
  <2>2. stateName' = "BODY_LENGTH" /\ current' = read
    BY <1>8 DEF Goto
  <2>3. Progressing'
    BY <1>0, <1>3, <1>6, <1>8, <2>2 DEF Progressing
  <2> QED
    BY <2>1, <2>3 DEF FramingOK
<1> QED
  BY <1>0, <1>1, <1>2, <1>7, <1>8 DEF ReadBody, n, read

(* BODY_CHUNK_SIZE keeps the framing (parser.ts:150-166).                  *)
LEMMA ParseChunkSizeFraming ==
  ASSUME ParserInv, UNCHANGED taken, ParseChunkSize
  PROVE  FramingOK'
<1>0. stateName = "BODY_CHUNK_SIZE" /\ current \in Progress /\ Progressing
  BY DEF ParseChunkSize, ParserInv, TypeOK
<1>1. CASE AwaitLine(buffer)
  BY <1>1, AwaitFraming
<1>2. CASE Fail(400, current)
  BY <1>0, <1>2, FailFraming DEF Progressing
<1> DEFINE next(p) == IF SizeLines[p.line] = 0 THEN "BODY_CHUNK_TRAILERS"
                                               ELSE "BODY_CHUNK_DATA"
           sized(p) == [current EXCEPT !.chunkSize = SizeLines[p.line], !.chunkRead = 0]
<1>3. ASSUME NEW p, p.line \in DOMAIN SizeLines, Goto(next(p), sized(p))
      PROVE  FramingOK'
  <2>1. SizeLines[p.line] \in Nat
    BY <1>3, TableAssumption
  <2>2. /\ stateName' \in {"BODY_CHUNK_TRAILERS", "BODY_CHUNK_DATA"}
        /\ current'.headers = current.headers
        /\ current'.startLine = current.startLine
        /\ current'.chunkRead <= current'.chunkSize
    BY <1>0, <1>3, <2>1 DEF Goto, Progress
  <2>3. MessagesFramed'
    BY <1>3, SameMessages DEF ParserInv, Goto
  <2>4. Progressing'
    BY <1>0, <2>2 DEF Progressing
  <2> QED
    BY <2>3, <2>4 DEF FramingOK
<1> QED
  BY <1>1, <1>2, <1>3 DEF ParseChunkSize

(* BODY_CHUNK_DATA never reads past its chunk (parser.ts:167-187).         *)
LEMMA ReadChunkDataFraming ==
  ASSUME ParserInv, UNCHANGED taken, ReadChunkData
  PROVE  FramingOK'
<1> DEFINE n    == Least(current.chunkSize - current.chunkRead, Len(buffer))
           read == [current EXCEPT !.body = @ \o Take(buffer, n), !.chunkRead = @ + n]
<1>0. stateName = "BODY_CHUNK_DATA" /\ current \in Progress /\ Progressing
      /\ current.chunkRead \in Nat /\ current.chunkSize \in Nat /\ Len(buffer) \in Nat
  BY LenProperties DEF ReadChunkData, ParserInv, TypeOK, Progress
<1>1. n \in Nat /\ current.chunkRead + n <= current.chunkSize
  BY <1>0 DEF Least, Progressing
<1> HIDE DEF n
<1>2. /\ read.headers = current.headers
      /\ read.startLine = current.startLine
      /\ read.chunkRead = current.chunkRead + n
      /\ read.chunkSize = current.chunkSize
  BY <1>0 DEF Progress
<1> HIDE DEF read
<1>3. \/ current' = read /\ UNCHANGED <<stateName, ready>>
      \/ Goto("BODY_CHUNK_SIZE", read)
      \/ Fail(400, read)
  BY DEF ReadChunkData, n, read
<1>4. CASE Fail(400, read)
  BY <1>1, <1>2, <1>4, FailFraming
<1>5. CASE /\ current' = read /\ ready' = ready
           /\ stateName' \in {"BODY_CHUNK_DATA", "BODY_CHUNK_SIZE"}
  <2>1. MessagesFramed'
    BY <1>5, SameMessages DEF ParserInv
  <2>2. Progressing'
    BY <1>0, <1>1, <1>2, <1>5 DEF Progressing
  <2> QED
    BY <2>1, <2>2 DEF FramingOK
<1> QED
  BY <1>0, <1>3, <1>4, <1>5 DEF Goto

(* A trailer line keeps the framing (parser.ts:188-207).                   *)
LEMMA ParseTrailerLineFraming ==
  ASSUME ParserInv, UNCHANGED taken, ParseTrailerLine
  PROVE  FramingOK'
<1>0. stateName = "BODY_CHUNK_TRAILERS" /\ current \in Progress /\ Progressing
  BY DEF ParseTrailerLine, ParserInv, TypeOK
<1>1. CASE AwaitLine(buffer)
  BY <1>1, AwaitFraming
<1> DEFINE kept(p) == [current EXCEPT !.trailerLines = Append(@, p.line),
                                      !.trailerBytes = @ + Len(p.line) + 2]
<1>2. ASSUME NEW p, Goto("BODY_CHUNK_TRAILERS", kept(p))
      PROVE  FramingOK'
  <2>1. /\ stateName' = "BODY_CHUNK_TRAILERS"
        /\ current'.headers = current.headers
        /\ current'.startLine = current.startLine
        /\ current'.chunkRead = current.chunkRead
        /\ current'.chunkSize = current.chunkSize
    BY <1>0, <1>2 DEF Goto, Progress
  <2>2. MessagesFramed'
    BY <1>2, SameMessages DEF ParserInv, Goto
  <2>3. Progressing'
    BY <1>0, <2>1 DEF Progressing
  <2> QED
    BY <2>2, <2>3 DEF FramingOK
<1> QED
  BY <1>1, <1>2 DEF ParseTrailerLine

(* The end of the trailers delivers a chunked message (parser.ts:193-202). *)
LEMMA EndTrailersFraming ==
  ASSUME ParserInv, UNCHANGED taken, EndTrailers
  PROVE  FramingOK'
<1> DEFINE lines == current.trailerLines
<1>0. /\ stateName = "BODY_CHUNK_TRAILERS" /\ current \in Progress /\ Progressing
      /\ lines \in Seq(Line)
  BY DEF EndTrailers, ParserInv, TypeOK, Progress
<1>1. CASE Fail(431, current) \/ Fail(400, current)
  BY <1>0, <1>1, FailFraming DEF Progressing
<1>2. CASE WellFormed(lines) /\ FinishMessage(current, FieldsOf(lines))
  <2>1. FieldsOf(lines) \in Seq(Field)
    BY <1>0, <1>2, FieldsType
  <2>2. Framed(Assemble(current, FieldsOf(lines)))
    BY <1>0, AssembleFramed DEF Progressing
  <2> QED
    BY <1>0, <1>2, <2>1, <2>2, FinishFraming
<1> QED
  BY <1>1, <1>2 DEF EndTrailers

(* MESSAGE_COMPLETE keeps the framing (parser.ts:208-214).                 *)
LEMMA StartOverFraming ==
  ASSUME ParserInv, UNCHANGED taken, StartOver
  PROVE  FramingOK'
<1>1. MessagesFramed'
  BY SameMessages DEF ParserInv, StartOver
<1>2. Progressing'
  BY DEF StartOver, Progressing, EmptyProgress
<1> QED
  BY <1>1, <1>2 DEF FramingOK
-----------------------------------------------------------------------------
(* A new parser, whatever it is going to be fed.                           *)
NewParser ==
  /\ buffer = <<>> /\ stateName = "START" /\ current = EmptyProgress
  /\ ready = <<>> /\ lastError = 0 /\ peeked = <<>> /\ call = "idle"
  /\ unsent \in Seq(Byte) /\ allowed \in Nat /\ resets \in Nat
  /\ offered = <<>> /\ taken = <<>>

(* The program starts with one.                                            *)
LEMMA InitNew == Init => NewParser
BY StreamAssumption DEF Init, NewParser

(* A new parser satisfies the invariant.                                   *)
LEMMA NewInv == NewParser => ParserInv
<1> SUFFICES ASSUME NewParser PROVE ParserInv
  OBVIOUS
<1>1. \A S : <<>> \in Seq(S) /\ Len(<<>>) = 0
  BY EmptySeq
<1>2. TypeOK
  BY <1>1, EmptyProgressType DEF NewParser, TypeOK, ParserState
<1>3. Progressing
  BY DEF NewParser, Progressing, EmptyProgress
<1>4. MessagesFramed
  BY <1>1 DEF NewParser, MessagesFramed, Messages
<1> QED
  BY <1>2, <1>3, <1>4 DEF ParserInv

(* So do the initial states.                                               *)
LEMMA InitInv == Init => ParserInv
BY InitNew, NewInv

(* What a loop iteration leaves to TypeOK is the environment.              *)
LEMMA AdvanceInv ==
  ASSUME ParserInv, Advance
  PROVE  ParserInv'
<1>0. UNCHANGED environment /\ UNCHANGED taken
  BY DEF Advance, environment
<1>1. LoopOK' /\ FramingOK'
  <2>0. TypeOK /\ current.chunkRead <= current.chunkSize
    BY DEF ParserInv, Progressing
  <2>1. CASE ParseStartLine
    BY <1>0, <2>0, <2>1, ParseStartLineType, ParseStartLineFraming
  <2>2. CASE ParseHeaderLine
    BY <1>0, <2>0, <2>2, ParseHeaderLineType, ParseHeaderLineFraming
  <2>3. CASE EndHeaders
    BY <1>0, <2>0, <2>3, EndHeadersType, EndHeadersFraming
  <2>4. CASE ReadBody
    BY <1>0, <2>0, <2>4, ReadBodyType, ReadBodyFraming
  <2>5. CASE ParseChunkSize
    BY <1>0, <2>0, <2>5, ParseChunkSizeType, ParseChunkSizeFraming
  <2>6. CASE ReadChunkData
    BY <1>0, <2>0, <2>6, ReadChunkDataType, ReadChunkDataFraming
  <2>7. CASE ParseTrailerLine
    BY <1>0, <2>0, <2>7, ParseTrailerLineType, ParseTrailerLineFraming
  <2>8. CASE EndTrailers
    BY <1>0, <2>0, <2>8, EndTrailersType, EndTrailersFraming
  <2>9. CASE StartOver
    BY <1>0, <2>0, <2>9, StartOverType, StartOverFraming
  <2> QED
    BY <2>1, <2>2, <2>3, <2>4, <2>5, <2>6, <2>7, <2>8, <2>9 DEF Advance
<1>2. TypeOK'
  BY <1>0, <1>1 DEF ParserInv, TypeOK, LoopOK, MachineOK, PeekedOK, environment
<1> QED
  BY <1>1, <1>2 DEF ParserInv, FramingOK

(* The caller's operations: feed() before its loop, next(), reset().       *)
LEMMA CallerInv ==
  ASSUME ParserInv,
         \/ \E n \in Nat : Feed(n) \/ FeedThrows(n)
         \/ TakeNext
         \/ Reset
  PROVE  ParserInv'
<1>0. TypeOK /\ Progressing /\ MessagesFramed
  BY DEF ParserInv
<1>1. ASSUME NEW n \in Nat, Feed(n) \/ FeedThrows(n)
      PROVE  ParserInv'
  <2>1. n \in 0..Len(unsent) /\ n \in Nat /\ unsent \in Seq(Byte)
    BY <1>0, <1>1, LenProperties, LimitAssumption DEF TypeOK, Feed, FeedThrows
  <2>2. Take(unsent, n) \in Seq(Byte) /\ Drop(unsent, n) \in Seq(Byte)
    BY <2>1, TakeType, DropType
  <2>3. /\ buffer \o Take(unsent, n) \in Seq(Byte)
        /\ offered \o Take(unsent, n) \in Seq(Byte)
    BY <1>0, <2>2, ConcatProperties DEF TypeOK
  <2>4. TypeOK'
    <3>1. CASE Feed(n)
      BY <1>0, <2>2, <2>3, <3>1 DEF TypeOK, Feed, progress
    <3>2. CASE FeedThrows(n)
      BY <1>0, <2>2, <2>3, <3>2 DEF TypeOK, FeedThrows, progress
    <3> QED
      BY <1>1, <3>1, <3>2
  <2>5. UNCHANGED <<stateName, current, ready, taken>>
        /\ (stateName = "ERROR" => call' = call)
    BY <1>1 DEF Feed, FeedThrows, progress
  <2>6. Progressing' /\ MessagesFramed'
    BY <1>0, <2>5, SameMessages DEF Progressing
  <2> QED
    BY <2>4, <2>6 DEF ParserInv
<1>2. CASE TakeNext
  <2>1. /\ ready \in Seq(Message) /\ ready # <<>> /\ taken \in Seq(Message)
        /\ ready' = Tail(ready) /\ taken' = Append(taken, Head(ready))
    BY <1>0, <1>2 DEF TypeOK, TakeNext
  <2>2. ready' \in Seq(Message) /\ taken' \in Seq(Message)
    BY <2>1, HeadTailProperties, AppendProperties
  <2>3. TypeOK'
    BY <1>0, <1>2, <2>2 DEF TypeOK, TakeNext
  <2>4. Progressing'
    BY <1>0, <1>2 DEF Progressing, TakeNext
  <2>5. Messages' \subseteq Messages
    <3>1. /\ Len(ready) \in Nat /\ Len(ready) >= 1 /\ Head(ready) = ready[1]
          /\ Len(ready') = Len(ready) - 1
          /\ \A i \in 1..Len(ready') : ready'[i] = ready[i + 1]
      BY <2>1, HeadTailProperties, EmptySeq, LenProperties
    <3>2. /\ Head(ready) \in Message
          /\ Len(taken) \in Nat /\ Len(taken') = Len(taken) + 1
          /\ \A i \in 1..Len(taken) : taken'[i] = taken[i]
          /\ taken'[Len(taken) + 1] = ready[1]
      BY <2>1, <3>1, HeadTailProperties, AppendProperties, LenProperties
    <3>3. \A i \in 1..Len(ready') : ready'[i] \in Messages
      <4>1. \A j \in 1..Len(ready) : ready[j] \in Messages
        BY DEF Messages
      <4>2. \A i \in 1..Len(ready') : i + 1 \in 1..Len(ready)
        BY <3>1
      <4> QED
        BY <3>1, <4>1, <4>2
    <3>4. \A i \in 1..Len(taken') : taken'[i] \in Messages
      <4>1. \A i \in 1..Len(taken) : taken[i] \in Messages
        BY DEF Messages
      <4>2. ready[1] \in Messages
        BY <3>1 DEF Messages
      <4> QED
        BY <3>2, <4>1, <4>2
    <3> QED
      BY <3>3, <3>4 DEF Messages
  <2>6. MessagesFramed'
    BY <1>0, <2>5 DEF MessagesFramed, Framed
  <2> QED
    BY <2>3, <2>4, <2>6 DEF ParserInv
<1>3. CASE Reset
  <2>1. \A S : <<>> \in Seq(S) /\ Len(<<>>) = 0
    BY EmptySeq
  <2>2. TypeOK'
    BY <1>0, <1>3, <2>1, EmptyProgressType DEF TypeOK, Reset, ParserState
  <2>3. Progressing'
    BY <1>3 DEF Progressing, Reset, EmptyProgress
  <2>4. MessagesFramed'
    BY <1>3, <2>1 DEF Reset, MessagesFramed, Messages
  <2> QED
    BY <2>2, <2>3, <2>4 DEF ParserInv
<1> QED
  BY <1>1, <1>2, <1>3

(* Every step of the parser and its caller preserves the invariant.        *)
LEMMA NextInv == ParserInv /\ [Next]_vars => ParserInv'
<1>1. SUFFICES ASSUME ParserInv, [Next]_vars PROVE ParserInv'
  OBVIOUS
<1>2. CASE Next
  <2>1. \A n \in 1..MaxChunk : n \in Nat
    BY LimitAssumption
  <2> QED
    BY <1>1, <1>2, <2>1, CallerInv, AdvanceInv DEF Next
<1>3. CASE UNCHANGED vars
  BY <1>1, <1>3, SameMessages DEF vars, ParserInv, TypeOK, Progressing
<1> QED
  BY <1>1, <1>2, <1>3

(* The parser never leaves its inductive invariant.                        *)
THEOREM Invariance == Spec => []ParserInv
BY InitInv, NextInv, PTL DEF Spec

(* Every variable keeps its type, whatever the tables, limits and streams. *)
THEOREM TypeCorrect == Spec => []TypeOK
<1>1. ParserInv => TypeOK
  BY DEF ParserInv
<1> QED
  BY Invariance, <1>1, PTL

(* Every message that leaves the parser is framed as its header fields     *)
(* announce: decideBodyMode() and the body states of advance().            *)
THEOREM Framing == Spec => []MessagesFramed
<1>1. ParserInv => MessagesFramed
  BY DEF ParserInv
<1> QED
  BY Invariance, <1>1, PTL

(* An error stays until reset(): parser.ts:77-79, :215-216 and :281-289.   *)
THEOREM ErrorStays == Spec => ErrorLatched
<1> DEFINE A == stateName = "ERROR" /\ resets' = resets =>
                  /\ UNCHANGED <<stateName, lastError, buffer, current>>
                  /\ taken' \o ready' = taken \o ready
<1>1. ParserInv /\ [Next]_vars => [A]_vars
  <2>1. SUFFICES ASSUME ParserInv, Next, stateName = "ERROR", resets' = resets
                 PROVE  /\ UNCHANGED <<stateName, lastError, buffer, current>>
                        /\ taken' \o ready' = taken \o ready
    BY DEF A
  <2>2. call = "idle" /\ resets \in Nat
    BY <2>1 DEF ParserInv, Progressing, TypeOK
  <2>3. CASE \E n \in 1..MaxChunk : FeedThrows(n)
    BY <2>3 DEF FeedThrows, progress
  <2>4. CASE TakeNext
    <3>1. /\ ready \in Seq(Message) /\ ready # <<>> /\ taken \in Seq(Message)
          /\ ready' = Tail(ready) /\ taken' = Append(taken, Head(ready))
      BY <2>1, <2>4 DEF ParserInv, TypeOK, TakeNext
    <3>2. taken' \o ready' = taken \o ready
      BY <3>1
    <3> QED
      BY <2>4, <3>2 DEF TakeNext
  <2>5. ~Reset /\ ~Advance /\ \A n \in 1..MaxChunk : ~Feed(n)
    BY <2>1, <2>2 DEF Reset, Advance, Feed
  <2> QED
    BY <2>1, <2>3, <2>4, <2>5 DEF Next
<1> QED
  BY Invariance, <1>1, PTL DEF Spec, ErrorLatched

(* What an iteration may do to the finished messages.                      *)
Added == ready' = ready \/ \E m : ready' = Append(ready, m)

(* A loop iteration adds to the finished messages or leaves them: every    *)
(* outcome of a case of advance().                                         *)
LEMMA IterationAdds ==
  ASSUME Advance
  PROVE  taken' = taken /\ Added
<1>0. taken' = taken
  BY DEF Advance, environment
<1>a. Return => Added
  BY DEF Return, progress, Added
<1>b. \A s, q : Goto(s, q) => Added
  BY DEF Goto, Added
<1>c. \A status, q : Fail(status, q) => Added
  BY DEF Fail, Added
<1>d. \A q, trailers : FinishMessage(q, trailers) => Added
  BY DEF FinishMessage, Added
<1>e. \A b : AwaitLine(b) => Added
  BY <1>a, <1>c DEF AwaitLine
<1>1. CASE ParseStartLine
  BY <1>0, <1>1, <1>b, <1>c, <1>e DEF ParseStartLine
<1>2. CASE ParseHeaderLine
  BY <1>0, <1>2, <1>b, <1>c, <1>e DEF ParseHeaderLine
<1>3. CASE EndHeaders
  BY <1>0, <1>3, <1>b, <1>c, <1>d DEF EndHeaders
<1>4. CASE ReadBody
  BY <1>0, <1>4, <1>a, <1>b, <1>d DEF ReadBody
<1>5. CASE ParseChunkSize
  BY <1>0, <1>5, <1>b, <1>c, <1>e DEF ParseChunkSize
<1>6. CASE ReadChunkData
  BY <1>0, <1>6, <1>b, <1>c DEF ReadChunkData, Added
<1>7. CASE ParseTrailerLine
  BY <1>0, <1>7, <1>b, <1>e DEF ParseTrailerLine
<1>8. CASE EndTrailers
  BY <1>0, <1>8, <1>c, <1>d DEF EndTrailers
<1>9. CASE StartOver
  BY <1>0, <1>9 DEF StartOver, Added
<1> QED
  BY <1>0, <1>1, <1>2, <1>3, <1>4, <1>5, <1>6, <1>7, <1>8, <1>9 DEF Advance

(* For its caller the parser is a MessageSource: feed(), next() and        *)
(* reset() are its steps, and a step of the loop is part of feed().        *)
THEOREM ImplementsSource == Spec => SourceOfMessages
<1>1. Init => Promised!Init
  BY DEF Init, Promised!Init
<1>2. ParserInv /\ [Next]_vars => [Promised!Next]_(Promised!source)
  <2>1. SUFFICES ASSUME ParserInv, [Next]_vars
                 PROVE  [Promised!Next]_(Promised!source)
    OBVIOUS
  <2>2. TypeOK /\ (stateName = "ERROR" => call = "idle")
    BY <2>1 DEF ParserInv, Progressing
  <2>3. CASE UNCHANGED vars
    BY <2>3 DEF vars, Promised!source
  <2>4. CASE \E n \in 1..MaxChunk : Feed(n) \/ FeedThrows(n)
    BY <2>4 DEF Feed, FeedThrows, progress, Promised!source
  <2>5. CASE TakeNext
    BY <2>5 DEF TakeNext, Promised!Next, Promised!Take
  <2>6. CASE Reset
    BY <2>6 DEF Reset, Promised!Next, Promised!Reset
  <2>7. CASE Advance
    <3>1. stateName # "ERROR"
      BY <2>2, <2>7 DEF Advance
    <3>2. taken' = taken /\ (ready' = ready \/ \E m : ready' = Append(ready, m))
      BY <2>7, IterationAdds DEF Added
    <3>3. ready \in Seq(Message)
      BY <2>2 DEF TypeOK
    <3>4. Promised!IsPrefix(ready, ready')
      BY <3>2, <3>3 DEF Promised!IsPrefix
    <3> QED
      BY <3>1, <3>2, <3>4 DEF Promised!Next, Promised!Feed
  <2> QED
    BY <2>1, <2>3, <2>4, <2>5, <2>6, <2>7 DEF Next
<1> QED
  BY <1>1, <1>2, Invariance, PTL DEF Spec, SourceOfMessages, Promised!Spec
-----------------------------------------------------------------------------
(* What is left of a buffer is its end, unchanged.                         *)
LEMMA DropElements ==
  ASSUME NEW S, NEW b \in Seq(S), NEW n \in 0..Len(b)
  PROVE  /\ Len(Drop(b, n)) = Len(b) - n
         /\ \A i \in 1..(Len(b) - n) : Drop(b, n)[i] = b[n + i]
BY DEF Drop

(* A buffer with a CR has a first one: indexOf(CR), parser.ts:296.         *)
LEMMA FirstCR ==
  ASSUME NEW b \in Seq(Byte), HasCR(b)
  PROVE  \E k \in 1..Len(b) : IsFirstCR(b, k)
<1> DEFINE T == {i \in 1..Len(b) : b[i] = CR}
<1>1. T \in SUBSET Nat /\ T # {}
  BY DEF HasCR
<1>2. PICK k \in T : \A i \in T : k <= i
  <2> HIDE DEF T
  <2> QED
    BY <1>1, LeastElement
<1>3. \A j \in 1..(k - 1) : b[j] # CR
  BY <1>2
<1> QED
  BY <1>3 DEF IsFirstCR

(* Two first CRs are one.                                                  *)
LEMMA OneFirstCR ==
  ASSUME NEW b \in Seq(Byte), NEW j \in 1..Len(b), NEW k \in 1..Len(b),
         IsFirstCR(b, j), IsFirstCR(b, k)
  PROVE  j = k
BY DEF IsFirstCR

(* What a buffer is while a state waits for its line: BufferBounded.       *)
Waiting(b) == IF HasCR(b) THEN IsFirstCR(b, Len(b)) /\ Len(b) <= Most
                          ELSE Len(b) <= MaxLineBytes

(* peekLine() returns null only on a buffer within the bound.              *)
LEMMA IncompleteWaits ==
  ASSUME NEW b \in Seq(Byte), LineIncomplete(b), Held(b)
  PROVE  peeked = <<>> /\ Waiting(b)
<1>1. peeked = <<>>
  BY DEF LineIncomplete, PeekLine
<1>2. \A k \in 1..(Len(b) - 1) : ~IsFirstCR(b, k)
  <2>1. SUFFICES ASSUME NEW k \in 1..(Len(b) - 1), IsFirstCR(b, k)
                 PROVE  FALSE
    OBVIOUS
  <2>2. CASE b[k + 1] # LF
    BY <1>1, <2>1, <2>2 DEF LineIncomplete, LineFault
  <2>3. CASE b[k + 1] = LF /\ k - 1 > MaxLineBytes
    BY <1>1, <2>1, <2>3 DEF LineIncomplete, LineFault
  <2>4. CASE b[k + 1] = LF /\ k - 1 <= MaxLineBytes
    BY <1>1, <2>1, <2>4 DEF LineIncomplete, PeekLine
  <2> QED
    BY <2>2, <2>3, <2>4, LimitAssumption
<1>3. Len(b) <= Most
  BY <1>2 DEF Held
<1>4. CASE HasCR(b)
  <2>1. PICK k \in 1..Len(b) : IsFirstCR(b, k)
    BY <1>4, FirstCR
  <2>2. k = Len(b)
    BY <1>2, <2>1
  <2> QED
    BY <1>1, <1>3, <1>4, <2>1, <2>2 DEF Waiting
<1>5. CASE ~HasCR(b)
  <2>1. ~(Len(b) > MaxLineBytes)
    BY <1>1, <1>5 DEF LineIncomplete, LineFault
  <2> QED
    BY <1>1, <1>5, <2>1, LimitAssumption DEF Waiting
<1> QED
  BY <1>4, <1>5

(* A line taken from a held buffer leaves no more than the bound.          *)
LEMMA LineLeaves ==
  ASSUME TypeOK, NEW b \in Seq(Byte), Held(b), peeked # <<>> => Len(b) <= Most,
         NEW p \in PeekLine(b)
  PROVE  Len(Drop(b, p.end)) <= Most
<1>0. Most \in Nat /\ MaxChunk <= Most /\ p.end \in Nat
  BY PeekLineType, LimitAssumption DEF Most
<1>1. CASE peeked # <<>>
  BY <1>0, <1>1 DEF Drop
<1>2. CASE peeked = <<>>
  <2>1. PICK i \in 1..(Len(b) - 1) : IsFirstCR(b, i) /\ p.end = i + 1
    BY <1>2 DEF PeekLine
  <2>2. Len(Drop(b, p.end)) = Len(b) - (i + 1)
    BY <2>1, DropElements
  <2>3. CASE Len(b) <= Most
    BY <1>0, <2>2, <2>3
  <2>4. ASSUME NEW k \in 1..(Len(b) - 1), IsFirstCR(b, k), Len(b) - k <= MaxChunk
        PROVE  Len(Drop(b, p.end)) <= Most
    <3>1. k = i
      BY <2>1, <2>4, OneFirstCR
    <3> QED
      BY <1>0, <2>2, <2>4, <3>1, LimitAssumption
  <2> QED
    BY <2>3, <2>4 DEF Held
<1> QED
  BY <1>1, <1>2

(* Skipping blank bytes before a start line (parser.ts:97-101) keeps a     *)
(* buffer held.                                                            *)
LEMMA BreaksHeld ==
  ASSUME NEW b \in Seq(Byte), Held(b), NEW n \in LeadingBreaks(b)
  PROVE  Held(Drop(b, n)) /\ Len(Drop(b, n)) <= Len(b)
<1>0. /\ n \in 0..Len(b) /\ \A i \in 1..n : b[i] \in {CR, LF}
      /\ Most \in Nat /\ MaxChunk <= Most /\ MaxChunk \in Nat
  BY LimitAssumption DEF LeadingBreaks, Most
<1>1. /\ Len(Drop(b, n)) = Len(b) - n
      /\ \A i \in 1..(Len(b) - n) : Drop(b, n)[i] = b[n + i]
  BY <1>0, DropElements
<1>2. CASE Len(b) <= Most
  BY <1>0, <1>1, <1>2 DEF Held
<1>3. ASSUME NEW k \in 1..(Len(b) - 1), IsFirstCR(b, k), Len(b) - k <= MaxChunk
      PROVE  Held(Drop(b, n))
  <2>1. CASE n >= k
    BY <1>0, <1>1, <1>3, <2>1 DEF Held
  <2>2. CASE n < k
    <3> DEFINE d == Drop(b, n)
    <3>1. k - n \in 1..(Len(d) - 1) /\ Len(d) - (k - n) <= MaxChunk
      BY <1>0, <1>1, <1>3, <2>2
    <3>2. d[k - n] = CR
      <4>1. k - n \in 1..(Len(b) - n) /\ n + (k - n) = k
        BY <1>0, <2>2
      <4> QED
        BY <1>1, <1>3, <4>1 DEF IsFirstCR
    <3>3. \A j \in 1..(k - n - 1) : d[j] # CR
      <4>1. \A j \in 1..(k - n - 1) : j \in 1..(Len(b) - n) /\ n + j \in 1..(k - 1)
        BY <1>0, <2>2
      <4> QED
        BY <1>1, <1>3, <4>1 DEF IsFirstCR
    <3> QED
      BY <3>1, <3>2, <3>3 DEF Held, IsFirstCR
  <2> QED
    BY <1>0, <2>1, <2>2
<1> QED
  BY <1>0, <1>1, <1>2, <1>3 DEF Held
-----------------------------------------------------------------------------
(* What an iteration leaves when it stops with an error (parser.ts:281).   *)
LEMMA FailBounds ==
  ASSUME NEW status, NEW p, Fail(status, p)
  PROVE  BufferInv'
BY DEF Fail, BufferInv, BufferBounded, BufferHeld, PeekedHeld, LineStates

(* The loop goes on with no more than the bound, and no peeked line.       *)
LEMMA GoesOnBounds ==
  ASSUME Len(buffer') <= Most, peeked' = <<>>, call' = "advance"
  PROVE  BufferInv'
<1>1. Most \in Nat /\ Most' = Most
  BY LimitAssumption DEF Most
<1>2. Held(buffer)'
  BY <1>1 DEF Held
<1>3. BufferHeld'
  BY <1>1, <1>2, LimitAssumption DEF BufferHeld, Most
<1> QED
  BY <1>3 DEF BufferInv, BufferBounded, PeekedHeld

(* A state that waits for its line leaves a buffer within the bound        *)
(* (parser.ts:292-321).                                                    *)
LEMMA AwaitBounds ==
  ASSUME NEW b \in Seq(Byte), Held(b), AwaitLine(b), stateName \in LineStates
  PROVE  BufferInv'
<1>1. ASSUME NEW status \in LineFault(b), Fail(status, current)
      PROVE  BufferInv'
  BY <1>1, FailBounds
<1>2. CASE LineIncomplete(b) /\ Return
  <2>1. peeked = <<>> /\ Waiting(b)
    BY <1>2, IncompleteWaits
  <2>2. call' = "idle" /\ stateName' = stateName /\ buffer' = b /\ peeked' = <<>>
    BY <1>2, <2>1 DEF Return, progress, AwaitLine
  <2>3. BufferBounded'
    BY <2>1, <2>2 DEF BufferBounded, LineStates, Waiting, HasCR, IsFirstCR, Most
  <2> QED
    BY <2>2, <2>3 DEF BufferInv, BufferHeld, PeekedHeld
<1> QED
  BY <1>1, <1>2 DEF AwaitLine

(* What an iteration finds: the invariants while the loop runs.            *)
LEMMA LoopFinds ==
  ASSUME ParserInv, BufferInv, call = "advance"
  PROVE  /\ buffer \in Seq(Byte) /\ current \in Progress /\ TypeOK
         /\ stateName \in LineStates => Held(buffer)
         /\ stateName \in {"BODY_LENGTH", "DONE"} => Len(buffer) <= Most
         /\ stateName = "BODY_CHUNK_DATA" => Len(buffer) <= Most + 1
         /\ peeked # <<>> /\ stateName # "ERROR" =>
              stateName = "START" /\ Len(buffer) <= Most
         /\ Most \in Nat /\ Len(buffer) \in Nat
<1>1. Most \in Nat /\ MaxChunk <= Most
  BY LimitAssumption DEF Most
<1> QED
  BY <1>1, LimitAssumption DEF ParserInv, TypeOK, BufferInv, BufferHeld, PeekedHeld

(* A line consumed from a held buffer, and the loop goes on or fails.      *)
LEMMA ConsumeBounds ==
  ASSUME TypeOK, NEW b \in Seq(Byte), Held(b), peeked # <<>> => Len(b) <= Most,
         NEW p \in PeekLine(b), Consume(b, p.end),
         call' = "advance" \/ \E status, q : Fail(status, q)
  PROVE  BufferInv'
<1>1. Len(buffer') <= Most /\ peeked' = <<>>
  BY LineLeaves DEF Consume
<1> QED
  BY <1>1, GoesOnBounds, FailBounds
-----------------------------------------------------------------------------
(* The start line (parser.ts:96-110).                                      *)
LEMMA ParseStartLineBounds ==
  ASSUME ParserInv, BufferInv, call = "advance", ParseStartLine
  PROVE  BufferInv'
<1>1. PICK n \in LeadingBreaks(buffer) :
        \/ AwaitLine(Drop(buffer, n))
        \/ \E p \in PeekLine(Drop(buffer, n)) :
             /\ Consume(Drop(buffer, n), p.end)
             /\ \/ \E q : Goto("HEADERS", q)
                \/ \E status, q : Fail(status, q)
  BY DEF ParseStartLine
<1> DEFINE b == Drop(buffer, n)
<1>2. stateName = "START" /\ stateName \in LineStates
  BY DEF ParseStartLine, LineStates
<1>3. buffer \in Seq(Byte) /\ TypeOK /\ Held(buffer)
      /\ (peeked # <<>> => Len(buffer) <= Most)
      /\ Most \in Nat /\ Len(buffer) \in Nat
  BY <1>2, LoopFinds
<1>4. b \in Seq(Byte) /\ Held(b) /\ Len(b) <= Len(buffer) /\ Len(b) \in Nat
  <2>1. n \in Nat
    BY <1>3 DEF LeadingBreaks
  <2> QED
    BY <1>3, <2>1, DropType, BreaksHeld, LenProperties
<1> HIDE DEF b
<1>5. peeked # <<>> => Len(b) <= Most
  BY <1>3, <1>4
<1>6. CASE AwaitLine(b)
  BY <1>2, <1>4, <1>6, AwaitBounds
<1>7. ASSUME NEW p \in PeekLine(b), Consume(b, p.end),
             (\E q : Goto("HEADERS", q)) \/ \E status, q : Fail(status, q)
      PROVE  BufferInv'
  <2>1. (\E q : Goto("HEADERS", q)) => call' = "advance"
    BY DEF Goto
  <2> QED
    BY <1>3, <1>4, <1>5, <1>7, <2>1, ConsumeBounds
<1> QED
  BY <1>1, <1>6, <1>7 DEF b

(* A state other than START that takes a line of its buffer, or waits.     *)
LEMMA LineStateBounds ==
  ASSUME ParserInv, BufferInv, call = "advance",
         stateName \in LineStates \ {"START"},
         \/ AwaitLine(buffer)
         \/ \E status, q : Fail(status, q)
         \/ \E p \in PeekLine(buffer) : Consume(buffer, p.end) /\ call' = "advance"
  PROVE  BufferInv'
<1>1. /\ buffer \in Seq(Byte) /\ TypeOK /\ Held(buffer) /\ peeked = <<>>
      /\ stateName \in LineStates
  BY LoopFinds DEF LineStates
<1>2. CASE AwaitLine(buffer)
  BY <1>1, <1>2, AwaitBounds
<1>3. CASE \E status, q : Fail(status, q)
  BY <1>3, FailBounds
<1>4. ASSUME NEW p \in PeekLine(buffer), Consume(buffer, p.end), call' = "advance"
      PROVE  BufferInv'
  BY <1>1, <1>4, ConsumeBounds
<1> QED
  BY <1>2, <1>3, <1>4

(* Header lines, chunk sizes and trailer lines (parser.ts:111-133,         *)
(* :150-166, :191-206).                                                    *)
LEMMA LineIterationsBound ==
  ASSUME ParserInv, BufferInv, call = "advance",
         ParseHeaderLine \/ EndHeaders \/ ParseChunkSize
           \/ ParseTrailerLine \/ EndTrailers
  PROVE  BufferInv'
<1>1. stateName \in LineStates \ {"START"}
  BY DEF ParseHeaderLine, EndHeaders, ParseChunkSize, ParseTrailerLine,
         EndTrailers, LineStates
<1>2. /\ \A s, q : Goto(s, q) => call' = "advance"
      /\ \A q, t : FinishMessage(q, t) => call' = "advance"
  BY DEF Goto, FinishMessage
<1>3. \/ AwaitLine(buffer)
      \/ \E status, q : Fail(status, q)
      \/ \E p \in PeekLine(buffer) : Consume(buffer, p.end) /\ call' = "advance"
  <2>1. CASE ParseHeaderLine
    BY <1>2, <2>1 DEF ParseHeaderLine
  <2>2. CASE EndHeaders
    BY <1>2, <2>2 DEF EndHeaders
  <2>3. CASE ParseChunkSize
    BY <1>2, <2>3 DEF ParseChunkSize
  <2>4. CASE ParseTrailerLine
    BY <1>2, <2>4 DEF ParseTrailerLine
  <2>5. CASE EndTrailers
    BY <1>2, <2>5 DEF EndTrailers
  <2> QED
    BY <2>1, <2>2, <2>3, <2>4, <2>5
<1> QED
  BY <1>1, <1>3, LineStateBounds

(* BODY_LENGTH: the loop stops only on an empty buffer (parser.ts:134-149).*)
LEMMA ReadBodyBounds ==
  ASSUME ParserInv, BufferInv, call = "advance", ReadBody
  PROVE  BufferInv'
<1> DEFINE n == Least(current.expected - Len(current.body), Len(buffer))
<1>1. /\ stateName = "BODY_LENGTH" /\ peeked = <<>> /\ peeked' = <<>>
      /\ buffer \in Seq(Byte) /\ current \in Progress
      /\ Len(buffer) <= Most /\ Most \in Nat /\ Len(buffer) \in Nat
  BY LoopFinds DEF ReadBody
<1>2. CASE UNCHANGED buffer /\ FinishMessage(current, <<>>)
  BY <1>1, <1>2, GoesOnBounds DEF FinishMessage
<1>3. CASE buffer = <<>> /\ UNCHANGED buffer /\ Return
  <2>1. buffer' = <<>> /\ stateName' = "BODY_LENGTH" /\ call' = "idle"
    BY <1>1, <1>3 DEF Return, progress
  <2> QED
    BY <1>1, <2>1 DEF BufferInv, BufferBounded, BufferHeld, PeekedHeld, LineStates
<1>4. CASE /\ current.expected - Len(current.body) > 0 /\ buffer' = Drop(buffer, n)
           /\ call' = "advance"
  <2>1. Len(current.body) \in Nat /\ current.expected \in Nat
    BY <1>1 DEF Progress
  <2>2. n \in 0..Len(buffer)
    BY <1>1, <1>4, <2>1 DEF Least
  <2>3. Len(buffer') <= Most
    BY <1>1, <1>4, <2>2, DropElements
  <2> QED
    BY <1>1, <1>4, <2>3, GoesOnBounds
<1> QED
  BY <1>2, <1>3, <1>4 DEF ReadBody, FinishMessage, Goto

(* Chunk data: the loop stops with less than the chunk's CRLF in the       *)
(* buffer (parser.ts:167-190).                                             *)
LEMMA ReadChunkDataBounds ==
  ASSUME ParserInv, BufferInv, call = "advance", ReadChunkData
  PROVE  BufferInv'
<1> DEFINE left == current.chunkSize - current.chunkRead
           n    == Least(left, Len(buffer))
           rest == Drop(buffer, n)
           read == [current EXCEPT !.body = @ \o Take(buffer, n), !.chunkRead = @ + n]
           whole == read.chunkRead = read.chunkSize
<1>1. /\ stateName = "BODY_CHUNK_DATA" /\ peeked = <<>> /\ peeked' = <<>>
      /\ buffer \in Seq(Byte) /\ current \in Progress
      /\ Len(buffer) <= Most + 1 /\ Most \in Nat /\ Len(buffer) \in Nat
  BY LoopFinds DEF ReadChunkData
<1>2. left \in Nat /\ current.chunkSize \in Nat /\ current.chunkRead \in Nat
  BY <1>1 DEF ParserInv, Progressing, Progress
<1>3. n \in 0..Len(buffer) /\ (n # left => n = Len(buffer))
  BY <1>1, <1>2 DEF Least
<1>4. rest \in Seq(Byte) /\ Len(rest) = Len(buffer) - n
  BY <1>1, <1>3, DropElements, DropType
<1>5. whole <=> n = left
  <2>1. read.chunkRead = current.chunkRead + n /\ read.chunkSize = current.chunkSize
    <3> HIDE DEF n
    <3> QED
      BY <1>1 DEF Progress
  <2> QED
    BY <1>2, <1>3, <2>1
<1>6. \/ /\ ~whole \/ Len(rest) < 2
         /\ buffer' = rest /\ stateName' = stateName /\ call' = "idle"
      \/ Fail(400, read)
      \/ Len(rest) >= 2 /\ buffer' = Drop(rest, 2) /\ call' = "advance"
  BY DEF ReadChunkData, Goto
<1> HIDE DEF whole, rest, n, left
<1>7. CASE /\ ~whole \/ Len(rest) < 2
           /\ buffer' = rest /\ stateName' = stateName /\ call' = "idle"
  <2>1. Len(buffer') < 2
    BY <1>1, <1>3, <1>4, <1>5, <1>7
  <2> QED
    BY <1>1, <1>7, <2>1 DEF BufferInv, BufferBounded, BufferHeld, PeekedHeld, LineStates
<1>8. CASE Fail(400, read)
  BY <1>8, FailBounds
<1>9. CASE Len(rest) >= 2 /\ buffer' = Drop(rest, 2) /\ call' = "advance"
  <2>1. Len(buffer') = Len(rest) - 2
    BY <1>4, <1>9, DropElements
  <2>2. Len(buffer') <= Most
    BY <1>1, <1>3, <1>4, <2>1
  <2> QED
    BY <1>1, <1>9, <2>2, GoesOnBounds
<1> QED
  BY <1>6, <1>7, <1>8, <1>9

(* A finished message: the loop stops only on an empty buffer              *)
(* (parser.ts:208-214).                                                    *)
LEMMA StartOverBounds ==
  ASSUME ParserInv, BufferInv, call = "advance", StartOver
  PROVE  BufferInv'
<1>1. /\ stateName = "DONE" /\ stateName' = "START"
      /\ peeked = <<>> /\ peeked' = <<>> /\ buffer' = buffer
      /\ Len(buffer) <= Most
  BY LoopFinds DEF StartOver
<1>2. CASE buffer = <<>>
  <2>1. call' = "idle" /\ buffer' = <<>>
    BY <1>1, <1>2 DEF StartOver
  <2>2. ~HasCR(buffer)' /\ Len(buffer') <= MaxLineBytes
    BY <2>1, LimitAssumption DEF HasCR
  <2> QED
    BY <1>1, <2>1, <2>2 DEF BufferInv, BufferBounded, BufferHeld, PeekedHeld
<1>3. CASE buffer # <<>>
  BY <1>1, <1>3, GoesOnBounds DEF StartOver
<1> QED
  BY <1>2, <1>3

(* A buffer that grows at its end keeps the bytes it had: Buffer.concat.   *)
LEMMA GrowsBy ==
  ASSUME NEW b \in Seq(Byte), NEW c \in Seq(Byte), NEW d, d = b \o c
  PROVE  /\ d \in Seq(Byte) /\ Len(d) = Len(b) + Len(c)
         /\ \A i \in 1..Len(b) : d[i] = b[i]
BY ConcatProperties

(* feed() adds at most MaxChunk bytes to a buffer within the bound         *)
(* (parser.ts:76-82).                                                      *)
LEMMA FeedBounds ==
  ASSUME ParserInv, BufferInv, NEW n \in 1..MaxChunk, Feed(n)
  PROVE  BufferInv'
<1> DEFINE fed == Take(unsent, n)
<1>1. /\ call = "idle" /\ call' = "advance" /\ stateName' = stateName
      /\ stateName \in ParserState \ {"ERROR"} /\ peeked' = peeked
      /\ buffer \in Seq(Byte) /\ fed \in Seq(Byte) /\ Len(fed) = n
      /\ buffer' = buffer \o fed
      /\ MaxChunk \in Nat /\ MaxLineBytes \in Nat
  BY TakeType, LimitAssumption DEF Feed, progress, ParserInv, TypeOK
<1> HIDE DEF fed
<1>2. /\ buffer' \in Seq(Byte) /\ Len(buffer') = Len(buffer) + n
      /\ \A i \in 1..Len(buffer) : buffer'[i] = buffer[i]
  BY <1>1, GrowsBy
<1>3. BufferBounded /\ PeekedHeld
  BY DEF BufferInv
<1>4. ASSUME stateName \in LineStates
      PROVE  Held(buffer)'
  <2>1. CASE HasCR(buffer)
    <3>1. PICK k \in 1..Len(buffer) : IsFirstCR(buffer, k)
      BY <1>1, <2>1, FirstCR
    <3>2. IsFirstCR(buffer, Len(buffer))
      BY <1>1, <1>3, <1>4, <2>1 DEF BufferBounded
    <3>3. Len(buffer) \in 1..(Len(buffer') - 1)
      BY <1>1, <1>2, <3>1
    <3>4. IsFirstCR(buffer', Len(buffer))
      BY <1>1, <1>2, <3>2, <3>3 DEF IsFirstCR
    <3>5. Len(buffer') - Len(buffer) <= MaxChunk
      BY <1>1, <1>2
    <3> QED
      BY <3>3, <3>4, <3>5 DEF Held, IsFirstCR
  <2>2. CASE ~HasCR(buffer)
    BY <1>1, <1>2, <1>3, <1>4, <2>2 DEF BufferBounded, Held, Most
  <2> QED
    BY <2>1, <2>2
<1>5. BufferHeld'
  <2>1. stateName = "BODY_LENGTH" => Len(buffer') <= Most
    BY <1>1, <1>2, <1>3 DEF BufferBounded, Most
  <2>2. stateName = "BODY_CHUNK_DATA" => Len(buffer') <= Most + 1
    BY <1>1, <1>2, <1>3 DEF BufferBounded, Most
  <2>3. stateName # "DONE"
    BY <1>1, <1>3 DEF BufferBounded
  <2> QED
    BY <1>1, <1>4, <2>1, <2>2, <2>3 DEF BufferHeld, Most
<1>6. PeekedHeld'
  BY <1>1, <1>2, <1>3 DEF PeekedHeld
<1> QED
  BY <1>1, <1>5, <1>6 DEF BufferInv, BufferBounded

(* The other steps of the caller leave the buffer, or empty it.            *)
LEMMA CallerBounds ==
  ASSUME ParserInv, BufferInv,
         TakeNext \/ Reset \/ \E n \in 1..MaxChunk : FeedThrows(n)
  PROVE  BufferInv'
<1>1. CASE TakeNext \/ \E n \in 1..MaxChunk : FeedThrows(n)
  BY <1>1 DEF TakeNext, FeedThrows, progress, BufferInv, BufferBounded, BufferHeld,
              PeekedHeld, Held, Most, HasCR, IsFirstCR
<1>2. CASE Reset
  <2>1. call' = "idle" /\ buffer' = <<>> /\ stateName' = "START"
    BY <1>2 DEF Reset
  <2>2. ~HasCR(buffer)' /\ Len(buffer') <= MaxLineBytes /\ Len(buffer') <= 0
    BY <2>1, LimitAssumption DEF HasCR
  <2> QED
    BY <2>1, <2>2 DEF BufferInv, BufferBounded, BufferHeld, PeekedHeld
<1> QED
  BY <1>1, <1>2

(* Between two calls the parser holds no byte it could have consumed, and  *)
(* never more than the line limit and one fed chunk: advance() and         *)
(* peekLine(), whatever the limits, the tables and the stream.             *)
THEOREM Bounded == Spec => []BufferBounded
<1>1. Init => BufferInv
  <2>1. SUFFICES ASSUME Init PROVE BufferInv
    OBVIOUS
  <2>2. buffer = <<>> /\ stateName = "START" /\ call = "idle" /\ peeked = <<>>
    BY <2>1 DEF Init
  <2>3. ~HasCR(buffer) /\ Len(buffer) <= MaxLineBytes
    BY <2>2, LimitAssumption DEF HasCR
  <2> QED
    BY <2>2, <2>3 DEF BufferInv, BufferBounded, BufferHeld, PeekedHeld
<1>2. ParserInv /\ BufferInv /\ [Next]_vars => BufferInv'
  <2>1. SUFFICES ASSUME ParserInv, BufferInv, [Next]_vars PROVE BufferInv'
    OBVIOUS
  <2>2. CASE Advance
    BY <2>1, <2>2, ParseStartLineBounds, LineIterationsBound, ReadBodyBounds,
       ReadChunkDataBounds, StartOverBounds DEF Advance
  <2>3. CASE \E n \in 1..MaxChunk : Feed(n) \/ FeedThrows(n)
    BY <2>1, <2>3, FeedBounds, CallerBounds
  <2>4. CASE TakeNext \/ Reset
    BY <2>1, <2>4, CallerBounds
  <2>5. CASE UNCHANGED vars
    BY <2>1, <2>5 DEF vars, BufferInv, BufferBounded, BufferHeld, PeekedHeld, Held,
                      Most, HasCR, IsFirstCR
  <2> QED
    BY <2>1, <2>2, <2>3, <2>4, <2>5 DEF Next
<1>3. BufferInv => BufferBounded
  BY DEF BufferInv
<1> QED
  BY Invariance, <1>1, <1>2, <1>3, PTL DEF Spec
-----------------------------------------------------------------------------
(* What stands in front of a buffer stays there when bytes come behind it. *)
LEMMA TakeBehind ==
  ASSUME NEW S, NEW b \in Seq(S), NEW c \in Seq(S), NEW n \in 0..Len(b)
  PROVE  /\ Take(b \o c, n) = Take(b, n)
         /\ Drop(b \o c, n) = Drop(b, n) \o c
<1>1. /\ b \o c \in Seq(S) /\ Len(b \o c) = Len(b) + Len(c)
      /\ \A i \in 1..(Len(b) + Len(c)) :
           (b \o c)[i] = IF i <= Len(b) THEN b[i] ELSE c[i - Len(b)]
  BY ConcatProperties
<1> DEFINE d == b \o c
<1> HIDE DEF d
<1>2. d \in Seq(S) /\ n \in 0..Len(d) /\ Len(d) = Len(b) + Len(c)
      /\ \A i \in 1..(Len(b) + Len(c)) :
           d[i] = IF i <= Len(b) THEN b[i] ELSE c[i - Len(b)]
  BY <1>1 DEF d
<1>3. Take(d, n) = Take(b, n)
  BY <1>2 DEF Take
<1>4. Drop(d, n) = Drop(b, n) \o c
  <2>1. /\ Drop(b, n) \in Seq(S) /\ Drop(d, n) \in Seq(S)
        /\ Len(Drop(b, n)) = Len(b) - n /\ Len(Drop(d, n)) = Len(d) - n
        /\ \A i \in 1..(Len(b) - n) : Drop(b, n)[i] = b[n + i]
        /\ \A i \in 1..(Len(d) - n) : Drop(d, n)[i] = d[n + i]
    <3>1. n \in Nat
      BY LenProperties
    <3> QED
      <4>1. n \in 0..Len(b) /\ n \in 0..Len(d) /\ b \in Seq(S) /\ d \in Seq(S)
        BY <1>2
      <4>2. /\ Drop(b, n) \in Seq(S) /\ Len(Drop(b, n)) = Len(b) - n
            /\ \A i \in 1..(Len(b) - n) : Drop(b, n)[i] = b[n + i]
        BY <3>1, <4>1, DropElements, DropType
      <4>3. /\ Drop(d, n) \in Seq(S) /\ Len(Drop(d, n)) = Len(d) - n
            /\ \A i \in 1..(Len(d) - n) : Drop(d, n)[i] = d[n + i]
        BY <3>1, <4>1, DropElements, DropType
      <4> QED
        BY <4>2, <4>3
  <2> DEFINE e == Drop(b, n) \o c
  <2>2. /\ e \in Seq(S) /\ Len(e) = Len(d) - n
        /\ \A i \in 1..(Len(d) - n) :
             e[i] = IF i <= Len(b) - n THEN Drop(b, n)[i] ELSE c[i - (Len(b) - n)]
    <3> DEFINE rest == Drop(b, n)
    <3> HIDE DEF rest
    <3>1. rest \in Seq(S) /\ Len(rest) = Len(b) - n
      BY <2>1 DEF rest
    <3>2. /\ rest \o c \in Seq(S) /\ Len(rest \o c) = Len(rest) + Len(c)
          /\ \A i \in 1..(Len(rest) + Len(c)) :
               (rest \o c)[i] = IF i <= Len(rest) THEN rest[i] ELSE c[i - Len(rest)]
      BY <3>1, ConcatProperties
    <3>3. /\ n \in Nat /\ Len(b) \in Nat /\ Len(c) \in Nat
          /\ Len(rest) + Len(c) = Len(d) - n
      BY <1>2, <3>1, LenProperties
    <3> QED
      BY <3>1, <3>2, <3>3 DEF rest
  <2> HIDE DEF e
  <2>3. \A i \in 1..(Len(d) - n) : e[i] = Drop(d, n)[i]
    <3>1. ASSUME NEW i \in 1..(Len(d) - n) PROVE e[i] = Drop(d, n)[i]
      <4>1. n + i \in 1..(Len(b) + Len(c)) /\ n \in Nat /\ Len(b) \in Nat
        BY <1>2, LenProperties
      <4>2. Drop(d, n)[i] = IF n + i <= Len(b) THEN b[n + i] ELSE c[n + i - Len(b)]
        BY <1>2, <2>1, <4>1
      <4>3. CASE i <= Len(b) - n
        BY <2>1, <2>2, <4>1, <4>2, <4>3
      <4>4. CASE i > Len(b) - n
        <5>1. i - (Len(b) - n) = n + i - Len(b)
          BY <4>1
        <5> QED
          BY <2>2, <4>1, <4>2, <4>4, <5>1
      <4> QED
        BY <4>1, <4>3, <4>4
    <3> QED
      BY <3>1
  <2>4. e = Drop(d, n)
    BY <1>2, <2>1, <2>2, <2>3, SeqEqual
  <2> QED
    BY <2>4 DEF e
<1> QED
  BY <1>3, <1>4 DEF d

(* A buffer is what stands in front of a place and what stands behind it.  *)
LEMMA TakeAndDrop ==
  ASSUME NEW S, NEW b \in Seq(S)
  PROVE  /\ Drop(b, 0) = b /\ Take(b, 0) = <<>>
         /\ Take(b, Len(b)) = b /\ Drop(b, Len(b)) = <<>>
         /\ \A n \in 0..Len(b) : Take(b, n) \o Drop(b, n) = b
<1>1. Drop(b, 0) = b /\ Take(b, 0) = <<>> /\ Take(b, Len(b)) = b
      /\ Drop(b, Len(b)) = <<>>
  BY LenProperties, SubSeqFull, SubSeqEmpty DEF Take, Drop
<1>2. ASSUME NEW n \in 0..Len(b) PROVE Take(b, n) \o Drop(b, n) = b
  <2>1. 1 \in 1..(Len(b) + 1) /\ n \in (1 - 1)..Len(b) /\ Len(b) \in n..Len(b)
    BY LenProperties
  <2> QED
    BY <2>1, ConcatAdjacentSubSeq, SubSeqFull DEF Take, Drop
<1> QED
  BY <1>1, <1>2

(* Bytes may be joined in any order.                                       *)
LEMMA BytesAssociative ==
  \A s, t, u \in Seq(Byte) : (s \o t) \o u = s \o (t \o u)
BY ConcatAssociative

(* A sequence is cut in two at a place, and put together again.            *)
LEMMA CutInTwo ==
  ASSUME NEW S, NEW b \in Seq(S), NEW n \in 0..Len(b)
  PROVE  /\ Take(b, n) \in Seq(S) /\ Drop(b, n) \in Seq(S)
         /\ Len(Take(b, n)) = n /\ Len(Drop(b, n)) = Len(b) - n
         /\ Len(Take(b, n)) \in Nat /\ Len(Drop(b, n)) \in Nat
         /\ Take(b, n) \o Drop(b, n) = b
<1>1. n \in Nat /\ Len(b) \in Nat /\ Len(b) - n \in Nat
  BY LenProperties
<1>2. Take(b, n) \in Seq(S) /\ Len(Take(b, n)) = n
  BY TakeType
<1>3. Drop(b, n) \in Seq(S) /\ Len(Drop(b, n)) = Len(b) - n
  BY <1>1, DropType, DropElements
<1> QED
  BY <1>1, <1>2, <1>3, TakeAndDrop

(* A line that has come, and a fault that is seen, are the same whatever   *)
(* comes behind them; but for a line over the limit whose end has not.     *)
LEMMA PeekBehind ==
  ASSUME peeked = <<>>, NEW b \in Seq(Byte), NEW c \in Seq(Byte)
  PROVE  /\ \A p \in PeekLine(b) : p \in PeekLine(b \o c) /\ p.end \in 2..Len(b)
         /\ \A status \in LineFault(b) :
              \/ status \in LineFault(b \o c)
              \/ status = 431 /\ ~HasCR(b) /\ Len(b) > MaxLineBytes
<1> DEFINE d == b \o c
<1>1. /\ d \in Seq(Byte) /\ Len(d) = Len(b) + Len(c)
      /\ Len(b) \in Nat /\ Len(c) \in Nat
      /\ \A i \in 1..Len(b) : d[i] = b[i]
  BY ConcatProperties
<1> HIDE DEF d
<1>2. ASSUME NEW k \in 1..(Len(b) - 1), IsFirstCR(b, k)
      PROVE  /\ k \in 1..(Len(d) - 1) /\ IsFirstCR(d, k) /\ d[k + 1] = b[k + 1]
             /\ Take(d, k - 1) = Take(b, k - 1)
  <2>1. k \in 1..(Len(d) - 1) /\ IsFirstCR(d, k) /\ d[k + 1] = b[k + 1]
    <3>1. k \in Nat /\ k + 1 \in 1..Len(b) /\ k \in 1..(Len(d) - 1)
      BY <1>1
    <3>2. b[k] = CR /\ \A j \in 1..(k - 1) : b[j] # CR /\ j \in 1..Len(b)
      BY <1>1, <1>2, <3>1 DEF IsFirstCR
    <3>3. d[k] = CR /\ \A j \in 1..(k - 1) : d[j] # CR
      <4>1. \A j \in 1..Len(b) : d[j] = b[j]
        BY <1>1
      <4>2. k \in 1..Len(b)
        BY <1>1, <1>2
      <4> QED
        BY <3>2, <4>1, <4>2, Zenon
    <3> QED
      BY <1>1, <3>1, <3>2, <3>3 DEF IsFirstCR
  <2> QED
    <3>1. k - 1 \in 0..Len(b)
      BY <1>1
    <3> QED
      BY <2>1, <3>1, TakeBehind DEF d
<1>3. ASSUME NEW p \in PeekLine(b)
      PROVE  p \in PeekLine(d) /\ p.end \in 2..Len(b)
  <2>1. PICK i \in 1..(Len(b) - 1) :
          /\ IsFirstCR(b, i) /\ b[i + 1] = LF /\ i - 1 <= MaxLineBytes
          /\ p = [line |-> Take(b, i - 1), end |-> i + 1]
    BY <1>3 DEF PeekLine
  <2> QED
    <3>1. i + 1 \in 2..Len(b)
      BY <1>1
    <3>2. i \in {k \in 1..(Len(d) - 1) :
                 IsFirstCR(d, k) /\ d[k + 1] = LF /\ k - 1 <= MaxLineBytes}
      BY <1>2, <2>1
    <3>3. p = [line |-> Take(d, i - 1), end |-> i + 1]
      BY <1>2, <2>1
    <3>4. p \in PeekLine(d)
      BY <3>2, <3>3, Zenon DEF PeekLine
    <3> QED
      BY <2>1, <3>1, <3>4
<1>4. ASSUME NEW status \in LineFault(b)
      PROVE  \/ status \in LineFault(d)
             \/ status = 431 /\ ~HasCR(b) /\ Len(b) > MaxLineBytes
  <2>1. CASE status = 400
    BY <1>1, <1>2, <1>4, <2>1 DEF LineFault
  <2>2. CASE status = 431
    BY <1>1, <1>2, <1>4, <2>2 DEF LineFault
  <2> QED
    BY <1>4, <2>1, <2>2, LineFaultType
<1> QED
  BY <1>3, <1>4 DEF d

(* Line breaks in front of something else are as many whatever comes       *)
(* behind it.                                                              *)
LEMMA BreaksBehind ==
  ASSUME NEW b \in Seq(Byte), NEW c \in Seq(Byte), NEW n \in LeadingBreaks(b)
  PROVE  /\ n \in 0..Len(b) /\ \A i \in 1..n : (b \o c)[i] \in {CR, LF}
         /\ n < Len(b) => n \in LeadingBreaks(b \o c)
<1> DEFINE d == b \o c
<1>1. /\ d \in Seq(Byte) /\ Len(d) = Len(b) + Len(c)
      /\ Len(b) \in Nat /\ Len(c) \in Nat
      /\ \A i \in 1..Len(b) : d[i] = b[i]
  BY ConcatProperties
<1> HIDE DEF d
<1>2. /\ n \in 0..Len(b) /\ \A i \in 1..n : d[i] \in {CR, LF}
      /\ n < Len(b) => n \in LeadingBreaks(d)
  BY <1>1 DEF LeadingBreaks
<1> QED
  BY <1>2 DEF d
-----------------------------------------------------------------------------
(* The operators of the parser mean the same to both.                      *)
LEMMA SameOperators ==
  /\ \A b : /\ OneFeed!PeekLine(b) = PeekLine(b) /\ OneFeed!LineFault(b) = LineFault(b)
            /\ OneFeed!LineIncomplete(b) = LineIncomplete(b)
            /\ OneFeed!LeadingBreaks(b) = LeadingBreaks(b)
  /\ \A b, n : OneFeed!Take(b, n) = Take(b, n) /\ OneFeed!Drop(b, n) = Drop(b, n)
  /\ \A m, n : OneFeed!Least(m, n) = Least(m, n)
  /\ \A l : OneFeed!FieldsOf(l) = FieldsOf(l) /\ OneFeed!WellFormed(l) = WellFormed(l)
  /\ \A f : OneFeed!BodyMode(f) = BodyMode(f) /\ OneFeed!Announced(f) = Announced(f)
  /\ \A p, t : OneFeed!Assemble(p, t) = Assemble(p, t)
  /\ OneFeed!EmptyProgress = EmptyProgress
<1>1. \A b, n : OneFeed!Take(b, n) = Take(b, n) /\ OneFeed!Drop(b, n) = Drop(b, n)
  BY DEF OneFeed!Take, Take, OneFeed!Drop, Drop
<1>2. \A b : /\ OneFeed!PeekLine(b) = PeekLine(b) /\ OneFeed!LineFault(b) = LineFault(b)
             /\ OneFeed!LeadingBreaks(b) = LeadingBreaks(b)
  <2>1. \A b : OneFeed!PeekLine(b) = PeekLine(b)
    BY DEF OneFeed!PeekLine, PeekLine, OneFeed!Take, Take, OneFeed!IsFirstCR, IsFirstCR
  <2>2. \A b : OneFeed!LineFault(b) = LineFault(b)
    BY DEF OneFeed!LineFault, LineFault, OneFeed!HasCR, HasCR, OneFeed!IsFirstCR, IsFirstCR
  <2>3. \A b : OneFeed!LeadingBreaks(b) = LeadingBreaks(b)
    BY DEF OneFeed!LeadingBreaks, LeadingBreaks
  <2> QED
    BY <2>1, <2>2, <2>3
<1>3. \A b : OneFeed!LineIncomplete(b) = LineIncomplete(b)
  BY <1>2 DEF OneFeed!LineIncomplete, LineIncomplete
<1>4. \A m, n : OneFeed!Least(m, n) = Least(m, n)
  BY DEF OneFeed!Least, Least
<1>5. \A l : OneFeed!FieldsOf(l) = FieldsOf(l) /\ OneFeed!WellFormed(l) = WellFormed(l)
  BY DEF OneFeed!FieldsOf, FieldsOf, OneFeed!WellFormed, WellFormed
<1>6. \A f, n : OneFeed!Named(f, n) = Named(f, n) /\ OneFeed!First(f, n) = First(f, n)
  BY DEF OneFeed!Named, Named, OneFeed!First, First
<1>7. \A f : OneFeed!IsChunked(f) = IsChunked(f)
  BY <1>6 DEF OneFeed!IsChunked, IsChunked
<1>8. \A f : OneFeed!BodyMode(f) = BodyMode(f)
  BY <1>6, <1>7 DEF OneFeed!BodyMode, BodyMode
<1>9. \A f : OneFeed!Announced(f) = Announced(f)
  BY <1>8 DEF OneFeed!Announced, Announced, OneFeed!First, First, OneFeed!Named, Named
<1>10. \A p, t : OneFeed!Assemble(p, t) = Assemble(p, t)
  BY DEF OneFeed!Assemble, Assemble
<1>11. OneFeed!EmptyProgress = EmptyProgress
  BY DEF OneFeed!EmptyProgress, EmptyProgress
<1> QED
  BY <1>1, <1>2, <1>3, <1>4, <1>5, <1>8, <1>9, <1>10, <1>11

(* Where no body is being read, and where it begins, both stand in the     *)
(* same place.                                                             *)
LEMMA NothingAbsorbed ==
  ASSUME NEW s \in ParserState, NEW p \in Progress,
         s = "BODY_LENGTH" => p.body = <<>>,
         s = "BODY_CHUNK_DATA" => p.chunkRead = 0
  PROVE  AbsorbedIn(s, p) = <<>> /\ UnreadIn(s, p) = p
<1>1. p.body \in Seq(Byte) /\ Len(p.body) \in Nat /\ Drop(p.body, Len(p.body)) = <<>>
      /\ Take(p.body, Len(p.body)) = p.body
  BY TakeAndDrop, LenProperties DEF Progress
<1>2. AbsorbedIn(s, p) = <<>>
  BY <1>1 DEF AbsorbedIn
<1>3. Take(p.body, Len(p.body) - Len(AbsorbedIn(s, p))) = p.body
  BY <1>1, <1>2
<1>4. UnreadIn(s, p) = [p EXCEPT !.body = p.body, !.chunkRead = p.chunkRead]
  BY <1>3 DEF UnreadIn
<1>5. UnreadIn(s, p) = p
  BY <1>4 DEF Progress
<1> QED
  BY <1>2, <1>5

(* What the parser and the other one are at while a line is read.          *)
LEMMA AtLine ==
  ASSUME ParserInv, stateName \in ParserState \ {"BODY_LENGTH", "BODY_CHUNK_DATA"}
  PROVE  /\ Absorbed = <<>> /\ Before = current /\ Whole = buffer \o unsent
         /\ buffer \in Seq(Byte) /\ unsent \in Seq(Byte) /\ Whole \in Seq(Byte)
         /\ current \in Progress
<1>1. current \in Progress /\ buffer \in Seq(Byte) /\ unsent \in Seq(Byte)
  BY DEF ParserInv, TypeOK
<1>2. Absorbed = <<>> /\ Before = current
  BY <1>1, NothingAbsorbed DEF Absorbed, Before
<1> QED
  BY <1>1, <1>2, ConcatEmptySeq, ConcatProperties DEF Whole
-----------------------------------------------------------------------------
(* The outcomes of an iteration are the same to both.                      *)
LEMMA GotoWhole ==
  ASSUME Running, NEW s \in ParserState \ {"ERROR", "START"}, NEW p \in Progress,
         s = "BODY_LENGTH" => p.body = <<>>,
         s = "BODY_CHUNK_DATA" => p.chunkRead = 0,
         Goto(s, p), taken' = taken
  PROVE  OneFeed!Goto(s, p) /\ Absorbed' = <<>>
<1>1. stateName' = s /\ current' = p /\ ready' = ready /\ lastError' = lastError
  BY DEF Goto
<1>2. Absorbed' = <<>> /\ Before' = p
  BY <1>1, NothingAbsorbed DEF Absorbed, Before
<1>3. Finished' = Finished /\ Running'
  BY <1>1 DEF Finished, Running
<1> QED
  BY <1>1, <1>2, <1>3 DEF OneFeed!Goto

(* An error stops both (parser.ts:281-289).                                *)
LEMMA FailWhole ==
  ASSUME NEW status, NEW p \in Progress, Fail(status, p), taken' = taken
  PROVE  OneFeed!Fail(status, p) /\ Absorbed' = <<>>
<1>1. /\ stateName' = "ERROR" /\ current' = p /\ ready' = ready
      /\ lastError' = status /\ "ERROR" \in ParserState
  BY DEF Fail, ParserState
<1>2. Absorbed' = <<>> /\ Before' = p
  BY <1>1, NothingAbsorbed DEF Absorbed, Before
<1>3. Finished' = Finished /\ ~Running'
  BY <1>1 DEF Finished, Running
<1> QED
  BY <1>1, <1>2, <1>3 DEF OneFeed!Fail

(* A message behind those that are finished.                               *)
LEMMA FinishedGrows ==
  ASSUME TypeOK, NEW m \in Message, ready' = Append(ready, m), taken' = taken
  PROVE  Finished' = Append(Finished, m)
<1>1. taken \in Seq(Message) /\ ready \in Seq(Message) /\ <<m>> \in Seq(Message)
  BY DEF TypeOK
<1>2. taken \o ready \in Seq(Message)
  BY <1>1, ConcatProperties
<1>3. taken \o Append(ready, m) = Append(taken \o ready, m)
  BY <1>1, <1>2, AppendIsConcat, ConcatAssociative
<1> QED
  BY <1>3 DEF Finished

(* A message finished by the one is finished by the other                  *)
(* (parser.ts:274-279).                                                    *)
LEMMA FinishWhole ==
  ASSUME TypeOK, Running, NEW p \in Progress, NEW trailers \in Seq(Field),
         FinishMessage(p, trailers), taken' = taken
  PROVE  OneFeed!FinishMessage(p, trailers) /\ Absorbed' = <<>>
<1>1. /\ stateName' = "DONE" /\ current' = EmptyProgress /\ lastError' = lastError
      /\ ready' = Append(ready, Assemble(p, trailers)) /\ "DONE" \in ParserState
  BY DEF FinishMessage, ParserState
<1>2. Absorbed' = <<>> /\ Before' = EmptyProgress
  BY <1>1, NothingAbsorbed, EmptyProgressType DEF Absorbed, Before
<1>3. Running'
  BY <1>1 DEF Running
<1>4. Finished' = Append(Finished, Assemble(p, trailers))
  <2>1. Assemble(p, trailers) \in Message
    BY AssembleType
  <2> QED
    BY <1>1, <2>1, FinishedGrows
<1> QED
  BY <1>1, <1>2, <1>3, <1>4, SameOperators DEF OneFeed!FinishMessage

(* A line consumed from the front of the buffer is consumed from the front *)
(* of the stream (parser.ts:323-328).                                      *)
LEMMA ConsumeWhole ==
  ASSUME NEW b \in Seq(Byte), unsent \in Seq(Byte), NEW n \in 0..Len(b),
         Consume(b, n), unsent' = unsent, Absorbed' = <<>>
  PROVE  OneFeed!Consume(b \o unsent, n)
<1>1. buffer' = Drop(b, n) /\ peeked' = <<>>
  BY DEF Consume
<1>2. Drop(b, n) \in Seq(Byte)
  BY LenProperties, DropType
<1>3. Whole' = Drop(b, n) \o unsent
  BY <1>1, <1>2, ConcatEmptySeq DEF Whole
<1>4. Whole' = Drop(b \o unsent, n)
  BY <1>3, TakeBehind
<1> QED
  BY <1>1, <1>4, SameOperators DEF OneFeed!Consume
-----------------------------------------------------------------------------
(* What the parser may have left of its buffer before it looks for a line: *)
(* all, or what stands behind the breaks in front of a start line.         *)
AtLineStart(b) ==
  \/ b = buffer
  \/ stateName = "START" /\ \E n \in LeadingBreaks(buffer) : b = Drop(buffer, n)

(* Dropping those breaks is a step the other parser may take.              *)
LEMMA BreaksSkipped ==
  ASSUME ParserInv, stateName \in LineStates, NEW b, AtLineStart(b),
         Whole' = b \o unsent
  PROVE  b \in Seq(Byte) /\ Skipping
<1>1. /\ Whole = buffer \o unsent /\ buffer \in Seq(Byte) /\ unsent \in Seq(Byte)
      /\ Len(Whole) = Len(buffer) + Len(unsent)
      /\ Len(buffer) \in Nat /\ Len(unsent) \in Nat
  <2>1. stateName \in ParserState \ {"BODY_LENGTH", "BODY_CHUNK_DATA"}
    BY DEF LineStates, ParserState
  <2> QED
    BY <2>1, AtLine, ConcatProperties
<1>2. CASE b = buffer
  BY <1>1, <1>2 DEF Skipping
<1>3. ASSUME stateName = "START", NEW n \in LeadingBreaks(buffer), b = Drop(buffer, n)
      PROVE  b \in Seq(Byte) /\ Skipping
  <2>1. n \in 0..Len(buffer) /\ \A i \in 1..n : Whole[i] \in {CR, LF}
    BY <1>1, BreaksBehind
  <2>2. Whole' = Drop(Whole, n) /\ b \in Seq(Byte)
    <3>1. n \in Nat
      BY <1>1, <2>1
    <3> QED
      BY <1>1, <1>3, <2>1, <3>1, TakeBehind, DropType
  <2>3. CASE n = 0
    <3>1. Whole \in Seq(Byte)
      BY <1>1, ConcatProperties
    <3> QED
      BY <1>1, <1>3, <2>2, <2>3, <3>1, TakeAndDrop DEF Skipping
  <2>4. CASE n # 0
    <3>1. n \in 1..Len(Whole)
      BY <1>1, <2>1, <2>4
    <3> QED
      BY <1>3, <2>1, <2>2, <3>1 DEF Skipping
  <2> QED
    BY <2>2, <2>3, <2>4
<1> QED
  BY <1>2, <1>3 DEF AtLineStart

(* A line that has not come, or is refused (parser.ts:292-321).            *)
LEMMA AwaitWhole ==
  ASSUME ParserInv, peeked = <<>>, stateName \in LineStates,
         unsent' = unsent, taken' = taken,
         NEW b, AtLineStart(b), AwaitLine(b)
  PROVE  SkipBreaks \/ RefuseLong \/ (b # <<>> /\ OneFeed!AwaitLine(b \o unsent))
<1>1. /\ Before = current /\ current \in Progress /\ unsent \in Seq(Byte)
      /\ stateName \in ParserState \ {"BODY_LENGTH", "BODY_CHUNK_DATA"}
  BY AtLine DEF LineStates, ParserState
<1>2. peeked' = peeked /\ buffer' = b
  BY DEF AwaitLine
<1>3. ASSUME Absorbed' = <<>>
      PROVE  Whole' = b \o unsent /\ b \in Seq(Byte) /\ Skipping
  <2>1. b \in Seq(Byte)
    <3>1. buffer \in Seq(Byte) /\ Len(buffer) \in Nat
      BY <1>1, AtLine, LenProperties
    <3>2. \A n \in LeadingBreaks(buffer) : n \in Nat
      BY <3>1 DEF LeadingBreaks
    <3> QED
      BY <3>1, <3>2, DropType DEF AtLineStart
  <2>2. Whole' = b \o unsent
    BY <1>2, <1>3, <2>1, ConcatEmptySeq DEF Whole
  <2> QED
    BY <2>1, <2>2, BreaksSkipped
<1>4. CASE Return
  <2>1. stateName' = stateName /\ current' = current /\ ready' = ready
        /\ lastError' = lastError
    BY <1>4 DEF Return, progress
  <2>2. Absorbed' = <<>> /\ Before' = Before
    BY <1>1, <2>1, AtLine DEF Absorbed, Before
  <2> QED
    BY <1>2, <1>3, <2>1, <2>2 DEF SkipBreaks, Finished
<1>5. ASSUME NEW status \in LineFault(b), Fail(status, current)
      PROVE  RefuseLong \/ (b # <<>> /\ OneFeed!AwaitLine(b \o unsent))
  <2>1. Absorbed' = <<>> /\ OneFeed!Fail(status, current)
    BY <1>1, <1>5, FailWhole
  <2>2. /\ Whole' = b \o unsent /\ b \in Seq(Byte) /\ Skipping
        /\ Len(b) \in Nat /\ Len(unsent) \in Nat
        /\ Len(Whole') = Len(b) + Len(unsent)
        /\ \A i \in 1..Len(b) : Whole'[i] = b[i]
    BY <1>1, <1>3, <2>1, LenProperties, ConcatProperties
  <2>3. b # <<>>
    BY <1>5, LimitAssumption DEF LineFault
  <2>4. CASE status \in LineFault(b \o unsent)
    BY <1>1, <1>2, <2>1, <2>2, <2>3, <2>4, SameOperators DEF OneFeed!AwaitLine
  <2>5. CASE status = 431 /\ ~HasCR(b) /\ Len(b) > MaxLineBytes
    <3>1. Len(Whole') > MaxLineBytes /\ \A i \in 1..(MaxLineBytes + 1) : Whole'[i] # CR
      BY <2>2, <2>5, LimitAssumption DEF HasCR
    <3>2. /\ stateName' = "ERROR" /\ lastError' = 431 /\ Before' = Before
          /\ Finished' = Finished
      BY <1>1, <1>5, <2>1, <2>5 DEF OneFeed!Fail
    <3> QED
      BY <1>2, <2>2, <3>1, <3>2 DEF RefuseLong
  <2> QED
    BY <1>1, <1>5, <2>2, <2>4, <2>5, PeekBehind
<1> QED
  BY <1>4, <1>5 DEF AwaitLine

(* A line that is taken is the line the other parser finds.                *)
LEMMA LineWhole ==
  ASSUME ParserInv, peeked = <<>>, stateName \in LineStates,
         NEW b, AtLineStart(b), NEW p \in PeekLine(b)
  PROVE  /\ b \in Seq(Byte) /\ b # <<>> /\ Running
         /\ p \in OneFeed!PeekLine(b \o unsent) /\ p.line \in Line
         /\ Consume(b, p.end) /\ Absorbed' = <<>> /\ unsent' = unsent =>
              OneFeed!Consume(b \o unsent, p.end)
<1>1. /\ Whole = buffer \o unsent /\ buffer \in Seq(Byte) /\ unsent \in Seq(Byte)
      /\ Len(buffer) \in Nat /\ TypeOK
  BY AtLine, LenProperties DEF LineStates, ParserState, ParserInv
<1>2. b \in Seq(Byte)
  <2>1. \A n \in LeadingBreaks(buffer) : n \in Nat
    BY <1>1 DEF LeadingBreaks
  <2> QED
    BY <1>1, <2>1, DropType DEF AtLineStart
<1>3. p \in PeekLine(b \o unsent) /\ p.end \in 2..Len(b) /\ p.line \in Line
  BY <1>1, <1>2, PeekBehind, PeekLineType
<1>4. b # <<>> /\ p.end \in 0..Len(b)
  BY <1>2, <1>3, EmptySeq
<1>5. buffer # <<>>
  <2>1. CASE buffer = <<>>
    <3>1. \A n \in LeadingBreaks(buffer) : n = 0
      BY <2>1 DEF LeadingBreaks
    <3>2. b = <<>>
      BY <1>1, <2>1, <3>1, TakeAndDrop DEF AtLineStart
    <3> QED
      BY <1>4, <3>2
  <2> QED
    BY <2>1
<1>6. Running
  <2>1. Whole # <<>>
    BY <1>1, <1>5, ConcatEqualIffEmpty
  <2> QED
    BY <2>1 DEF Running, LineStates
<1> QED
  BY <1>1, <1>2, <1>3, <1>4, <1>6, ConsumeWhole, SameOperators

(* The steps of the loop leave the caller and its stream alone.            *)
LEMMA AdvanceWhole ==
  ASSUME call = "advance", UNCHANGED environment, Running,
         \/ OneFeed!ParseStartLine
         \/ OneFeed!ParseHeaderLine
         \/ OneFeed!EndHeaders
         \/ OneFeed!ReadBody
         \/ OneFeed!ParseChunkSize
         \/ OneFeed!ReadChunkData
         \/ OneFeed!ParseTrailerLine
         \/ OneFeed!EndTrailers
         \/ OneFeed!StartOver
  PROVE  OneFeed!Advance
BY DEF OneFeed!Advance, environment, OneFeed!environment

(* The loop runs, and is at a line.                                        *)
LineLoop == ParserInv /\ peeked = <<>> /\ call = "advance" /\ UNCHANGED environment

(* The start line (parser.ts:96-110).                                      *)
LEMMA ParseStartLineWhole ==
  ASSUME LineLoop, ParseStartLine
  PROVE  WholeNext
<1>1. /\ stateName = "START" /\ stateName \in LineStates /\ ParserInv
      /\ peeked = <<>> /\ unsent' = unsent /\ taken' = taken
  BY DEF LineLoop, ParseStartLine, LineStates, environment
<1>2. PICK n \in LeadingBreaks(buffer) :
        \/ AwaitLine(Drop(buffer, n))
        \/ \E p \in PeekLine(Drop(buffer, n)) :
             /\ Consume(Drop(buffer, n), p.end)
             /\ \/ /\ p.line \in DOMAIN StartLines
                   /\ StartLines[p.line] = 200
                   /\ Goto("HEADERS", [current EXCEPT !.startLine = p.line])
                \/ /\ p.line \in DOMAIN StartLines
                   /\ StartLines[p.line] # 200
                   /\ Fail(StartLines[p.line], current)
                \/ /\ p.line \notin DOMAIN StartLines
                   /\ Fail(400, current)
  BY DEF ParseStartLine
<1> DEFINE b == Drop(buffer, n)
<1>3. /\ Before = current /\ current \in Progress /\ Whole = buffer \o unsent
      /\ buffer \in Seq(Byte) /\ unsent \in Seq(Byte) /\ Len(buffer) \in Nat
  BY <1>1, AtLine, LenProperties DEF ParserState
<1>4. AtLineStart(b)
  BY <1>1 DEF AtLineStart
<1>5. ASSUME b # <<>>
      PROVE  n \in OneFeed!LeadingBreaks(Whole) /\ OneFeed!Drop(Whole, n) = b \o unsent
  <2>1. n \in 0..Len(buffer) /\ n # Len(buffer)
    BY <1>3, <1>5, TakeAndDrop DEF LeadingBreaks
  <2>2. n \in LeadingBreaks(Whole) /\ Drop(Whole, n) = b \o unsent
    BY <1>3, <2>1, BreaksBehind, TakeBehind
  <2> QED
    BY <2>2, SameOperators
<1> HIDE DEF b
<1>6. CASE AwaitLine(b)
  <2>1. ASSUME b # <<>>, OneFeed!AwaitLine(b \o unsent)
        PROVE  OneFeed!Advance
    <3>1. OneFeed!ParseStartLine
      BY <1>1, <1>5, <2>1 DEF OneFeed!ParseStartLine
    <3>2. Running
      BY <1>1, <1>3, <1>5, <2>1, ConcatEqualIffEmpty, TakeAndDrop DEF Running, b, LeadingBreaks
    <3> QED
      BY <3>1, <3>2, AdvanceWhole DEF LineLoop
  <2> QED
    BY <1>1, <1>4, <1>6, <2>1, AwaitWhole DEF WholeNext
<1>7. ASSUME NEW p \in PeekLine(b), Consume(b, p.end),
             \/ /\ p.line \in DOMAIN StartLines
                /\ StartLines[p.line] = 200
                /\ Goto("HEADERS", [current EXCEPT !.startLine = p.line])
             \/ /\ p.line \in DOMAIN StartLines
                /\ StartLines[p.line] # 200
                /\ Fail(StartLines[p.line], current)
             \/ /\ p.line \notin DOMAIN StartLines
                /\ Fail(400, current)
      PROVE  OneFeed!Advance
  <2>1. /\ b # <<>> /\ Running /\ p \in OneFeed!PeekLine(b \o unsent) /\ p.line \in Line
        /\ Absorbed' = <<>> => OneFeed!Consume(b \o unsent, p.end)
    BY <1>1, <1>4, <1>7, LineWhole
  <2>2. [current EXCEPT !.startLine = p.line] \in Progress /\ "HEADERS" \in ParserState
    BY <1>3, <2>1 DEF Progress, ParserState
  <2>3. /\ Goto("HEADERS", [current EXCEPT !.startLine = p.line]) =>
             /\ OneFeed!Goto("HEADERS", [Before EXCEPT !.startLine = p.line])
             /\ Absorbed' = <<>>
        /\ \A status : Fail(status, current) =>
             OneFeed!Fail(status, Before) /\ Absorbed' = <<>>
    BY <1>1, <1>3, <2>1, <2>2, GotoWhole, FailWhole
  <2>4. OneFeed!ParseStartLine
    <3> DEFINE d == OneFeed!Drop(Whole, n)
    <3>1. d = b \o unsent
      BY <1>5, <2>1
    <3> HIDE DEF d
    <3>2. /\ p \in OneFeed!PeekLine(d) /\ OneFeed!Consume(d, p.end)
          /\ \/ /\ p.line \in DOMAIN StartLines
                /\ StartLines[p.line] = 200
                /\ OneFeed!Goto("HEADERS", [Before EXCEPT !.startLine = p.line])
             \/ /\ p.line \in DOMAIN StartLines
                /\ StartLines[p.line] # 200
                /\ OneFeed!Fail(StartLines[p.line], Before)
             \/ /\ p.line \notin DOMAIN StartLines
                /\ OneFeed!Fail(400, Before)
      BY <1>7, <2>1, <2>3, <3>1
    <3> QED
      BY <1>1, <1>5, <2>1, <3>2 DEF d, OneFeed!ParseStartLine
  <2> QED
    BY <2>1, <2>4, AdvanceWhole DEF LineLoop
<1> QED
  BY <1>2, <1>6, <1>7 DEF b, WholeNext

(* What every state but START has in front of it when it takes its line.   *)
LEMMA LineTaken ==
  ASSUME LineLoop, stateName \in LineStates \ {"START"}
  PROVE  /\ TypeOK /\ Running /\ unsent' = unsent /\ taken' = taken
         /\ Before = current /\ current \in Progress
         /\ AwaitLine(buffer) => SkipBreaks \/ RefuseLong \/ OneFeed!AwaitLine(Whole)
         /\ \A p \in PeekLine(buffer) :
              /\ p \in OneFeed!PeekLine(Whole) /\ p.line \in Line
              /\ Consume(buffer, p.end) /\ Absorbed' = <<>> =>
                   OneFeed!Consume(Whole, p.end)
<1>1. /\ ParserInv /\ peeked = <<>> /\ stateName \in LineStates
      /\ unsent' = unsent /\ taken' = taken /\ AtLineStart(buffer)
  BY DEF LineLoop, environment, AtLineStart
<1>2. Before = current /\ current \in Progress /\ Whole = buffer \o unsent
  BY <1>1, AtLine DEF LineStates, ParserState
<1>3. Running
  BY DEF Running, LineStates
<1>4. AwaitLine(buffer) => SkipBreaks \/ RefuseLong \/ OneFeed!AwaitLine(Whole)
  BY <1>1, <1>2, AwaitWhole
<1>5. \A p \in PeekLine(buffer) :
        /\ p \in OneFeed!PeekLine(Whole) /\ p.line \in Line
        /\ Consume(buffer, p.end) /\ Absorbed' = <<>> => OneFeed!Consume(Whole, p.end)
  BY <1>1, <1>2, LineWhole
<1> QED
  BY <1>1, <1>2, <1>3, <1>4, <1>5 DEF ParserInv

(* A header line (parser.ts:111-133).                                      *)
LEMMA ParseHeaderLineWhole ==
  ASSUME LineLoop, ParseHeaderLine
  PROVE  WholeNext
<1>1. stateName = "HEADERS" /\ stateName \in LineStates \ {"START"}
  BY DEF ParseHeaderLine, LineStates
<1>2. /\ TypeOK /\ Running /\ unsent' = unsent /\ taken' = taken
      /\ Before = current /\ current \in Progress
  BY <1>1, LineTaken
<1>3. CASE AwaitLine(buffer)
  <2>1. OneFeed!AwaitLine(Whole) => OneFeed!Advance
    BY <1>1, <1>2, AdvanceWhole DEF LineLoop, OneFeed!ParseHeaderLine
  <2> QED
    BY <1>1, <1>3, <2>1, LineTaken DEF WholeNext
<1> DEFINE counted(p) == [current EXCEPT !.headerBytes = @ + Len(p.line) + 2]
           kept(p) == [counted(p) EXCEPT !.headerLines = Append(@, p.line)]
<1>4. ASSUME NEW p \in PeekLine(buffer), p.line # <<>>,
             \/ /\ counted(p).headerBytes > MaxHeaderBytes
                /\ peeked' = <<p.line>>
                /\ UNCHANGED buffer
                /\ Fail(431, counted(p))
             \/ /\ counted(p).headerBytes <= MaxHeaderBytes
                /\ Consume(buffer, p.end)
                /\ Goto("HEADERS", kept(p))
      PROVE  OneFeed!ParseHeaderLine
  <2>1. /\ p \in OneFeed!PeekLine(Whole) /\ p.line \in Line /\ Len(p.line) \in Nat
        /\ Consume(buffer, p.end) /\ Absorbed' = <<>> => OneFeed!Consume(Whole, p.end)
    BY <1>1, LineTaken, LenProperties DEF Line
  <2>2. counted(p) \in Progress /\ kept(p) \in Progress
    <3>1. current.headerBytes + Len(p.line) + 2 \in Nat
      BY <1>2, <2>1 DEF Progress
    <3>2. counted(p) \in Progress
      BY <1>2, <3>1 DEF Progress
    <3>3. Append(counted(p).headerLines, p.line) \in Seq(Line)
      <4> HIDE DEF counted
      <4> QED
        BY <2>1, <3>2, AppendProperties DEF Progress
    <3>4. kept(p) \in Progress
      <4> HIDE DEF counted
      <4> QED
        BY <3>2, <3>3 DEF Progress
    <3> QED
      BY <3>2, <3>4
  <2>3. CASE /\ counted(p).headerBytes > MaxHeaderBytes
             /\ peeked' = <<p.line>>
             /\ UNCHANGED buffer
             /\ Fail(431, counted(p))
    <3> HIDE DEF kept
    <3>1. Absorbed = <<>>
      BY <1>1, AtLine DEF LineLoop, ParserState
    <3>2. OneFeed!Fail(431, counted(p)) /\ Absorbed' = <<>>
      <4> HIDE DEF counted
      <4> QED
        BY <1>2, <2>2, <2>3, FailWhole
    <3>3. Whole' = Whole
      BY <1>2, <2>3, <3>1, <3>2 DEF Whole
    <3> QED
      BY <1>1, <1>2, <1>4, <2>1, <2>3, <3>2, <3>3 DEF OneFeed!ParseHeaderLine
  <2>4. CASE /\ counted(p).headerBytes <= MaxHeaderBytes
             /\ Consume(buffer, p.end)
             /\ Goto("HEADERS", kept(p))
    <3>1. OneFeed!Goto("HEADERS", kept(p)) /\ Absorbed' = <<>>
      <4> HIDE DEF kept
      <4>1. "HEADERS" \in ParserState
        BY DEF ParserState
      <4> QED
        BY <1>2, <2>2, <2>4, <4>1, GotoWhole
    <3> QED
      BY <1>1, <1>2, <1>4, <2>1, <2>4, <3>1 DEF OneFeed!ParseHeaderLine
  <2> QED
    BY <1>4, <2>3, <2>4
<1>5. OneFeed!ParseHeaderLine => OneFeed!Advance
  BY <1>2, AdvanceWhole DEF LineLoop
<1> QED
  BY <1>3, <1>4, <1>5 DEF ParseHeaderLine, WholeNext

(* The blank line after the headers (parser.ts:115-123).                   *)
LEMMA EndHeadersWhole ==
  ASSUME LineLoop, EndHeaders
  PROVE  WholeNext
<1>1. stateName = "HEADERS" /\ stateName \in LineStates \ {"START"}
  BY DEF EndHeaders, LineStates
<1>2. /\ TypeOK /\ Running /\ unsent' = unsent /\ taken' = taken
      /\ Before = current /\ current \in Progress
  BY <1>1, LineTaken
<1> DEFINE lines  == current.headerLines
           fields == FieldsOf(lines)
           parsed == [current EXCEPT !.headers = fields, !.headersDone = TRUE,
                                     !.expected = Announced(fields)]
<1>3. PICK p \in PeekLine(buffer) :
        /\ p.line = <<>>
        /\ Consume(buffer, p.end)
        /\ \/ ~WellFormed(lines) /\ Fail(400, current)
           \/ /\ WellFormed(lines)
              /\ BodyMode(fields) = "ERROR"
              /\ Fail(400, parsed)
           \/ /\ WellFormed(lines)
              /\ BodyMode(fields) = "DONE"
              /\ FinishMessage(parsed, <<>>)
           \/ /\ WellFormed(lines)
              /\ BodyMode(fields) \in {"BODY_LENGTH", "BODY_CHUNK_SIZE"}
              /\ Goto(BodyMode(fields), parsed)
  BY DEF EndHeaders
<1>4. /\ p \in OneFeed!PeekLine(Whole)
      /\ Absorbed' = <<>> => OneFeed!Consume(Whole, p.end)
  BY <1>1, <1>3, LineTaken
<1>5. WellFormed(lines) => parsed \in Progress /\ parsed.body = <<>>
  <2>1. lines \in Seq(Line) /\ current.body = <<>>
    BY <1>1, <1>2 DEF Progress, LineLoop, ParserInv, Progressing
  <2>2. WellFormed(lines) => fields \in Seq(Field) /\ Announced(fields) \in Nat
    BY <2>1, FieldsType, AnnouncedType
  <2> QED
    BY <1>2, <2>1, <2>2 DEF Progress
<1> HIDE DEF parsed, fields, lines
<1>6. /\ Absorbed' = <<>>
      /\ \/ ~WellFormed(lines) /\ OneFeed!Fail(400, Before)
         \/ /\ WellFormed(lines)
            /\ BodyMode(fields) = "ERROR"
            /\ OneFeed!Fail(400, parsed)
         \/ /\ WellFormed(lines)
            /\ BodyMode(fields) = "DONE"
            /\ OneFeed!FinishMessage(parsed, <<>>)
         \/ /\ WellFormed(lines)
            /\ BodyMode(fields) \in {"BODY_LENGTH", "BODY_CHUNK_SIZE"}
            /\ OneFeed!Goto(BodyMode(fields), parsed)
  <2>1. {"BODY_LENGTH", "BODY_CHUNK_SIZE"} \subseteq ParserState \ {"ERROR", "START"}
        /\ <<>> \in Seq(Field)
    BY EmptySeq DEF ParserState
  <2>2. ~WellFormed(lines) /\ Fail(400, current)
          => Absorbed' = <<>> /\ OneFeed!Fail(400, Before)
    BY <1>2, FailWhole
  <2>3. WellFormed(lines) /\ Fail(400, parsed)
          => Absorbed' = <<>> /\ OneFeed!Fail(400, parsed)
    BY <1>2, <1>5, FailWhole
  <2>4. WellFormed(lines) /\ FinishMessage(parsed, <<>>)
          => Absorbed' = <<>> /\ OneFeed!FinishMessage(parsed, <<>>)
    BY <1>2, <1>5, <2>1, FinishWhole
  <2>5. \A s \in {"BODY_LENGTH", "BODY_CHUNK_SIZE"} :
          WellFormed(lines) /\ Goto(s, parsed)
            => Absorbed' = <<>> /\ OneFeed!Goto(s, parsed)
    <3>1. SUFFICES ASSUME NEW s \in {"BODY_LENGTH", "BODY_CHUNK_SIZE"},
                          WellFormed(lines), Goto(s, parsed)
                   PROVE  Absorbed' = <<>> /\ OneFeed!Goto(s, parsed)
      OBVIOUS
    <3>2. s \in ParserState \ {"ERROR", "START"} /\ s # "BODY_CHUNK_DATA"
      BY <2>1
    <3> QED
      BY <1>2, <1>5, <3>1, <3>2, GotoWhole
  <2> QED
    BY <1>3, <2>2, <2>3, <2>4, <2>5
<1>7. OneFeed!EndHeaders
  BY <1>1, <1>2, <1>3, <1>4, <1>6, SameOperators, ZenonT(60)
     DEF OneFeed!EndHeaders, parsed, fields, lines
<1> QED
  BY <1>2, <1>7, AdvanceWhole DEF LineLoop, WholeNext

(* A chunk size (parser.ts:150-166).                                       *)
LEMMA ParseChunkSizeWhole ==
  ASSUME LineLoop, ParseChunkSize
  PROVE  WholeNext
<1>1. stateName = "BODY_CHUNK_SIZE" /\ stateName \in LineStates \ {"START"}
  BY DEF ParseChunkSize, LineStates
<1>2. /\ TypeOK /\ Running /\ unsent' = unsent /\ taken' = taken
      /\ Before = current /\ current \in Progress
  BY <1>1, LineTaken
<1>3. CASE AwaitLine(buffer)
  <2>1. OneFeed!AwaitLine(Whole) => OneFeed!Advance
    BY <1>1, <1>2, AdvanceWhole DEF LineLoop, OneFeed!ParseChunkSize
  <2> QED
    BY <1>1, <1>3, <2>1, LineTaken DEF WholeNext
<1> DEFINE next(p) == IF SizeLines[p.line] = 0 THEN "BODY_CHUNK_TRAILERS"
                                               ELSE "BODY_CHUNK_DATA"
           sized(p) == [current EXCEPT !.chunkSize = SizeLines[p.line], !.chunkRead = 0]
<1>4. ASSUME NEW p \in PeekLine(buffer), Consume(buffer, p.end),
             \/ p.line \notin DOMAIN SizeLines /\ Fail(400, current)
             \/ p.line \in DOMAIN SizeLines /\ Goto(next(p), sized(p))
      PROVE  OneFeed!ParseChunkSize
  <2>1. /\ p \in OneFeed!PeekLine(Whole)
        /\ Absorbed' = <<>> => OneFeed!Consume(Whole, p.end)
    BY <1>1, <1>4, LineTaken
  <2>2. p.line \in DOMAIN SizeLines => sized(p) \in Progress /\ sized(p).chunkRead = 0
    <3>1. p.line \in DOMAIN SizeLines => SizeLines[p.line] \in Nat
      BY TableAssumption
    <3> QED
      BY <1>2, <3>1 DEF Progress
  <2>3. next(p) \in ParserState \ {"ERROR", "START", "BODY_LENGTH"}
    BY DEF ParserState
  <2> HIDE DEF next, sized
  <2>4. /\ Absorbed' = <<>>
        /\ \/ p.line \notin DOMAIN SizeLines /\ OneFeed!Fail(400, Before)
           \/ p.line \in DOMAIN SizeLines /\ OneFeed!Goto(next(p), sized(p))
    BY <1>2, <1>4, <2>2, <2>3, FailWhole, GotoWhole
  <2> QED
    BY <1>1, <1>2, <2>1, <2>4 DEF OneFeed!ParseChunkSize, next, sized
<1>5. OneFeed!ParseChunkSize => OneFeed!Advance
  BY <1>2, AdvanceWhole DEF LineLoop
<1> QED
  BY <1>3, <1>4, <1>5 DEF ParseChunkSize, WholeNext

(* A trailer line (parser.ts:191-206).                                     *)
LEMMA ParseTrailerLineWhole ==
  ASSUME LineLoop, ParseTrailerLine
  PROVE  WholeNext
<1>1. stateName = "BODY_CHUNK_TRAILERS" /\ stateName \in LineStates \ {"START"}
  BY DEF ParseTrailerLine, LineStates
<1>2. /\ TypeOK /\ Running /\ unsent' = unsent /\ taken' = taken
      /\ Before = current /\ current \in Progress
  BY <1>1, LineTaken
<1>3. CASE AwaitLine(buffer)
  <2>1. OneFeed!AwaitLine(Whole) => OneFeed!Advance
    BY <1>1, <1>2, AdvanceWhole DEF LineLoop, OneFeed!ParseTrailerLine
  <2> QED
    BY <1>1, <1>3, <2>1, LineTaken DEF WholeNext
<1> DEFINE kept(p) == [current EXCEPT !.trailerLines = Append(@, p.line),
                                      !.trailerBytes = @ + Len(p.line) + 2]
<1>4. ASSUME NEW p \in PeekLine(buffer), p.line # <<>>, Consume(buffer, p.end),
             Goto("BODY_CHUNK_TRAILERS", kept(p))
      PROVE  OneFeed!ParseTrailerLine
  <2>1. /\ p \in OneFeed!PeekLine(Whole) /\ p.line \in Line /\ Len(p.line) \in Nat
        /\ Absorbed' = <<>> => OneFeed!Consume(Whole, p.end)
    BY <1>1, <1>4, LineTaken, LenProperties DEF Line
  <2>2. kept(p) \in Progress /\ "BODY_CHUNK_TRAILERS" \in ParserState
    <3>1. /\ Append(current.trailerLines, p.line) \in Seq(Line)
          /\ current.trailerBytes + Len(p.line) + 2 \in Nat
      BY <1>2, <2>1, AppendProperties DEF Progress
    <3> QED
      BY <1>2, <3>1 DEF Progress, ParserState
  <2> HIDE DEF kept
  <2>3. Absorbed' = <<>> /\ OneFeed!Goto("BODY_CHUNK_TRAILERS", kept(p))
    BY <1>2, <1>4, <2>2, GotoWhole
  <2> QED
    BY <1>1, <1>2, <1>4, <2>1, <2>3 DEF OneFeed!ParseTrailerLine, kept
<1>5. OneFeed!ParseTrailerLine => OneFeed!Advance
  BY <1>2, AdvanceWhole DEF LineLoop
<1> QED
  BY <1>3, <1>4, <1>5 DEF ParseTrailerLine, WholeNext

(* The blank line after the trailers (parser.ts:193-202).                  *)
LEMMA EndTrailersWhole ==
  ASSUME LineLoop, EndTrailers
  PROVE  WholeNext
<1>1. stateName = "BODY_CHUNK_TRAILERS" /\ stateName \in LineStates \ {"START"}
  BY DEF EndTrailers, LineStates
<1>2. /\ TypeOK /\ Running /\ unsent' = unsent /\ taken' = taken
      /\ Before = current /\ current \in Progress
  BY <1>1, LineTaken
<1> DEFINE lines == current.trailerLines
<1>3. PICK p \in PeekLine(buffer) :
        /\ p.line = <<>>
        /\ Consume(buffer, p.end)
        /\ \/ current.trailerBytes > MaxHeaderBytes /\ Fail(431, current)
           \/ /\ current.trailerBytes <= MaxHeaderBytes
              /\ ~WellFormed(lines)
              /\ Fail(400, current)
           \/ /\ current.trailerBytes <= MaxHeaderBytes
              /\ WellFormed(lines)
              /\ FinishMessage(current, FieldsOf(lines))
  BY DEF EndTrailers
<1>4. /\ p \in OneFeed!PeekLine(Whole)
      /\ Absorbed' = <<>> => OneFeed!Consume(Whole, p.end)
  BY <1>1, <1>3, LineTaken
<1>5. WellFormed(lines) => FieldsOf(lines) \in Seq(Field)
  BY <1>2, FieldsType DEF Progress
<1> HIDE DEF lines
<1>6. /\ Absorbed' = <<>>
      /\ \/ current.trailerBytes > MaxHeaderBytes /\ OneFeed!Fail(431, current)
         \/ /\ current.trailerBytes <= MaxHeaderBytes
            /\ ~WellFormed(lines)
            /\ OneFeed!Fail(400, current)
         \/ /\ current.trailerBytes <= MaxHeaderBytes
            /\ WellFormed(lines)
            /\ OneFeed!FinishMessage(current, FieldsOf(lines))
  BY <1>2, <1>3, <1>5, FailWhole, FinishWhole
<1>7. OneFeed!EndTrailers
  BY <1>1, <1>2, <1>3, <1>4, <1>6, SameOperators DEF OneFeed!EndTrailers, lines
<1> QED
  BY <1>2, <1>7, AdvanceWhole DEF LineLoop, WholeNext

(* A finished message (parser.ts:208-214): the parser stops when it has no *)
(* more bytes, the other one when the stream has none.                     *)
LEMMA StartOverWhole ==
  ASSUME LineLoop, StartOver
  PROVE  WholeNext
<1>1. /\ stateName = "DONE" /\ stateName' = "START" /\ current' = EmptyProgress
      /\ UNCHANGED <<buffer, ready, lastError, peeked, unsent, taken>>
      /\ Running
  BY DEF StartOver, LineLoop, environment, Running
<1>2. Absorbed = <<>> /\ Whole = buffer \o unsent
  BY <1>1, AtLine DEF LineLoop, ParserState
<1>3. Absorbed' = <<>> /\ Before' = EmptyProgress
  <2>1. "START" \in ParserState
    BY DEF ParserState
  <2> QED
    BY <1>1, <2>1, NothingAbsorbed, EmptyProgressType DEF Absorbed, Before
<1>4. Whole' = Whole /\ Finished' = Finished /\ (Running' <=> Whole # <<>>)
  BY <1>1, <1>2, <1>3 DEF Whole, Finished, Running
<1>5. OneFeed!StartOver
  BY <1>1, <1>3, <1>4, SameOperators DEF OneFeed!StartOver
<1> QED
  BY <1>1, <1>5, AdvanceWhole DEF LineLoop, WholeNext
-----------------------------------------------------------------------------
(* Taking more than the first of two pieces takes it and some of the other.*)
LEMMA TakeAcross ==
  ASSUME NEW S, NEW a \in Seq(S), NEW b \in Seq(S), NEW n \in 0..Len(b)
  PROVE  /\ Len(a) + n \in 0..Len(a \o b)
         /\ Take(a \o b, Len(a) + n) = a \o Take(b, n)
         /\ Drop(a \o b, Len(a) + n) = Drop(b, n)
<1> DEFINE t == Take(b, n)
           d == Drop(b, n)
           m == Len(a) + n
<1>1. /\ t \in Seq(S) /\ Len(t) = n /\ d \in Seq(S) /\ t \o d = b
      /\ Len(a) \in Nat /\ Len(b) \in Nat /\ n \in Nat /\ Len(a \o b) = Len(a) + Len(b)
  <2>1. Len(a) \in Nat /\ Len(b) \in Nat /\ n \in Nat
    BY LenProperties
  <2>2. t \in Seq(S) /\ Len(t) = n
    BY TakeType
  <2>3. d \in Seq(S) /\ t \o d = b
    BY <2>1, DropType, TakeAndDrop
  <2> QED
    BY <2>1, <2>2, <2>3, ConcatProperties
<1> HIDE DEF t, d
<1> DEFINE at == a \o t
<1>2. at \in Seq(S) /\ Len(at) = m /\ at \o d = a \o b
  <2>1. at \in Seq(S) /\ Len(at) = Len(a) + Len(t)
    BY <1>1, ConcatProperties
  <2>2. (a \o t) \o d = a \o (t \o d)
    <3>1. a \in Seq(S) /\ t \in Seq(S) /\ d \in Seq(S)
      BY <1>1
    <3> QED
      BY <3>1, ConcatAssociative
  <2> QED
    BY <1>1, <2>1, <2>2
<1> HIDE DEF at
<1>3. m \in 0..Len(at) /\ m \in 0..Len(a \o b)
  BY <1>1, <1>2
<1>4. Take(at \o d, m) = Take(at, m) /\ Drop(at \o d, m) = Drop(at, m) \o d
  BY <1>1, <1>2, <1>3, TakeBehind
<1>5. Take(at, m) = at /\ Drop(at, m) = <<>>
  BY <1>2, TakeAndDrop
<1>6. Take(a \o b, m) = at /\ Drop(a \o b, m) = d
  BY <1>1, <1>2, <1>4, <1>5, ConcatEmptySeq
<1> QED
  BY <1>3, <1>6 DEF at, t, d

(* The loop reads bytes of a body.                                         *)
BodyLoop == ParserInv /\ Tidy /\ call = "advance" /\ UNCHANGED environment

(* Of an iteration that reads bytes of a body: what has been fed of it is  *)
(* what there was, or all of it has been.                                  *)
BodyKept ==
  /\ stateName' = stateName /\ Fed' = Fed /\ Before' = Before
  /\ UNCHANGED <<ready, lastError>>

(* Bytes of a body of announced length (parser.ts:134-149).                *)
LEMMA BodyInParts ==
  ASSUME BodyLoop, ReadBody
  PROVE  /\ stateName = "BODY_LENGTH" /\ Before \in Progress /\ Before.body = <<>>
         /\ Fed \in Seq(Byte) /\ Before.expected \in Nat /\ Before.expected > 0
         /\ \/ BodyKept
            \/ /\ Before.expected \in 0..Len(Fed)
               /\ buffer' = Drop(Fed, Before.expected)
               /\ FinishMessage([Before EXCEPT !.body = Take(Fed, Before.expected)], <<>>)
<1> DEFINE body == current.body
           need == current.expected - Len(body)
           n    == Least(need, Len(buffer))
           part == Take(buffer, n)
           read == [current EXCEPT !.body = @ \o Take(buffer, n)]
<1>1. /\ stateName = "BODY_LENGTH" /\ current \in Progress
      /\ buffer \in Seq(Byte) /\ body \in Seq(Byte)
      /\ Len(buffer) \in Nat /\ Len(body) \in Nat /\ current.expected \in Nat
      /\ need > 0
  BY LenProperties DEF ReadBody, BodyLoop, ParserInv, Progressing, TypeOK, Progress
<1>2. /\ Absorbed = body /\ Fed = body \o buffer /\ Fed \in Seq(Byte)
      /\ Before = [current EXCEPT !.body = <<>>]
  <2>1. Absorbed = body
    BY <1>1 DEF Absorbed, AbsorbedIn
  <2>2. Take(body, Len(body) - Len(body)) = <<>>
    BY <1>1, TakeAndDrop
  <2>3. Before = [current EXCEPT !.body = <<>>, !.chunkRead = current.chunkRead]
    BY <1>1, <2>1, <2>2 DEF Before, UnreadIn, Absorbed
  <2> QED
    BY <1>1, <2>1, <2>3, ConcatProperties DEF Fed, Progress
<1>3. n \in 0..Len(buffer) /\ n <= need /\ (n # need => n = Len(buffer))
  BY <1>1 DEF Least
<1>4. /\ part \in Seq(Byte) /\ Len(part) = n
      /\ read \in Progress /\ read = [current EXCEPT !.body = body \o part]
      /\ body \o part \in Seq(Byte)
  <2>1. part \in Seq(Byte) /\ Len(part) = n
    BY <1>1, <1>3, CutInTwo
  <2> HIDE DEF n
  <2>2. body \o part \in Seq(Byte)
    BY <1>1, <2>1, ConcatProperties
  <2> QED
    BY <1>1, <2>1, <2>2 DEF Progress
<1>5. Before \in Progress /\ Before.body = <<>> /\ Before.expected = current.expected
  BY <1>1, <1>2, EmptySeq DEF Progress
<1> HIDE DEF n, read
<1>6. CASE buffer = <<>> /\ UNCHANGED buffer /\ Return
  BY <1>1, <1>2, <1>5, <1>6 DEF Return, progress, BodyKept, Fed, Absorbed, Before
<1>7. CASE n = need /\ buffer' = Drop(buffer, n) /\ FinishMessage(read, <<>>)
  <2>1. Len(body) + n = current.expected
    BY <1>1, <1>7
  <2>2. /\ Len(body) + n \in 0..Len(Fed)
        /\ Take(Fed, Len(body) + n) = body \o part
        /\ Drop(Fed, Len(body) + n) = Drop(buffer, n)
    BY <1>1, <1>2, <1>3, TakeAcross
  <2>3. [Before EXCEPT !.body = Take(Fed, Before.expected)] = read
    BY <1>1, <1>2, <1>4, <1>5, <2>1, <2>2 DEF Progress
  <2> QED
    BY <1>1, <1>2, <1>5, <1>7, <2>1, <2>2, <2>3
<1>8. CASE n < need /\ buffer' = Drop(buffer, n) /\ Goto("BODY_LENGTH", read)
  <2>1. /\ n = Len(buffer) /\ part = buffer /\ buffer' = <<>>
        /\ current' = read /\ stateName' = "BODY_LENGTH"
        /\ ready' = ready /\ lastError' = lastError
    BY <1>1, <1>3, <1>8, TakeAndDrop DEF Goto
  <2>2. read.body = body \o buffer
    BY <1>1, <1>4, <2>1 DEF Progress
  <2>3. Absorbed' = body \o buffer
    BY <2>1, <2>2 DEF Absorbed, AbsorbedIn
  <2>4. Fed' = Fed
    BY <1>1, <1>2, <1>4, <2>1, <2>3, ConcatEmptySeq DEF Fed
  <2>5. Before' = Before
    <3>1. Take(read.body, Len(read.body) - Len(read.body)) = <<>>
      <4>1. read.body \in Seq(Byte) /\ Len(read.body) \in Nat
        BY <1>4, LenProperties DEF Progress
      <4> QED
        BY <4>1, TakeAndDrop
    <3>2. Before' = [read EXCEPT !.body = <<>>, !.chunkRead = read.chunkRead]
      BY <2>1, <2>2, <2>3, <3>1 DEF Before, UnreadIn, AbsorbedIn
    <3> QED
      BY <1>1, <1>2, <1>4, <3>2 DEF Progress
  <2>6. BodyKept
    BY <1>1, <2>1, <2>4, <2>5 DEF BodyKept
  <2> QED
    BY <1>1, <1>2, <1>5, <2>6
<1> QED
  BY <1>1, <1>6, <1>7, <1>8 DEF ReadBody, read, n

(* Chunk data and the CRLF behind it (parser.ts:167-190).                  *)
LEMMA ChunkInParts ==
  ASSUME BodyLoop, ReadChunkData
  PROVE  LET size == Before.chunkSize
             read == [Before EXCEPT !.body = @ \o Take(Fed, size), !.chunkRead = size]
             rest == Drop(Fed, size)
         IN  /\ stateName = "BODY_CHUNK_DATA" /\ Before \in Progress
             /\ Before.chunkRead = 0 /\ Fed \in Seq(Byte)
             /\ \/ BodyKept
                \/ /\ size \in 0..Len(Fed) /\ Len(rest) >= 2
                   /\ \/ /\ Take(rest, 2) # <<CR, LF>>
                         /\ buffer' = rest
                         /\ Fail(400, read)
                      \/ /\ Take(rest, 2) = <<CR, LF>>
                         /\ buffer' = Drop(rest, 2)
                         /\ Goto("BODY_CHUNK_SIZE", read)
<1> DEFINE body == current.body
           size == current.chunkSize
           got  == current.chunkRead
           kept == Take(body, Len(body) - got)
           tail == Drop(body, Len(body) - got)
           n    == Least(size - got, Len(buffer))
           part == Take(buffer, n)
           rest == Drop(buffer, n)
           read == [current EXCEPT !.body = @ \o Take(buffer, n), !.chunkRead = @ + n]
<1>1. /\ stateName = "BODY_CHUNK_DATA" /\ current \in Progress
      /\ buffer \in Seq(Byte) /\ body \in Seq(Byte)
      /\ Len(buffer) \in Nat /\ Len(body) \in Nat
      /\ size \in Nat /\ got \in Nat /\ got <= size /\ got <= Len(body)
  BY LenProperties DEF ReadChunkData, BodyLoop, ParserInv, Progressing, TypeOK, Progress,
                       Tidy
<1>2. /\ kept \in Seq(Byte) /\ tail \in Seq(Byte) /\ kept \o tail = body
      /\ Len(kept) = Len(body) - got /\ Len(tail) = got
  <2>1. Len(body) - got \in 0..Len(body) /\ Len(body) - got \in Nat
    BY <1>1
  <2>2. \A k \in 0..Len(body) :
          /\ Take(body, k) \in Seq(Byte) /\ Drop(body, k) \in Seq(Byte)
          /\ Len(Take(body, k)) = k /\ Len(Drop(body, k)) = Len(body) - k
          /\ Take(body, k) \o Drop(body, k) = body
    BY <1>1, CutInTwo
  <2>3. Len(body) - (Len(body) - got) = got
    BY <1>1
  <2> QED
    BY <2>1, <2>2, <2>3
<1>3. /\ Absorbed = tail /\ Fed = tail \o buffer /\ Fed \in Seq(Byte)
      /\ Before = [current EXCEPT !.body = kept, !.chunkRead = 0]
      /\ Before \in Progress /\ Before.chunkRead = 0 /\ Before.chunkSize = size
      /\ Before.body = kept
  <2>1. Absorbed = tail
    BY <1>1 DEF Absorbed, AbsorbedIn
  <2>2. Before = [current EXCEPT !.body = kept, !.chunkRead = 0]
    BY <1>1, <1>2, <2>1 DEF Before, UnreadIn, Absorbed
  <2>3. Fed = tail \o buffer /\ Fed \in Seq(Byte)
    <3> HIDE DEF tail
    <3> QED
      BY <1>1, <1>2, <2>1, ConcatProperties DEF Fed
  <2> QED
    BY <1>1, <1>2, <2>1, <2>2, <2>3 DEF Progress
<1>4. n \in 0..Len(buffer) /\ n <= size - got
  BY <1>1 DEF Least
<1>5. /\ part \in Seq(Byte) /\ Len(part) = n /\ rest \in Seq(Byte)
      /\ part \o rest = buffer /\ Len(rest) \in Nat
  BY <1>1, <1>4, CutInTwo
<1>6. /\ body \o part \in Seq(Byte) /\ tail \o part \in Seq(Byte)
      /\ Len(body \o part) = Len(body) + n /\ Len(tail \o part) = got + n
      /\ body \o part = kept \o (tail \o part)
      /\ (tail \o part) \o rest = tail \o buffer
  <2> HIDE DEF n, kept, tail, part, rest
  <2>1. /\ kept \in Seq(Byte) /\ tail \in Seq(Byte)
        /\ part \in Seq(Byte) /\ rest \in Seq(Byte)
    BY <1>2, <1>5
  <2>2. (kept \o tail) \o part = kept \o (tail \o part)
    BY <2>1, BytesAssociative
  <2>3. (tail \o part) \o rest = tail \o (part \o rest)
    BY <2>1, BytesAssociative
  <2>4. /\ body \o part \in Seq(Byte) /\ tail \o part \in Seq(Byte)
        /\ Len(body \o part) = Len(body) + Len(part)
        /\ Len(tail \o part) = Len(tail) + Len(part)
    BY <1>1, <2>1, ConcatProperties
  <2> QED
    BY <1>2, <1>5, <2>2, <2>3, <2>4
<1>7. /\ read \in Progress /\ read.body = body \o part /\ read.chunkRead = got + n
      /\ read.chunkSize = size
      /\ read = [current EXCEPT !.body = body \o part, !.chunkRead = got + n]
  <2>1. n \in Nat /\ got + n \in Nat
    BY <1>1, <1>4
  <2>2. read = [current EXCEPT !.body = body \o part, !.chunkRead = got + n]
    OBVIOUS
  <2> HIDE DEF n, read, part
  <2> QED
    BY <1>1, <1>6, <2>1, <2>2 DEF Progress
<1> HIDE DEF n, read
<1>8. CASE /\ buffer' = rest /\ current' = read
           /\ UNCHANGED <<stateName, ready, lastError>>
  <2>1. Len(read.body) - read.chunkRead = Len(body) - got
    BY <1>1, <1>4, <1>6, <1>7
  <2>2. /\ Drop(body \o part, Len(body) - got) = tail \o part
        /\ Take(body \o part, Len(body) - got) = kept
    <3>1. Len(body) - got \in 0..Len(body) /\ body \in Seq(Byte)
      BY <1>1
    <3>2. \A k \in 0..Len(body) : /\ Take(body \o part, k) = Take(body, k)
                                 /\ Drop(body \o part, k) = Drop(body, k) \o part
      <4> HIDE DEF part
      <4> QED
        BY <1>5, <3>1, TakeBehind
    <3> QED
      BY <3>1, <3>2
  <2>3. Absorbed' = tail \o part
    BY <1>1, <1>7, <1>8, <2>1, <2>2 DEF Absorbed, AbsorbedIn
  <2>4. Fed' = Fed
    BY <1>1, <1>3, <1>6, <1>8, <2>3 DEF Fed
  <2>5. Len(read.body) - Len(Absorbed') = Len(body) - got
    <3>1. Len(read.body) = Len(body) + n /\ Len(Absorbed') = got + n
      BY <1>6, <1>7, <2>3
    <3>2. n \in Nat
      BY <1>1, <1>4
    <3> QED
      BY <1>1, <3>1, <3>2
  <2>6. Before' = [read EXCEPT !.body = kept, !.chunkRead = 0]
    BY <1>1, <1>7, <1>8, <2>2, <2>5 DEF Before, UnreadIn, Absorbed
  <2>7. Before' = Before
    BY <1>1, <1>3, <1>7, <2>6 DEF Progress
  <2>8. BodyKept
    BY <1>8, <2>4, <2>7 DEF BodyKept
  <2> QED
    BY <1>1, <1>3, <2>8
<1>9. CASE /\ read.chunkRead = read.chunkSize /\ Len(rest) >= 2
           /\ \/ /\ Take(rest, 2) # <<CR, LF>>
                 /\ buffer' = rest
                 /\ Fail(400, read)
              \/ /\ Take(rest, 2) = <<CR, LF>>
                 /\ buffer' = Drop(rest, 2)
                 /\ Goto("BODY_CHUNK_SIZE", read)
  <2>1. size = got + n
    BY <1>7, <1>9
  <2>2. /\ size \in 0..Len(Fed)
        /\ Take(Fed, size) = tail \o part
        /\ Drop(Fed, size) = rest
    <3>1. Len(tail) + n = size
      BY <1>2, <2>1
    <3> HIDE DEF tail
    <3>2. /\ Len(tail) + n \in 0..Len(tail \o buffer)
          /\ Take(tail \o buffer, Len(tail) + n) = tail \o Take(buffer, n)
          /\ Drop(tail \o buffer, Len(tail) + n) = Drop(buffer, n)
      BY <1>1, <1>2, <1>4, TakeAcross
    <3> QED
      BY <1>3, <3>1, <3>2
  <2>3. [Before EXCEPT !.body = @ \o Take(Fed, size), !.chunkRead = size] = read
    <3>1. Before.body \o Take(Fed, size) = body \o part
      BY <1>3, <1>6, <2>2
    <3> HIDE DEF kept, tail
    <3>2. [Before EXCEPT !.body = body \o part, !.chunkRead = size] = read
      BY <1>1, <1>3, <1>7, <2>1 DEF Progress
    <3> QED
      BY <3>1, <3>2
  <2> QED
    BY <1>1, <1>3, <1>9, <2>2, <2>3
<1> QED
  BY <1>8, <1>9 DEF ReadChunkData, read, n

(* What the other parser holds in front, while this one has it.            *)
LEMMA WholeFront ==
  ASSUME Fed \in Seq(Byte), unsent \in Seq(Byte), NEW n \in 0..Len(Fed)
  PROVE  /\ n \in 0..Len(Whole) /\ Take(Whole, n) = Take(Fed, n)
         /\ Drop(Whole, n) = Drop(Fed, n) \o unsent
         /\ Len(Whole) = Len(Fed) + Len(unsent)
         /\ Len(Whole) \in Nat /\ Len(Fed) \in Nat /\ Len(unsent) \in Nat
<1> DEFINE b == Fed
<1>1. Whole = b \o unsent /\ b \in Seq(Byte)
  BY DEF Whole, Fed
<1>2. n \in 0..Len(b)
  OBVIOUS
<1> HIDE DEF b
<1>3. Len(Whole) = Len(b) + Len(unsent) /\ Len(b) \in Nat /\ Len(unsent) \in Nat
  BY <1>1, ConcatProperties, LenProperties
<1>4. Take(Whole, n) = Take(b, n) /\ Drop(Whole, n) = Drop(b, n) \o unsent
  BY <1>1, <1>2, TakeBehind
<1>5. n \in 0..Len(Whole) /\ Len(Whole) \in Nat
  BY <1>2, <1>3
<1> QED
  BY <1>3, <1>4, <1>5 DEF b

(* A body of announced length (parser.ts:134-149): the parser reads in     *)
(* parts what the other one reads at once.                                 *)
LEMMA ReadBodyWhole ==
  ASSUME BodyLoop, ReadBody
  PROVE  WholeNext \/ UNCHANGED view
<1> DEFINE size == Before.expected
           read == [Before EXCEPT !.body = Take(Fed, size)]
<1>1. /\ stateName = "BODY_LENGTH" /\ Before \in Progress /\ Before.body = <<>>
      /\ Fed \in Seq(Byte) /\ size \in Nat /\ size > 0
      /\ \/ BodyKept
         \/ /\ size \in 0..Len(Fed) /\ buffer' = Drop(Fed, size)
            /\ FinishMessage(read, <<>>)
  BY BodyInParts
<1>2. /\ unsent' = unsent /\ taken' = taken /\ peeked' = peeked /\ TypeOK
      /\ unsent \in Seq(Byte)
  BY DEF ReadBody, BodyLoop, ParserInv, TypeOK, environment
<1>3. CASE BodyKept
  BY <1>2, <1>3 DEF BodyKept, view, Whole, Fed, Finished
<1>4. CASE /\ size \in 0..Len(Fed) /\ buffer' = Drop(Fed, size)
           /\ FinishMessage(read, <<>>)
  <2>1. /\ size \in 0..Len(Whole) /\ Take(Whole, size) = Take(Fed, size)
        /\ Drop(Whole, size) = Drop(Fed, size) \o unsent
        /\ Len(Whole) \in Nat
    BY <1>1, <1>2, <1>4, WholeFront
  <2>2. Take(Fed, size) \in Seq(Byte) /\ buffer' \in Seq(Byte)
    BY <1>1, <1>4, CutInTwo
  <2>3. <<>> \o Take(Whole, size) = Take(Fed, size)
    BY <2>1, <2>2, ConcatEmptySeq
  <2>4. read \in Progress /\ [Before EXCEPT !.body = @ \o Take(Whole, size)] = read
    BY <1>1, <2>2, <2>3 DEF Progress
  <2> HIDE DEF read
  <2>5. Running /\ Whole # <<>>
    BY <1>1, <2>1, EmptySeq DEF Running
  <2>6. OneFeed!FinishMessage(read, <<>>) /\ Absorbed' = <<>>
    BY <1>2, <1>4, <2>4, <2>5, FinishWhole, EmptySeq
  <2>7. Whole' = Drop(Whole, size)
    BY <1>2, <1>4, <2>1, <2>2, <2>6, ConcatEmptySeq DEF Whole
  <2>8. OneFeed!ReadBody
    <3> DEFINE left == Before.expected - Len(Before.body)
               m == OneFeed!Least(left, Len(Whole))
    <3>1. left = size /\ left > 0
      BY <1>1, EmptySeq
    <3>2. m = left
      BY <2>1, <3>1, SameOperators DEF Least
    <3>3. /\ Whole' = OneFeed!Drop(Whole, m)
          /\ OneFeed!FinishMessage([Before EXCEPT !.body = @ \o OneFeed!Take(Whole, m)],
                                   <<>>)
      <4> HIDE DEF m, left
      <4> QED
        BY <2>4, <2>6, <2>7, <3>1, <3>2, SameOperators
    <3> HIDE DEF m, left
    <3>4. /\ stateName = "BODY_LENGTH" /\ UNCHANGED peeked
          /\ left > 0 /\ Whole # <<>> /\ m = left
      BY <1>1, <1>2, <2>5, <3>1, <3>2
    <3> QED
      BY <3>3, <3>4, Zenon DEF OneFeed!ReadBody, m, left
  <2> QED
    BY <2>5, <2>8, AdvanceWhole DEF BodyLoop, WholeNext
<1> QED
  BY <1>1, <1>3, <1>4

(* Chunk data and the CRLF behind it (parser.ts:167-190): the parser reads *)
(* in parts what the other one reads at once.                              *)
LEMMA ReadChunkDataWhole ==
  ASSUME BodyLoop, ReadChunkData
  PROVE  WholeNext \/ UNCHANGED view
<1> DEFINE size == Before.chunkSize
           read == [Before EXCEPT !.body = @ \o Take(Fed, size), !.chunkRead = size]
           rest == Drop(Fed, size)
<1>1. /\ stateName = "BODY_CHUNK_DATA" /\ Before \in Progress
      /\ Before.chunkRead = 0 /\ Fed \in Seq(Byte)
      /\ \/ BodyKept
         \/ /\ size \in 0..Len(Fed) /\ Len(rest) >= 2
            /\ \/ /\ Take(rest, 2) # <<CR, LF>>
                  /\ buffer' = rest
                  /\ Fail(400, read)
               \/ /\ Take(rest, 2) = <<CR, LF>>
                  /\ buffer' = Drop(rest, 2)
                  /\ Goto("BODY_CHUNK_SIZE", read)
  BY ChunkInParts
<1>2. /\ unsent' = unsent /\ taken' = taken /\ peeked' = peeked /\ unsent \in Seq(Byte)
  BY DEF ReadChunkData, BodyLoop, ParserInv, TypeOK, environment
<1>3. CASE BodyKept
  BY <1>2, <1>3 DEF BodyKept, view, Whole, Fed, Finished
<1>4. CASE /\ size \in 0..Len(Fed) /\ Len(rest) >= 2
           /\ \/ /\ Take(rest, 2) # <<CR, LF>>
                 /\ buffer' = rest
                 /\ Fail(400, read)
              \/ /\ Take(rest, 2) = <<CR, LF>>
                 /\ buffer' = Drop(rest, 2)
                 /\ Goto("BODY_CHUNK_SIZE", read)
  <2>1. /\ size \in 0..Len(Whole) /\ Take(Whole, size) = Take(Fed, size)
        /\ Drop(Whole, size) = rest \o unsent /\ Len(Whole) \in Nat
    BY <1>1, <1>2, <1>4, WholeFront
  <2>2. Take(Fed, size) \in Seq(Byte) /\ rest \in Seq(Byte) /\ size \in Nat
    BY <1>1, <1>4, CutInTwo
  <2>3. Before.body \o Take(Fed, size) \in Seq(Byte)
    BY <1>1, <2>2, ConcatProperties DEF Progress
  <2>4. read \in Progress /\ read.chunkRead = size /\ read.chunkSize = size
        /\ [Before EXCEPT !.body = @ \o Take(Whole, size), !.chunkRead = @ + size] = read
    <3> DEFINE grown == Before.body \o Take(Fed, size)
    <3>1. read = [Before EXCEPT !.body = grown, !.chunkRead = size]
      OBVIOUS
    <3>2. [Before EXCEPT !.body = @ \o Take(Whole, size), !.chunkRead = @ + size]
            = [Before EXCEPT !.body = grown, !.chunkRead = size]
      <4>1. Before.body \o Take(Whole, size) = grown
        BY <2>1
      <4>2. Before.chunkRead + size = size
        BY <1>1, <2>2
      <4> HIDE DEF grown, size
      <4> QED
        BY <4>1, <4>2
    <3>3. grown \in Seq(Byte)
      BY <2>3
    <3> HIDE DEF grown, read, rest
    <3>4. /\ [Before EXCEPT !.body = grown, !.chunkRead = size] \in Progress
          /\ [Before EXCEPT !.body = grown, !.chunkRead = size].chunkRead = size
          /\ [Before EXCEPT !.body = grown, !.chunkRead = size].chunkSize = size
      BY <1>1, <2>2, <3>3 DEF Progress
    <3> QED
      BY <3>1, <3>2, <3>4
  <2> HIDE DEF read, rest
  <2>5. /\ Take(rest \o unsent, 2) = Take(rest, 2)
        /\ Drop(rest \o unsent, 2) = Drop(rest, 2) \o unsent
        /\ Len(rest \o unsent) >= 2
        /\ Drop(rest, 2) \in Seq(Byte)
    <3>1. 2 \in 0..Len(rest) /\ Len(rest) \in Nat /\ Len(unsent) \in Nat
      BY <1>2, <1>4, <2>2, LenProperties
    <3>2. Len(rest \o unsent) = Len(rest) + Len(unsent)
      BY <1>2, <2>2, ConcatProperties
    <3>3. /\ Take(rest \o unsent, 2) = Take(rest, 2)
          /\ Drop(rest \o unsent, 2) = Drop(rest, 2) \o unsent
      BY <1>2, <2>2, <3>1, TakeBehind
    <3>4. Drop(rest, 2) \in Seq(Byte)
      BY <2>2, <3>1, CutInTwo
    <3> QED
      BY <1>4, <3>1, <3>2, <3>3, <3>4
  <2>6. Running /\ "BODY_CHUNK_SIZE" \in ParserState \ {"ERROR", "START"}
    BY <1>1 DEF Running, ParserState
  <2>7. /\ Absorbed' = <<>>
        /\ \/ /\ Take(rest, 2) # <<CR, LF>>
              /\ buffer' = rest
              /\ OneFeed!Fail(400, read)
           \/ /\ Take(rest, 2) = <<CR, LF>>
              /\ buffer' = Drop(rest, 2)
              /\ OneFeed!Goto("BODY_CHUNK_SIZE", read)
    <3>1. Fail(400, read) => Absorbed' = <<>> /\ OneFeed!Fail(400, read)
      BY <1>2, <2>4, FailWhole
    <3>2. Goto("BODY_CHUNK_SIZE", read)
            => Absorbed' = <<>> /\ OneFeed!Goto("BODY_CHUNK_SIZE", read)
      BY <1>2, <2>4, <2>6, GotoWhole
    <3> QED
      BY <1>4, <3>1, <3>2
  <2>8. Whole' = buffer' \o unsent
    BY <1>2, <2>2, <2>5, <2>7, ConcatEmptySeq DEF Whole
  <2>9. OneFeed!ReadChunkData
    <3> DEFINE m == OneFeed!Least(Before.chunkSize - Before.chunkRead, Len(Whole))
               r == OneFeed!Drop(Whole, m)
               p == [Before EXCEPT !.body = @ \o OneFeed!Take(Whole, m),
                                   !.chunkRead = @ + m]
    <3>1. m = size
      BY <1>1, <2>1, SameOperators DEF Least
    <3>2. r = rest \o unsent /\ p = read
      <4> HIDE DEF m
      <4> QED
        BY <2>1, <2>4, <3>1, SameOperators
    <3> HIDE DEF m, r, p
    <3>3. /\ p.chunkRead = p.chunkSize /\ Len(r) >= 2
          /\ \/ /\ OneFeed!Take(r, 2) # <<CR, LF>>
                /\ Whole' = r
                /\ OneFeed!Fail(400, p)
             \/ /\ OneFeed!Take(r, 2) = <<CR, LF>>
                /\ Whole' = OneFeed!Drop(r, 2)
                /\ OneFeed!Goto("BODY_CHUNK_SIZE", p)
      BY <2>4, <2>5, <2>7, <2>8, <3>2, SameOperators
    <3>4. stateName = "BODY_CHUNK_DATA" /\ UNCHANGED peeked
      BY <1>1, <1>2
    <3> QED
      BY <3>3, <3>4, Zenon DEF OneFeed!ReadChunkData, m, r, p
  <2> QED
    BY <2>6, <2>9, AdvanceWhole DEF BodyLoop, WholeNext
<1> QED
  BY <1>1, <1>3, <1>4
-----------------------------------------------------------------------------
(* What a step of the loop does to the peek cache and to a chunk.          *)
LEMMA AdvanceTidy ==
  ASSUME ParserInv, Tidy, Advance
  PROVE  peeked = <<>> /\ Tidy'
<1>1. /\ stateName # "ERROR" /\ peeked = <<>> /\ current \in Progress
      /\ buffer \in Seq(Byte)
  BY DEF Advance, ParserInv, Progressing, Tidy, TypeOK
<1>2. \A b : AwaitLine(b) => peeked' = <<>> /\ stateName' \in {stateName, "ERROR"}
  BY <1>1 DEF AwaitLine, Return, Fail, progress
<1>3. CASE ParseStartLine
  BY <1>2, <1>3 DEF ParseStartLine, Consume, Goto, Fail, Tidy
<1>4. CASE ParseHeaderLine
  BY <1>2, <1>4 DEF ParseHeaderLine, Consume, Goto, Fail, Tidy
<1>5. CASE EndHeaders
  <2>1. peeked' = <<>> /\ stateName' # "BODY_CHUNK_DATA"
    BY <1>5 DEF EndHeaders, Consume, Goto, Fail, FinishMessage
  <2> QED
    BY <1>1, <2>1 DEF Tidy
<1>6. CASE ReadBody
  BY <1>1, <1>6 DEF ReadBody, Return, progress, Goto, FinishMessage, Tidy
<1>7. CASE ParseChunkSize
  <2>1. CASE AwaitLine(buffer)
    BY <1>1, <1>2, <1>7, <2>1 DEF ParseChunkSize, Tidy
  <2>2. CASE ~AwaitLine(buffer)
    <3>1. /\ peeked' = <<>>
          /\ stateName' = "BODY_CHUNK_DATA" =>
               /\ current'.chunkRead = 0 /\ current'.body = current.body
      BY <1>1, <1>7, <2>2 DEF ParseChunkSize, Consume, Goto, Fail, Progress
    <3>2. Len(current.body) \in Nat
      BY <1>1, LenProperties DEF Progress
    <3> QED
      BY <1>1, <3>1, <3>2 DEF Tidy
  <2> QED
    BY <2>1, <2>2
<1>8. CASE ReadChunkData
  <2> DEFINE n == Least(current.chunkSize - current.chunkRead, Len(buffer))
             read == [current EXCEPT !.body = @ \o Take(buffer, n), !.chunkRead = @ + n]
  <2>1. /\ peeked' = <<>> /\ stateName = "BODY_CHUNK_DATA"
        /\ stateName' = "BODY_CHUNK_DATA" => current' = read
    BY <1>1, <1>8 DEF ReadChunkData, Fail, Goto
  <2>2. /\ current.chunkSize \in Nat /\ current.chunkRead \in Nat
        /\ Len(current.body) \in Nat /\ current.body \in Seq(Byte)
        /\ Len(buffer) \in Nat
        /\ current.chunkRead <= current.chunkSize
        /\ current.chunkRead <= Len(current.body)
    BY <1>1, <2>1, LenProperties DEF Progress, ParserInv, Progressing, Tidy
  <2>3. n \in 0..Len(buffer)
    BY <2>2 DEF Least
  <2> HIDE DEF n
  <2>4. /\ Take(buffer, n) \in Seq(Byte) /\ Len(Take(buffer, n)) = n /\ n \in Nat
    BY <1>1, <2>2, <2>3, CutInTwo
  <2>5. /\ read.chunkRead = current.chunkRead + n
        /\ read.body = current.body \o Take(buffer, n)
    BY <1>1 DEF Progress
  <2> HIDE DEF read
  <2>6. Len(read.body) = Len(current.body) + n
    <3>1. Len(current.body \o Take(buffer, n)) = Len(current.body) + Len(Take(buffer, n))
      BY <2>2, <2>4, ConcatProperties
    <3> QED
      BY <2>4, <2>5, <3>1
  <2> QED
    BY <1>1, <2>1, <2>2, <2>4, <2>5, <2>6 DEF Tidy
<1>9. CASE ParseTrailerLine
  BY <1>2, <1>9 DEF ParseTrailerLine, Consume, Goto, Fail, Tidy
<1>10. CASE EndTrailers
  BY <1>10 DEF EndTrailers, Consume, Fail, FinishMessage, Tidy
<1>11. CASE StartOver
  BY <1>1, <1>11 DEF StartOver, Tidy
<1> QED
  BY <1>1, <1>3, <1>4, <1>5, <1>6, <1>7, <1>8, <1>9, <1>10, <1>11 DEF Advance

(* A step of a parser that is fed pieces of any size, whose caller resets  *)
(* it when there is no line in its cache.                                  *)
TidyStep ==
  \/ Advance
  \/ TakeNext
  \/ Reset /\ peeked = <<>>
  \/ \E n \in Nat : Feed(n) \/ FeedThrows(n)
  \/ UNCHANGED vars

(* That is what its steps are as long as TidyResets holds.                 *)
LEMMA NextTidyStep == [Next]_vars /\ [Reset => peeked = <<>>]_vars => TidyStep
<1>1. \A n \in 1..MaxChunk : n \in Nat
  BY LimitAssumption
<1> QED
  BY <1>1 DEF Next, TidyStep

(* And what the caller does to them.                                       *)
LEMMA StepTidy ==
  ASSUME ParserInv, Tidy, TidyStep
  PROVE  Tidy'
<1>1. CASE Advance
  BY <1>1, AdvanceTidy
<1>2. CASE Reset /\ peeked = <<>>
  BY <1>2 DEF Reset, Tidy
<1>3. CASE \/ UNCHANGED vars
           \/ TakeNext
           \/ \E n \in Nat : Feed(n) \/ FeedThrows(n)
  BY <1>3 DEF vars, progress, TakeNext, Feed, FeedThrows, Tidy
<1> QED
  BY <1>1, <1>2, <1>3 DEF TidyStep

(* A step of the loop is a step of the parser that has the whole stream.   *)
LEMMA AdvanceStep ==
  ASSUME ParserInv, Tidy, Advance
  PROVE  WholeNext \/ UNCHANGED view
<1>1. LineLoop /\ BodyLoop
  BY AdvanceTidy DEF Advance, LineLoop, BodyLoop
<1> QED
  BY <1>1, ParseStartLineWhole, ParseHeaderLineWhole, EndHeadersWhole, ReadBodyWhole,
     ParseChunkSizeWhole, ReadChunkDataWhole, ParseTrailerLineWhole, EndTrailersWhole,
     StartOverWhole DEF Advance

(* What of a message in progress is absorbed is a sequence of bytes.       *)
LEMMA AbsorbedInType ==
  ASSUME NEW s, NEW p \in Progress, s = "BODY_CHUNK_DATA" => p.chunkRead <= Len(p.body)
  PROVE  AbsorbedIn(s, p) \in Seq(Byte)
<1>1. p.body \in Seq(Byte) /\ Len(p.body) \in Nat /\ p.chunkRead \in Nat
  BY LenProperties DEF Progress
<1>2. CASE s = "BODY_CHUNK_DATA"
  <2>1. Len(p.body) - p.chunkRead \in Nat
    BY <1>1, <1>2
  <2> QED
    BY <1>1, <1>2, <2>1, DropType DEF AbsorbedIn
<1>3. CASE s # "BODY_CHUNK_DATA"
  BY <1>1, <1>3, EmptySeq DEF AbsorbedIn
<1> QED
  BY <1>2, <1>3

(* What has been absorbed is a sequence of bytes.                         *)
LEMMA AbsorbedType ==
  ASSUME ParserInv, Tidy
  PROVE  Absorbed \in Seq(Byte)
BY AbsorbedInType DEF ParserInv, TypeOK, Tidy, Absorbed

(* A message taken is one of those that were finished.                     *)
LEMMA TakenFinished ==
  ASSUME ready \in Seq(Message), taken \in Seq(Message), ready # <<>>,
         taken' = Append(taken, Head(ready)), ready' = Tail(ready)
  PROVE  Finished' = Finished
<1> DEFINE h == Head(ready)
           t == Tail(ready)
<1>1. h \in Message /\ t \in Seq(Message) /\ <<h>> \in Seq(Message) /\ ready = <<h>> \o t
  BY HeadTailProperties
<1> HIDE DEF h, t
<1>2. Append(taken, h) \o t = taken \o (<<h>> \o t)
  <2>1. Append(taken, h) = taken \o <<h>>
    BY <1>1, AppendIsConcat
  <2>2. (taken \o <<h>>) \o t = taken \o (<<h>> \o t)
    BY <1>1, ConcatAssociative
  <2> QED
    BY <2>1, <2>2
<1> QED
  BY <1>1, <1>2 DEF Finished, h, t

(* feed() moves bytes from the stream to the buffer, next() a message from *)
(* the queue to the caller: neither is a step of the other parser.         *)
LEMMA CallerStep ==
  ASSUME ParserInv, Tidy,
         \/ TakeNext
         \/ Reset /\ peeked = <<>>
         \/ \E n \in Nat : Feed(n) \/ FeedThrows(n)
  PROVE  WholeNext \/ UNCHANGED view
<1>1. /\ buffer \in Seq(Byte) /\ unsent \in Seq(Byte) /\ Absorbed \in Seq(Byte)
      /\ ready \in Seq(Message) /\ taken \in Seq(Message)
      /\ Len(unsent) \in Nat
  BY AbsorbedType, LenProperties DEF ParserInv, TypeOK
<1>2. CASE TakeNext
  <2>1. /\ ready # <<>> /\ taken' = Append(taken, Head(ready)) /\ ready' = Tail(ready)
        /\ UNCHANGED <<buffer, stateName, current, lastError, peeked, unsent>>
    BY <1>2 DEF TakeNext
  <2>2. Finished' = Finished
    BY <1>1, <2>1, TakenFinished
  <2> QED
    BY <2>1, <2>2 DEF view, Whole, Absorbed, Before
<1>3. ASSUME NEW n \in Nat, Feed(n)
      PROVE  UNCHANGED view
  <2>1. /\ n \in 0..Len(unsent) /\ buffer' = buffer \o Take(unsent, n)
        /\ unsent' = Drop(unsent, n)
        /\ UNCHANGED <<stateName, current, ready, lastError, peeked, taken>>
    BY <1>1, <1>3, LimitAssumption DEF Feed, progress
  <2>2. Whole' = Whole
    <3> DEFINE fed  == Take(unsent, n)
               rest == Drop(unsent, n)
    <3>1. fed \in Seq(Byte) /\ rest \in Seq(Byte) /\ fed \o rest = unsent
      BY <1>1, <2>1, CutInTwo
    <3> HIDE DEF fed, rest
    <3>2. Absorbed \o (buffer \o fed) = (Absorbed \o buffer) \o fed
      <4>1. Absorbed \in Seq(Byte) /\ buffer \in Seq(Byte) /\ fed \in Seq(Byte)
        BY <1>1, <3>1
      <4> QED
        BY <4>1, BytesAssociative
    <3> DEFINE c == Absorbed \o buffer
    <3>3. c \in Seq(Byte) /\ fed \in Seq(Byte) /\ rest \in Seq(Byte)
      BY <1>1, <3>1, ConcatProperties
    <3> HIDE DEF c
    <3>4. (c \o fed) \o rest = c \o (fed \o rest)
      BY <3>3, BytesAssociative
    <3>5. Absorbed' = Absorbed
      BY <2>1 DEF Absorbed
    <3> QED
      BY <2>1, <3>1, <3>2, <3>4, <3>5 DEF Whole, c, fed, rest
  <2> QED
    BY <2>1, <2>2 DEF view, Before, Finished
<1>4. ASSUME NEW n \in Nat, FeedThrows(n)
      PROVE  WholeNext
  BY <1>4 DEF FeedThrows, progress, WholeNext, Discard, Before, Finished
<1>5. CASE Reset /\ peeked = <<>>
  <2>1. /\ stateName' = "START" /\ current' = EmptyProgress /\ buffer' = <<>>
        /\ ready' = <<>> /\ taken' = <<>> /\ lastError' = 0 /\ resets' = resets + 1
        /\ unsent' = unsent /\ peeked' = peeked /\ "START" \in ParserState
    BY <1>5 DEF Reset, ParserState
  <2>2. Absorbed' = <<>> /\ Before' = EmptyProgress
    BY <2>1, NothingAbsorbed, EmptyProgressType DEF Absorbed, Before
  <2>3. Whole' = unsent /\ Finished' = <<>>
    BY <1>1, <2>1, <2>2, ConcatEmptySeq DEF Whole, Finished
  <2>4. \E n \in 0..Len(Whole) : unsent = Drop(Whole, n)
    <3> DEFINE c == Absorbed \o buffer
    <3>1. c \in Seq(Byte) /\ Whole = c \o unsent
      BY <1>1, ConcatProperties DEF Whole
    <3> HIDE DEF c
    <3>2. /\ Len(c) + 0 \in 0..Len(c \o unsent)
          /\ Drop(c \o unsent, Len(c) + 0) = Drop(unsent, 0)
      BY <1>1, <3>1, TakeAcross
    <3>3. Drop(unsent, 0) = unsent
      BY <1>1, TakeAndDrop
    <3> QED
      BY <3>1, <3>2, <3>3
  <2> QED
    BY <2>1, <2>2, <2>3, <2>4 DEF WholeNext, Restart
<1> QED
  BY <1>2, <1>3, <1>4, <1>5

(* In whatever pieces a stream comes, the parser goes through the steps of *)
(* one that has all of it: "must give the same result at any byte          *)
(* boundary" (parser.ts:20), whatever the stream, the pieces, the limits   *)
(* and the tables, while reset() finds no line in the cache.               *)
THEOREM PiecesAsWhole == Spec /\ TidyResets => ReadsAsWhole
<1>1. Init => WholeInit /\ Tidy
  <2>1. SUFFICES ASSUME Init PROVE WholeInit /\ Tidy
    OBVIOUS
  <2>2. /\ stateName = "START" /\ current = EmptyProgress /\ peeked = <<>>
        /\ buffer = <<>> /\ ready = <<>> /\ taken = <<>> /\ lastError = 0
        /\ unsent \in Streams /\ "START" \in ParserState
    BY <2>1 DEF Init, ParserState
  <2>3. Absorbed = <<>> /\ Before = EmptyProgress
    BY <2>2, NothingAbsorbed, EmptyProgressType DEF Absorbed, Before
  <2>4. Whole = unsent /\ Finished = <<>>
    BY <2>2, <2>3, StreamAssumption, ConcatEmptySeq DEF Whole, Finished
  <2> QED
    BY <2>2, <2>3, <2>4 DEF WholeInit, Tidy
<1>2. ParserInv /\ Tidy /\ [Next]_vars /\ [Reset => peeked = <<>>]_vars
        => Tidy' /\ [WholeNext]_view
  <2>1. SUFFICES ASSUME ParserInv, Tidy, TidyStep
                 PROVE  Tidy' /\ [WholeNext]_view
    BY NextTidyStep
  <2>2. UNCHANGED vars => UNCHANGED view
    BY DEF vars, view, Whole, Absorbed, Before, Finished
  <2>3. WholeNext \/ UNCHANGED view
    BY <2>1, <2>2, AdvanceStep, CallerStep DEF TidyStep
  <2> QED
    BY <2>1, <2>3, StepTidy
<1> QED
  BY <1>1, <1>2, Invariance, PTL DEF Spec, TidyResets, ReadsAsWhole
-----------------------------------------------------------------------------
(* What a parser waits for has not come when its loop stops: an iteration  *)
(* that ends the call (parser.ts:92-216).                                  *)
LEMMA StopsStuck ==
  ASSUME ParserInv, Tidy, Advance, call' = "idle", stateName' # "ERROR"
  PROVE  StuckOn(Fed)'
<1>1. /\ peeked = <<>> /\ current \in Progress /\ buffer \in Seq(Byte)
      /\ Len(buffer) \in Nat /\ call = "advance"
  BY AdvanceTidy, LenProperties DEF Advance, ParserInv, TypeOK
<1>2. ASSUME stateName \in LineStates, NEW b \in Seq(Byte), AwaitLine(b)
      PROVE  StuckOn(Fed)'
  <2>1. /\ LineIncomplete(b) /\ stateName' = stateName /\ buffer' = b
        /\ peeked' = peeked
    BY <1>2 DEF AwaitLine, Return, Fail, progress
  <2>2. Absorbed' = <<>>
    BY <1>2, <2>1 DEF Absorbed, AbsorbedIn, LineStates
  <2>3. Fed' = b
    BY <1>2, <2>1, <2>2, ConcatEmptySeq DEF Fed
  <2>4. LineIncomplete(Fed)'
    <3>1. PeekLine(Fed)' = PeekLine(b)
      BY <2>1, <2>3 DEF PeekLine, IsFirstCR, Take
    <3>2. LineFault(Fed)' = LineFault(b)
      BY <2>1, <2>3 DEF LineFault, IsFirstCR, HasCR
    <3> QED
      BY <2>1, <3>1, <3>2 DEF LineIncomplete
  <2> QED
    BY <1>2, <2>1, <2>4 DEF StuckOn, LineStates
<1>3. /\ \A s, q : ~Goto(s, q)
      /\ \A q, t : ~FinishMessage(q, t)
      /\ \A status, q : ~Fail(status, q)
  BY <1>1 DEF Goto, FinishMessage, Fail
<1>4. CASE ParseStartLine
  <2>1. PICK n \in LeadingBreaks(buffer) : AwaitLine(Drop(buffer, n))
    BY <1>3, <1>4 DEF ParseStartLine
  <2>2. n \in Nat
    BY <1>1 DEF LeadingBreaks
  <2> QED
    BY <1>1, <1>2, <1>4, <2>1, <2>2, DropType DEF ParseStartLine, LineStates
<1>5. CASE ParseHeaderLine \/ ParseChunkSize \/ ParseTrailerLine
  <2>1. AwaitLine(buffer) /\ stateName \in LineStates
    BY <1>3, <1>5 DEF ParseHeaderLine, ParseChunkSize, ParseTrailerLine, LineStates
  <2> QED
    BY <1>1, <1>2, <2>1
<1>6. ~EndHeaders /\ ~EndTrailers
  BY <1>3 DEF EndHeaders, EndTrailers
<1>7. CASE ReadBody
  <2>1. /\ stateName = "BODY_LENGTH" /\ stateName' = "BODY_LENGTH"
        /\ buffer' = <<>> /\ current' = current /\ current.body \in Seq(Byte)
        /\ Len(current.body) < current.expected
    BY <1>1, <1>3, <1>7 DEF ReadBody, Return, progress, Progress, ParserInv, Progressing
  <2>2. Fed' = current.body
    BY <2>1, ConcatEmptySeq DEF Fed, Absorbed, AbsorbedIn
  <2> QED
    BY <2>1, <2>2 DEF StuckOn, LineStates
<1>8. CASE ReadChunkData
  <2> DEFINE size == current.chunkSize
             got  == current.chunkRead
             n    == Least(size - got, Len(buffer))
             rest == Drop(buffer, n)
             read == [current EXCEPT !.body = @ \o Take(buffer, n), !.chunkRead = @ + n]
  <2>1. /\ stateName = "BODY_CHUNK_DATA" /\ stateName' = stateName
        /\ read.chunkRead # read.chunkSize \/ Len(rest) < 2
        /\ buffer' = rest /\ current' = read
    BY <1>3, <1>8 DEF ReadChunkData
  <2>2. size \in Nat /\ got \in Nat /\ got <= size
    BY <1>1 DEF Progress, ParserInv, Progressing
  <2>3. n \in 0..Len(buffer) /\ n \in Nat /\ (n # size - got => n = Len(buffer))
        /\ n <= size - got
    BY <1>1, <2>2 DEF Least
  <2> HIDE DEF n
  <2>4. rest \in Seq(Byte) /\ Len(rest) = Len(buffer) - n
    BY <1>1, <2>3, CutInTwo
  <2>5. read.chunkRead = got + n /\ read.chunkSize = size
    BY <1>1 DEF Progress
  <2> HIDE DEF read, rest
  <2>6. got + n + Len(rest) < size + 2
    BY <1>1, <2>1, <2>2, <2>3, <2>4, <2>5
  <2>7. Tidy' /\ ParserInv'
    BY AdvanceTidy, AdvanceInv
  <2>8. Absorbed' \in Seq(Byte) /\ Len(Absorbed') = got + n
    <3>1. /\ current' \in Progress /\ current'.body \in Seq(Byte)
          /\ Len(current'.body) \in Nat
          /\ current'.chunkRead = got + n /\ current'.chunkRead <= Len(current'.body)
      BY <2>1, <2>5, <2>7, LenProperties DEF Tidy, ParserInv, TypeOK, Progress
    <3>2. Absorbed' = Drop(current'.body, Len(current'.body) - (got + n))
      BY <2>1, <3>1 DEF Absorbed, AbsorbedIn
    <3>3. \A k \in 0..Len(current'.body) :
            /\ Drop(current'.body, k) \in Seq(Byte)
            /\ Len(Drop(current'.body, k)) = Len(current'.body) - k
      BY <3>1, CutInTwo
    <3>4. Len(current'.body) - (got + n) \in 0..Len(current'.body)
      BY <2>2, <2>3, <3>1
    <3>5. Len(current'.body) - (Len(current'.body) - (got + n)) = got + n
      BY <2>2, <2>3, <3>1
    <3> QED
      BY <3>2, <3>3, <3>4, <3>5
  <2>9. Len(Fed') = got + n + Len(rest)
    BY <2>1, <2>4, <2>8, ConcatProperties DEF Fed
  <2>10. current'.chunkSize = size
    BY <2>1, <2>5
  <2> QED
    BY <2>1, <2>6, <2>9, <2>10 DEF StuckOn, LineStates
<1>9. CASE StartOver
  <2>1. stateName' = "START" /\ buffer' = <<>> /\ peeked' = <<>>
    BY <1>1, <1>9 DEF StartOver
  <2>2. Fed' = <<>>
    BY <2>1 DEF Fed, Absorbed, AbsorbedIn
  <2>3. LineIncomplete(Fed)'
    BY <2>1, <2>2, LimitAssumption DEF LineIncomplete, PeekLine, LineFault, HasCR
  <2> QED
    BY <2>1, <2>3 DEF StuckOn
<1> QED
  BY <1>4, <1>5, <1>6, <1>7, <1>8, <1>9 DEF Advance

(* The inductive invariant of the parser, under steps of that kind.        *)
LEMMA StepInv ==
  ASSUME ParserInv, TidyStep
  PROVE  ParserInv'
<1>1. CASE UNCHANGED vars
  BY <1>1, NextInv
<1> QED
  BY <1>1, AdvanceInv, CallerInv DEF TidyStep

(* And it keeps waiting for that until it is fed.                          *)
LEMMA StepReadsAll ==
  ASSUME ParserInv, Tidy, ReadsAllFed, TidyStep
  PROVE  ReadsAllFed'
<1>1. CASE Advance
  BY <1>1, StopsStuck DEF ReadsAllFed
<1>2. CASE \E n \in Nat : Feed(n)
  BY <1>2 DEF Feed, ReadsAllFed
<1>3. CASE UNCHANGED vars \/ TakeNext \/ \E n \in Nat : FeedThrows(n)
  <2>1. UNCHANGED <<buffer, stateName, current, peeked, call>>
    BY <1>3 DEF vars, TakeNext, FeedThrows, progress
  <2>2. Fed' = Fed /\ StuckOn(Fed)' = StuckOn(Fed)
    BY <2>1 DEF Fed, Absorbed, StuckOn, LineIncomplete, PeekLine, LineFault,
                IsFirstCR, HasCR
  <2> QED
    BY <2>1, <2>2 DEF ReadsAllFed
<1>4. CASE Reset /\ peeked = <<>>
  <2>1. stateName' = "START" /\ buffer' = <<>> /\ peeked' = <<>>
    BY <1>4 DEF Reset
  <2>2. Fed' = <<>>
    BY <2>1 DEF Fed, Absorbed, AbsorbedIn
  <2>3. LineIncomplete(Fed)'
    BY <2>1, <2>2, LimitAssumption DEF LineIncomplete, PeekLine, LineFault, HasCR
  <2> QED
    BY <2>1, <2>3 DEF ReadsAllFed, StuckOn, LineStates
<1> QED
  BY <1>1, <1>2, <1>3, <1>4 DEF TidyStep

(* A new parser waits for its first byte.                                  *)
LEMMA NewReadsAll == NewParser => ReadsAllFed /\ Tidy
<1>1. SUFFICES ASSUME NewParser PROVE ReadsAllFed /\ Tidy
  OBVIOUS
<1>2. stateName = "START" /\ peeked = <<>> /\ buffer = <<>>
  BY <1>1 DEF NewParser
<1>3. Fed = <<>>
  BY <1>2 DEF Fed, Absorbed, AbsorbedIn
<1>4. LineIncomplete(Fed)
  BY <1>2, <1>3, LimitAssumption DEF LineIncomplete, PeekLine, LineFault, HasCR
<1> QED
  BY <1>2, <1>4 DEF ReadsAllFed, StuckOn, Tidy

(* When a call returns, the parser has done all that can be done with the  *)
(* bytes it was fed: the parser that has the whole stream could not go on  *)
(* with those bytes either (parser.ts:92-216).                             *)
THEOREM NothingHeldBack == Spec /\ TidyResets => []ReadsAllFed
<1>1. ParserInv /\ Tidy /\ ReadsAllFed /\ [Next]_vars /\ [Reset => peeked = <<>>]_vars
        => Tidy' /\ ReadsAllFed'
  BY NextTidyStep, StepTidy, StepReadsAll
<1> QED
  BY <1>1, InitNew, NewReadsAll, Invariance, PTL DEF Spec, TidyResets
=============================================================================
