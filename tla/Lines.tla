------------------------------- MODULE Lines -------------------------------
(***************************************************************************)
(* The lines of a message: parseRequestLine() and parseHttpVersion() of    *)
(* src/src/http/parse-request-line.ts, parseStatusLine() of                *)
(* parse-status-line.ts, a line of parseHeaderLines() of parse-headers.ts, *)
(* isToken() and trimOWS() of grammar.ts; and the grammar they recognize.  *)
(*                                                                         *)
(* A line is a sequence of symbols.  A symbol is a character or stands for *)
(* a string of them that only counts as a whole.                           *)
(***************************************************************************)
EXTENDS Integers, Sequences

CONSTANTS
  TChar,      \* token characters, and words of them
  Digit,      \* the decimal digits among them
  Supported,  \* "HTTP/1.0" and "HTTP/1.1"
  Version,    \* these and any other "HTTP/d.d", each one symbol
  Control,    \* control characters below SP but HTAB
  Forbidden,  \* NUL, LF and CR
  DEL

SP == " "
HTAB == "HTAB"
COLON == ":"
OWS == {SP, HTAB}

ASSUME ClassAssumption ==
  /\ Digit \subseteq TChar /\ Supported \subseteq Version /\ Forbidden \subseteq Control
  /\ (TChar \cup Version \cup Control \cup {DEL}) \cap {SP, HTAB, COLON} = {}
  /\ (TChar \cup {DEL}) \cap (Version \cup Control) = {} /\ Version \cap Control = {}
  /\ DEL \notin TChar

Word == Seq(STRING)

Of(word, S) == \A i \in 1..Len(word) : word[i] \in S
Without(word, S) == \A i \in 1..Len(word) : word[i] \notin S
Before(line, i) == SubSeq(line, 1, i - 1)
Between(line, i, j) == SubSeq(line, i + 1, j - 1)
After(line, i) == SubSeq(line, i + 1, Len(line))

(* line.indexOf(c, from), the positions of c from one on: the first, or 0. *)
At(line, c, from) == {i \in from..Len(line) : line[i] = c}
IndexOf(line, c, from) ==
  IF At(line, c, from) = {} THEN 0
  ELSE CHOOSE i \in At(line, c, from) : \A j \in At(line, c, from) : i <= j

IsToken(word) == word # <<>> /\ Of(word, TChar)

(* trimOWS(): the word that is left between the white space.               *)
TrimOWS(word) ==
  LET kept == {i \in 1..Len(word) : word[i] \notin OWS}
  IN  IF kept = {} THEN <<>>
      ELSE SubSeq(word, CHOOSE i \in kept : \A j \in kept : i <= j,
                        CHOOSE i \in kept : \A j \in kept : i >= j)

(* parseHttpVersion(): 200 for a supported version, else the status it is  *)
(* refused with.                                                           *)
HttpVersion(raw) ==
  IF \E v \in Supported : raw = <<v>> THEN 200
  ELSE IF raw # <<>> /\ raw[1] \in Version /\ Of(After(raw, 1), Digit) THEN 505
  ELSE 400

(* Mutant of InTarget: only white space is kept out.                       *)
InTargetLax(c) == c \notin OWS

(* The loop over the target: no character below SP, no DEL.                *)
InTarget(c) == c \notin Control \cup {SP, HTAB, DEL}

RefusedLine(status) ==
  [status |-> status, method |-> <<>>, target |-> <<>>, version |-> <<>>]

(* parseRequestLine()                                                      *)
RequestParts(line, first, second) ==
  LET method  == Before(line, first)
      target  == Between(line, first, second)
      version == After(line, second)
  IN  IF ~IsToken(method) \/ target = <<>> \/ \E i \in 1..Len(target) : ~InTarget(target[i])
      THEN RefusedLine(400)
      ELSE IF HttpVersion(version) # 200 THEN RefusedLine(HttpVersion(version))
      ELSE [status |-> 200, method |-> method, target |-> target, version |-> version]

SplitLine(line, first, second) ==
  IF first <= 1 \/ second = 0 \/ IndexOf(line, SP, second + 1) # 0
  THEN RefusedLine(400) ELSE RequestParts(line, first, second)

RequestLine(line) ==
  LET first == IndexOf(line, SP, 1)
  IN  SplitLine(line, first, IndexOf(line, SP, first + 1))

(* parseStatusLine(): its status, the code being the three digits.         *)
Reason(rest) ==
  IF Len(rest) = 3 THEN 200
  ELSE IF rest[4] # SP \/ ~Without(After(rest, 4), Control) THEN 400 ELSE 200

AfterVersion(rest) ==
  IF Len(rest) < 3 \/ ~Of(SubSeq(rest, 1, 3), Digit) THEN 400 ELSE Reason(rest)

StatusLine(line) ==
  LET first == IndexOf(line, SP, 1)
  IN  IF first <= 1 THEN 400
      ELSE IF HttpVersion(Before(line, first)) # 200
      THEN HttpVersion(Before(line, first))
      ELSE AfterVersion(After(line, first))

(* One line of parseHeaderLines(): its name and value, or no field.        *)
NoField == [valid |-> FALSE, name |-> <<>>, value |-> <<>>]
FieldParts(name, value) ==
  IF ~IsToken(name) \/ ~Without(value, Forbidden) THEN NoField
  ELSE [valid |-> TRUE, name |-> name, value |-> value]

FieldLine(line) ==
  LET colon == IndexOf(line, COLON, 1)
  IN  IF line = <<>> \/ line[1] \in OWS \/ colon = 0 THEN NoField
      ELSE FieldParts(Before(line, colon), TrimOWS(After(line, colon)))
-----------------------------------------------------------------------------
(* The grammar of RFC 9112, sections 3 to 5: a target, a reason-phrase and *)
(* a field value hold no control character but the HTAB of the last two,   *)
(* and DEL is one.                                                         *)
IsTarget(word) == word # <<>> /\ Without(word, Control \cup {SP, HTAB, DEL})
IsText(word) == Without(word, Control \cup {DEL})
IsVersion(word) == Len(word) = 1 /\ word[1] \in Supported
IsOtherVersion(word) ==
  word # <<>> /\ word[1] \in Version /\ Of(Tail(word), Digit) /\ ~IsVersion(word)

(* request-line = method SP request-target SP HTTP-version, with its       *)
(* spaces at i and j.                                                      *)
IsRequestLine(line, i, j) ==
  /\ i < j /\ line[i] = SP /\ line[j] = SP
  /\ IsToken(Before(line, i)) /\ IsTarget(Between(line, i, j))

(* status-line = HTTP-version SP status-code [ SP reason-phrase ], with    *)
(* its first space at i: the parts of one, and one.  The last space may be *)
(* left out with the reason-phrase (parse-status-line.ts:41-42).           *)
HasStatusParts(line, i) ==
  /\ line[i] = SP /\ IsVersion(Before(line, i))
  /\ Len(line) >= i + 3 /\ Of(SubSeq(line, i + 1, i + 3), Digit)
  /\ Len(line) > i + 3 => line[i + 4] = SP
IsStatusLine(line, i) == HasStatusParts(line, i) /\ IsText(After(line, i + 4))

(* field-line = field-name ":" OWS field-value OWS, with its colon at i    *)
(* and its value from j to k: the parts of one, and one.                   *)
HasFieldParts(line, i, j, k) ==
  /\ line[i] = COLON /\ IsToken(Before(line, i))
  /\ i < j /\ j <= k + 1 /\ k <= Len(line)
  /\ Of(Between(line, i, j), OWS) /\ Of(After(line, k), OWS)
  /\ j <= k => line[j] \notin OWS /\ line[k] \notin OWS
IsFieldLine(line, i, j, k) ==
  HasFieldParts(line, i, j, k) /\ IsText(SubSeq(line, j, k))

(* What the code lets through all the same: DEL in a reason-phrase         *)
(* (parse-status-line.ts:49, against the "no CTL" of line 46), and in a    *)
(* field value every control character but NUL, LF and CR                  *)
(* (parse-headers.ts:62, against the "no CTL" of line 59).                 *)
HasLooseReason(line, i) ==
  /\ HasStatusParts(line, i)
  /\ ~IsText(After(line, i + 4)) /\ Without(After(line, i + 4), Control)
HasLooseValue(line, i, j, k) ==
  /\ HasFieldParts(line, i, j, k)
  /\ ~IsText(SubSeq(line, j, k)) /\ Without(SubSeq(line, j, k), Forbidden)

(* A request line is taken apart exactly as the grammar says, in the only  *)
(* way it can be; of all other lines 505 refuses those of another version  *)
(* and 400 the rest.                                                       *)
RequestLineGrammar(line) ==
  LET r == RequestLine(line)
      parts(i, j) == [status |-> 200, method |-> Before(line, i),
                      target |-> Between(line, i, j), version |-> After(line, j)]
      cuts == {c \in (1..Len(line)) \X (1..Len(line)) : IsRequestLine(line, c[1], c[2])}
  IN  /\ r.status \in {200, 400, 505}
      /\ r.status = 200 => \E c \in cuts : r = parts(c[1], c[2])
      /\ r.status = 505 => \E c \in cuts : IsOtherVersion(After(line, c[2]))
      /\ \A c \in cuts :
           /\ IsVersion(After(line, c[2])) => r = parts(c[1], c[2])
           /\ IsOtherVersion(After(line, c[2])) => r.status = 505

(* A status line is taken when the grammar has it, or when only DEL in its *)
(* reason-phrase speaks against it; no other is.                           *)
StatusLineGrammar(line) ==
  StatusLine(line) = 200 <=>
    \E i \in 1..Len(line) : IsStatusLine(line, i) \/ HasLooseReason(line, i)

(* A field line is taken apart as the grammar says when it has it, or when *)
(* only control characters of the loose kind in its value speak against    *)
(* it; no other is taken.                                                  *)
FieldLineGrammar(line) ==
  LET f == FieldLine(line)
      cuts == {c \in (1..Len(line)) \X (1..(Len(line) + 1)) \X (0..Len(line)) :
                 \/ IsFieldLine(line, c[1], c[2], c[3])
                 \/ HasLooseValue(line, c[1], c[2], c[3])}
  IN  IF f.valid
      THEN \E c \in cuts : f.name = Before(line, c[1]) /\ f.value = SubSeq(line, c[2], c[3])
      ELSE cuts = {}
=============================================================================
