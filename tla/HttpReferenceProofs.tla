------------------------ MODULE HttpReferenceProofs ------------------------
(***************************************************************************)
(* What comes out of the parser is what the bytes mean: theorems about     *)
(* HttpReference, OneShot and Serializer, for every alphabet, table, limit *)
(* and stream.                                                             *)
(***************************************************************************)
EXTENDS HttpParserProofs, Serializer

(* What holds of every element as soon as it holds of the smaller ones     *)
(* holds of all: S is the set of the elements it holds of.                 *)
LEMMA InductionOnSize ==
  ASSUME NEW D, NEW size \in [D -> Nat], NEW S \in SUBSET D,
         \A d \in D : (\A e \in D : size[e] < size[d] => e \in S) => d \in S
  PROVE  S = D
<1> DEFINE T == {size[d] : d \in D \ S}
<1>1. SUFFICES ASSUME T # {} PROVE FALSE
  OBVIOUS
<1>2. T \in SUBSET Nat
  OBVIOUS
<1>3. PICK m \in T : \A n \in T : m <= n
  <2> HIDE DEF T
  <2> QED
    BY <1>1, <1>2, LeastElement
<1>4. PICK d \in D \ S : m = size[d]
  BY <1>3
<1>5. ASSUME NEW e \in D, size[e] < size[d] PROVE e \in S
  <2>1. SUFFICES ASSUME e \notin S PROVE FALSE
    OBVIOUS
  <2>2. size[e] \in T /\ size[e] \in Nat /\ size[d] \in Nat
    BY <2>1
  <2>3. size[d] <= size[e]
    BY <1>3, <1>4, <2>2
  <2> QED
    BY <1>5, <2>2, <2>3
<1> QED
  BY <1>4, <1>5

(* A computation of a function: step[<<d, f>>] is its value at d, from f's *)
(* values at the elements of smaller size.                                 *)
Computation(D, V, size, step) ==
  /\ V # {} /\ size \in [D -> Nat] /\ step \in [D \X [D -> V] -> V]
  /\ \A d \in D : \A f, g \in [D -> V] :
       (\A e \in D : size[e] < size[d] => f[e] = g[e]) => step[<<d, f>>] = step[<<d, g>>]
Computed(D, V, step) == {f \in [D -> V] : \A d \in D : f[d] = step[<<d, f>>]}

(* A function whose value at an element is computed from its values at     *)
(* smaller ones exists: what a recursive definition needs to mean anything.*)
LEMMA RecursionOnSize ==
  ASSUME NEW D, NEW V, NEW size, NEW step, Computation(D, V, size, step)
  PROVE  Computed(D, V, step) # {}
<1> SUFFICES ASSUME V # {}, size \in [D -> Nat], step \in [D \X [D -> V] -> V],
                    \A d \in D : \A f, g \in [D -> V] :
                      (\A e \in D : size[e] < size[d] => f[e] = g[e]) =>
                        step[<<d, f>>] = step[<<d, g>>]
             PROVE  \E f \in [D -> V] : \A d \in D : f[d] = step[<<d, f>>]
  BY DEF Computation, Computed
<1> DEFINE Good(n, f) ==
             f \in [D -> V] /\ \A d \in D : size[d] < n => f[d] = step[<<d, f>>]
<1>1. ASSUME NEW n \in Nat, NEW m \in Nat, NEW f, NEW g, Good(n, f), Good(m, g)
      PROVE  \A d \in D : size[d] < n /\ size[d] < m => f[d] = g[d]
  <2> DEFINE S == {d \in D : size[d] < n /\ size[d] < m => f[d] = g[d]}
  <2>1. ASSUME NEW d \in D, \A e \in D : size[e] < size[d] => e \in S
        PROVE  d \in S
    <3>1. SUFFICES ASSUME size[d] < n, size[d] < m PROVE f[d] = g[d]
      OBVIOUS
    <3>2. \A e \in D : size[e] < size[d] => f[e] = g[e]
      <4>1. \A e \in D : size[e] \in Nat /\ size[d] \in Nat
        OBVIOUS
      <4>2. \A e \in D : size[e] < size[d] => size[e] < n /\ size[e] < m
        BY <3>1, <4>1
      <4> QED
        BY <2>1, <4>2
    <3>3. f \in [D -> V] /\ g \in [D -> V]
      BY <1>1
    <3>4. step[<<d, f>>] = step[<<d, g>>]
      BY <3>2, <3>3
    <3> QED
      BY <1>1, <3>1, <3>4
  <2>2. S = D
    <3>1. S \in SUBSET D
      OBVIOUS
    <3> HIDE DEF S
    <3> QED
      BY <2>1, <3>1, InductionOnSize
  <2> QED
    BY <2>2
<1>2. \A n \in Nat : \E f : Good(n, f)
  <2> DEFINE N == {n \in Nat : ~\E f : Good(n, f)}
  <2>1. SUFFICES ASSUME N # {} PROVE FALSE
    BY Zenon
  <2>2. PICK n \in N : \A k \in N : n <= k
    <3>1. N \in SUBSET Nat
      OBVIOUS
    <3> HIDE DEF N
    <3> QED
      BY <2>1, <3>1, LeastElement
  <2>3. n \in Nat /\ ~\E f : Good(n, f)
    OBVIOUS
  <2>4. n # 0
    <3>1. PICK v \in V : TRUE
      OBVIOUS
    <3> DEFINE g == [d \in D |-> v]
    <3>2. g \in [D -> V] /\ \A d \in D : ~(size[d] < 0)
      OBVIOUS
    <3>3. Good(0, g)
      BY <3>2
    <3> QED
      BY <2>3, <3>3
  <2>5. PICK f : Good(n - 1, f)
    <3>1. n - 1 \in Nat /\ ~(n <= n - 1)
      BY <2>3, <2>4
    <3>2. n - 1 \notin N
      BY <2>2, <3>1
    <3> HIDE DEF Good
    <3> QED
      BY <3>1, <3>2
  <2> DEFINE g == [d \in D |-> step[<<d, f>>]]
  <2>6. f \in [D -> V] /\ g \in [D -> V]
    BY <2>5
  <2>7. ASSUME NEW d \in D, size[d] < n PROVE g[d] = step[<<d, g>>]
    <3>1. \A e \in D : size[e] < size[d] => f[e] = g[e]
      <4>1. ASSUME NEW e \in D, size[e] < size[d] PROVE f[e] = g[e]
        <5>1. size[e] \in Nat /\ size[d] \in Nat
          OBVIOUS
        <5>2. size[e] < n - 1
          BY <2>3, <2>7, <4>1, <5>1
        <5> QED
          BY <2>5, <5>2
      <4> QED
        BY <4>1
    <3> HIDE DEF g
    <3>2. step[<<d, f>>] = step[<<d, g>>]
      BY <2>6, <3>1
    <3> QED
      BY <3>2 DEF g
  <2>8. Good(n, g)
    BY <2>6, <2>7
  <2> QED
    BY <2>3, <2>8
<1> DEFINE F(n) == CHOOSE f : Good(n, f)
           whole == [d \in D |-> F(size[d] + 1)[d]]
<1>3. \A n \in Nat : Good(n, F(n))
  <2> HIDE DEF Good
  <2> QED
    BY <1>2, Zenon
<1> HIDE DEF F
<1>4. whole \in [D -> V]
  <2>1. \A d \in D : size[d] + 1 \in Nat
    OBVIOUS
  <2> QED
    BY <1>3, <2>1
<1>5. ASSUME NEW d \in D PROVE whole[d] = step[<<d, whole>>]
  <2> DEFINE n == size[d] + 1
             f == F(n)
  <2>1. n \in Nat /\ size[d] \in Nat /\ size[d] < n
    OBVIOUS
  <2>2. Good(n, f)
    BY <1>3, <2>1
  <2>3. ASSUME NEW e \in D, size[e] < size[d] PROVE f[e] = whole[e]
    <3>1. size[e] \in Nat /\ size[e] + 1 \in Nat /\ size[e] < size[e] + 1 /\ size[e] < n
      BY <2>1, <2>3
    <3>2. Good(size[e] + 1, F(size[e] + 1))
      BY <1>3, <3>1
    <3> HIDE DEF Good
    <3>3. f[e] = F(size[e] + 1)[e]
      BY <1>1, <2>1, <2>2, <3>1, <3>2
    <3> QED
      BY <3>3
  <2>4. f \in [D -> V] /\ f[d] = step[<<d, f>>]
    BY <2>1, <2>2
  <2> HIDE DEF f
  <2>5. step[<<d, f>>] = step[<<d, whole>>]
    <3> HIDE DEF whole
    <3> QED
      BY <1>4, <2>3, <2>4
  <2>6. whole[d] = f[d]
    BY DEF f
  <2> QED
    BY <2>4, <2>5, <2>6
<1> HIDE DEF whole
<1> QED
  BY <1>4, <1>5
-----------------------------------------------------------------------------
(* A buffer with a CR has one place where the first one stands.            *)
LEMMA FirstCRAt ==
  ASSUME NEW b \in Seq(Byte), NEW k \in 1..Len(b), IsFirstCR(b, k)
  PROVE  HasCR(b) /\ (CHOOSE i \in 1..Len(b) : IsFirstCR(b, i)) = k
<1>1. HasCR(b)
  BY DEF HasCR, IsFirstCR
<1>2. \A i \in 1..Len(b) : IsFirstCR(b, i) => i = k
  BY OneFirstCR
<1> QED
  BY <1>1, <1>2

(* What the reference reads at a first CR, and where there is none.        *)
LEMMA ReadLineAt ==
  ASSUME NEW b \in Seq(Byte)
  PROVE  /\ \A k \in 1..Len(b) : IsFirstCR(b, k) => ReadLine(b) = LineEndingAt(b, k)
         /\ ~HasCR(b) => ReadLine(b) = IF Len(b) > MaxLineBytes THEN Bad(431, b)
                                                                ELSE More(b)
BY FirstCRAt DEF ReadLine

(* What reading a piece of grammar in front of b gives: a value and less   *)
(* than there was, or neither.                                             *)
Found(Values, b) ==
  {o \in Outcome(Values) : IF o.kind = "ok" THEN o.value \in Values /\ Len(o.at) < Len(b)
                                            ELSE o.value = <<>>}

(* What reading a line gives: a line and less than there was, or the       *)
(* string it stopped in.                                                   *)
LEMMA ReadLineType ==
  ASSUME NEW b \in Seq(Byte)
  PROVE  /\ ReadLine(b) \in Found(Line, b)
         /\ ReadLine(b).kind # "ok" => ReadLine(b).at = b
         /\ ReadLine(b).kind = "more" => ReadLine(b).status = 0
<1>0. Len(b) \in Nat
  BY LenProperties
<1>1. CASE ~HasCR(b)
  BY <1>0, <1>1, ReadLineAt DEF Bad, More, Outcome, Found
<1>2. CASE HasCR(b)
  <2>1. PICK k \in 1..Len(b) : IsFirstCR(b, k)
    BY <1>2, FirstCR
  <2>2. ReadLine(b) = LineEndingAt(b, k)
    BY <2>1, ReadLineAt
  <2>3. CASE k = Len(b) \/ b[k + 1] # LF \/ k - 1 > MaxLineBytes
    BY <2>2, <2>3 DEF LineEndingAt, Bad, More, Outcome, Found
  <2>4. CASE ~(k = Len(b) \/ b[k + 1] # LF \/ k - 1 > MaxLineBytes)
    <3>1. k - 1 \in 0..Len(b) /\ k + 1 \in 0..Len(b)
      BY <1>0, <2>4
    <3>2. Take(b, k - 1) \in Seq(Byte) /\ Drop(b, k + 1) \in Seq(Byte)
          /\ Len(Drop(b, k + 1)) = Len(b) - (k + 1)
      BY <3>1, CutInTwo
    <3>3. ReadLine(b) = Ok(Take(b, k - 1), Drop(b, k + 1))
      BY <2>2, <2>4 DEF LineEndingAt
    <3> QED
      BY <1>0, <3>2, <3>3 DEF Ok, Outcome, Line, Found
  <2> QED
    BY <2>3, <2>4
<1> QED
  BY <1>1, <1>2
-----------------------------------------------------------------------------
(* A section after one more line is a section.                             *)
LEMMA WithLineType ==
  ASSUME NEW s \in Section, NEW l, l.value \in Line, l.at \in Seq(Byte)
  PROVE  WithLine(s, l) \in Section /\ WithLine(s, l).at = l.at
<1>1. /\ s.lines \in Seq(Line) /\ s.size \in Nat /\ Len(l.value) \in Nat
  BY LenProperties DEF Section, Line
<1>2. Append(s.lines, l.value) \in Seq(Line) /\ s.size + Len(l.value) + 2 \in Nat
  BY <1>1, AppendProperties
<1> QED
  BY <1>2 DEF WithLine, Section

(* What a line of a section leaves to read.                                *)
LEMMA SectionLine ==
  ASSUME NEW s \in Section
  PROVE  /\ s.at \in Seq(Byte) /\ ReadLine(s.at) \in Outcome(Line)
         /\ ReadLine(s.at).at \in Seq(Byte)
         /\ ReadLine(s.at).kind = "ok" =>
              /\ Len(ReadLine(s.at).at) < Len(s.at)
              /\ WithLine(s, ReadLine(s.at)) \in Section
              /\ WithLine(s, ReadLine(s.at)).at = ReadLine(s.at).at
         /\ ReadLine(s.at).kind # "ok" => ReadLine(s.at).value = <<>>
<1> DEFINE l == ReadLine(s.at)
<1>1. s.at \in Seq(Byte)
  BY DEF Section
<1>2. /\ l \in Outcome(Line) /\ l.at \in Seq(Byte)
      /\ l.kind = "ok" => l.value \in Line /\ Len(l.at) < Len(s.at)
      /\ l.kind # "ok" => l.value = <<>>
  BY <1>1, ReadLineType DEF Outcome, Found
<1> HIDE DEF l
<1> QED
  BY <1>1, <1>2, WithLineType DEF l

(* One step of the recursion of ReadSection, from what f says of the rest. *)
SectionStep(s, f) ==
  LET l == ReadLine(s.at)
  IN  IF l.kind # "ok" THEN l
      ELSE IF l.value = <<>> THEN Ok(s, l.at)
      ELSE IF TooLong(WithLine(s, l)) THEN Bad(431, <<>>)
      ELSE f[WithLine(s, l)]

(* The recursion of ReadSection ends: it reads what it says it reads.      *)
LEMMA ReadSectionIs ==
  /\ ReadSection = [s \in Section |-> SectionStep(s, ReadSection)]
  /\ \A s \in Section :
       ReadSection[s] \in Found(Section, s.at)
<1> DEFINE V == Outcome(Section)
           size == [s \in Section |-> Len(s.at)]
           step == [x \in Section \X [Section -> V] |-> SectionStep(x[1], x[2])]
<1>1. size \in [Section -> Nat] /\ Bad(400, <<>>) \in V /\ Bad(431, <<>>) \in V
  BY SectionLine, LenProperties, EmptySeq DEF Bad, Outcome
<1>2. ASSUME NEW s \in Section, NEW f \in [Section -> V]
      PROVE  SectionStep(s, f) \in V
  <2>1. ReadLine(s.at).kind # "ok" => ReadLine(s.at) \in V
    BY SectionLine DEF Outcome
  <2>2. ReadLine(s.at).kind = "ok" => Ok(s, ReadLine(s.at).at) \in V
    BY SectionLine DEF Outcome, Ok
  <2> HIDE DEF V
  <2> QED
    BY <1>1, <2>1, <2>2, SectionLine DEF SectionStep
<1>3. step \in [Section \X [Section -> V] -> V]
  <2> HIDE DEF V
  <2> QED
    BY <1>2
<1>4. \A s \in Section : \A f, g \in [Section -> V] :
        (\A e \in Section : size[e] < size[s] => f[e] = g[e]) =>
          SectionStep(s, f) = SectionStep(s, g)
  BY SectionLine DEF SectionStep
<1>5. PICK f \in [Section -> V] : \A s \in Section : f[s] = step[<<s, f>>]
  <2>1. \A s \in Section : \A f, g \in [Section -> V] :
          (\A e \in Section : size[e] < size[s] => f[e] = g[e]) =>
            step[<<s, f>>] = step[<<s, g>>]
    BY <1>4
  <2>2. V # {}
    BY <1>1
  <2> HIDE DEF step, size, V
  <2>3. Computation(Section, V, size, step)
    BY <1>1, <1>3, <2>1, <2>2 DEF Computation
  <2> QED
    BY <2>3, RecursionOnSize DEF Computed
<1>6. f = [s \in Section |-> SectionStep(s, f)]
  <2> HIDE DEF V
  <2>1. \A s \in Section : step[<<s, f>>] = SectionStep(s, f)
    OBVIOUS
  <2> QED
    BY <1>5, <2>1
<1>7. ReadSection = [s \in Section |-> SectionStep(s, ReadSection)]
  BY <1>6, Zenon DEF ReadSection, SectionStep
<1> DEFINE S == {s \in Section : ReadSection[s] \in Found(Section, s.at)}
<1>8. S = Section
  <2>1. ASSUME NEW s \in Section, \A e \in Section : size[e] < size[s] => e \in S
        PROVE  s \in S
    <3> DEFINE l == ReadLine(s.at)
               t == WithLine(s, l)
    <3>1. ReadSection[s] = SectionStep(s, ReadSection)
      BY <1>7
    <3>2. CASE l.kind # "ok"
      <4>1. ReadSection[s] = l
        BY <3>1, <3>2 DEF SectionStep
      <4> QED
        BY <3>2, <4>1, SectionLine DEF Outcome, Found
    <3>3. CASE l.kind = "ok" /\ l.value = <<>>
      <4>1. ReadSection[s] = Ok(s, l.at)
        BY <3>1, <3>3 DEF SectionStep
      <4> QED
        BY <3>3, <4>1, SectionLine DEF Outcome, Ok, Found
    <3>4. CASE l.kind = "ok" /\ l.value # <<>> /\ TooLong(t)
      <4>1. ReadSection[s] = Bad(431, <<>>)
        BY <3>1, <3>4 DEF SectionStep
      <4> QED
        BY <1>1, <4>1 DEF Bad, Found
    <3>5. CASE l.kind = "ok" /\ l.value # <<>> /\ ~TooLong(t)
      <4> DEFINE r == ReadSection[t]
      <4>1. ReadSection[s] = r
        BY <3>1, <3>5 DEF SectionStep
      <4>2. t \in Section /\ Len(t.at) < Len(s.at) /\ s.at \in Seq(Byte)
        BY <3>5, SectionLine
      <4>3. t \in S
        BY <2>1, <4>2
      <4>4. r \in Found(Section, t.at)
        BY <4>3
      <4> HIDE DEF r, t
      <4>5. Len(t.at) \in Nat /\ Len(s.at) \in Nat /\ Len(r.at) \in Nat
        BY <4>2, <4>4, LenProperties DEF Section, Outcome, Found
      <4>6. r \in Found(Section, s.at)
        BY <4>2, <4>4, <4>5 DEF Found
      <4> QED
        BY <4>1, <4>6
    <3> QED
      BY <3>2, <3>3, <3>4, <3>5
  <2>2. S \in SUBSET Section
    OBVIOUS
  <2> HIDE DEF S, size
  <2> QED
    BY <1>1, <2>1, <2>2, InductionOnSize
<1>9. \A s \in Section : s \in S
  BY <1>8
<1> QED
  BY <1>7, <1>9
-----------------------------------------------------------------------------
(* A string with a whole chunk in front has a string behind it.            *)
LEMMA WithChunkType ==
  ASSUME NEW c \in Chunks, NEW n \in Nat, ChunkThere(n, c)
  PROVE  /\ WithChunk(n, c) \in Chunks /\ n + 2 \in 0..Len(c.at)
         /\ Len(WithChunk(n, c).at) < Len(c.at)
<1>1. /\ c.at \in Seq(Byte) /\ c.body \in Seq(Byte) /\ Len(c.at) \in Nat
      /\ Len(c.at) >= n + 2
  BY LenProperties DEF Chunks, ChunkThere
<1>2. n \in 0..Len(c.at) /\ n + 2 \in 0..Len(c.at)
  BY <1>1
<1>3. /\ Take(c.at, n) \in Seq(Byte) /\ Drop(c.at, n + 2) \in Seq(Byte)
      /\ Len(Drop(c.at, n + 2)) = Len(c.at) - (n + 2)
  BY <1>1, <1>2, CutInTwo
<1>4. c.body \o Take(c.at, n) \in Seq(Byte)
  BY <1>1, <1>3, ConcatProperties
<1> QED
  BY <1>1, <1>2, <1>3, <1>4 DEF WithChunk, Chunks

(* What a chunk-size line leaves to read.                                  *)
LEMMA ChunkLine ==
  ASSUME NEW c \in Chunks
  PROVE  /\ c.at \in Seq(Byte) /\ c.body \in Seq(Byte)
         /\ ReadLine(c.at) \in Outcome(Line) /\ ReadLine(c.at).at \in Seq(Byte)
         /\ [c EXCEPT !.at = ReadLine(c.at).at] \in Chunks
         /\ [c EXCEPT !.at = ReadLine(c.at).at].at = ReadLine(c.at).at
         /\ ReadLine(c.at).kind = "ok" => Len(ReadLine(c.at).at) < Len(c.at)
         /\ ReadLine(c.at).kind # "ok" => ReadLine(c.at).value = <<>>
<1> DEFINE l == ReadLine(c.at)
<1>1. c.at \in Seq(Byte) /\ c.body \in Seq(Byte)
  BY DEF Chunks
<1>2. /\ l \in Outcome(Line) /\ l.at \in Seq(Byte)
      /\ l.kind = "ok" => Len(l.at) < Len(c.at)
      /\ l.kind # "ok" => l.value = <<>>
  BY <1>1, ReadLineType DEF Outcome, Found
<1> HIDE DEF l
<1>3. [c EXCEPT !.at = l.at] \in Chunks /\ [c EXCEPT !.at = l.at].at = l.at
  BY <1>1, <1>2 DEF Chunks
<1> QED
  BY <1>1, <1>2, <1>3 DEF l

(* One step of the recursion of ReadChunks, from what f says of the rest.  *)
ChunkStep(c, f) ==
  LET l    == ReadLine(c.at)
      n    == SizeLines[l.value]
      data == [c EXCEPT !.at = l.at]
  IN  IF l.kind # "ok" THEN l
      ELSE IF l.value \notin DOMAIN SizeLines THEN Bad(400, <<>>)
      ELSE IF n = 0 THEN Ok(c.body, l.at)
      ELSE IF ChunkThere(n, data) THEN f[WithChunk(n, data)]
      ELSE NoChunk(n, data)

(* What such a step gives, but for the recursion.                          *)
LEMMA ChunkStepIs ==
  ASSUME NEW c \in Chunks
  PROVE  LET l    == ReadLine(c.at)
             n    == SizeLines[l.value]
             data == [c EXCEPT !.at = l.at]
             next == WithChunk(n, data)
         IN  \/ /\ next \in Chunks /\ Len(next.at) < Len(c.at)
                /\ \A f : ChunkStep(c, f) = f[next]
             \/ \E r \in Found(Seq(Byte), c.at) : \A f : ChunkStep(c, f) = r
<1> DEFINE l    == ReadLine(c.at)
           n    == SizeLines[l.value]
           data == [c EXCEPT !.at = l.at]
           next == WithChunk(n, data)
<1>1. /\ c.at \in Seq(Byte) /\ c.body \in Seq(Byte) /\ l \in Outcome(Line)
      /\ data \in Chunks /\ data.at = l.at /\ l.at \in Seq(Byte)
      /\ l.kind = "ok" => Len(l.at) < Len(c.at)
      /\ l.kind # "ok" => l.value = <<>>
      /\ <<>> \in Seq(Byte) /\ Len(c.at) \in Nat /\ Len(l.at) \in Nat
  BY ChunkLine, EmptySeq, LenProperties
<1>2. ASSUME NEW f
      PROVE  ChunkStep(c, f) = IF l.kind # "ok" THEN l
             ELSE IF l.value \notin DOMAIN SizeLines THEN Bad(400, <<>>)
             ELSE IF n = 0 THEN Ok(c.body, l.at)
             ELSE IF ChunkThere(n, data) THEN f[next]
             ELSE NoChunk(n, data)
  BY DEF ChunkStep
<1> HIDE DEF data, l
<1>3. CASE l.kind # "ok"
  <2>1. l \in Found(Seq(Byte), c.at)
    BY <1>1, <1>3 DEF Outcome, Found
  <2>2. \A f : ChunkStep(c, f) = l
    BY <1>2, <1>3
  <2> QED
    BY <1>3, <2>1, <2>2 DEF data, l
<1>4. CASE l.kind = "ok" /\ l.value \notin DOMAIN SizeLines
  <2>1. Bad(400, <<>>) \in Found(Seq(Byte), c.at)
    BY <1>1 DEF Outcome, Bad, Found
  <2>2. \A f : ChunkStep(c, f) = Bad(400, <<>>)
    BY <1>2, <1>4
  <2> QED
    BY <2>1, <2>2 DEF data, l
<1>5. CASE l.kind = "ok" /\ l.value \in DOMAIN SizeLines /\ n = 0
  <2>1. Ok(c.body, l.at) \in Found(Seq(Byte), c.at)
    BY <1>1, <1>5 DEF Outcome, Ok, Found
  <2>2. \A f : ChunkStep(c, f) = Ok(c.body, l.at)
    BY <1>2, <1>5
  <2> QED
    BY <1>1, <1>5, <2>1, <2>2 DEF data, l
<1>6. CASE l.kind = "ok" /\ l.value \in DOMAIN SizeLines /\ n # 0
  <2>1. n \in Nat
    BY <1>6, TableAssumption
  <2> HIDE DEF n
  <2>2. CASE ChunkThere(n, data)
    <3>1. next \in Chunks /\ Len(next.at) < Len(data.at)
      BY <1>1, <2>1, <2>2, WithChunkType
    <3>2. next.at \in Seq(Byte) /\ Len(next.at) \in Nat
      BY <3>1, LenProperties DEF Chunks
    <3>3. Len(next.at) < Len(c.at)
      BY <1>1, <1>6, <3>1, <3>2
    <3>4. \A f : ChunkStep(c, f) = f[next]
      BY <1>2, <1>6, <2>2
    <3> QED
      BY <3>1, <3>3, <3>4 DEF data, l, n
  <2>3. CASE ~ChunkThere(n, data)
    <3>1. NoChunk(n, data) \in Found(Seq(Byte), c.at)
      BY <1>1 DEF Outcome, NoChunk, More, Bad, Found
    <3>2. \A f : ChunkStep(c, f) = NoChunk(n, data)
      BY <1>2, <1>6, <2>3
    <3> QED
      BY <3>1, <3>2 DEF data, l, n
  <2> QED
    BY <2>2, <2>3
<1> QED
  BY <1>3, <1>4, <1>5, <1>6

(* The recursion of ReadChunks ends: it reads what it says it reads.       *)
LEMMA ReadChunksIs ==
  /\ ReadChunks = [c \in Chunks |-> ChunkStep(c, ReadChunks)]
  /\ \A c \in Chunks :
       ReadChunks[c] \in Found(Seq(Byte), c.at)
<1> DEFINE V == Outcome(Seq(Byte))
           size == [c \in Chunks |-> Len(c.at)]
           step == [x \in Chunks \X [Chunks -> V] |-> ChunkStep(x[1], x[2])]
<1>1. size \in [Chunks -> Nat] /\ Bad(400, <<>>) \in V
  BY ChunkLine, LenProperties, EmptySeq DEF Bad, Outcome
<1>2. ASSUME NEW c \in Chunks, NEW f \in [Chunks -> V]
      PROVE  ChunkStep(c, f) \in V
  <2> HIDE DEF V
  <2> QED
    BY ChunkStepIs DEF V, Found
<1>3. step \in [Chunks \X [Chunks -> V] -> V]
  <2> HIDE DEF V
  <2> QED
    BY <1>2
<1>4. \A c \in Chunks : \A f, g \in [Chunks -> V] :
        (\A e \in Chunks : size[e] < size[c] => f[e] = g[e]) =>
          ChunkStep(c, f) = ChunkStep(c, g)
  BY ChunkStepIs
<1>5. PICK f \in [Chunks -> V] : \A c \in Chunks : f[c] = step[<<c, f>>]
  <2>1. \A c \in Chunks : \A f, g \in [Chunks -> V] :
          (\A e \in Chunks : size[e] < size[c] => f[e] = g[e]) =>
            step[<<c, f>>] = step[<<c, g>>]
    BY <1>4
  <2>2. V # {}
    BY <1>1
  <2> HIDE DEF step, size, V
  <2>3. Computation(Chunks, V, size, step)
    BY <1>1, <1>3, <2>1, <2>2 DEF Computation
  <2> QED
    BY <2>3, RecursionOnSize DEF Computed
<1>6. f = [c \in Chunks |-> ChunkStep(c, f)]
  <2> HIDE DEF V
  <2>1. \A c \in Chunks : step[<<c, f>>] = ChunkStep(c, f)
    OBVIOUS
  <2> QED
    BY <1>5, <2>1
<1>7. ReadChunks = [c \in Chunks |-> ChunkStep(c, ReadChunks)]
  BY <1>6, Zenon DEF ReadChunks, ChunkStep
<1> DEFINE S == {c \in Chunks : ReadChunks[c] \in Found(Seq(Byte), c.at)}
<1>8. S = Chunks
  <2>1. ASSUME NEW c \in Chunks, \A e \in Chunks : size[e] < size[c] => e \in S
        PROVE  c \in S
    <3>1. ReadChunks[c] = ChunkStep(c, ReadChunks)
      BY <1>7
    <3>2. ASSUME NEW r \in Found(Seq(Byte), c.at), ReadChunks[c] = r
          PROVE  c \in S
      BY <3>2
    <3>3. ASSUME NEW t \in Chunks, Len(t.at) < Len(c.at), ReadChunks[c] = ReadChunks[t]
          PROVE  c \in S
      <4> DEFINE r == ReadChunks[t]
      <4>1. t \in S
        BY <2>1, <3>3
      <4>2. r \in Found(Seq(Byte), t.at)
        BY <4>1
      <4> HIDE DEF r
      <4>3. Len(t.at) \in Nat /\ Len(c.at) \in Nat /\ Len(r.at) \in Nat
        BY <4>2, LenProperties DEF Chunks, Outcome, Found
      <4>4. r \in Found(Seq(Byte), c.at)
        BY <3>3, <4>2, <4>3 DEF Found
      <4> QED
        BY <3>2, <3>3, <4>4 DEF r
    <3> HIDE DEF S
    <3> QED
      BY <3>1, <3>2, <3>3, ChunkStepIs
  <2>2. S \in SUBSET Chunks
    OBVIOUS
  <2> HIDE DEF S, size
  <2> QED
    BY <1>1, <2>1, <2>2, InductionOnSize
<1>9. \A c \in Chunks : c \in S
  BY <1>8
<1> QED
  BY <1>7, <1>9
-----------------------------------------------------------------------------
(* The parts a message is put together from.                               *)
PartsOK(line, fields) == line \in Line /\ fields \in Seq(Field)

(* What is found behind some of a string is found in it.                   *)
LEMMA FoundBehind ==
  ASSUME NEW V, NEW b \in Seq(Byte), NEW d \in Seq(Byte), Len(d) <= Len(b),
         NEW o \in Found(V, d)
  PROVE  o \in Found(V, b)
<1>1. Len(b) \in Nat /\ Len(d) \in Nat /\ Len(o.at) \in Nat
  BY LenProperties DEF Found, Outcome
<1> QED
  BY <1>1 DEF Found

(* Neither a part that has not come nor one that is refused is a message.  *)
LEMMA NoneFound ==
  ASSUME NEW V, NEW U, NEW b
  PROVE  /\ More(<<>>) \in Found(V, b) /\ Bad(400, <<>>) \in Found(V, b)
         /\ Bad(431, <<>>) \in Found(V, b) /\ Bad(505, <<>>) \in Found(V, b)
         /\ \A o \in Found(U, b) : o.kind # "ok" => o \in Found(V, b)
BY EmptySeq DEF Found, Outcome, More, Bad

(* What is read behind the chunks of a body is a message.                  *)
LEMMA AfterTrailersType ==
  ASSUME NEW line, NEW fields, PartsOK(line, fields), NEW body \in Seq(Byte),
         NEW b \in Seq(Byte), NEW t \in Found(Section, b)
  PROVE  AfterTrailers(line, fields, body, t) \in Found(Message, b)
<1> DEFINE sum == Message1(line, fields, body, FieldsOf(t.value.lines))
<1>1. CASE t.kind = "ok" /\ WellFormed(t.value.lines)
  <2>1. t.value.lines \in Seq(Line) /\ t.at \in Seq(Byte) /\ Len(t.at) < Len(b)
    BY <1>1 DEF Found, Outcome, Section
  <2>2. FieldsOf(t.value.lines) \in Seq(Field)
    BY <1>1, <2>1, FieldsType
  <2>3. sum \in Message
    BY <2>2 DEF Message1, Message, PartsOK
  <2> HIDE DEF sum
  <2>4. Ok(sum, t.at) \in Found(Message, b)
    BY <2>1, <2>3 DEF Found, Outcome, Ok
  <2> QED
    BY <1>1, <2>4, NoneFound DEF AfterTrailers, sum
<1> QED
  BY <1>1, NoneFound DEF AfterTrailers

(* What is read behind a header section that announces chunks.             *)
LEMMA AfterChunksType ==
  ASSUME NEW line, NEW fields, PartsOK(line, fields),
         NEW b \in Seq(Byte), NEW c \in Found(Seq(Byte), b)
  PROVE  AfterChunks(line, fields, c) \in Found(Message, b)
<1>1. CASE c.kind = "ok"
  <2>1. /\ c.value \in Seq(Byte) /\ c.at \in Seq(Byte) /\ Len(c.at) < Len(b)
        /\ Len(c.at) \in Nat /\ Len(b) \in Nat
    BY <1>1, LenProperties DEF Found, Outcome
  <2> DEFINE s == Opened(c.at, FALSE)
  <2>2. s \in Section /\ s.at = c.at
    BY <2>1, EmptySeq DEF Opened, Section
  <2>3. ReadSection[s] \in Found(Section, c.at)
    BY <2>2, ReadSectionIs
  <2> HIDE DEF s
  <2>4. AfterTrailers(line, fields, c.value, ReadSection[s]) \in Found(Message, c.at)
    BY <2>1, <2>3, AfterTrailersType
  <2>5. Len(c.at) <= Len(b)
    BY <2>1
  <2> QED
    BY <1>1, <2>1, <2>4, <2>5, FoundBehind DEF AfterChunks, s
<1>2. c.kind # "ok" => c \in Found(Message, b)
  BY NoneFound
<1>3. Bad(400, <<>>) \in Found(Message, b)
  BY NoneFound
<1> QED
  BY <1>1, <1>2, <1>3 DEF AfterChunks

(* The framing the reference reads is the one decideBodyMode() decides.    *)
LEMMA ReadBodyOfIs ==
  ASSUME NEW line, NEW fields \in Seq(Field), NEW b
  PROVE  ReadBodyOf(line, fields, b) =
           IF BodyMode(fields) = "ERROR" THEN Bad(400, <<>>)
           ELSE IF BodyMode(fields) = "BODY_CHUNK_SIZE"
           THEN AfterChunks(line, fields, ReadChunks[[at |-> b, body |-> <<>>]])
           ELSE ReadCounted(line, fields, b, Announced(fields))
<1>1. CASE BodyMode(fields) = "BODY_CHUNK_SIZE"
  BY <1>1, FramingIs DEF ReadBodyOf
<1>2. CASE BodyMode(fields) = "ERROR"
  <2>1. ~AnnouncesChunks(fields) /\ AnnouncedLengths(fields) = {}
    BY <1>2, FramingIs
  <2> QED
    BY <1>2, <2>1 DEF ReadBodyOf
<1>3. CASE BodyMode(fields) \in {"BODY_LENGTH", "DONE"}
  <2> DEFINE n == Announced(fields)
  <2>1. ~AnnouncesChunks(fields) /\ AnnouncedLengths(fields) = {n}
    BY <1>3, FramingIs
  <2> HIDE DEF n
  <2>2. {n} # {} /\ (CHOOSE k \in {n} : TRUE) = n
    OBVIOUS
  <2>3. ReadBodyOf(line, fields, b) = ReadCounted(line, fields, b, n)
    BY <2>1, <2>2 DEF ReadBodyOf
  <2> QED
    BY <1>3, <2>3 DEF n
<1> QED
  BY <1>1, <1>2, <1>3 DEF BodyMode

(* What is read behind a header section.                                   *)
LEMMA ReadBodyOfType ==
  ASSUME NEW line, NEW fields, PartsOK(line, fields),
         NEW b \in Seq(Byte), NEW d \in Seq(Byte), Len(d) < Len(b)
  PROVE  ReadBodyOf(line, fields, d) \in Found(Message, b)
<1>0. Len(d) \in Nat /\ Len(b) \in Nat /\ Len(d) <= Len(b) /\ <<>> \in Seq(Byte)
      /\ <<>> \in Seq(Field)
  BY LenProperties, EmptySeq
<1>1. AfterChunks(line, fields, ReadChunks[[at |-> d, body |-> <<>>]]) \in Found(Message, b)
  <2> DEFINE c == [at |-> d, body |-> <<>>]
  <2>1. c \in Chunks /\ c.at = d
    BY <1>0 DEF Chunks
  <2>2. ReadChunks[c] \in Found(Seq(Byte), d)
    BY <2>1, ReadChunksIs
  <2> HIDE DEF c
  <2>3. AfterChunks(line, fields, ReadChunks[c]) \in Found(Message, d)
    BY <2>2, AfterChunksType
  <2> QED
    BY <1>0, <2>3, FoundBehind DEF c
<1>2. ReadCounted(line, fields, d, Announced(fields)) \in Found(Message, b)
  <2> DEFINE n == Announced(fields)
  <2>1. n \in Nat
    BY AnnouncedType DEF PartsOK
  <2> HIDE DEF n
  <2>2. CASE Len(d) < n
    BY <2>2, NoneFound DEF ReadCounted, n
  <2>3. CASE ~(Len(d) < n)
    <3>1. n \in 0..Len(d)
      BY <1>0, <2>1, <2>3
    <3>2. /\ Take(d, n) \in Seq(Byte) /\ Drop(d, n) \in Seq(Byte)
          /\ Len(Drop(d, n)) = Len(d) - n
      BY <3>1, CutInTwo
    <3>3. Message1(line, fields, Take(d, n), <<>>) \in Message
      BY <1>0, <3>2 DEF Message1, Message, PartsOK
    <3>4. Len(Drop(d, n)) < Len(b)
      BY <1>0, <2>1, <3>2
    <3> QED
      <4> DEFINE m == Message1(line, fields, Take(d, n), <<>>)
                 e == Drop(d, n)
      <4>1. ReadCounted(line, fields, d, Announced(fields)) = Ok(m, e)
        BY <2>3 DEF ReadCounted, n
      <4> HIDE DEF m, e
      <4>2. Ok(m, e) \in Found(Message, b)
        BY <3>2, <3>3, <3>4 DEF Found, Outcome, Ok, m, e
      <4> QED
        BY <4>1, <4>2
  <2> QED
    BY <2>2, <2>3 DEF n
<1> QED
  BY <1>1, <1>2, NoneFound, ReadBodyOfIs DEF PartsOK

(* What is read behind a start line.                                       *)
LEMMA AfterHeadersType ==
  ASSUME NEW line \in Line, NEW b \in Seq(Byte), NEW h \in Found(Section, b)
  PROVE  AfterHeaders(line, h) \in Found(Message, b)
<1>1. CASE h.kind = "ok" /\ WellFormed(h.value.lines)
  <2>1. h.value.lines \in Seq(Line) /\ h.at \in Seq(Byte) /\ Len(h.at) < Len(b)
    BY <1>1 DEF Found, Outcome, Section
  <2>2. PartsOK(line, FieldsOf(h.value.lines))
    BY <1>1, <2>1, FieldsType DEF PartsOK
  <2> QED
    BY <1>1, <2>1, <2>2, ReadBodyOfType DEF AfterHeaders
<1> QED
  BY <1>1, NoneFound DEF AfterHeaders

(* What is read behind the breaks in front of a message.                   *)
LEMMA AfterStartLineType ==
  ASSUME NEW b \in Seq(Byte), NEW l \in Found(Line, b)
  PROVE  AfterStartLine(l) \in Found(Message, b)
<1>1. CASE l.kind = "ok" /\ l.value \in DOMAIN StartLines
  <2>1. /\ l.value \in Line /\ l.at \in Seq(Byte) /\ Len(l.at) < Len(b)
        /\ Len(l.at) \in Nat /\ Len(b) \in Nat
    BY <1>1, LenProperties DEF Found, Outcome
  <2> DEFINE s == Opened(l.at, TRUE)
  <2>2. s \in Section /\ s.at = l.at
    BY <2>1, EmptySeq DEF Opened, Section
  <2>3. ReadSection[s] \in Found(Section, l.at)
    BY <2>2, ReadSectionIs
  <2> HIDE DEF s
  <2>4. AfterHeaders(l.value, ReadSection[s]) \in Found(Message, l.at)
    BY <2>1, <2>3, AfterHeadersType
  <2>5. Len(l.at) <= Len(b)
    BY <2>1
  <2>6. AfterHeaders(l.value, ReadSection[s]) \in Found(Message, b)
    BY <2>1, <2>4, <2>5, FoundBehind
  <2>7. StartLines[l.value] # 200 => StartLines[l.value] \in {400, 505}
    BY <1>1, TableAssumption
  <2>8. CASE StartLines[l.value] = 200
    BY <1>1, <2>6, <2>8 DEF AfterStartLine, s
  <2>9. CASE StartLines[l.value] # 200
    BY <1>1, <2>7, <2>9, NoneFound DEF AfterStartLine
  <2> QED
    BY <2>8, <2>9
<1>2. l.kind # "ok" => l \in Found(Message, b)
  BY NoneFound
<1>3. Bad(400, <<>>) \in Found(Message, b)
  BY NoneFound
<1> QED
  BY <1>1, <1>2, <1>3 DEF AfterStartLine
-----------------------------------------------------------------------------
(* There is one number of breaks in front of a string.                     *)
LEMMA BreaksAre ==
  ASSUME NEW b \in Seq(Byte)
  PROVE  /\ LeadingBreaks(b) # {}
         /\ \A n \in LeadingBreaks(b) : n \in 0..Len(b) /\ Unbroken(b) = Drop(b, n)
<1>0. Len(b) \in Nat
  BY LenProperties
<1> DEFINE T == {n \in 0..Len(b) : n = Len(b) \/ b[n + 1] \notin {CR, LF}}
<1>1. PICK m \in T : \A n \in T : m <= n
  <2>1. T \in SUBSET Nat /\ Len(b) \in T
    BY <1>0
  <2> HIDE DEF T
  <2> QED
    BY <2>1, LeastElement
<1>2. m \in LeadingBreaks(b)
  <2>1. ASSUME NEW i \in 1..m PROVE b[i] \in {CR, LF}
    <3>1. i - 1 \in 0..Len(b) /\ ~(m <= i - 1) /\ i - 1 # Len(b) /\ i - 1 + 1 = i
      BY <1>0
    <3>2. i - 1 \notin T
      BY <1>1, <3>1
    <3> QED
      BY <3>1, <3>2
  <2> QED
    BY <2>1 DEF LeadingBreaks
<1>3. ASSUME NEW j \in LeadingBreaks(b), NEW k \in LeadingBreaks(b)
      PROVE  j = k
  <2>1. ASSUME NEW x \in LeadingBreaks(b), NEW y \in LeadingBreaks(b) PROVE ~(x < y)
    <3>1. SUFFICES ASSUME x < y PROVE FALSE
      OBVIOUS
    <3>2. x \in 0..Len(b) /\ y \in 0..Len(b) /\ x + 1 \in 1..y /\ x # Len(b)
      BY <1>0, <3>1 DEF LeadingBreaks
    <3>3. b[x + 1] \in {CR, LF} /\ b[x + 1] \notin {CR, LF}
      BY <3>2 DEF LeadingBreaks
    <3> QED
      BY <3>3
  <2>2. j \in 0..Len(b) /\ k \in 0..Len(b)
    BY DEF LeadingBreaks
  <2> QED
    BY <1>0, <2>1, <2>2
<1>4. ASSUME NEW n \in LeadingBreaks(b)
      PROVE  n \in 0..Len(b) /\ Unbroken(b) = Drop(b, n)
  <2>1. (CHOOSE k \in LeadingBreaks(b) : TRUE) = n
    BY <1>3, <1>4
  <2> QED
    BY <2>1 DEF Unbroken, LeadingBreaks
<1> QED
  BY <1>2, <1>4

(* Breaks that are dropped in front of a message change nothing.           *)
LEMMA UnbrokenBehind ==
  ASSUME NEW b \in Seq(Byte), NEW n \in 0..Len(b), \A i \in 1..n : b[i] \in {CR, LF}
  PROVE  Unbroken(Drop(b, n)) = Unbroken(b)
<1> DEFINE d == Drop(b, n)
<1>1. PICK k \in LeadingBreaks(b) : k \in 0..Len(b) /\ Unbroken(b) = Drop(b, k)
  BY BreaksAre
<1>2. /\ d \in Seq(Byte) /\ Len(d) = Len(b) - n /\ Len(b) \in Nat /\ n \in Nat
      /\ \A i \in 1..(Len(b) - n) : d[i] = b[n + i]
  BY CutInTwo, DropElements, LenProperties
<1>3. n <= k
  <2>1. SUFFICES ASSUME k < n PROVE FALSE
    BY <1>1, <1>2
  <2>2. k + 1 \in 1..n /\ k # Len(b)
    BY <1>1, <1>2, <2>1
  <2> QED
    BY <2>2 DEF LeadingBreaks
<1> HIDE DEF d
<1>4. k - n \in LeadingBreaks(d)
  <2>1. k - n \in 0..Len(d)
    BY <1>1, <1>2, <1>3
  <2>2. ASSUME NEW i \in 1..(k - n) PROVE d[i] \in {CR, LF}
    <3>1. i \in 1..(Len(b) - n) /\ n + i \in 1..k
      BY <1>1, <1>2, <1>3
    <3> QED
      BY <1>2, <3>1 DEF LeadingBreaks
  <2>3. k - n = Len(d) \/ d[k - n + 1] \notin {CR, LF}
    <3>1. CASE k = Len(b)
      BY <1>2, <3>1
    <3>2. CASE k # Len(b)
      <4>1. k - n + 1 \in 1..(Len(b) - n) /\ n + (k - n + 1) = k + 1
        BY <1>1, <1>2, <1>3, <3>2
      <4> QED
        BY <1>2, <3>2, <4>1 DEF LeadingBreaks
    <3> QED
      BY <3>1, <3>2
  <2> QED
    BY <2>1, <2>2, <2>3 DEF LeadingBreaks
<1>5. Unbroken(d) = Drop(d, k - n)
  BY <1>2, <1>4, BreaksAre
<1>6. Drop(d, k - n) = Drop(b, k)
  <2> DEFINE e == Drop(d, k - n)
             f == Drop(b, k)
  <2>1. /\ e \in Seq(Byte) /\ Len(e) = Len(d) - (k - n)
        /\ \A i \in 1..(Len(d) - (k - n)) : e[i] = d[k - n + i]
    <3>1. k - n \in 0..Len(d)
      BY <1>4 DEF LeadingBreaks
    <3>2. \A j \in 0..Len(d) : Drop(d, j) \in Seq(Byte) /\ Len(Drop(d, j)) = Len(d) - j
      BY <1>2, CutInTwo
    <3>3. \A j \in 0..Len(d) : \A i \in 1..(Len(d) - j) : Drop(d, j)[i] = d[j + i]
      BY <1>2, DropElements
    <3> QED
      BY <3>1, <3>2, <3>3
  <2>2. /\ f \in Seq(Byte) /\ Len(f) = Len(b) - k
        /\ \A i \in 1..(Len(b) - k) : f[i] = b[k + i]
    BY <1>1, CutInTwo, DropElements
  <2> HIDE DEF e, f
  <2>3. Len(e) = Len(f)
    BY <1>1, <1>2, <2>1, <2>2
  <2>4. ASSUME NEW i \in 1..Len(f) PROVE e[i] = f[i]
    <3>1. i \in 1..(Len(b) - k) /\ i \in 1..(Len(d) - (k - n))
          /\ k - n + i \in 1..(Len(b) - n) /\ n + (k - n + i) = k + i
      BY <1>1, <1>2, <1>3, <2>2
    <3> QED
      BY <1>2, <2>1, <2>2, <3>1
  <2>5. e = f
    BY <2>1, <2>2, <2>3, <2>4, SeqEqual
  <2> QED
    BY <2>5 DEF e, f
<1> QED
  BY <1>1, <1>5, <1>6 DEF d

(* Reading a message gives a message and less than there was, or neither.  *)
LEMMA ReadMessageType ==
  ASSUME NEW b \in Seq(Byte)
  PROVE  ReadMessage(b) \in Found(Message, b)
<1> DEFINE d == Unbroken(b)
<1>1. d \in Seq(Byte) /\ Len(d) <= Len(b)
  <2>1. PICK n \in 0..Len(b) : d = Drop(b, n)
    BY BreaksAre
  <2>2. Drop(b, n) \in Seq(Byte) /\ Len(Drop(b, n)) = Len(b) - n /\ Len(b) \in Nat
    BY CutInTwo, LenProperties
  <2> QED
    BY <2>1, <2>2
<1> HIDE DEF d
<1>2. AfterStartLine(ReadLine(d)) \in Found(Message, d)
  BY <1>1, ReadLineType, AfterStartLineType
<1> QED
  BY <1>1, <1>2, FoundBehind DEF ReadMessage, d

(* One step of the recursion of ReadMessages.                              *)
MessageStep(r, f) ==
  LET m == ReadMessage(r.at)
  IN  IF m.kind = "ok" THEN f[WithMessage(r, m)] ELSE Stopped(r, m)

(* The recursion of ReadMessages ends: it reads what it says it reads.     *)
LEMMA ReadMessagesIs == ReadMessages = [r \in Reading |-> MessageStep(r, ReadMessages)]
<1> DEFINE V == [messages : Seq(Message), status : {0, 400, 431, 505}, at : Seq(Byte)]
           size == [r \in Reading |-> Len(r.at)]
           step == [x \in Reading \X [Reading -> V] |-> MessageStep(x[1], x[2])]
<1>1. ASSUME NEW r \in Reading
      PROVE  LET m == ReadMessage(r.at)
             IN  /\ Len(r.at) \in Nat
                 /\ m.kind = "ok" => /\ WithMessage(r, m) \in Reading
                                     /\ Len(WithMessage(r, m).at) < Len(r.at)
                 /\ Stopped(r, m) \in V
  <2> DEFINE m == ReadMessage(r.at)
  <2>1. r.at \in Seq(Byte) /\ r.messages \in Seq(Message) /\ Len(r.at) \in Nat
    BY LenProperties DEF Reading
  <2>2. m \in Found(Message, r.at)
    BY <2>1, ReadMessageType
  <2> HIDE DEF m
  <2>3. ASSUME m.kind = "ok"
        PROVE  WithMessage(r, m) \in Reading /\ Len(WithMessage(r, m).at) < Len(r.at)
    <3>1. m.value \in Message /\ m.at \in Seq(Byte) /\ Len(m.at) < Len(r.at)
      BY <2>2, <2>3 DEF Found, Outcome
    <3>2. Append(r.messages, m.value) \in Seq(Message)
      BY <2>1, <3>1, AppendProperties
    <3> QED
      BY <3>1, <3>2 DEF WithMessage, Reading
  <2>4. Stopped(r, m) \in V
    BY <2>1, <2>2 DEF Stopped, Found, Outcome
  <2> QED
    BY <2>1, <2>3, <2>4 DEF m
<1>2. size \in [Reading -> Nat]
  BY <1>1
<1>3. step \in [Reading \X [Reading -> V] -> V]
  <2> HIDE DEF V
  <2>1. ASSUME NEW r \in Reading, NEW f \in [Reading -> V]
        PROVE  MessageStep(r, f) \in V
    BY <1>1 DEF MessageStep
  <2> QED
    BY <2>1
<1>4. V # {}
  <2>1. [messages |-> <<>>, status |-> 0, at |-> <<>>] \in V
    BY EmptySeq
  <2> QED
    BY <2>1, ZenonT(60)
<1>5. PICK f \in [Reading -> V] : \A r \in Reading : f[r] = step[<<r, f>>]
  <2>1. \A r \in Reading : \A f, g \in [Reading -> V] :
          (\A e \in Reading : size[e] < size[r] => f[e] = g[e]) =>
            step[<<r, f>>] = step[<<r, g>>]
    <3> HIDE DEF V
    <3> QED
      BY <1>1 DEF MessageStep
  <2> HIDE DEF step, size, V
  <2>2. Computation(Reading, V, size, step)
    BY <1>2, <1>3, <1>4, <2>1 DEF Computation
  <2> QED
    BY <2>2, RecursionOnSize DEF Computed
<1>6. f = [r \in Reading |-> MessageStep(r, f)]
  <2> HIDE DEF V
  <2>1. \A r \in Reading : step[<<r, f>>] = MessageStep(r, f)
    OBVIOUS
  <2> QED
    BY <1>5, <2>1
<1> QED
  BY <1>6, Zenon DEF ReadMessages, MessageStep
-----------------------------------------------------------------------------
(* What a whole message in front is followed by, and what is not whole.    *)
Continued(messages, m) ==
  IF m.kind = "ok"
  THEN ReadMessages[[at |-> m.at, messages |-> Append(messages, m.value)]]
  ELSE [messages |-> messages, status |-> m.status, at |-> m.at]

(* Messages are read one after the other.                                  *)
LEMMA ReadsOn ==
  ASSUME NEW b \in Seq(Byte), NEW messages \in Seq(Message)
  PROVE  /\ ReadMessages[[at |-> b, messages |-> messages]] =
              Continued(messages, ReadMessage(b))
         /\ \A v \in Message :
              Continued(messages, Ok(v, b)) =
                Continued(Append(messages, v), ReadMessage(b))
<1>1. ASSUME NEW ms \in Seq(Message)
      PROVE  ReadMessages[[at |-> b, messages |-> ms]] = Continued(ms, ReadMessage(b))
  <2> DEFINE r == [at |-> b, messages |-> ms]
             m == ReadMessage(b)
  <2>1. r \in Reading /\ r.at = b /\ r.messages = ms
    BY DEF Reading
  <2> HIDE DEF r
  <2>2. ReadMessages[r] = MessageStep(r, ReadMessages)
    BY <2>1, ReadMessagesIs
  <2>3. MessageStep(r, ReadMessages) =
          IF m.kind = "ok" THEN ReadMessages[WithMessage(r, m)] ELSE Stopped(r, m)
    BY <2>1 DEF MessageStep
  <2>4. WithMessage(r, m) = [at |-> m.at, messages |-> Append(ms, m.value)]
    BY <2>1 DEF WithMessage
  <2>5. Stopped(r, m) = [messages |-> ms, status |-> m.status, at |-> m.at]
    BY <2>1 DEF Stopped
  <2> HIDE DEF m
  <2> QED
    BY <2>2, <2>3, <2>4, <2>5 DEF Continued, m, r
<1>2. ASSUME NEW v \in Message
      PROVE  Continued(messages, Ok(v, b)) = Continued(Append(messages, v), ReadMessage(b))
  <2>1. Append(messages, v) \in Seq(Message)
    BY AppendProperties
  <2>2. Continued(messages, Ok(v, b)) =
          ReadMessages[[at |-> b, messages |-> Append(messages, v)]]
    BY DEF Continued, Ok
  <2> QED
    BY <1>1, <2>1, <2>2
<1> QED
  BY <1>1, <1>2

(* A line in front of the buffer is the line the reference reads, whatever *)
(* comes behind.                                                           *)
LEMMA LineBehind ==
  ASSUME peeked = <<>>, NEW b \in Seq(Byte), NEW c \in Seq(Byte), NEW p \in PeekLine(b)
  PROVE  /\ ReadLine(b \o c) = Ok(p.line, Drop(b, p.end) \o c)
         /\ p.end \in 0..Len(b) /\ p.line \in Line
         /\ Drop(b, p.end) \in Seq(Byte) /\ Drop(b, p.end) \o c \in Seq(Byte)
<1> DEFINE d == b \o c
<1>1. d \in Seq(Byte) /\ Len(d) \in Nat /\ Len(b) \in Nat
  BY ConcatProperties, LenProperties
<1>2. p \in PeekLine(d) /\ p.end \in 0..Len(b)
  BY <1>1, PeekBehind
<1>3. Drop(d, p.end) = Drop(b, p.end) \o c /\ Drop(b, p.end) \in Seq(Byte)
  BY <1>2, TakeBehind, CutInTwo
<1> HIDE DEF d
<1>4. PICK i \in 1..(Len(d) - 1) :
        /\ IsFirstCR(d, i) /\ d[i + 1] = LF /\ i - 1 <= MaxLineBytes
        /\ p = [line |-> Take(d, i - 1), end |-> i + 1]
  BY <1>2 DEF PeekLine
<1>5. ReadLine(d) = LineEndingAt(d, i)
  BY <1>1, <1>4, ReadLineAt
<1>6. LineEndingAt(d, i) = Ok(Take(d, i - 1), Drop(d, i + 1))
  BY <1>1, <1>4, LimitAssumption DEF LineEndingAt
<1>7. i - 1 \in 0..Len(d)
  BY <1>1, <1>4
<1>8. Take(d, i - 1) \in Line
  BY <1>1, <1>7, TakeType DEF Line
<1> QED
  BY <1>2, <1>3, <1>4, <1>5, <1>6, <1>8, ConcatProperties DEF d

(* What refuses a buffer refuses it whatever comes behind; but for a line  *)
(* over the limit whose end has not come, that may yet be a bare CR.       *)
LEMMA FaultBehind ==
  ASSUME peeked = <<>>, NEW b \in Seq(Byte), NEW c \in Seq(Byte),
         NEW status \in LineFault(b)
  PROVE  /\ ReadLine(b \o c).kind # "ok"
         /\ \/ ReadLine(b \o c).status = status
            \/ status = 431 /\ InLongLine(ReadLine(b \o c).at)
         /\ c = <<>> => ReadLine(b \o c).status = status
<1> DEFINE d == b \o c
<1>1. /\ d \in Seq(Byte) /\ Len(d) \in Nat /\ Len(b) \in Nat
      /\ Len(d) >= Len(b) /\ \A i \in 1..Len(b) : d[i] = b[i]
  BY ConcatProperties, LenProperties
<1>2. \/ status \in LineFault(d)
      \/ status = 431 /\ ~HasCR(b) /\ Len(b) > MaxLineBytes
  BY PeekBehind
<1>5. c = <<>> => d = b
  BY ConcatEmptySeq
<1> HIDE DEF d
<1>3. CASE status \in LineFault(d)
  <2>1. ASSUME NEW k \in 1..(Len(d) - 1), IsFirstCR(d, k), d[k + 1] # LF, status = 400
        PROVE  ReadLine(d) = Bad(status, d)
    BY <1>1, <2>1, ReadLineAt DEF LineEndingAt
  <2>2. ASSUME NEW k \in 1..(Len(d) - 1), IsFirstCR(d, k), d[k + 1] = LF,
               k - 1 > MaxLineBytes, status = 431
        PROVE  ReadLine(d) = Bad(status, d)
    BY <1>1, <2>2, ReadLineAt DEF LineEndingAt
  <2>3. ASSUME ~HasCR(d), Len(d) > MaxLineBytes, status = 431
        PROVE  ReadLine(d) = Bad(status, d)
    BY <1>1, <2>3, ReadLineAt
  <2>4. ReadLine(d) = Bad(status, d)
    BY <1>3, <2>1, <2>2, <2>3 DEF LineFault
  <2> QED
    BY <2>4 DEF Bad, d
<1>4. CASE c # <<>> /\ status = 431 /\ ~HasCR(b) /\ Len(b) > MaxLineBytes
  <2>1. \A i \in 1..Len(b) : d[i] # CR
    BY <1>1, <1>4 DEF HasCR
  <2>2. ReadLine(d).kind # "ok"
    <3>1. CASE HasCR(d)
      <4>1. PICK k \in 1..Len(d) : IsFirstCR(d, k)
        BY <1>1, <3>1, FirstCR
      <4>2. k - 1 >= Len(b)
        BY <1>1, <2>1, <4>1 DEF IsFirstCR
      <4>3. k - 1 > MaxLineBytes
        BY <1>1, <1>4, <4>2, LimitAssumption
      <4> QED
        BY <1>1, <4>1, <4>3, ReadLineAt DEF LineEndingAt, Bad, More
    <3>2. CASE ~HasCR(d)
      BY <1>1, <3>2, ReadLineAt DEF Bad, More
    <3> QED
      BY <3>1, <3>2
  <2>3. ReadLine(d).at = d
    BY <1>1, <2>2, ReadLineType
  <2>4. InLongLine(d)
    <3>1. SUFFICES ASSUME NEW n \in 0..Len(d), n = Len(d) \/ d[n + 1] = CR
                   PROVE  n > MaxLineBytes
      BY DEF InLongLine
    <3>2. n >= Len(b)
      BY <1>1, <2>1, <3>1
    <3> QED
      BY <1>1, <1>4, <3>2, LimitAssumption
  <2> QED
    BY <1>4, <2>2, <2>3, <2>4 DEF d
<1> QED
  BY <1>2, <1>3, <1>4, <1>5

(* A buffer with an unfinished line in front is one the reference waits    *)
(* for more of, and so is what stands behind the breaks in front of it.    *)
LEMMA WaitsForMore ==
  ASSUME peeked = <<>>, NEW b \in Seq(Byte), LineIncomplete(b)
  PROVE  /\ ReadLine(b).kind = "more" /\ ReadLine(b).status = 0
         /\ ReadLine(Unbroken(b)).kind = "more" /\ ReadLine(Unbroken(b)).status = 0
<1>0. Len(b) \in Nat
  BY LenProperties
<1>1. \A k \in 1..(Len(b) - 1) : ~IsFirstCR(b, k)
  <2>1. SUFFICES ASSUME NEW k \in 1..(Len(b) - 1), IsFirstCR(b, k)
                 PROVE  FALSE
    OBVIOUS
  <2>2. CASE b[k + 1] # LF
    BY <2>1, <2>2 DEF LineIncomplete, LineFault
  <2>3. CASE b[k + 1] = LF /\ k - 1 > MaxLineBytes
    BY <2>1, <2>3 DEF LineIncomplete, LineFault
  <2>4. CASE b[k + 1] = LF /\ k - 1 <= MaxLineBytes
    BY <2>1, <2>4 DEF LineIncomplete, PeekLine
  <2> QED
    BY <2>2, <2>3, <2>4, LimitAssumption
<1>2. \A i \in 1..(Len(b) - 1) : b[i] # CR
  <2>1. SUFFICES ASSUME NEW i \in 1..(Len(b) - 1), b[i] = CR PROVE FALSE
    OBVIOUS
  <2>2. PICK k \in 1..Len(b) : IsFirstCR(b, k)
    BY <1>0, <2>1, FirstCR DEF HasCR
  <2>3. k <= i
    BY <1>0, <2>1, <2>2 DEF IsFirstCR
  <2> QED
    BY <1>0, <1>1, <2>2, <2>3
<1>3. ~HasCR(b) => Len(b) <= MaxLineBytes
  <2>1. ASSUME ~HasCR(b) PROVE ~(Len(b) > MaxLineBytes)
    BY <2>1 DEF LineIncomplete, LineFault
  <2> QED
    BY <1>0, <2>1, LimitAssumption
<1>4. ASSUME NEW d \in Seq(Byte), \A i \in 1..(Len(d) - 1) : d[i] # CR,
             ~HasCR(d) => Len(d) <= MaxLineBytes
      PROVE  ReadLine(d).kind = "more" /\ ReadLine(d).status = 0
  <2>0. Len(d) \in Nat
    BY LenProperties
  <2>1. CASE HasCR(d)
    <3>1. PICK k \in 1..Len(d) : IsFirstCR(d, k)
      BY <2>1, FirstCR
    <3>2. k = Len(d)
      BY <1>4, <2>0, <3>1 DEF IsFirstCR
    <3> QED
      BY <3>1, <3>2, ReadLineAt DEF LineEndingAt, More
  <2>2. CASE ~HasCR(d)
    BY <1>4, <2>0, <2>2, ReadLineAt, LimitAssumption DEF More
  <2> QED
    BY <2>1, <2>2
<1>5. PICK n \in 0..Len(b) : Unbroken(b) = Drop(b, n)
  BY BreaksAre
<1> DEFINE d == Drop(b, n)
<1>6. /\ d \in Seq(Byte) /\ Len(d) = Len(b) - n
      /\ \A i \in 1..(Len(b) - n) : d[i] = b[n + i]
  BY CutInTwo, DropElements
<1> HIDE DEF d
<1>7. \A i \in 1..(Len(d) - 1) : d[i] # CR
  BY <1>0, <1>2, <1>6
<1>8. ~HasCR(d) => Len(d) <= MaxLineBytes
  <2>1. CASE HasCR(b) /\ n < Len(b)
    <3>1. b[Len(b)] = CR
      BY <1>0, <1>2, <2>1 DEF HasCR
    <3>2. Len(b) - n \in 1..Len(d) /\ d[Len(b) - n] = CR
      <4>1. Len(b) - n \in 1..(Len(b) - n) /\ n + (Len(b) - n) = Len(b)
        BY <1>0, <2>1
      <4> QED
        BY <1>6, <3>1, <4>1
    <3> QED
      BY <3>2 DEF HasCR
  <2>2. CASE ~(HasCR(b) /\ n < Len(b))
    BY <1>0, <1>3, <1>6, <2>2, LimitAssumption
  <2> QED
    BY <2>1, <2>2
<1> QED
  BY <1>2, <1>3, <1>4, <1>5, <1>6, <1>7, <1>8 DEF d
-----------------------------------------------------------------------------
(* What the reference makes of a string b when it stands where the parser  *)
(* does: in state s, in the middle of a message of which it knows p.       *)
HeadersFrom(p, b) ==
  [at |-> b, lines |-> p.headerLines, size |-> p.headerBytes, limited |-> TRUE]
TrailersFrom(p, b) ==
  [at |-> b, lines |-> p.trailerLines, size |-> p.trailerBytes, limited |-> FALSE]
ChunksFrom(p, b) == [at |-> b, body |-> p.body]
ChunkFrom(n, d) == IF ChunkThere(n, d) THEN ReadChunks[WithChunk(n, d)] ELSE NoChunk(n, d)

RestOf(s, p, b) ==
  IF s \in {"START", "DONE"} THEN ReadMessage(b)
  ELSE IF s = "HEADERS" THEN AfterHeaders(p.startLine, ReadSection[HeadersFrom(p, b)])
  ELSE IF s = "BODY_LENGTH" THEN ReadCounted(p.startLine, p.headers, b, p.expected)
  ELSE IF s = "BODY_CHUNK_SIZE"
  THEN AfterChunks(p.startLine, p.headers, ReadChunks[ChunksFrom(p, b)])
  ELSE IF s = "BODY_CHUNK_DATA"
  THEN AfterChunks(p.startLine, p.headers, ChunkFrom(p.chunkSize, ChunksFrom(p, b)))
  ELSE AfterTrailers(p.startLine, p.headers, p.body, ReadSection[TrailersFrom(p, b)])

(* What it makes of the string by its first line, in a state that reads    *)
(* one.                                                                    *)
OnLine(s, p, b) ==
  IF s = "START" THEN AfterStartLine(ReadLine(b))
  ELSE IF s = "HEADERS"
  THEN AfterHeaders(p.startLine, SectionStep(HeadersFrom(p, b), ReadSection))
  ELSE IF s = "BODY_CHUNK_SIZE"
  THEN AfterChunks(p.startLine, p.headers, ChunkStep(ChunksFrom(p, b), ReadChunks))
  ELSE AfterTrailers(p.startLine, p.headers, p.body,
                     SectionStep(TrailersFrom(p, b), ReadSection))

(* A first line that has not come, or is refused, is all there is to say.  *)
LEMMA NoLine ==
  ASSUME NEW s \in LineStates, NEW p, NEW b, ReadLine(b).kind # "ok"
  PROVE  OnLine(s, p, b) = ReadLine(b)
<1>1. SectionStep(HeadersFrom(p, b), ReadSection) = ReadLine(b)
  BY DEF SectionStep, HeadersFrom
<1>2. SectionStep(TrailersFrom(p, b), ReadSection) = ReadLine(b)
  BY DEF SectionStep, TrailersFrom
<1>3. ChunkStep(ChunksFrom(p, b), ReadChunks) = ReadLine(b)
  BY DEF ChunkStep, ChunksFrom
<1> QED
  BY <1>1, <1>2, <1>3 DEF OnLine, LineStates, AfterStartLine, AfterHeaders, AfterChunks,
                          AfterTrailers

(* A state that reads a line goes by it.                                   *)
LEMMA RestByLine ==
  ASSUME NEW s \in LineStates, NEW p \in Progress, NEW b \in Seq(Byte),
         s = "START" => Unbroken(b) = b
  PROVE  RestOf(s, p, b) = OnLine(s, p, b)
<1>1. CASE s = "START"
  BY <1>1 DEF RestOf, OnLine, ReadMessage
<1>2. CASE s = "HEADERS"
  <2>1. HeadersFrom(p, b) \in Section
    BY DEF HeadersFrom, Section, Progress
  <2> QED
    BY <1>2, <2>1, ReadSectionIs DEF RestOf, OnLine
<1>3. CASE s = "BODY_CHUNK_SIZE"
  <2>1. ChunksFrom(p, b) \in Chunks
    BY DEF ChunksFrom, Chunks, Progress
  <2> QED
    BY <1>3, <2>1, ReadChunksIs DEF RestOf, OnLine
<1>4. CASE s = "BODY_CHUNK_TRAILERS"
  <2>1. TrailersFrom(p, b) \in Section
    BY DEF TrailersFrom, Section, Progress
  <2> QED
    BY <1>4, <2>1, ReadSectionIs DEF RestOf, OnLine
<1> QED
  BY <1>1, <1>2, <1>3, <1>4 DEF LineStates
-----------------------------------------------------------------------------
(* What a parser not in error knows of a message it has not begun, and of  *)
(* a part it has not come to; and that an error has a status.              *)
Fresh ==
  /\ stateName \in {"START", "DONE"} => current = EmptyProgress
  /\ stateName \in {"HEADERS", "BODY_CHUNK_SIZE", "BODY_CHUNK_DATA"} =>
       current.trailerLines = <<>> /\ current.trailerBytes = 0
  /\ (stateName = "ERROR") <=> (lastError # 0)

(* Reading stops with a status, or in a line that is too long for it to be *)
(* told.                                                                   *)
StopsWith(r, status) ==
  \/ r.status = status
  \/ status = 431 /\ InLongLine(r.at)
(* When nothing comes behind what has been fed, it stops with no other.    *)
Refused(r, status, c) ==
  r.kind # "ok" /\ StopsWith(r, status) /\ (c = <<>> => r.status = status)

(* The meaning of the bytes that have been fed, and of any c behind them,  *)
(* is what has been read of them and what there is to read; an error is    *)
(* theirs.                                                                 *)
MeansWhatIsRead(c) ==
  LET m == Meaning(offered \o c)
  IN  IF stateName # "ERROR"
      THEN m = Continued(Finished, RestOf(stateName, Before, Fed \o c))
      ELSE /\ m.messages = Finished
           /\ StopsWith(m, lastError)
AsRead == \A c \in Seq(Byte) : MeansWhatIsRead(c)

(* What an iteration may do to what there is to read: nothing, take a      *)
(* message off it, or find it refused.                                     *)
Follows(c) ==
  LET r == RestOf(stateName, Before, Fed \o c)
  IN  \/ /\ stateName' # "ERROR" /\ Finished' = Finished
         /\ RestOf(stateName', Before', Fed' \o c) = r
      \/ /\ stateName' = "DONE"
         /\ \E m \in Message : Finished' = Append(Finished, m) /\ r = Ok(m, Fed' \o c)
      \/ /\ stateName' = "ERROR" /\ Finished' = Finished
         /\ Refused(r, lastError', c)

(* Where the parser goes without having read any of a body, nothing is     *)
(* absorbed.                                                               *)
LEMMA LandsAt ==
  ASSUME NEW s \in ParserState, NEW p \in Progress, stateName' = s, current' = p,
         s = "BODY_LENGTH" => p.body = <<>>,
         s = "BODY_CHUNK_DATA" => p.chunkRead = 0,
         buffer' \in Seq(Byte)
  PROVE  Before' = p /\ Fed' = buffer'
<1>1. Absorbed' = <<>> /\ Before' = p
  BY NothingAbsorbed DEF Absorbed, Before
<1> QED
  BY <1>1, ConcatEmptySeq DEF Fed

(* On in another state (parser.ts:92-216).                                 *)
LEMMA GoesOnReading ==
  ASSUME NEW s \in ParserState \ {"ERROR"}, NEW p \in Progress, Goto(s, p),
         s = "BODY_LENGTH" => p.body = <<>>,
         s = "BODY_CHUNK_DATA" => p.chunkRead = 0,
         buffer' \in Seq(Byte), taken' = taken, NEW c \in Seq(Byte),
         RestOf(stateName, Before, Fed \o c) = RestOf(s, p, buffer' \o c)
  PROVE  Follows(c)
<1>1. stateName' = s /\ current' = p /\ ready' = ready
  BY DEF Goto
<1>2. Before' = p /\ Fed' = buffer'
  BY <1>1, LandsAt
<1> QED
  BY <1>1, <1>2 DEF Follows, Finished

(* A message at its end (parser.ts:274-279).                               *)
LEMMA EndsReading ==
  ASSUME TypeOK, NEW p \in Progress, NEW t \in Seq(Field), FinishMessage(p, t),
         buffer' \in Seq(Byte), taken' = taken, NEW c \in Seq(Byte),
         RestOf(stateName, Before, Fed \o c) = Ok(Assemble(p, t), buffer' \o c)
  PROVE  Follows(c)
<1>1. /\ stateName' = "DONE" /\ current' = EmptyProgress /\ "DONE" \in ParserState
      /\ ready' = Append(ready, Assemble(p, t))
  BY DEF FinishMessage, ParserState
<1>2. Fed' = buffer'
  BY <1>1, EmptyProgressType, LandsAt
<1>3. Assemble(p, t) \in Message
  BY AssembleType
<1>4. Finished' = Append(Finished, Assemble(p, t))
  BY <1>1, <1>3, FinishedGrows
<1> QED
  BY <1>1, <1>2, <1>3, <1>4 DEF Follows

(* An error (parser.ts:281-289).                                           *)
LEMMA FailsReading ==
  ASSUME NEW status, NEW p, Fail(status, p), taken' = taken, NEW c,
         Refused(RestOf(stateName, Before, Fed \o c), status, c)
  PROVE  Follows(c)
BY DEF Fail, Follows, Finished
(* What is bad is refused with its status.                                 *)
LEMMA BadRefused == \A status, b, c : Refused(Bad(status, b), status, c)
BY DEF Refused, StopsWith, Bad

(* What a parser that looks for a line looks at.                           *)
LineFrom(b) ==
  IF stateName = "START" THEN \E n \in LeadingBreaks(buffer) : b = Drop(buffer, n)
                         ELSE b = buffer

(* What stands in front of the parser while it looks for a line.           *)
LEMMA LineInFront ==
  ASSUME ParserInv, Tidy, stateName \in LineStates, NEW b, LineFrom(b),
         NEW c \in Seq(Byte)
  PROVE  /\ peeked = <<>> /\ Before = current /\ Fed = buffer /\ current \in Progress
         /\ b \in Seq(Byte) /\ TypeOK
         /\ RestOf(stateName, Before, Fed \o c) = RestOf(stateName, current, b \o c)
         /\ b # <<>> \/ stateName # "START" =>
              RestOf(stateName, Before, Fed \o c) = OnLine(stateName, current, b \o c)
<1>1. /\ Absorbed = <<>> /\ Before = current /\ buffer \in Seq(Byte)
      /\ current \in Progress /\ TypeOK /\ stateName # "ERROR"
  BY AtLine DEF LineStates, ParserState, ParserInv
<1>2. Fed = buffer /\ peeked = <<>>
  BY <1>1, ConcatEmptySeq DEF Fed, Tidy
<1>3. CASE stateName # "START"
  <2>1. b = buffer /\ buffer \o c \in Seq(Byte)
    BY <1>1, <1>3, ConcatProperties DEF LineFrom
  <2> QED
    BY <1>1, <1>2, <1>3, <2>1, RestByLine
<1>4. ASSUME stateName = "START", NEW n \in LeadingBreaks(buffer), b = Drop(buffer, n)
      PROVE  /\ b \in Seq(Byte)
             /\ RestOf(stateName, current, buffer \o c) = RestOf(stateName, current, b \o c)
             /\ b # <<>> => Unbroken(b \o c) = b \o c
  <2> DEFINE d == buffer \o c
  <2>1. /\ d \in Seq(Byte) /\ Len(d) = Len(buffer) + Len(c)
        /\ Len(buffer) \in Nat /\ Len(c) \in Nat
        /\ n \in 0..Len(buffer) /\ \A i \in 1..n : d[i] \in {CR, LF}
        /\ n < Len(buffer) => n \in LeadingBreaks(d)
    BY <1>1, BreaksBehind, ConcatProperties, LenProperties
  <2>2. b \in Seq(Byte) /\ Len(b) = Len(buffer) - n /\ Drop(d, n) = b \o c
    <3>1. Drop(buffer, n) \in Seq(Byte) /\ Len(Drop(buffer, n)) = Len(buffer) - n
      BY <1>1, <2>1, CutInTwo
    <3>2. Drop(buffer \o c, n) = Drop(buffer, n) \o c
      BY <1>1, <2>1, TakeBehind
    <3> QED
      BY <1>4, <3>1, <3>2
  <2> HIDE DEF d
  <2>3. n \in 0..Len(d)
    BY <2>1
  <2>4. Unbroken(b \o c) = Unbroken(d)
    BY <2>1, <2>2, <2>3, UnbrokenBehind
  <2>5. b # <<>> => Unbroken(d) = b \o c
    <3>1. SUFFICES ASSUME b # <<>> PROVE Unbroken(d) = b \o c
      OBVIOUS
    <3>2. n < Len(buffer)
      BY <2>1, <2>2, <3>1, EmptySeq
    <3> QED
      BY <2>1, <2>2, <3>2, BreaksAre
  <2> QED
    BY <1>4, <2>2, <2>4, <2>5 DEF d, RestOf, ReadMessage
<1>5. CASE stateName = "START" /\ \E n \in LeadingBreaks(buffer) : b = Drop(buffer, n)
  <2>1. /\ b \in Seq(Byte)
        /\ RestOf(stateName, current, buffer \o c) = RestOf(stateName, current, b \o c)
        /\ b # <<>> => Unbroken(b \o c) = b \o c
    BY <1>4, <1>5
  <2>2. b \o c \in Seq(Byte)
    BY <2>1, ConcatProperties
  <2>3. Before = current /\ Fed = buffer
    BY <1>1, <1>2
  <2>4. b # <<>> => RestOf(stateName, current, b \o c) = OnLine(stateName, current, b \o c)
    BY <1>1, <1>5, <2>1, <2>2, RestByLine DEF LineStates
  <2> QED
    BY <1>1, <1>2, <1>5, <2>1, <2>3, <2>4
<1> QED
  BY <1>3, <1>5 DEF LineFrom
-----------------------------------------------------------------------------
(* A line that has not come, or is refused (parser.ts:292-321).            *)
LEMMA AwaitReading ==
  ASSUME BodyLoop, stateName \in LineStates, NEW b, LineFrom(b), AwaitLine(b),
         NEW c \in Seq(Byte)
  PROVE  Follows(c)
<1>1. /\ peeked = <<>> /\ current \in Progress /\ TypeOK
      /\ b \in Seq(Byte) /\ buffer' = b /\ taken' = taken
      /\ RestOf(stateName, Before, Fed \o c) = RestOf(stateName, current, b \o c)
      /\ b # <<>> \/ stateName # "START" =>
           RestOf(stateName, Before, Fed \o c) = OnLine(stateName, current, b \o c)
  BY LineInFront DEF BodyLoop, environment, AwaitLine
<1>2. CASE Return
  <2>1. stateName' = stateName /\ current' = current /\ ready' = ready
    BY <1>2 DEF Return, progress
  <2>2. Before' = current /\ Fed' = b
    BY <1>1, <2>1, LandsAt DEF LineStates, ParserState
  <2>3. stateName' # "ERROR" /\ Finished' = Finished
    BY <1>1, <2>1 DEF LineStates, Finished
  <2> QED
    BY <1>1, <2>1, <2>2, <2>3 DEF Follows
<1>3. ASSUME NEW status \in LineFault(b), Fail(status, current) PROVE Follows(c)
  <2>1. b # <<>>
    BY <1>3, LimitAssumption DEF LineFault
  <2>2. Refused(ReadLine(b \o c), status, c)
    BY <1>1, <1>3, FaultBehind DEF Refused, StopsWith
  <2>3. RestOf(stateName, Before, Fed \o c) = ReadLine(b \o c)
    BY <1>1, <2>1, <2>2, NoLine DEF Refused
  <2> QED
    BY <1>1, <1>3, <2>2, <2>3, FailsReading
<1> QED
  BY <1>2, <1>3 DEF AwaitLine

(* A line that is taken: what the reference reads next, and what it goes   *)
(* by.                                                                     *)
LEMMA TakenLine ==
  ASSUME BodyLoop, stateName \in LineStates, NEW b, LineFrom(b), NEW p \in PeekLine(b),
         NEW c \in Seq(Byte)
  PROVE  /\ TypeOK /\ current \in Progress /\ taken' = taken
         /\ p.line \in Line /\ Drop(b, p.end) \in Seq(Byte)
         /\ Drop(b, p.end) \o c \in Seq(Byte)
         /\ ReadLine(b \o c) = Ok(p.line, Drop(b, p.end) \o c)
         /\ RestOf(stateName, Before, Fed \o c) = OnLine(stateName, current, b \o c)
<1>1. /\ peeked = <<>> /\ current \in Progress /\ TypeOK
      /\ b \in Seq(Byte) /\ taken' = taken
      /\ b # <<>> \/ stateName # "START" =>
           RestOf(stateName, Before, Fed \o c) = OnLine(stateName, current, b \o c)
  BY LineInFront DEF BodyLoop, environment
<1>2. b # <<>>
  BY <1>1, PeekBehind, EmptySeq
<1> QED
  BY <1>1, <1>2, LineBehind

(* The start line (parser.ts:96-110).                                      *)
LEMMA ParseStartLineReading ==
  ASSUME BodyLoop, Fresh, ParseStartLine, NEW c \in Seq(Byte)
  PROVE  Follows(c)
<1>1. stateName = "START" /\ stateName \in LineStates /\ current = EmptyProgress
  BY DEF ParseStartLine, LineStates, Fresh
<1>2. PICK n \in LeadingBreaks(buffer) :
        LET b == Drop(buffer, n) IN
        \/ AwaitLine(b)
        \/ \E p \in PeekLine(b) :
             /\ Consume(b, p.end)
             /\ \/ /\ p.line \in DOMAIN StartLines
                   /\ StartLines[p.line] = 200
                   /\ Goto("HEADERS", [current EXCEPT !.startLine = p.line])
                \/ /\ p.line \in DOMAIN StartLines
                   /\ StartLines[p.line] # 200
                   /\ Fail(StartLines[p.line], current)
                \/ /\ p.line \notin DOMAIN StartLines
                   /\ Fail(400, current)
  BY DEF ParseStartLine
<1> DEFINE b == Drop(buffer, n)
<1>3. LineFrom(b)
  BY <1>1 DEF LineFrom
<1>4. ASSUME NEW p \in PeekLine(b), Consume(b, p.end),
             \/ /\ p.line \in DOMAIN StartLines
                /\ StartLines[p.line] = 200
                /\ Goto("HEADERS", [current EXCEPT !.startLine = p.line])
             \/ /\ p.line \in DOMAIN StartLines
                /\ StartLines[p.line] # 200
                /\ Fail(StartLines[p.line], current)
             \/ /\ p.line \notin DOMAIN StartLines
                /\ Fail(400, current)
      PROVE  Follows(c)
  <2> HIDE DEF b
  <2> DEFINE rest == Drop(b, p.end)
             l    == Ok(p.line, rest \o c)
  <2>1. /\ TypeOK /\ current \in Progress /\ taken' = taken /\ p.line \in Line
        /\ rest \in Seq(Byte) /\ rest \o c \in Seq(Byte) /\ ReadLine(b \o c) = l
        /\ RestOf(stateName, Before, Fed \o c) = AfterStartLine(l)
    BY <1>1, <1>3, <1>4, TakenLine DEF OnLine
  <2>2. buffer' = rest
    BY <1>4 DEF Consume
  <2>3. l.kind = "ok" /\ l.value = p.line /\ l.at = rest \o c
    BY DEF Ok
  <2> HIDE DEF rest, l
  <2>4. CASE /\ p.line \in DOMAIN StartLines /\ StartLines[p.line] = 200
             /\ Goto("HEADERS", [current EXCEPT !.startLine = p.line])
    <3> DEFINE q == [current EXCEPT !.startLine = p.line]
    <3>1. AfterStartLine(l) = AfterHeaders(p.line, ReadSection[Opened(rest \o c, TRUE)])
      BY <2>3, <2>4 DEF AfterStartLine
    <3>2. q \in Progress /\ q.startLine = p.line
          /\ q.headerLines = <<>> /\ q.headerBytes = 0
      BY <1>1, <2>1 DEF Progress, EmptyProgress
    <3> HIDE DEF q
    <3>3. RestOf("HEADERS", q, rest \o c) =
            AfterHeaders(p.line, ReadSection[Opened(rest \o c, TRUE)])
      BY <3>2 DEF RestOf, HeadersFrom, Opened
    <3>4. Goto("HEADERS", q)
      BY <2>4 DEF q
    <3>5. "HEADERS" \in ParserState \ {"ERROR"}
      BY DEF ParserState
    <3> QED
      BY <2>1, <2>2, <3>1, <3>2, <3>3, <3>4, <3>5, GoesOnReading
  <2>5. CASE /\ p.line \in DOMAIN StartLines /\ StartLines[p.line] # 200
             /\ Fail(StartLines[p.line], current)
    <3>1. AfterStartLine(l) = Bad(StartLines[p.line], <<>>)
      BY <2>3, <2>5 DEF AfterStartLine
    <3> QED
      BY <2>1, <2>5, <3>1, FailsReading, BadRefused
  <2>6. CASE p.line \notin DOMAIN StartLines /\ Fail(400, current)
    <3>1. AfterStartLine(l) = Bad(400, <<>>)
      BY <2>3, <2>6 DEF AfterStartLine
    <3> QED
      BY <2>1, <2>6, <3>1, FailsReading, BadRefused
  <2> QED
    BY <1>4, <2>4, <2>5, <2>6
<1> QED
  BY <1>1, <1>2, <1>3, <1>4, AwaitReading

(* A header line (parser.ts:112-132).                                      *)
LEMMA ParseHeaderLineReading ==
  ASSUME BodyLoop, ParseHeaderLine, NEW c \in Seq(Byte)
  PROVE  Follows(c)
<1>1. stateName = "HEADERS" /\ stateName \in LineStates /\ LineFrom(buffer)
  BY DEF ParseHeaderLine, LineStates, LineFrom
<1>2. CASE AwaitLine(buffer)
  BY <1>1, <1>2, AwaitReading
<1> DEFINE counted(p) == [current EXCEPT !.headerBytes = @ + Len(p.line) + 2]
<1>3. ASSUME NEW p \in PeekLine(buffer), p.line # <<>>,
             \/ /\ counted(p).headerBytes > MaxHeaderBytes
                /\ Fail(431, counted(p))
             \/ /\ counted(p).headerBytes <= MaxHeaderBytes
                /\ Consume(buffer, p.end)
                /\ Goto("HEADERS", [counted(p) EXCEPT !.headerLines = Append(@, p.line)])
      PROVE  Follows(c)
  <2> DEFINE rest == Drop(buffer, p.end)
             l    == Ok(p.line, rest \o c)
             s    == HeadersFrom(current, buffer \o c)
             size == current.headerBytes + Len(p.line) + 2
             q    == [current EXCEPT !.headerBytes = size,
                                     !.headerLines = Append(@, p.line)]
  <2>1. /\ TypeOK /\ current \in Progress /\ taken' = taken /\ p.line \in Line
        /\ rest \in Seq(Byte) /\ rest \o c \in Seq(Byte) /\ ReadLine(buffer \o c) = l
        /\ RestOf(stateName, Before, Fed \o c) =
             AfterHeaders(current.startLine, SectionStep(s, ReadSection))
    BY <1>1, <1>3, TakenLine DEF OnLine
  <2>2. l.kind = "ok" /\ l.value = p.line /\ l.at = rest \o c
    BY DEF Ok
  <2> HIDE DEF rest, l
  <2>3. s.at = buffer \o c /\ s.size = current.headerBytes /\ s.limited = TRUE
        /\ s.lines = current.headerLines
    BY DEF HeadersFrom
  <2>4. /\ WithLine(s, l) = [at |-> rest \o c, lines |-> Append(current.headerLines, p.line),
                             size |-> size, limited |-> TRUE]
    <3>1. WithLine(s, l) =
            [s EXCEPT !.at = rest \o c, !.lines = Append(@, p.line),
                      !.size = @ + Len(p.line) + 2]
      BY <2>2 DEF WithLine
    <3> QED
      BY <3>1 DEF HeadersFrom
  <2>5. TooLong(WithLine(s, l)) <=> size > MaxHeaderBytes
    BY <2>4 DEF TooLong
  <2>6. SectionStep(s, ReadSection) =
          IF size > MaxHeaderBytes THEN Bad(431, <<>>) ELSE ReadSection[WithLine(s, l)]
    BY <1>3, <2>1, <2>2, <2>3, <2>5 DEF SectionStep
  <2>7. counted(p) \in Progress /\ counted(p).headerBytes = size
        /\ [counted(p) EXCEPT !.headerLines = Append(@, p.line)] = q
        /\ q \in Progress /\ q.startLine = current.startLine /\ q.headerBytes = size
        /\ q.headerLines = Append(current.headerLines, p.line)
    <3>1. current.headerBytes \in Nat /\ current.headerLines \in Seq(Line)
          /\ Len(p.line) \in Nat
      BY <2>1, LenProperties DEF Progress, Line
    <3>2. size \in Nat /\ Append(current.headerLines, p.line) \in Seq(Line)
      BY <2>1, <3>1, AppendProperties
    <3> QED
      BY <2>1, <3>2 DEF Progress
  <2> HIDE DEF q, size
  <2>8. CASE counted(p).headerBytes > MaxHeaderBytes /\ Fail(431, counted(p))
    <3>1. RestOf(stateName, Before, Fed \o c) = Bad(431, <<>>)
      BY <2>1, <2>6, <2>7, <2>8 DEF AfterHeaders, Bad
    <3> QED
      BY <2>1, <2>8, <3>1, FailsReading, BadRefused
  <2>9. CASE /\ counted(p).headerBytes <= MaxHeaderBytes
             /\ Consume(buffer, p.end)
             /\ Goto("HEADERS", [counted(p) EXCEPT !.headerLines = Append(@, p.line)])
    <3>1. ~(size > MaxHeaderBytes)
      <4>1. size \in Nat /\ size <= MaxHeaderBytes
        BY <2>7, <2>9 DEF Progress
      <4> QED
        BY <4>1, LimitAssumption
    <3>2. RestOf(stateName, Before, Fed \o c) =
            AfterHeaders(current.startLine, ReadSection[WithLine(s, l)])
      BY <2>1, <2>6, <3>1
    <3>3. WithLine(s, l) = HeadersFrom(q, rest \o c)
      BY <2>4, <2>7 DEF HeadersFrom
    <3>4. RestOf("HEADERS", q, rest \o c) = RestOf(stateName, Before, Fed \o c)
      BY <2>7, <3>2, <3>3 DEF RestOf
    <3>5. Goto("HEADERS", q) /\ buffer' = rest /\ "HEADERS" \in ParserState \ {"ERROR"}
      BY <2>7, <2>9 DEF Consume, ParserState, rest
    <3> QED
      BY <2>1, <2>7, <3>4, <3>5, GoesOnReading
  <2> QED
    BY <1>3, <2>8, <2>9
<1> QED
  BY <1>2, <1>3 DEF ParseHeaderLine

(* The modes a message may be read in.                                     *)
LEMMA Modes ==
  ASSUME NEW fields
  PROVE  /\ BodyMode(fields) \in {"ERROR", "DONE", "BODY_LENGTH", "BODY_CHUNK_SIZE"}
         /\ BodyMode(fields) # "BODY_LENGTH" => Announced(fields) = 0
BY DEF BodyMode, Announced

(* The blank line behind the headers (parser.ts:119-128, 221-272).         *)
LEMMA EndHeadersReading ==
  ASSUME BodyLoop, EndHeaders, NEW c \in Seq(Byte)
  PROVE  Follows(c)
<1>1. stateName = "HEADERS" /\ stateName \in LineStates /\ LineFrom(buffer)
      /\ current.body = <<>>
  BY DEF EndHeaders, LineStates, LineFrom, BodyLoop, ParserInv, Progressing
<1> DEFINE lines  == current.headerLines
           fields == FieldsOf(lines)
           parsed == [current EXCEPT !.headers = fields, !.headersDone = TRUE,
                                     !.expected = Announced(fields)]
<1>2. PICK p \in PeekLine(buffer) :
        /\ p.line = <<>>
        /\ Consume(buffer, p.end)
        /\ \/ ~WellFormed(lines) /\ Fail(400, current)
           \/ /\ WellFormed(lines)
              /\ BodyMode(fields) = "ERROR"
              /\ Fail(400, parsed)
           \/ /\ WellFormed(lines)
              /\ BodyMode(fields) = "DONE"
              /\ FinishMessage(parsed, <<>>)
           \/ /\ WellFormed(lines)
              /\ BodyMode(fields) \in {"BODY_LENGTH", "BODY_CHUNK_SIZE"}
              /\ Goto(BodyMode(fields), parsed)
  BY DEF EndHeaders
<1> DEFINE d == Drop(buffer, p.end) \o c
           s == HeadersFrom(current, buffer \o c)
           r == RestOf(stateName, Before, Fed \o c)
<1>3. /\ TypeOK /\ current \in Progress /\ taken' = taken /\ d \in Seq(Byte)
      /\ buffer' \in Seq(Byte) /\ buffer' \o c = d
      /\ ReadLine(buffer \o c) = Ok(<<>>, d)
      /\ r = AfterHeaders(current.startLine, SectionStep(s, ReadSection))
  BY <1>1, <1>2, TakenLine DEF OnLine, Consume
<1> HIDE DEF d
<1>4. SectionStep(s, ReadSection) = Ok(s, d) /\ s.lines = lines
  <2>1. s.at = buffer \o c /\ s.lines = lines
    BY DEF HeadersFrom
  <2> HIDE DEF s
  <2> QED
    BY <1>3, <2>1 DEF SectionStep, Ok
<1> HIDE DEF s
<1>5. r = IF ~WellFormed(lines) THEN Bad(400, <<>>)
          ELSE ReadBodyOf(current.startLine, fields, d)
  BY <1>3, <1>4 DEF AfterHeaders, Ok
<1> HIDE DEF r
<1>6. CASE ~WellFormed(lines) /\ Fail(400, current)
  BY <1>3, <1>5, <1>6, FailsReading, BadRefused DEF r
<1>7. ASSUME WellFormed(lines)
      PROVE  /\ fields \in Seq(Field) /\ parsed \in Progress
             /\ parsed.startLine = current.startLine /\ parsed.headers = fields
             /\ parsed.expected = Announced(fields) /\ parsed.body = <<>>
             /\ parsed.chunkRead = current.chunkRead
  <2>1. fields \in Seq(Field)
    BY <1>3, <1>7, FieldsType DEF Progress
  <2>2. Announced(fields) \in Nat
    BY <2>1, AnnouncedType
  <2> QED
    BY <1>1, <1>3, <2>1, <2>2 DEF Progress
<1> HIDE DEF fields, parsed
<1>8. CASE /\ WellFormed(lines) /\ BodyMode(fields) = "ERROR" /\ Fail(400, parsed)
  <2>1. r = Bad(400, <<>>)
    BY <1>5, <1>7, <1>8, ReadBodyOfIs
  <2> QED
    BY <1>3, <1>8, <2>1, FailsReading, BadRefused DEF r
<1>9. CASE /\ WellFormed(lines) /\ BodyMode(fields) = "DONE" /\ FinishMessage(parsed, <<>>)
  <2>1. r = ReadCounted(current.startLine, fields, d, 0)
    BY <1>5, <1>7, <1>9, Modes, ReadBodyOfIs
  <2>2. Take(d, 0) = <<>> /\ Drop(d, 0) = d /\ ~(Len(d) < 0)
    BY <1>3, TakeAndDrop, LenProperties
  <2>3. r = Ok(Assemble(parsed, <<>>), d)
    BY <1>7, <1>9, <2>1, <2>2 DEF ReadCounted, Message1, Assemble
  <2>4. <<>> \in Seq(Field)
    BY EmptySeq
  <2> QED
    BY <1>3, <1>7, <1>9, <2>3, <2>4, EndsReading DEF r
<1>10. CASE /\ WellFormed(lines) /\ BodyMode(fields) = "BODY_LENGTH"
            /\ Goto("BODY_LENGTH", parsed)
  <2>1. r = RestOf("BODY_LENGTH", parsed, d)
    BY <1>5, <1>7, <1>10, ReadBodyOfIs DEF RestOf
  <2>2. "BODY_LENGTH" \in ParserState \ {"ERROR"}
    BY DEF ParserState
  <2> QED
    BY <1>3, <1>7, <1>10, <2>1, <2>2, GoesOnReading DEF r
<1>11. CASE /\ WellFormed(lines) /\ BodyMode(fields) = "BODY_CHUNK_SIZE"
            /\ Goto("BODY_CHUNK_SIZE", parsed)
  <2>1. r = RestOf("BODY_CHUNK_SIZE", parsed, d)
    BY <1>5, <1>7, <1>11, ReadBodyOfIs DEF RestOf, ChunksFrom
  <2>2. "BODY_CHUNK_SIZE" \in ParserState \ {"ERROR"}
    BY DEF ParserState
  <2> QED
    BY <1>3, <1>7, <1>11, <2>1, <2>2, GoesOnReading DEF r
<1> QED
  BY <1>2, <1>6, <1>8, <1>9, <1>10, <1>11
-----------------------------------------------------------------------------
(* What an iteration leaves as it was, it leaves to read.                  *)
LEMMA KeptReading ==
  ASSUME BodyKept, taken' = taken, stateName # "ERROR", NEW c
  PROVE  Follows(c)
BY DEF BodyKept, Follows, Finished

(* A body of announced length, to the reference: its first bytes.          *)
LEMMA ReadBodyReading ==
  ASSUME BodyLoop, ReadBody, NEW c \in Seq(Byte)
  PROVE  Follows(c)
<1> DEFINE size == Before.expected
           read == [Before EXCEPT !.body = Take(Fed, size)]
<1>1. /\ stateName = "BODY_LENGTH" /\ TypeOK /\ taken' = taken
      /\ Before \in Progress /\ Before.body = <<>> /\ Fed \in Seq(Byte) /\ size \in Nat
      /\ \/ BodyKept
         \/ /\ size \in 0..Len(Fed)
            /\ buffer' = Drop(Fed, size)
            /\ FinishMessage(read, <<>>)
  BY BodyInParts DEF BodyLoop, ParserInv, environment
<1>2. CASE BodyKept
  BY <1>1, <1>2, KeptReading
<1>3. CASE size \in 0..Len(Fed) /\ buffer' = Drop(Fed, size) /\ FinishMessage(read, <<>>)
  <2>1. /\ Take(Fed, size) \in Seq(Byte) /\ Drop(Fed, size) \in Seq(Byte)
        /\ Take(Fed \o c, size) = Take(Fed, size)
        /\ Drop(Fed \o c, size) = Drop(Fed, size) \o c
        /\ Len(Fed \o c) = Len(Fed) + Len(c) /\ Len(Fed) \in Nat /\ Len(c) \in Nat
    <3>1. Take(Fed, size) \in Seq(Byte) /\ Drop(Fed, size) \in Seq(Byte)
      BY <1>1, <1>3, CutInTwo
    <3>2. /\ Take(Fed \o c, size) = Take(Fed, size)
          /\ Drop(Fed \o c, size) = Drop(Fed, size) \o c
      BY <1>1, <1>3, TakeBehind
    <3> QED
      BY <1>1, <3>1, <3>2, ConcatProperties, LenProperties
  <2>2. read \in Progress /\ <<>> \in Seq(Field)
    BY <1>1, <2>1, EmptySeq DEF Progress
  <2>3. Assemble(read, <<>>) =
          Message1(Before.startLine, Before.headers, Take(Fed, size), <<>>)
    BY <1>1 DEF Assemble, Message1, Progress
  <2>4. ~(Len(Fed \o c) < size)
    BY <1>1, <1>3, <2>1
  <2>5. RestOf(stateName, Before, Fed \o c) = Ok(Assemble(read, <<>>), buffer' \o c)
    BY <1>1, <1>3, <2>1, <2>3, <2>4 DEF RestOf, ReadCounted
  <2> HIDE DEF read
  <2> QED
    BY <1>1, <1>3, <2>1, <2>2, <2>5, EndsReading
<1> QED
  BY <1>1, <1>2, <1>3

(* What stands behind a place is what stands behind a place in front of it *)
(* and so much more.                                                       *)
LEMMA DropTwice ==
  ASSUME NEW S, NEW b \in Seq(S), NEW n \in Nat, NEW m \in Nat, n + m <= Len(b)
  PROVE  /\ Drop(Drop(b, n), m) = Drop(b, n + m)
         /\ SubSeq(b, n + 1, n + m) = Take(Drop(b, n), m)
<1> DEFINE d == Drop(b, n)
<1>0. Len(b) \in Nat
  BY LenProperties
<1>1. /\ d \in Seq(S) /\ Len(d) = Len(b) - n
      /\ \A i \in 1..(Len(b) - n) : d[i] = b[n + i]
  <2>1. n \in 0..Len(b)
    BY <1>0
  <2> QED
    BY <2>1, CutInTwo, DropElements
<1> HIDE DEF d
<1>2. Drop(d, m) = Drop(b, n + m)
  <2>1. n + m \in 0..Len(b) /\ m \in 0..Len(d)
    BY <1>0, <1>1
  <2>2. /\ Drop(b, n + m) \in Seq(S) /\ Drop(d, m) \in Seq(S)
        /\ Len(Drop(b, n + m)) = Len(b) - (n + m) /\ Len(Drop(d, m)) = Len(d) - m
        /\ \A i \in 1..(Len(b) - (n + m)) : Drop(b, n + m)[i] = b[(n + m) + i]
        /\ \A i \in 1..(Len(d) - m) : Drop(d, m)[i] = d[m + i]
    <3>1. /\ Drop(b, n + m) \in Seq(S)
          /\ Len(Drop(b, n + m)) = Len(b) - (n + m)
          /\ \A i \in 1..(Len(b) - (n + m)) : Drop(b, n + m)[i] = b[(n + m) + i]
      <4> DEFINE k == n + m
      <4> HIDE DEF k
      <4>1. k \in 0..Len(b)
        BY <2>1 DEF k
      <4>2. /\ Drop(b, k) \in Seq(S) /\ Len(Drop(b, k)) = Len(b) - k
            /\ \A i \in 1..(Len(b) - k) : Drop(b, k)[i] = b[k + i]
        BY <4>1, CutInTwo, DropElements
      <4> QED
        BY <4>2 DEF k
    <3>2. /\ Drop(d, m) \in Seq(S) /\ Len(Drop(d, m)) = Len(d) - m
          /\ \A i \in 1..(Len(d) - m) : Drop(d, m)[i] = d[m + i]
      <4>1. d \in Seq(S) /\ m \in 0..Len(d)
        BY <1>1, <2>1
      <4> QED
        BY <4>1, CutInTwo, DropElements
    <3> QED
      BY <3>1, <3>2
  <2>3. Len(Drop(d, m)) = Len(Drop(b, n + m))
    <3>1. (Len(b) - n) - m = Len(b) - (n + m)
      BY <1>0
    <3> QED
      BY <1>1, <2>2, <3>1
  <2>4. \A i \in 1..Len(Drop(d, m)) : Drop(d, m)[i] = Drop(b, n + m)[i]
    <3>1. ASSUME NEW i \in 1..Len(Drop(d, m)) PROVE Drop(d, m)[i] = Drop(b, n + m)[i]
      <4>1. /\ i \in 1..(Len(d) - m) /\ m + i \in 1..(Len(b) - n)
            /\ n + (m + i) = (n + m) + i /\ i \in 1..(Len(b) - (n + m))
        BY <1>0, <1>1, <2>2
      <4> QED
        BY <1>1, <2>2, <4>1
    <3> QED
      BY <3>1
  <2> QED
    BY <2>2, <2>3, <2>4, SeqEqual
<1>3. SubSeq(b, n + 1, n + m) = Take(d, m)
  <2> DEFINE s == SubSeq(b, n + 1, n + m)
             t == Take(d, m)
  <2>1. m \in 0..Len(d)
    BY <1>0, <1>1
  <2>2. t \in Seq(S) /\ Len(t) = m /\ \A i \in 1..m : t[i] = d[i]
    BY <1>0, <1>1, <2>1, TakeType DEF Take
  <2>3. s \in Seq(S) /\ Len(s) = m /\ \A i \in 1..m : s[i] = b[n + i]
    <3>1. n + 1 \in 1..(Len(b) + 1) /\ n + m \in (n + 1 - 1)..Len(b)
      BY <1>0
    <3>2. (n + m) - (n + 1) + 1 = m /\ \A i \in 1..m : (n + 1) + i - 1 = n + i
      OBVIOUS
    <3> QED
      BY <1>0, <3>1, <3>2, SubSeqProperties
  <2> HIDE DEF s, t
  <2>4. \A i \in 1..m : s[i] = t[i]
    <3>1. \A i \in 1..m : i \in 1..(Len(b) - n)
      BY <1>0
    <3> QED
      BY <1>1, <2>2, <2>3, <3>1
  <2>5. s = t
    BY <2>2, <2>3, <2>4, SeqEqual
  <2> QED
    BY <2>5 DEF s, t
<1> QED
  BY <1>2, <1>3 DEF d

-----------------------------------------------------------------------------
(* Chunk data and the CRLF behind it, to the reference.                    *)
LEMMA ReadChunkDataReading ==
  ASSUME BodyLoop, ReadChunkData, NEW c \in Seq(Byte)
  PROVE  Follows(c)
<1> DEFINE size == Before.chunkSize
           read == [Before EXCEPT !.body = @ \o Take(Fed, size), !.chunkRead = size]
           rest == Drop(Fed, size)
<1>1. /\ stateName = "BODY_CHUNK_DATA" /\ TypeOK /\ taken' = taken
      /\ Before \in Progress /\ Fed \in Seq(Byte) /\ size \in Nat
      /\ \/ BodyKept
         \/ /\ size \in 0..Len(Fed) /\ Len(rest) >= 2
            /\ \/ /\ Take(rest, 2) # <<CR, LF>>
                  /\ buffer' = rest
                  /\ Fail(400, read)
               \/ /\ Take(rest, 2) = <<CR, LF>>
                  /\ buffer' = Drop(rest, 2)
                  /\ Goto("BODY_CHUNK_SIZE", read)
  BY ChunkInParts DEF BodyLoop, ParserInv, environment, Progress
<1>2. CASE BodyKept
  BY <1>1, <1>2, KeptReading
<1>3. ASSUME size \in 0..Len(Fed), Len(rest) >= 2
      PROVE  LET w == Fed \o c
                 d == ChunksFrom(Before, w)
             IN  /\ rest \in Seq(Byte) /\ Drop(rest, 2) \in Seq(Byte)
                 /\ Take(Fed, size) \in Seq(Byte)
                 /\ d.at = w /\ d.body = Before.body
                 /\ SubSeq(w, size + 1, size + 2) = Take(rest, 2)
                 /\ ~(Len(w) < size + 2) /\ Len(w) >= size + 2
                 /\ Drop(w, size + 2) = Drop(rest, 2) \o c
                 /\ Take(w, size) = Take(Fed, size)
  <2> DEFINE w == Fed \o c
  <2>1. /\ w \in Seq(Byte) /\ Len(w) = Len(Fed) + Len(c)
        /\ Len(Fed) \in Nat /\ Len(c) \in Nat
    BY <1>1, ConcatProperties, LenProperties
  <2>2. /\ rest \in Seq(Byte) /\ Len(rest) = Len(Fed) - size /\ Take(Fed, size) \in Seq(Byte)
    BY <1>1, <1>3, CutInTwo
  <2>3. Take(w, size) = Take(Fed, size) /\ Drop(w, size) = rest \o c
    BY <1>1, <1>3, TakeBehind
  <2> HIDE DEF w, rest
  <2>4. size + 2 <= Len(w) /\ 2 \in 0..Len(rest)
    BY <1>1, <1>3, <2>1, <2>2
  <2>5. /\ Drop(Drop(w, size), 2) = Drop(w, size + 2)
        /\ SubSeq(w, size + 1, size + 2) = Take(Drop(w, size), 2)
    <3> HIDE DEF size
    <3>1. \A m \in Nat : size + m <= Len(w) =>
            /\ Drop(Drop(w, size), m) = Drop(w, size + m)
            /\ SubSeq(w, size + 1, size + m) = Take(Drop(w, size), m)
      BY <1>1, <2>1, DropTwice
    <3>2. 2 \in Nat /\ size + 2 <= Len(w)
      BY <2>4
    <3> QED
      BY <3>1, <3>2
  <2>6. Take(rest \o c, 2) = Take(rest, 2) /\ Drop(rest \o c, 2) = Drop(rest, 2) \o c
    BY <2>2, <2>4, TakeBehind
  <2>7. Drop(rest, 2) \in Seq(Byte)
    BY <2>2, <2>4, CutInTwo
  <2>8. ~(Len(w) < size + 2) /\ Len(w) >= size + 2
    BY <1>1, <2>1, <2>4
  <2> QED
    BY <2>2, <2>3, <2>5, <2>6, <2>7, <2>8 DEF ChunksFrom, w
<1> DEFINE d == ChunksFrom(Before, Fed \o c)
           r == RestOf(stateName, Before, Fed \o c)
<1>4. r = AfterChunks(Before.startLine, Before.headers, ChunkFrom(size, d))
  BY <1>1 DEF RestOf
<1> HIDE DEF r
<1>5. ASSUME size \in 0..Len(Fed), Len(rest) >= 2, Take(rest, 2) # <<CR, LF>>,
             Fail(400, read)
      PROVE  Follows(c)
  <2>1. ChunkFrom(size, d) = Bad(400, <<>>)
    BY <1>3, <1>5 DEF ChunkFrom, ChunkThere, NoChunk
  <2>2. r = Bad(400, <<>>)
    BY <1>4, <2>1 DEF AfterChunks, Bad
  <2> QED
    BY <1>1, <1>5, <2>2, FailsReading, BadRefused DEF r
<1>6. ASSUME size \in 0..Len(Fed), Len(rest) >= 2, Take(rest, 2) = <<CR, LF>>,
             buffer' = Drop(rest, 2), Goto("BODY_CHUNK_SIZE", read)
      PROVE  Follows(c)
  <2> HIDE DEF rest
  <2>1. ChunkFrom(size, d) = ReadChunks[WithChunk(size, d)]
    BY <1>3, <1>6 DEF ChunkFrom, ChunkThere
  <2>2. WithChunk(size, d) =
          [at |-> Drop(rest, 2) \o c, body |-> Before.body \o Take(Fed, size)]
    BY <1>3, <1>6 DEF WithChunk, ChunksFrom
  <2>3. read \in Progress /\ read.body = Before.body \o Take(Fed, size)
        /\ read.startLine = Before.startLine /\ read.headers = Before.headers
    <3>1. Before.body \in Seq(Byte) /\ Take(Fed, size) \in Seq(Byte)
      BY <1>1, <1>3, <1>6 DEF Progress
    <3>2. Before.body \o Take(Fed, size) \in Seq(Byte)
      BY <3>1, ConcatProperties
    <3> QED
      BY <1>1, <3>2 DEF Progress
  <2> HIDE DEF read
  <2>4. r = RestOf("BODY_CHUNK_SIZE", read, buffer' \o c)
    BY <1>4, <1>6, <2>1, <2>2, <2>3 DEF RestOf, ChunksFrom
  <2>5. "BODY_CHUNK_SIZE" \in ParserState \ {"ERROR"} /\ buffer' \in Seq(Byte)
    BY <1>3, <1>6 DEF ParserState
  <2> QED
    BY <1>1, <1>6, <2>3, <2>4, <2>5, GoesOnReading DEF r
<1> QED
  BY <1>1, <1>2, <1>5, <1>6

(* The line with the size of a chunk (parser.ts:151-165).                  *)
LEMMA ParseChunkSizeReading ==
  ASSUME BodyLoop, Fresh, ParseChunkSize, NEW c \in Seq(Byte)
  PROVE  Follows(c)
<1>1. /\ stateName = "BODY_CHUNK_SIZE" /\ stateName \in LineStates /\ LineFrom(buffer)
      /\ current.trailerLines = <<>> /\ current.trailerBytes = 0
  BY DEF ParseChunkSize, LineStates, LineFrom, Fresh
<1>2. CASE AwaitLine(buffer)
  BY <1>1, <1>2, AwaitReading
<1> DEFINE sized(p) == [current EXCEPT !.chunkSize = SizeLines[p.line], !.chunkRead = 0]
<1>3. ASSUME NEW p \in PeekLine(buffer), Consume(buffer, p.end),
             \/ p.line \notin DOMAIN SizeLines /\ Fail(400, current)
             \/ /\ p.line \in DOMAIN SizeLines
                /\ Goto(IF SizeLines[p.line] = 0 THEN "BODY_CHUNK_TRAILERS"
                                                 ELSE "BODY_CHUNK_DATA", sized(p))
      PROVE  Follows(c)
  <2> DEFINE d == Drop(buffer, p.end) \o c
             s == ChunksFrom(current, buffer \o c)
             r == RestOf(stateName, Before, Fed \o c)
             n == SizeLines[p.line]
             q == sized(p)
  <2>1. /\ TypeOK /\ current \in Progress /\ taken' = taken /\ p.line \in Line
        /\ d \in Seq(Byte) /\ buffer' \in Seq(Byte) /\ buffer' \o c = d
        /\ ReadLine(buffer \o c) = Ok(p.line, d)
        /\ r = AfterChunks(current.startLine, current.headers, ChunkStep(s, ReadChunks))
    BY <1>1, <1>3, TakenLine DEF OnLine, Consume
  <2> HIDE DEF d, r
  <2>2. s.at = buffer \o c /\ s.body = current.body
        /\ [s EXCEPT !.at = d] = [at |-> d, body |-> current.body]
    BY DEF ChunksFrom
  <2> HIDE DEF s
  <2>3. ReadLine(s.at).kind = "ok" /\ ReadLine(s.at).value = p.line
        /\ ReadLine(s.at).at = d
    BY <2>1, <2>2 DEF Ok
  <2>4. CASE p.line \notin DOMAIN SizeLines /\ Fail(400, current)
    <3>1. ChunkStep(s, ReadChunks) = Bad(400, <<>>)
      BY <2>3, <2>4 DEF ChunkStep
    <3>2. r = Bad(400, <<>>)
      BY <2>1, <3>1 DEF AfterChunks, Bad
    <3> QED
      BY <2>1, <2>4, <3>2, FailsReading, BadRefused DEF r
  <2>5. CASE p.line \in DOMAIN SizeLines /\ n = 0 /\ Goto("BODY_CHUNK_TRAILERS", q)
    <3>1. ChunkStep(s, ReadChunks) = Ok(current.body, d)
      BY <2>2, <2>3, <2>5 DEF ChunkStep
    <3>2. r = AfterTrailers(current.startLine, current.headers, current.body,
                            ReadSection[Opened(d, FALSE)])
      BY <2>1, <3>1 DEF AfterChunks, Ok
    <3>3. q \in Progress /\ q.startLine = current.startLine /\ q.headers = current.headers
          /\ q.body = current.body /\ q.trailerLines = <<>> /\ q.trailerBytes = 0
      BY <1>1, <2>1, <2>5 DEF Progress
    <3> HIDE DEF q
    <3>4. r = RestOf("BODY_CHUNK_TRAILERS", q, d)
      BY <3>2, <3>3 DEF RestOf, TrailersFrom, Opened
    <3>5. "BODY_CHUNK_TRAILERS" \in ParserState \ {"ERROR"}
      BY DEF ParserState
    <3> QED
      BY <2>1, <2>5, <3>3, <3>4, <3>5, GoesOnReading DEF r
  <2>6. CASE p.line \in DOMAIN SizeLines /\ n # 0 /\ Goto("BODY_CHUNK_DATA", q)
    <3>1. ChunkStep(s, ReadChunks) = ChunkFrom(n, [at |-> d, body |-> current.body])
      BY <2>2, <2>3, <2>6 DEF ChunkStep, ChunkFrom
    <3>2. q \in Progress /\ q.startLine = current.startLine /\ q.headers = current.headers
          /\ q.body = current.body /\ q.chunkSize = n /\ q.chunkRead = 0
      <4>1. n \in Nat
        BY <2>6, TableAssumption
      <4> HIDE DEF n
      <4>2. q = [current EXCEPT !.chunkSize = n, !.chunkRead = 0]
        BY DEF n
      <4> HIDE DEF q
      <4> QED
        BY <2>1, <4>1, <4>2 DEF Progress
    <3> HIDE DEF q, n
    <3>3. r = RestOf("BODY_CHUNK_DATA", q, d)
      BY <2>1, <3>1, <3>2 DEF RestOf, ChunksFrom
    <3>4. "BODY_CHUNK_DATA" \in ParserState \ {"ERROR"}
      BY DEF ParserState
    <3> QED
      BY <2>1, <2>6, <3>2, <3>3, <3>4, GoesOnReading DEF r
  <2> QED
    BY <1>3, <2>4, <2>5, <2>6
<1> QED
  BY <1>2, <1>3 DEF ParseChunkSize

(* A trailer line (parser.ts:192-206).                                     *)
LEMMA ParseTrailerLineReading ==
  ASSUME BodyLoop, ParseTrailerLine, NEW c \in Seq(Byte)
  PROVE  Follows(c)
<1>1. stateName = "BODY_CHUNK_TRAILERS" /\ stateName \in LineStates /\ LineFrom(buffer)
  BY DEF ParseTrailerLine, LineStates, LineFrom
<1>2. CASE AwaitLine(buffer)
  BY <1>1, <1>2, AwaitReading
<1>3. ASSUME NEW p \in PeekLine(buffer), p.line # <<>>, Consume(buffer, p.end),
             Goto("BODY_CHUNK_TRAILERS",
                  [current EXCEPT !.trailerLines = Append(@, p.line),
                                  !.trailerBytes = @ + Len(p.line) + 2])
      PROVE  Follows(c)
  <2> DEFINE d == Drop(buffer, p.end) \o c
             s == TrailersFrom(current, buffer \o c)
             l == Ok(p.line, d)
             r == RestOf(stateName, Before, Fed \o c)
             q == [current EXCEPT !.trailerLines = Append(@, p.line),
                                  !.trailerBytes = @ + Len(p.line) + 2]
  <2>1. /\ TypeOK /\ current \in Progress /\ taken' = taken /\ p.line \in Line
        /\ d \in Seq(Byte) /\ buffer' \in Seq(Byte) /\ buffer' \o c = d
        /\ ReadLine(buffer \o c) = l
        /\ r = AfterTrailers(current.startLine, current.headers, current.body,
                             SectionStep(s, ReadSection))
    BY <1>1, <1>3, TakenLine DEF OnLine, Consume
  <2> HIDE DEF d, r
  <2>2. l.kind = "ok" /\ l.value = p.line /\ l.at = d
    BY DEF Ok
  <2> HIDE DEF l
  <2>3. WithLine(s, l) =
          [at |-> d, lines |-> Append(current.trailerLines, p.line),
           size |-> current.trailerBytes + Len(p.line) + 2, limited |-> FALSE]
    <3>1. WithLine(s, l) = [s EXCEPT !.at = d, !.lines = Append(@, p.line),
                                     !.size = @ + Len(p.line) + 2]
      BY <2>2 DEF WithLine
    <3> QED
      BY <3>1 DEF TrailersFrom
  <2>4. s.at = buffer \o c
    BY DEF TrailersFrom
  <2> HIDE DEF s
  <2>5. ~TooLong(WithLine(s, l))
    BY <2>3 DEF TooLong
  <2>6. SectionStep(s, ReadSection) = ReadSection[WithLine(s, l)]
    BY <1>3, <2>1, <2>2, <2>4, <2>5 DEF SectionStep
  <2>7. q \in Progress /\ q.startLine = current.startLine /\ q.headers = current.headers
        /\ q.body = current.body
        /\ q.trailerLines = Append(current.trailerLines, p.line)
        /\ q.trailerBytes = current.trailerBytes + Len(p.line) + 2
    <3>1. current.trailerBytes \in Nat /\ current.trailerLines \in Seq(Line)
          /\ Len(p.line) \in Nat
      BY <2>1, LenProperties DEF Progress, Line
    <3>2. /\ current.trailerBytes + Len(p.line) + 2 \in Nat
          /\ Append(current.trailerLines, p.line) \in Seq(Line)
      BY <2>1, <3>1, AppendProperties
    <3> QED
      BY <2>1, <3>2 DEF Progress
  <2>8. Goto("BODY_CHUNK_TRAILERS", q)
    BY <1>3
  <2> HIDE DEF q
  <2>9. r = RestOf("BODY_CHUNK_TRAILERS", q, d)
    BY <2>1, <2>3, <2>6, <2>7 DEF RestOf, TrailersFrom
  <2>10. "BODY_CHUNK_TRAILERS" \in ParserState \ {"ERROR"}
    BY DEF ParserState
  <2> QED
    BY <2>1, <2>7, <2>8, <2>9, <2>10, GoesOnReading DEF r
<1> QED
  BY <1>2, <1>3 DEF ParseTrailerLine

(* The blank line behind the trailers (parser.ts:197-203).                 *)
LEMMA EndTrailersReading ==
  ASSUME BodyLoop, EndTrailers, NEW c \in Seq(Byte)
  PROVE  Follows(c)
<1>1. stateName = "BODY_CHUNK_TRAILERS" /\ stateName \in LineStates /\ LineFrom(buffer)
  BY DEF EndTrailers, LineStates, LineFrom
<1> DEFINE lines == current.trailerLines
<1>2. PICK p \in PeekLine(buffer) :
        /\ p.line = <<>>
        /\ Consume(buffer, p.end)
        /\ \/ current.trailerBytes > MaxHeaderBytes /\ Fail(431, current)
           \/ /\ current.trailerBytes <= MaxHeaderBytes
              /\ ~WellFormed(lines)
              /\ Fail(400, current)
           \/ /\ current.trailerBytes <= MaxHeaderBytes
              /\ WellFormed(lines)
              /\ FinishMessage(current, FieldsOf(lines))
  BY DEF EndTrailers
<1> DEFINE d == Drop(buffer, p.end) \o c
           s == TrailersFrom(current, buffer \o c)
           r == RestOf(stateName, Before, Fed \o c)
<1>3. /\ TypeOK /\ current \in Progress /\ taken' = taken /\ d \in Seq(Byte)
      /\ buffer' \in Seq(Byte) /\ buffer' \o c = d
      /\ ReadLine(buffer \o c) = Ok(<<>>, d)
      /\ r = AfterTrailers(current.startLine, current.headers, current.body,
                           SectionStep(s, ReadSection))
  BY <1>1, <1>2, TakenLine DEF OnLine, Consume
<1> HIDE DEF d, r
<1>4. s.at = buffer \o c /\ s.lines = lines /\ s.size = current.trailerBytes
  BY DEF TrailersFrom
<1> HIDE DEF s
<1>5. SectionStep(s, ReadSection) = Ok(s, d)
  BY <1>3, <1>4 DEF SectionStep, Ok
<1>6. r = IF current.trailerBytes > MaxHeaderBytes THEN Bad(431, <<>>)
          ELSE IF ~WellFormed(lines) THEN Bad(400, <<>>)
          ELSE Ok(Message1(current.startLine, current.headers, current.body,
                           FieldsOf(lines)), d)
  BY <1>3, <1>4, <1>5 DEF AfterTrailers, Ok
<1>7. current.trailerBytes <= MaxHeaderBytes => ~(current.trailerBytes > MaxHeaderBytes)
  BY <1>3, LimitAssumption DEF Progress
<1>8. CASE current.trailerBytes > MaxHeaderBytes /\ Fail(431, current)
  <2>1. r = Bad(431, <<>>)
    BY <1>6, <1>8
  <2> QED
    BY <1>3, <1>8, <2>1, FailsReading, BadRefused DEF r
<1>9. CASE /\ current.trailerBytes <= MaxHeaderBytes /\ ~WellFormed(lines)
           /\ Fail(400, current)
  <2>1. r = Bad(400, <<>>)
    BY <1>6, <1>7, <1>9
  <2> QED
    BY <1>3, <1>9, <2>1, FailsReading, BadRefused DEF r
<1>10. CASE /\ current.trailerBytes <= MaxHeaderBytes /\ WellFormed(lines)
            /\ FinishMessage(current, FieldsOf(lines))
  <2>1. FieldsOf(lines) \in Seq(Field)
    BY <1>3, <1>10, FieldsType DEF Progress
  <2>2. r = Ok(Assemble(current, FieldsOf(lines)), d)
    BY <1>6, <1>7, <1>10 DEF Message1, Assemble
  <2> QED
    BY <1>3, <1>10, <2>1, <2>2, EndsReading DEF r
<1> QED
  BY <1>2, <1>8, <1>9, <1>10

(* Back to START (parser.ts:208-214).                                      *)
LEMMA StartOverReading ==
  ASSUME BodyLoop, Fresh, StartOver, NEW c
  PROVE  Follows(c)
<1>1. /\ stateName = "DONE" /\ stateName' = "START" /\ current' = EmptyProgress
      /\ current = EmptyProgress /\ UNCHANGED <<buffer, ready, taken>>
  BY DEF StartOver, Fresh, BodyLoop, environment
<1>2. Absorbed = <<>> /\ Absorbed' = <<>>
  BY <1>1 DEF Absorbed, AbsorbedIn
<1>3. Fed' = Fed
  BY <1>1, <1>2 DEF Fed
<1>4. RestOf("START", Before', Fed \o c) = RestOf("DONE", Before, Fed \o c)
  BY DEF RestOf
<1>5. Finished' = Finished
  BY <1>1 DEF Finished
<1> QED
  BY <1>1, <1>3, <1>4, <1>5 DEF Follows

(* What is read is what there was to read: every case of advance().        *)
LEMMA AdvanceReading ==
  ASSUME ParserInv, Tidy, Fresh, Advance, NEW c \in Seq(Byte)
  PROVE  Follows(c)
<1>1. BodyLoop
  BY DEF Advance, BodyLoop
<1> QED
  BY <1>1, ParseStartLineReading, ParseHeaderLineReading, EndHeadersReading,
     ReadBodyReading, ParseChunkSizeReading, ReadChunkDataReading,
     ParseTrailerLineReading, EndTrailersReading, StartOverReading DEF Advance
-----------------------------------------------------------------------------
(* What a parser knows of a message it has not begun stays nothing, and an *)
(* error keeps its status.                                                 *)
LEMMA AdvanceFresh ==
  ASSUME ParserInv, Fresh, Advance
  PROVE  Fresh'
<1>1. /\ current \in Progress /\ stateName # "ERROR" /\ lastError = 0
      /\ stateName \in {"START", "DONE"} => current = EmptyProgress
  BY DEF Advance, ParserInv, Progressing, TypeOK, Fresh
<1>2. \A status, p : Fail(status, p) /\ status # 0 => Fresh'
  BY DEF Fail, Fresh
<1>3. \A p, t : FinishMessage(p, t) => Fresh'
  BY <1>1 DEF FinishMessage, Fresh
<1>4. ASSUME NEW b, AwaitLine(b) PROVE Fresh'
  <2>1. CASE Return
    BY <2>1 DEF Return, progress, Fresh
  <2>2. \A status \in LineFault(b) : status # 0
    BY DEF LineFault
  <2> QED
    BY <1>2, <1>4, <2>1, <2>2 DEF AwaitLine
<1>5. ASSUME NEW s \in ParserState \ {"START", "DONE", "ERROR"}, NEW p, Goto(s, p),
             s \in {"HEADERS", "BODY_CHUNK_SIZE", "BODY_CHUNK_DATA"} =>
               p.trailerLines = <<>> /\ p.trailerBytes = 0
      PROVE  Fresh'
  BY <1>1, <1>5 DEF Goto, Fresh
<1>6. stateName \in {"START", "HEADERS", "BODY_CHUNK_SIZE", "BODY_CHUNK_DATA"} =>
        current.trailerLines = <<>> /\ current.trailerBytes = 0
  BY <1>1 DEF Fresh, EmptyProgress
<1>7. CASE ParseStartLine
  <2>1. PICK n \in LeadingBreaks(buffer) :
          LET b == Drop(buffer, n) IN
          \/ AwaitLine(b)
          \/ \E p \in PeekLine(b) :
             \/ Goto("HEADERS", [current EXCEPT !.startLine = p.line])
             \/ /\ p.line \in DOMAIN StartLines
                /\ StartLines[p.line] # 200
                /\ Fail(StartLines[p.line], current)
             \/ Fail(400, current)
    BY <1>7 DEF ParseStartLine
  <2>2. ASSUME NEW p, Goto("HEADERS", [current EXCEPT !.startLine = p.line])
        PROVE  Fresh'
    <3> DEFINE q == [current EXCEPT !.startLine = p.line]
    <3>1. q.trailerLines = <<>> /\ q.trailerBytes = 0
      BY <1>1, <1>6, <1>7 DEF ParseStartLine, Progress
    <3>2. Goto("HEADERS", q)
      BY <2>2
    <3> HIDE DEF q
    <3> QED
      BY <1>5, <3>1, <3>2 DEF ParserState
  <2>3. \A l \in DOMAIN StartLines : StartLines[l] # 0
    BY TableAssumption
  <2>4. CASE AwaitLine(Drop(buffer, n))
    BY <1>4, <2>4
  <2>5. CASE ~AwaitLine(Drop(buffer, n))
    <3>1. PICK p \in PeekLine(Drop(buffer, n)) :
             \/ Goto("HEADERS", [current EXCEPT !.startLine = p.line])
             \/ /\ p.line \in DOMAIN StartLines
                /\ Fail(StartLines[p.line], current)
             \/ Fail(400, current)
      BY <2>1, <2>5
    <3> QED
      BY <1>2, <2>2, <2>3, <3>1
  <2> QED
    BY <2>4, <2>5
<1>8. CASE ParseHeaderLine
  <2> DEFINE counted(p) == [current EXCEPT !.headerBytes = @ + Len(p.line) + 2]
             kept(p) == [counted(p) EXCEPT !.headerLines = Append(@, p.line)]
  <2>1. \/ AwaitLine(buffer)
        \/ \E p : Fail(431, p)
        \/ \E p : Goto("HEADERS", kept(p))
    BY <1>8 DEF ParseHeaderLine
  <2>2. \A p : kept(p).trailerLines = <<>> /\ kept(p).trailerBytes = 0
    BY <1>1, <1>6, <1>8 DEF ParseHeaderLine, Progress
  <2> HIDE DEF kept
  <2> QED
    BY <1>2, <1>4, <1>5, <2>1, <2>2 DEF ParserState
<1>9. CASE EndHeaders
  <2> DEFINE fields == FieldsOf(current.headerLines)
             parsed == [current EXCEPT !.headers = fields, !.headersDone = TRUE,
                                       !.expected = Announced(fields)]
  <2>1. \/ Fail(400, current) \/ Fail(400, parsed) \/ FinishMessage(parsed, <<>>)
        \/ \E s \in {"BODY_LENGTH", "BODY_CHUNK_SIZE"} : Goto(s, parsed)
    BY <1>9 DEF EndHeaders
  <2>2. parsed.trailerLines = <<>> /\ parsed.trailerBytes = 0
    BY <1>1, <1>6, <1>9 DEF EndHeaders, Progress
  <2> HIDE DEF parsed
  <2> QED
    BY <1>2, <1>3, <1>5, <2>1, <2>2 DEF ParserState
<1>10. CASE ReadBody
  <2>1. \/ Return
        \/ \E p, t : FinishMessage(p, t)
        \/ \E p : Goto("BODY_LENGTH", p)
    BY <1>10 DEF ReadBody
  <2>2. Return => Fresh'
    BY DEF Return, progress, Fresh
  <2> QED
    BY <1>3, <1>5, <2>1, <2>2 DEF ParserState
<1>11. CASE ParseChunkSize
  <2> DEFINE sized(p) == [current EXCEPT !.chunkSize = SizeLines[p.line], !.chunkRead = 0]
  <2>1. \/ AwaitLine(buffer) \/ Fail(400, current)
        \/ \E p : \/ Goto("BODY_CHUNK_TRAILERS", sized(p))
                  \/ Goto("BODY_CHUNK_DATA", sized(p))
    BY <1>11 DEF ParseChunkSize
  <2>2. \A p : sized(p).trailerLines = <<>> /\ sized(p).trailerBytes = 0
    BY <1>1, <1>6, <1>11 DEF ParseChunkSize, Progress
  <2> HIDE DEF sized
  <2> QED
    BY <1>2, <1>4, <1>5, <2>1, <2>2 DEF ParserState
<1>12. CASE ReadChunkData
  <2> DEFINE n    == Least(current.chunkSize - current.chunkRead, Len(buffer))
             read == [current EXCEPT !.body = @ \o Take(buffer, n), !.chunkRead = @ + n]
  <2>1. /\ stateName = "BODY_CHUNK_DATA"
        /\ \/ current' = read /\ UNCHANGED <<stateName, lastError>>
           \/ Fail(400, read) \/ Goto("BODY_CHUNK_SIZE", read)
    BY <1>12 DEF ReadChunkData
  <2>2. read.trailerLines = <<>> /\ read.trailerBytes = 0
    BY <1>1, <1>6, <2>1 DEF Progress
  <2> HIDE DEF read
  <2>3. ASSUME current' = read, UNCHANGED <<stateName, lastError>> PROVE Fresh'
    BY <1>1, <2>1, <2>2, <2>3 DEF Fresh
  <2> QED
    BY <1>2, <1>5, <2>1, <2>2, <2>3 DEF ParserState
<1>13. CASE ParseTrailerLine
  <2>1. AwaitLine(buffer) \/ \E p : Goto("BODY_CHUNK_TRAILERS", p)
    BY <1>13 DEF ParseTrailerLine
  <2> QED
    BY <1>4, <1>5, <2>1 DEF ParserState
<1>14. CASE EndTrailers
  <2>1. \/ Fail(431, current) \/ Fail(400, current)
        \/ FinishMessage(current, FieldsOf(current.trailerLines))
    BY <1>14 DEF EndTrailers
  <2> QED
    BY <1>2, <1>3, <2>1
<1>15. CASE StartOver
  BY <1>1, <1>15 DEF StartOver, Fresh
<1> QED
  BY <1>7, <1>8, <1>9, <1>10, <1>11, <1>12, <1>13, <1>14, <1>15 DEF Advance

(* The caller changes none of that.                                        *)
LEMMA StepFresh ==
  ASSUME ParserInv, Fresh, TidyStep
  PROVE  Fresh'
<1>1. CASE Advance
  BY <1>1, AdvanceFresh
<1>2. CASE Reset /\ peeked = <<>>
  BY <1>2 DEF Reset, Fresh
<1>3. CASE \/ UNCHANGED vars
           \/ TakeNext
           \/ \E n \in Nat : Feed(n) \/ FeedThrows(n)
  BY <1>3 DEF vars, progress, TakeNext, Feed, FeedThrows, Fresh
<1> QED
  BY <1>1, <1>2, <1>3 DEF TidyStep

(* An iteration of the loop keeps the meaning of what has been fed.        *)
LEMMA AdvanceAsRead ==
  ASSUME ParserInv, Tidy, Fresh, AsRead, Advance
  PROVE  AsRead'
<1>1. SUFFICES ASSUME NEW c \in Seq(Byte) PROVE MeansWhatIsRead(c)'
  BY DEF AsRead
<1> DEFINE m == Meaning(offered \o c)
           r == RestOf(stateName, Before, Fed \o c)
<1>2. stateName # "ERROR" /\ m' = m
  BY DEF Advance, ParserInv, Progressing, environment
<1>3. m = Continued(Finished, r)
  BY <1>1, <1>2 DEF AsRead, MeansWhatIsRead
<1>4. /\ Fed' \in Seq(Byte) /\ Fed' \o c \in Seq(Byte)
      /\ Finished \in Seq(Message)
  <2>1. ParserInv' /\ Tidy'
    BY AdvanceInv, AdvanceTidy
  <2>2. Absorbed' \in Seq(Byte) /\ buffer' \in Seq(Byte)
    BY <2>1, AbsorbedInType DEF ParserInv, TypeOK, Tidy, Absorbed
  <2>3. Fed' \in Seq(Byte)
    BY <2>2, ConcatProperties DEF Fed
  <2>4. taken \in Seq(Message) /\ ready \in Seq(Message)
    BY DEF ParserInv, TypeOK
  <2> QED
    BY <2>3, <2>4, ConcatProperties DEF Finished
<1>5. Follows(c)
  BY AdvanceReading
<1> HIDE DEF m
<1>6. CASE /\ stateName' # "ERROR" /\ Finished' = Finished
           /\ RestOf(stateName', Before', Fed' \o c) = r
  BY <1>2, <1>3, <1>6 DEF MeansWhatIsRead, m
<1>7. ASSUME stateName' = "DONE", NEW v \in Message, Finished' = Append(Finished, v),
             r = Ok(v, Fed' \o c)
      PROVE  MeansWhatIsRead(c)'
  <2>1. m = Continued(Append(Finished, v), ReadMessage(Fed' \o c))
    BY <1>3, <1>4, <1>7, ReadsOn
  <2>2. RestOf("DONE", Before', Fed' \o c) = ReadMessage(Fed' \o c)
    BY DEF RestOf
  <2> QED
    BY <1>2, <1>7, <2>1, <2>2 DEF MeansWhatIsRead, m
<1>8. CASE stateName' = "ERROR" /\ Finished' = Finished /\ Refused(r, lastError', c)
  <2>1. m.messages = Finished /\ m.status = r.status /\ m.at = r.at
    BY <1>3, <1>8 DEF Continued, Refused
  <2>2. StopsWith(m, lastError')
    BY <1>8, <2>1 DEF StopsWith, Refused
  <2> QED
    BY <1>2, <1>8, <2>1, <2>2 DEF MeansWhatIsRead, StopsWith, m
<1> QED
  BY <1>5, <1>6, <1>7, <1>8 DEF Follows

(* A new parser, which has been fed nothing, is to read what it is fed.    *)
LEMMA NewReads ==
  ASSUME NEW c \in Seq(Byte), NEW p
  PROVE  Meaning(<<>> \o c) = Continued(<<>>, RestOf("START", p, <<>> \o c))
<1>1. <<>> \o c = c /\ <<>> \in Seq(Message)
  BY ConcatEmptySeq, EmptySeq
<1>2. Meaning(c) = Continued(<<>>, ReadMessage(c))
  BY <1>1, ReadsOn DEF Meaning
<1> QED
  BY <1>1, <1>2 DEF RestOf

(* So nothing has been read, and nothing fed.                              *)
LEMMA NewAsRead ==
  stateName = "START" /\ buffer = <<>> /\ ready = <<>> /\ taken = <<>> /\ offered = <<>>
    => AsRead
<1>1. SUFFICES ASSUME stateName = "START", buffer = <<>>, ready = <<>>, taken = <<>>,
                      offered = <<>>, NEW c \in Seq(Byte)
               PROVE  MeansWhatIsRead(c)
  BY DEF AsRead
<1>2. Fed = <<>> /\ Finished = <<>>
  BY <1>1 DEF Fed, Absorbed, AbsorbedIn, Finished
<1> QED
  BY <1>1, <1>2, NewReads DEF MeansWhatIsRead

(* feed() adds to what is fed, next() takes no message from those that     *)
(* were finished, and reset() starts again.                                *)
LEMMA CallerAsRead ==
  ASSUME ParserInv, Tidy, AsRead,
         \/ TakeNext
         \/ Reset
         \/ \E n \in Nat : Feed(n) \/ FeedThrows(n)
  PROVE  AsRead'
<1>1. /\ buffer \in Seq(Byte) /\ unsent \in Seq(Byte) /\ Absorbed \in Seq(Byte)
      /\ offered \in Seq(Byte) /\ Len(unsent) \in Nat
      /\ ready \in Seq(Message) /\ taken \in Seq(Message)
  BY AbsorbedType, LenProperties DEF ParserInv, TypeOK
<1>2. CASE TakeNext
  <2>1. /\ ready # <<>> /\ taken' = Append(taken, Head(ready)) /\ ready' = Tail(ready)
        /\ UNCHANGED <<buffer, stateName, current, lastError, offered>>
    BY <1>2 DEF TakeNext
  <2>2. Finished' = Finished
    BY <1>1, <2>1, TakenFinished
  <2> QED
    BY <2>1, <2>2 DEF AsRead, MeansWhatIsRead, StopsWith, Before, Fed, Absorbed
<1>3. ASSUME NEW n \in Nat, Feed(n) \/ FeedThrows(n), NEW c \in Seq(Byte)
      PROVE  MeansWhatIsRead(c)'
  <2> DEFINE fed == Take(unsent, n)
  <2>1. /\ offered' = offered \o fed
        /\ UNCHANGED <<stateName, current, ready, lastError, taken>>
        /\ stateName # "ERROR" => buffer' = buffer \o fed
        /\ n \in 0..Len(unsent)
    BY <1>1, <1>3, LimitAssumption, SMTT(30) DEF Feed, FeedThrows, progress
  <2>2. fed \in Seq(Byte)
    BY <1>1, <2>1, CutInTwo
  <2> HIDE DEF fed
  <2>3. fed \o c \in Seq(Byte)
    BY <1>3, <2>2, ConcatProperties
  <2>4. MeansWhatIsRead(fed \o c)
    BY <2>3 DEF AsRead
  <2>5. (offered \o fed) \o c = offered \o (fed \o c)
    <3>1. offered \in Seq(Byte) /\ fed \in Seq(Byte) /\ c \in Seq(Byte)
      BY <1>1, <1>3, <2>2
    <3> QED
      BY <3>1, BytesAssociative
  <2>6. stateName # "ERROR" => Fed' \o c = Fed \o (fed \o c)
    <3>1. Absorbed \o (buffer \o fed) = Fed \o fed
      <4>1. Absorbed \in Seq(Byte) /\ buffer \in Seq(Byte) /\ fed \in Seq(Byte)
        BY <1>1, <2>2
      <4>2. (Absorbed \o buffer) \o fed = Absorbed \o (buffer \o fed)
        BY <4>1, BytesAssociative
      <4> QED
        BY <4>2 DEF Fed
    <3>2. Fed \in Seq(Byte)
      BY <1>1, ConcatProperties DEF Fed
    <3>3. (Fed \o fed) \o c = Fed \o (fed \o c)
      BY <1>3, <2>2, <3>2, BytesAssociative
    <3>4. Absorbed' = Absorbed
      BY <2>1 DEF Absorbed
    <3>5. stateName # "ERROR" => Fed' = Fed \o fed
      BY <2>1, <3>1, <3>4 DEF Fed
    <3> QED
      BY <3>3, <3>5
  <2>7. Before' = Before /\ Finished' = Finished
    BY <2>1 DEF Before, Finished
  <2> QED
    BY <2>1, <2>4, <2>5, <2>6, <2>7 DEF MeansWhatIsRead, StopsWith
<1>4. ASSUME Reset, NEW c \in Seq(Byte)
      PROVE  MeansWhatIsRead(c)'
  <2>1. /\ stateName' = "START" /\ buffer' = <<>> /\ ready' = <<>> /\ taken' = <<>>
        /\ offered' = <<>>
    BY <1>4 DEF Reset
  <2>2. Fed' = <<>> /\ Finished' = <<>>
    BY <2>1 DEF Fed, Absorbed, AbsorbedIn, Finished
  <2> QED
    BY <1>4, <2>1, <2>2, NewReads DEF MeansWhatIsRead
<1> QED
  BY <1>2, <1>3, <1>4 DEF AsRead

(* A parser that waits stands before something the reference waits for.    *)
LEMMA StuckReads ==
  ASSUME ParserInv, Tidy, stateName # "ERROR", StuckOn(Fed)
  PROVE  LET r == RestOf(stateName, Before, Fed)
         IN  r.kind # "ok" /\ r.status = 0
<1>1. current \in Progress /\ buffer \in Seq(Byte) /\ peeked = <<>>
      /\ stateName \in ParserState
  BY DEF ParserInv, TypeOK, Tidy
<1>2. More(<<>>).kind # "ok" /\ More(<<>>).status = 0
  BY DEF More
<1>3. CASE stateName \in LineStates
  <2>1. Absorbed = <<>> /\ Before = current /\ Fed = buffer
    <3>1. Absorbed = <<>> /\ Before = current
      BY <1>3, AtLine DEF LineStates, ParserState
    <3> QED
      BY <1>1, <3>1, ConcatEmptySeq DEF Fed
  <2>2. /\ ReadLine(buffer).kind = "more" /\ ReadLine(buffer).status = 0
        /\ ReadLine(Unbroken(buffer)).kind = "more"
        /\ ReadLine(Unbroken(buffer)).status = 0
    BY <1>1, <1>3, <2>1, WaitsForMore DEF StuckOn
  <2>3. CASE stateName = "START"
    BY <2>1, <2>2, <2>3 DEF RestOf, ReadMessage, AfterStartLine
  <2>4. CASE stateName # "START"
    <3>1. RestOf(stateName, current, buffer) = OnLine(stateName, current, buffer)
      BY <1>1, <1>3, <2>4, RestByLine
    <3>2. OnLine(stateName, current, buffer) = ReadLine(buffer)
      BY <1>3, <2>2, NoLine
    <3> QED
      BY <2>1, <2>2, <3>1, <3>2
  <2> QED
    BY <2>3, <2>4
<1>4. CASE stateName = "BODY_LENGTH"
  <2>1. Len(Fed) < Before.expected
    BY <1>1, <1>4 DEF StuckOn, Before, UnreadIn, Progress
  <2>2. RestOf(stateName, Before, Fed) = More(<<>>)
    BY <1>4, <2>1 DEF RestOf, ReadCounted
  <2> QED
    BY <1>2, <2>2
<1>5. CASE stateName = "BODY_CHUNK_DATA"
  <2>1. Len(Fed) < Before.chunkSize + 2 /\ Before.chunkSize \in Nat
    BY <1>1, <1>5 DEF StuckOn, Before, UnreadIn, Progress
  <2>2. Len(Fed) \in Nat
    BY <1>1, AbsorbedType, ConcatProperties, LenProperties DEF Fed
  <2>3. ~(Len(Fed) >= Before.chunkSize + 2)
    BY <2>1, <2>2
  <2>4. ChunkFrom(Before.chunkSize, ChunksFrom(Before, Fed)) = More(<<>>)
    BY <2>1, <2>3 DEF ChunkFrom, ChunkThere, NoChunk, ChunksFrom
  <2>5. RestOf(stateName, Before, Fed) = More(<<>>)
    BY <1>2, <1>5, <2>4 DEF RestOf, AfterChunks
  <2> QED
    BY <1>2, <2>5
<1>6. stateName # "DONE"
  BY DEF StuckOn
<1> QED
  BY <1>1, <1>3, <1>4, <1>5, <1>6 DEF ParserState, LineStates

(* Between two calls what came out agrees with the bytes read as a whole.  *)
LEMMA AgreesWhenRead ==
  ASSUME ParserInv, Tidy, Fresh, AsRead, call = "idle", ReadsAllFed
  PROVE  Agrees(Meaning(offered))
<1> DEFINE m == Meaning(offered)
<1>1. <<>> \in Seq(Byte) /\ offered \in Seq(Byte) /\ Fed \in Seq(Byte)
  BY EmptySeq, AbsorbedType, ConcatProperties DEF ParserInv, TypeOK, Fed
<1>2. offered \o <<>> = offered /\ Fed \o <<>> = Fed
  BY <1>1, ConcatEmptySeq
<1>3. MeansWhatIsRead(<<>>)
  BY <1>1 DEF AsRead
<1>4. m.messages = Finished /\ StopsWith(m, lastError)
  <2>1. CASE stateName = "ERROR"
    BY <1>2, <1>3, <2>1 DEF MeansWhatIsRead
  <2>2. CASE stateName # "ERROR"
    <3> DEFINE r == RestOf(stateName, Before, Fed)
    <3>1. m = Continued(Finished, r)
      BY <1>2, <1>3, <2>2 DEF MeansWhatIsRead
    <3>2. r.kind # "ok" /\ r.status = 0
      BY <2>2, StuckReads DEF ReadsAllFed
    <3>3. lastError = 0
      BY <2>2 DEF Fresh
    <3> HIDE DEF m, r
    <3> QED
      BY <3>1, <3>2, <3>3 DEF Continued, StopsWith
  <2> QED
    BY <2>1, <2>2
<1> HIDE DEF m
<1>5. Agrees(m)
  BY <1>4 DEF Agrees, StopsWith, Finished, Fresh
<1> QED
  BY <1>5 DEF m

(* What a reader of the parser relies on, step by step.                    *)
MeaningInv == Tidy /\ Fresh /\ AsRead

(* Once there is an error, it is the one the bytes hold that were fed.     *)
LEMMA AdvanceExact ==
  ASSUME ParserInv, MeaningInv, Advance, stateName' = "ERROR"
  PROVE  Meaning(offered)'.status = lastError'
<1> DEFINE m == Meaning(offered)
           r == RestOf(stateName, Before, Fed)
<1>1. <<>> \in Seq(Byte) /\ offered \in Seq(Byte) /\ Fed \in Seq(Byte) /\ Tidy /\ Fresh
  BY EmptySeq, AbsorbedType, ConcatProperties DEF ParserInv, TypeOK, Fed, MeaningInv
<1>2. offered \o <<>> = offered /\ Fed \o <<>> = Fed
  BY <1>1, ConcatEmptySeq
<1>3. stateName # "ERROR" /\ Meaning(offered)' = m
  BY DEF Advance, ParserInv, Progressing, environment
<1>4. m = Continued(Finished, r)
  BY <1>1, <1>2, <1>3 DEF MeaningInv, AsRead, MeansWhatIsRead
<1>5. Refused(r, lastError', <<>>)
  <2>1. Follows(<<>>)
    BY <1>1, AdvanceReading
  <2> QED
    BY <1>2, <2>1 DEF Follows
<1> HIDE DEF m, r
<1> QED
  BY <1>3, <1>4, <1>5 DEF Continued, Refused

(* The inductive invariant, of what has been read and what is left to read.*)
ReaderInv == ParserInv /\ MeaningInv /\ ReadsAllFed

(* A new parser has been fed nothing, and is to read what it is fed.       *)
LEMMA NewReader == NewParser => ReaderInv
<1>1. SUFFICES ASSUME NewParser PROVE ReaderInv
  OBVIOUS
<1>2. AsRead
  BY <1>1, NewAsRead DEF NewParser
<1> QED
  BY <1>1, <1>2, NewInv, NewReadsAll DEF ReaderInv, MeaningInv, NewParser, Fresh

(* So has the parser the program starts with.                              *)
LEMMA InitReader == Init => ReaderInv
BY InitNew, NewReader

(* Neither the loop nor the caller changes what the bytes mean.            *)
LEMMA StepReader ==
  ASSUME ReaderInv, TidyStep
  PROVE  ReaderInv'
<1>1. ParserInv /\ Tidy /\ Fresh /\ AsRead /\ ReadsAllFed
  BY DEF ReaderInv, MeaningInv
<1>2. ParserInv' /\ Tidy' /\ Fresh' /\ ReadsAllFed'
  BY <1>1, StepInv, StepTidy, StepFresh, StepReadsAll
<1>3. UNCHANGED vars => AsRead'
  BY <1>1 DEF vars, AsRead, MeansWhatIsRead, StopsWith, Before, Fed, Absorbed, Finished
<1>4. ~UNCHANGED vars => AsRead'
  BY <1>1, AdvanceAsRead, CallerAsRead DEF TidyStep
<1>5. AsRead'
  BY <1>1, <1>3, <1>4
<1> QED
  BY <1>2, <1>5 DEF ReaderInv, MeaningInv

(* Between two calls the result is the one the bytes have as a whole.      *)
LEMMA ReaderAgrees == ReaderInv => BoundaryIndependent
BY AgreesWhenRead DEF ReaderInv, MeaningInv, BoundaryIndependent

(* The parser keeps that invariant as long as it is reset with no line in  *)
(* the cache.                                                              *)
THEOREM KeepsReading == Spec /\ TidyResets => []ReaderInv
<1>1. ReaderInv /\ [Next]_vars /\ [Reset => peeked = <<>>]_vars => ReaderInv'
  BY NextTidyStep, StepReader
<1> QED
  BY <1>1, InitReader, PTL DEF Spec, TidyResets

(* feed() "must give the same result at any byte boundary" (parser.ts:20): *)
(* whatever the stream, its pieces, the limits and the tables, the         *)
(* messages and the error that come out of it are those of the bytes read  *)
(* as a whole, while reset() finds no line in the cache.                   *)
THEOREM SameResult == Spec /\ TidyResets => []BoundaryIndependent
BY KeepsReading, ReaderAgrees, PTL

(* Until reset() is called it is so without that condition.                *)
THEOREM SameResultUntilReset == Spec => [](resets = 0 => BoundaryIndependent)
<1> DEFINE Inv == ParserInv /\ (resets = 0 => ReaderInv)
<1>1. Init => Inv
  BY InitReader, InitInv
<1>2. Inv /\ [Next]_vars => Inv'
  <2>1. SUFFICES ASSUME ParserInv, resets = 0 => ReaderInv, [Next]_vars
                 PROVE  ParserInv' /\ (resets' = 0 => ReaderInv')
    OBVIOUS
  <2>2. ParserInv'
    BY <2>1, NextInv
  <2>3. ASSUME resets' = 0 PROVE ReaderInv'
    <3>1. ~Reset
      BY <2>1, <2>3 DEF Reset, ParserInv, TypeOK
    <3>2. resets' = resets
      BY <2>1, <3>1 DEF Next, vars, Feed, FeedThrows, TakeNext, Advance, environment
    <3>3. TidyStep
      BY <2>1, <3>1, NextTidyStep
    <3> QED
      BY <2>1, <2>3, <3>2, <3>3, StepReader
  <2> QED
    BY <2>2, <2>3
<1>3. Inv => (resets = 0 => BoundaryIndependent)
  BY ReaderAgrees
<1> QED
  BY <1>1, <1>2, <1>3, PTL DEF Spec
-----------------------------------------------------------------------------
(* One feed() of everything: the error, if there is one, is that of the    *)
(* buffer; a message is taken at most once before the outcome is known,    *)
(* and nothing happens after it.                                           *)
Exact == stateName = "ERROR" => Meaning(offered).status = lastError
Answered ==
  LET m == Meaning(offered)
  IN  /\ outcome = "message" => m.status = 0 /\ taken = m.messages /\ Len(taken) = 1
      /\ outcome = "throws"  => m.status # 0 \/ Len(m.messages) # 1
OneShotInv ==
  /\ ReaderInv /\ Exact
  /\ outcome \in {"pending", "message", "throws"}
  /\ outcome = "pending" => taken = <<>> \/ Len(taken) = 1
  /\ outcome # "pending" => unsent = <<>> /\ call = "idle"
  /\ Answered

(* It is a parser that is fed, in one piece, and never reset.              *)
LEMMA OneShotTidy ==
  ASSUME ParserInv, [OneShotNext]_oneShotVars
  PROVE  TidyStep
<1>1. Len(unsent) \in Nat
  BY LenProperties DEF ParserInv, TypeOK
<1> QED
  BY <1>1 DEF OneShotNext, FeedAll, FeedFailed, FirstNext, SecondNext, oneShotVars, TidyStep

(* What the buffer means once feed() has returned, or thrown.              *)
LEMMA BufferRead ==
  ASSUME ReaderInv, Exact, call = "idle"
  PROVE  LET m == Meaning(offered)
         IN  /\ m.messages = taken \o ready
             /\ (stateName = "ERROR") <=> (m.status # 0)
<1> DEFINE m == Meaning(offered)
<1>1. Agrees(m)
  BY ReaderAgrees DEF BoundaryIndependent
<1>2. stateName = "ERROR" => m.status = lastError
  BY DEF Exact
<1> HIDE DEF m
<1>3. stateName # "ERROR" => lastError = 0 /\ m.status = 0
  BY <1>1 DEF Agrees
<1>4. m.messages = taken \o ready /\ (stateName = "ERROR" => m.status # 0)
  BY <1>1, <1>2 DEF Agrees
<1> QED
  BY <1>3, <1>4 DEF m

(* The calls of next() tell the buffers with one message from the others.  *)
LEMMA StepOneShot ==
  ASSUME OneShotInv, [OneShotNext]_oneShotVars
  PROVE  OneShotInv'
<1> DEFINE m == Meaning(offered)
<1>1. /\ ReaderInv /\ ParserInv /\ Exact /\ Answered
      /\ outcome \in {"pending", "message", "throws"}
      /\ outcome = "pending" => taken = <<>> \/ Len(taken) = 1
      /\ outcome # "pending" => unsent = <<>> /\ call = "idle"
  BY DEF OneShotInv, ReaderInv
<1>2. ReaderInv'
  BY <1>1, OneShotTidy, StepReader
<1>3. /\ taken \in Seq(Message) /\ ready \in Seq(Message)
      /\ Len(taken) \in Nat /\ Len(ready) \in Nat
  BY <1>1, LenProperties DEF ParserInv, TypeOK
<1>4. call = "idle" => m.messages = taken \o ready /\ ((stateName = "ERROR") <=> (m.status # 0))
  BY <1>1, BufferRead
<1>5. Len(<<>>) = 0
  BY EmptySeq
<1>6. CASE UNCHANGED oneShotVars
  <2>1. /\ outcome' = outcome /\ taken' = taken /\ unsent' = unsent /\ call' = call
        /\ stateName' = stateName /\ lastError' = lastError
        /\ Meaning(offered)' = m
    BY <1>6 DEF oneShotVars, vars
  <2> HIDE DEF m
  <2> QED
    BY <1>1, <1>2, <2>1 DEF OneShotInv, Exact, Answered, m
<1>7. CASE FeedAll
  <2>1. /\ outcome = "pending" /\ outcome' = outcome /\ taken' = taken
        /\ stateName' # "ERROR"
    BY <1>1, <1>7 DEF FeedAll, Feed, progress
  <2> QED
    BY <1>1, <1>2, <2>1 DEF OneShotInv, Exact, Answered
<1>8. CASE Advance /\ UNCHANGED outcome
  <2>1. outcome = "pending" /\ outcome' = outcome /\ taken' = taken
    BY <1>1, <1>8 DEF Advance, environment
  <2>2. Exact'
    BY <1>1, <1>8, AdvanceExact DEF Exact, ReaderInv
  <2> QED
    BY <1>1, <1>2, <2>1, <2>2 DEF OneShotInv, Answered
<1>9. ASSUME UNCHANGED vars, Returned, outcome' = "throws",
             m.status # 0 \/ Len(m.messages) # 1
      PROVE  OneShotInv'
  <2>1. /\ taken' = taken /\ unsent' = unsent /\ call' = call
        /\ stateName' = stateName /\ lastError' = lastError
        /\ Meaning(offered)' = m /\ unsent = <<>> /\ call = "idle"
    BY <1>9 DEF vars, Returned
  <2> HIDE DEF m
  <2> QED
    BY <1>1, <1>2, <1>9, <2>1 DEF OneShotInv, Exact, Answered, m
<1>10. ASSUME TakeNext, Returned
       PROVE  /\ UNCHANGED <<unsent, call, stateName, lastError>>
              /\ Meaning(offered)' = m /\ unsent = <<>> /\ call = "idle"
              /\ outcome = "pending" /\ Exact'
              /\ taken' = Append(taken, Head(ready)) /\ Len(taken') = Len(taken) + 1
              /\ Len(ready) # 0
  <2>1. /\ UNCHANGED <<unsent, call, stateName, lastError>>
        /\ Meaning(offered)' = m /\ unsent = <<>> /\ call = "idle"
        /\ outcome = "pending" /\ ready # <<>>
        /\ taken' = Append(taken, Head(ready))
    BY <1>10 DEF TakeNext, Returned
  <2>2. Head(ready) \in Message /\ Len(ready) # 0
    BY <1>3, <2>1, HeadTailProperties, EmptySeq
  <2>3. Len(taken') = Len(taken) + 1
    BY <1>3, <2>1, <2>2, AppendProperties
  <2> HIDE DEF m
  <2>4. Exact'
    BY <1>1, <2>1 DEF Exact, m
  <2> QED
    BY <2>1, <2>2, <2>3, <2>4
<1>11. CASE FeedFailed
  BY <1>4, <1>9, <1>11 DEF FeedFailed, Returned
<1>12. CASE FirstNext
  <2>1. CASE ready = <<>>
    <3>1. taken = <<>> /\ UNCHANGED vars /\ Returned /\ outcome' = "throws"
      BY <1>12, <2>1 DEF FirstNext
    <3>2. m.messages = <<>>
      BY <1>3, <1>4, <2>1, <3>1, ConcatEmptySeq DEF Returned
    <3> HIDE DEF m
    <3> QED
      BY <1>5, <1>9, <3>1, <3>2
  <2>2. CASE ready # <<>>
    <3>1. taken = <<>> /\ TakeNext /\ Returned /\ outcome' = outcome
      BY <1>12, <2>2 DEF FirstNext
    <3>2. Len(taken') = 1
      BY <1>5, <1>10, <3>1
    <3> QED
      BY <1>1, <1>2, <1>10, <3>1, <3>2 DEF OneShotInv, Answered
  <2> QED
    BY <2>1, <2>2
<1>13. CASE SecondNext
  <2>1. Returned /\ stateName # "ERROR" /\ Len(taken) = 1
    BY <1>1, <1>13 DEF SecondNext, Returned
  <2>2. m.messages = taken \o ready /\ m.status = 0
    BY <1>4, <2>1 DEF Returned
  <2>3. CASE ready = <<>>
    <3>1. /\ outcome' = "message" /\ UNCHANGED vars
          /\ taken' = taken /\ unsent' = unsent /\ call' = call
          /\ stateName' = stateName /\ lastError' = lastError
          /\ Meaning(offered)' = m /\ unsent = <<>> /\ call = "idle"
      BY <1>13, <2>1, <2>3 DEF SecondNext, vars, Returned
    <3>2. m.messages = taken
      BY <1>3, <2>2, <2>3, ConcatEmptySeq
    <3> HIDE DEF m
    <3> QED
      BY <1>1, <1>2, <2>1, <2>2, <3>1, <3>2 DEF OneShotInv, Exact, Answered, m
  <2>4. CASE ready # <<>>
    <3>1. TakeNext /\ outcome' = "throws"
      BY <1>13, <2>4 DEF SecondNext
    <3>2. Len(m.messages) = Len(taken) + Len(ready) /\ Len(ready) # 0
      BY <1>3, <1>10, <2>1, <2>2, <3>1, ConcatProperties
    <3>3. Len(m.messages) # 1
      BY <1>3, <2>1, <3>2
    <3> HIDE DEF m
    <3> QED
      BY <1>1, <1>2, <1>10, <2>1, <3>1, <3>3 DEF OneShotInv, Answered, m
  <2> QED
    BY <2>3, <2>4
<1> QED
  BY <1>6, <1>7, <1>8, <1>11, <1>12, <1>13 DEF OneShotNext

(* There is nothing in no bytes.                                           *)
LEMMA NothingRead == ReadMessage(<<>>) = More(<<>>)
<1>1. <<>> \in Seq(Byte) /\ Len(<<>>) = 0
  BY EmptySeq
<1>2. Unbroken(<<>>) = <<>>
  <2>1. PICK n \in 0..Len(<<>>) : Unbroken(<<>>) = Drop(<<>>, n)
    BY <1>1, BreaksAre
  <2>2. n = 0
    BY <1>1
  <2>3. Drop(<<>>, 0) = <<>>
    BY <1>1, TakeAndDrop
  <2> QED
    BY <2>1, <2>2, <2>3
<1>3. ~HasCR(<<>>) /\ ~(Len(<<>>) > MaxLineBytes)
  BY <1>1, LimitAssumption DEF HasCR
<1>4. ReadLine(<<>>) = More(<<>>)
  BY <1>1, <1>3, ReadLineAt
<1>5. AfterStartLine(More(<<>>)) = More(<<>>)
  BY DEF AfterStartLine, More
<1>6. ReadMessage(<<>>) = AfterStartLine(ReadLine(Unbroken(<<>>)))
  BY DEF ReadMessage
<1> QED
  BY <1>2, <1>4, <1>5, <1>6

(* What a buffer means tells whether it is exactly one message.            *)
LEMMA ExactlyOne ==
  ASSUME NEW b \in Seq(Byte)
  PROVE  /\ Exactly(b) => Meaning(b).status = 0 /\ Len(Meaning(b).messages) = 1
         /\ Meaning(b).status = 0 /\ Len(Meaning(b).messages) = 1 =>
              Exactly(b) \/ RestUnseen(b)
<1> DEFINE m == ReadMessage(b)
<1>1. m \in Found(Message, b)
  BY ReadMessageType
<1>2. <<>> \in Seq(Message) /\ <<>> \in Seq(Byte) /\ Len(<<>>) = 0
  BY EmptySeq
<1>3. Meaning(b) = Continued(<<>>, m)
  BY <1>2, ReadsOn DEF Meaning
<1>4. ASSUME Exactly(b) PROVE Meaning(b).status = 0 /\ Len(Meaning(b).messages) = 1
  <2> DEFINE v == m.value
  <2>1. m.kind = "ok" /\ m.at = <<>>
    BY <1>4 DEF Exactly
  <2>2. v \in Message
    BY <1>1, <2>1 DEF Found
  <2>3. Continued(<<>>, m) = ReadMessages[[at |-> <<>>, messages |-> Append(<<>>, v)]]
    BY <2>1 DEF Continued
  <2> HIDE DEF m, v
  <2>4. <<v>> \in Seq(Message) /\ Append(<<>>, v) = <<v>> /\ Len(<<v>>) = 1
    BY <2>2
  <2>5. ReadMessages[[at |-> <<>>, messages |-> <<v>>]] = Continued(<<v>>, More(<<>>))
    BY <1>2, <2>4, ReadsOn, NothingRead
  <2>6. Continued(<<v>>, More(<<>>)).status = 0 /\ Continued(<<v>>, More(<<>>)).messages = <<v>>
    BY DEF Continued, More
  <2> QED
    BY <1>3, <2>3, <2>4, <2>5, <2>6
<1>5. ASSUME Meaning(b).status = 0, Len(Meaning(b).messages) = 1
      PROVE  Exactly(b) \/ RestUnseen(b)
  <2> HIDE DEF m
  <2>1. ASSUME m.kind # "ok" PROVE Len(Meaning(b).messages) = 0
    <3>1. Continued(<<>>, m) = [messages |-> <<>>, status |-> m.status, at |-> m.at]
      BY <2>1 DEF Continued
    <3> QED
      BY <1>2, <1>3, <3>1
  <2>2. m.kind = "ok"
    BY <1>5, <2>1
  <2> QED
    BY <1>5, <2>2 DEF Exactly, RestUnseen, m
<1> QED
  BY <1>4, <1>5

(* parseRequest() and parseResponse() (parser.ts:396-407) never refuse a   *)
(* buffer that is exactly one message, and answer with the message it      *)
(* holds; they answer none that holds no message, more than one or an      *)
(* error.  This is so whatever the buffer, the limits and the tables; of a *)
(* message with an unfinished rest behind it the theorem says nothing.     *)
THEOREM OneShotAnswers == OneShotSpec => []OneShotOutcome
<1>1. OneShotInit => OneShotInv
  <2>1. SUFFICES ASSUME OneShotInit PROVE OneShotInv
    OBVIOUS
  <2>2. ReaderInv /\ stateName = "START" /\ taken = <<>> /\ outcome = "pending"
    BY <2>1, InitReader DEF OneShotInit, Init
  <2> QED
    BY <2>2 DEF OneShotInv, Exact, Answered
<1>2. OneShotInv /\ [OneShotNext]_oneShotVars => OneShotInv'
  BY StepOneShot
<1>3. OneShotInv => OneShotOutcome
  <2>1. SUFFICES ASSUME OneShotInv PROVE OneShotOutcome
    OBVIOUS
  <2>2. Answered /\ offered \in Seq(Byte)
    BY <2>1 DEF OneShotInv, ReaderInv, ParserInv, TypeOK
  <2>3. /\ outcome = "message" => /\ Meaning(offered).status = 0
                                 /\ taken = Meaning(offered).messages
                                 /\ Len(Meaning(offered).messages) = 1
        /\ outcome = "throws" => ~(Meaning(offered).status = 0 /\ Len(Meaning(offered).messages) = 1)
    BY <2>2 DEF Answered
  <2> QED
    BY <2>2, <2>3, ExactlyOne DEF OneShotOutcome
<1> QED
  BY <1>1, <1>2, <1>3, PTL DEF OneShotSpec
-----------------------------------------------------------------------------
(* The two bytes of a line ending.                                         *)
LEMMA LineEnd == CRLF \in Seq(Byte) /\ Len(CRLF) = 2 /\ CRLF[1] = CR /\ CRLF[2] = LF
BY DEF CRLF, Byte

(* Bytes behind bytes.                                                     *)
LEMMA BytesJoined ==
  \A s, t \in Seq(Byte) : s \o t \in Seq(Byte) /\ Len(s \o t) = Len(s) + Len(t)
BY ConcatProperties

(* And where each of them stands.                                          *)
LEMMA ByteAt ==
  ASSUME NEW s \in Seq(Byte), NEW t \in Seq(Byte)
  PROVE  /\ \A i \in 1..Len(s) : (s \o t)[i] = s[i]
         /\ \A i \in 1..Len(t) : (s \o t)[Len(s) + i] = t[i]
<1>1. Len(s) \in Nat /\ Len(t) \in Nat
  BY LenProperties
<1>2. \A i \in 1..(Len(s) + Len(t)) : (s \o t)[i] = IF i <= Len(s) THEN s[i] ELSE t[i - Len(s)]
  BY ConcatProperties
<1>3. ASSUME NEW i \in 1..Len(s) PROVE (s \o t)[i] = s[i]
  BY <1>1, <1>2
<1>4. ASSUME NEW i \in 1..Len(t) PROVE (s \o t)[Len(s) + i] = t[i]
  <2>1. Len(s) + i \in 1..(Len(s) + Len(t)) /\ ~(Len(s) + i <= Len(s)) /\ Len(s) + i - Len(s) = i
    BY <1>1
  <2> QED
    BY <1>2, <2>1
<1> QED
  BY <1>3, <1>4

(* A long concatenation, from the right.                                   *)
LEMMA EndAssociates ==
  ASSUME NEW x \in Seq(Byte), NEW z \in Seq(Byte)
  PROVE  ((x \o z) \o CRLF) \o CRLF = x \o ((z \o CRLF) \o CRLF)
<1>1. CRLF \in Seq(Byte) /\ z \o CRLF \in Seq(Byte)
  BY LineEnd, BytesJoined
<1>2. (x \o z) \o CRLF = x \o (z \o CRLF)
  BY <1>1, BytesAssociative
<1>3. (x \o (z \o CRLF)) \o CRLF = x \o ((z \o CRLF) \o CRLF)
  BY <1>1, BytesAssociative
<1> QED
  BY <1>2, <1>3

(* So is a line ending behind something.                                   *)
LEMMA MiddleAssociates ==
  ASSUME NEW x \in Seq(Byte), NEW y \in Seq(Byte), NEW z \in Seq(Byte)
  PROVE  ((x \o y) \o CRLF) \o z = x \o (y \o (CRLF \o z))
<1>1. CRLF \in Seq(Byte) /\ x \o y \in Seq(Byte) /\ CRLF \o z \in Seq(Byte)
  BY LineEnd, BytesJoined
<1>2. ((x \o y) \o CRLF) \o z = (x \o y) \o (CRLF \o z)
  <2> DEFINE u == x \o y
  <2>1. u \in Seq(Byte)
    BY <1>1
  <2> HIDE DEF u
  <2>2. (u \o CRLF) \o z = u \o (CRLF \o z)
    BY <1>1, <2>1, BytesAssociative, SMTT(30)
  <2> QED
    BY <2>2 DEF u
<1>3. (x \o y) \o (CRLF \o z) = x \o (y \o (CRLF \o z))
  BY <1>1, BytesAssociative, ZenonT(60)
<1> QED
  BY <1>2, <1>3

(* What stands in front is cut off again whole.                            *)
LEMMA FrontCut ==
  ASSUME NEW b \in Seq(Byte), NEW c \in Seq(Byte)
  PROVE  /\ b \o c \in Seq(Byte) /\ Len(b \o c) = Len(b) + Len(c)
         /\ Take(b \o c, Len(b)) = b /\ Drop(b \o c, Len(b)) = c
<1>1. Len(b) \in 0..Len(b)
  BY LenProperties
<1>2. Take(b \o c, Len(b)) = Take(b, Len(b)) /\ Drop(b \o c, Len(b)) = Drop(b, Len(b)) \o c
  BY <1>1, TakeBehind
<1>3. Take(b, Len(b)) = b /\ Drop(b, Len(b)) = <<>>
  BY TakeAndDrop
<1> QED
  BY <1>2, <1>3, ConcatProperties, ConcatEmptySeq

(* A line with its ending in front of a string is the line that is read.   *)
LEMMA LineWritten ==
  ASSUME NEW line \in Line, OneLine(line), NEW b \in Seq(Byte)
  PROVE  /\ line \o CRLF \in Seq(Byte) /\ Len(line \o CRLF) = Len(line) + 2
         /\ (line \o CRLF) \o b \in Seq(Byte)
         /\ ReadLine((line \o CRLF) \o b) = Ok(line, b)
<1> DEFINE a == line \o CRLF
           d == a \o b
           n == Len(line)
<1>1. line \in Seq(Byte) /\ CRLF \in Seq(Byte) /\ n \in Nat /\ Len(b) \in Nat
  BY LineEnd, LenProperties DEF Line
<1>2. /\ a \in Seq(Byte) /\ Len(a) = n + 2
      /\ \A i \in 1..n : a[i] = line[i]
      /\ a[n + 1] = CR /\ a[n + 2] = LF
  <2>1. /\ a \in Seq(Byte) /\ Len(a) = n + Len(CRLF)
        /\ \A i \in 1..(n + Len(CRLF)) : a[i] = IF i <= n THEN line[i] ELSE CRLF[i - n]
    BY <1>1, ConcatProperties
  <2> HIDE DEF a
  <2>2. n + 1 \in 1..(n + 2) /\ ~(n + 1 <= n) /\ n + 1 - n = 1
        /\ n + 2 \in 1..(n + 2) /\ ~(n + 2 <= n) /\ n + 2 - n = 2
        /\ \A i \in 1..n : i \in 1..(n + 2) /\ i <= n
    BY <1>1
  <2> QED
    BY <2>1, <2>2, LineEnd
<1> HIDE DEF a
<1>3. /\ d \in Seq(Byte) /\ Len(d) = n + 2 + Len(b)
      /\ \A i \in 1..(n + 2) : d[i] = a[i]
  <2>1. /\ d \in Seq(Byte) /\ Len(d) = Len(a) + Len(b)
        /\ \A i \in 1..(Len(a) + Len(b)) : d[i] = IF i <= Len(a) THEN a[i] ELSE b[i - Len(a)]
    BY <1>1, <1>2, ConcatProperties
  <2> HIDE DEF d
  <2> QED
    BY <1>1, <1>2, <2>1
<1>4. Take(d, n) = line /\ Drop(d, n + 2) = b
  <2>1. n \in 0..Len(a) /\ Drop(d, n + 2) = b
    BY <1>1, <1>2, FrontCut
  <2>2. Take(d, n) = Take(a, n)
    BY <1>1, <1>2, <2>1, TakeBehind
  <2>3. Take(a, n) = line
    BY <1>1, FrontCut DEF a
  <2> QED
    BY <2>1, <2>2, <2>3
<1> HIDE DEF d
<1>5. IsFirstCR(d, n + 1) /\ d[n + 2] = LF
  <2>1. n + 1 \in 1..(n + 2) /\ n + 2 \in 1..(n + 2)
    BY <1>1
  <2>2. ASSUME NEW j \in 1..(n + 1 - 1) PROVE d[j] # CR
    <3>1. j \in 1..n /\ j \in 1..(n + 2)
      BY <1>1
    <3> QED
      BY <1>2, <1>3, <3>1 DEF OneLine
  <2> QED
    BY <1>2, <1>3, <2>1, <2>2 DEF IsFirstCR
<1>6. n + 1 \in 1..Len(d) /\ n + 1 # Len(d) /\ n + 1 + 1 = n + 2 /\ n + 1 - 1 = n
  BY <1>1, <1>3
<1>7. ReadLine(d) = LineEndingAt(d, n + 1)
  BY <1>3, <1>5, <1>6, ReadLineAt
<1>8. ~(n > MaxLineBytes)
  BY <1>1, LimitAssumption DEF OneLine
<1>9. LineEndingAt(d, n + 1) = Ok(line, b)
  BY <1>4, <1>5, <1>6, <1>8 DEF LineEndingAt
<1> QED
  BY <1>2, <1>3, <1>7, <1>9 DEF a, d

(* So is a blank one.                                                      *)
LEMMA BlankWritten ==
  ASSUME NEW b \in Seq(Byte)
  PROVE  CRLF \o b \in Seq(Byte) /\ ReadLine(CRLF \o b) = Ok(<<>>, b)
<1>1. <<>> \in Line /\ OneLine(<<>>)
  BY LimitAssumption, EmptySeq DEF OneLine, Line
<1>2. <<>> \o CRLF = CRLF
  BY LineEnd, ConcatEmptySeq
<1> QED
  BY <1>1, <1>2, LineWritten

(* FlattenSeq puts its sequences one behind the other: whole[k] is what    *)
(* the first k of them make together.                                      *)
Flattening(seqs) ==
  {f \in [0..Len(seqs) -> Seq(Byte)] :
     /\ f[0] = <<>>
     /\ \A k \in 1..Len(seqs) : f[k] = f[k - 1] \o seqs[k]
     /\ f[Len(seqs)] = FlattenSeq(seqs)}

FlattenStep(seqs, i, f) == IF i = 1 THEN seqs[i] ELSE f[i - 1] \o seqs[i]

(* There is such a function.                                               *)
LEMMA FlattenParts ==
  ASSUME NEW seqs \in Seq(Seq(Byte))
  PROVE  Flattening(seqs) # {}
<1> DEFINE n == Len(seqs)
           P == 1..n
           V == Seq(Byte)
           rank == [i \in P |-> i]
           step == [x \in P \X [P -> V] |-> FlattenStep(seqs, x[1], x[2])]
           loop(f) == [i \in P |-> FlattenStep(seqs, i, f)]
           out == CHOOSE f : f = loop(f)
<1>1. n \in Nat /\ \A i \in P : seqs[i] \in V /\ (i # 1 => i - 1 \in P)
  BY LenProperties
<1>2. ASSUME n = 0 PROVE Flattening(seqs) # {}
  <2>1. seqs = <<>>
    BY <1>2, EmptySeq
  <2>2. FlattenSeq(seqs) = <<>>
    BY <1>2, <2>1 DEF FlattenSeq
  <2> DEFINE f == [k \in 0..0 |-> <<>>]
  <2>3. f \in [0..n -> V] /\ f[0] = <<>> /\ f[n] = <<>>
    BY <1>2, EmptySeq
  <2> HIDE DEF f
  <2> QED
    BY <1>2, <2>2, <2>3 DEF Flattening
<1>3. ASSUME n # 0 PROVE Flattening(seqs) # {}
  <2>1. FlattenSeq(seqs) = out[n]
    BY <1>3, Zenon DEF FlattenSeq, FlattenStep
  <2>2. ASSUME NEW i \in P, NEW f \in [P -> V] PROVE FlattenStep(seqs, i, f) \in V
    <3>1. i # 1 => f[i - 1] \in V
      BY <1>1
    <3> QED
      BY <1>1, <3>1, ConcatProperties DEF FlattenStep
  <2>3. step \in [P \X [P -> V] -> V]
    <3> HIDE DEF V, P
    <3> QED
      BY <2>2
  <2>4. \A i \in P : \A f, g \in [P -> V] :
          (\A e \in P : rank[e] < rank[i] => f[e] = g[e]) => step[<<i, f>>] = step[<<i, g>>]
    <3>1. ASSUME NEW i \in P, NEW f \in [P -> V], NEW g \in [P -> V],
                 \A e \in P : rank[e] < rank[i] => f[e] = g[e]
          PROVE  FlattenStep(seqs, i, f) = FlattenStep(seqs, i, g)
      <4>1. i # 1 => i - 1 \in P /\ rank[i - 1] < rank[i]
        BY <1>1
      <4>2. i # 1 => f[i - 1] = g[i - 1]
        BY <3>1, <4>1
      <4> QED
        BY <4>2 DEF FlattenStep
    <3> HIDE DEF rank, V, P
    <3> QED
      BY <3>1
  <2>5. rank \in [P -> Nat] /\ V # {}
    BY EmptySeq
  <2>6. Computed(P, V, step) # {}
    <3> HIDE DEF rank, step, V, P
    <3>1. Computation(P, V, rank, step)
      BY <2>3, <2>4, <2>5 DEF Computation
    <3> QED
      BY <3>1, RecursionOnSize
  <2>7. PICK g \in [P -> V] : \A i \in P : g[i] = FlattenStep(seqs, i, g)
    <3> HIDE DEF V, P
    <3>1. PICK g \in [P -> V] : \A i \in P : g[i] = step[<<i, g>>]
      BY <2>6 DEF Computed
    <3>2. \A i \in P : step[<<i, g>>] = FlattenStep(seqs, i, g)
      OBVIOUS
    <3> QED
      BY <3>1, <3>2
  <2>8. g = loop(g)
    <3> HIDE DEF V, P
    <3> QED
      BY <2>7
  <2>9. out = loop(out)
    <3> HIDE DEF loop
    <3> QED
      BY <2>8, Zenon
  <2>15. PICK h : out = h /\ h = loop(h)
    <3> HIDE DEF out, loop
    <3> QED
      BY <2>9
  <2> HIDE DEF out
  <2>10. h \in [P -> V] /\ \A i \in P : h[i] = FlattenStep(seqs, i, h)
    <3>1. \A i \in P : h[i] = FlattenStep(seqs, i, h)
      <4>1. \A i \in P : loop(h)[i] = FlattenStep(seqs, i, h)
        <5> HIDE DEF P
        <5> QED
          OBVIOUS
      <4> HIDE DEF loop
      <4> QED
        BY <2>15, <4>1
    <3>4. \A i \in P : h[i] = g[i]
      <4> DEFINE T == {i \in P : h[i] # g[i]}
      <4>1. SUFFICES ASSUME T # {} PROVE FALSE
        OBVIOUS
      <4>2. PICK i \in T : \A j \in T : i <= j
        <5>1. T \in SUBSET Nat
          OBVIOUS
        <5> HIDE DEF T
        <5> QED
          BY <4>1, <5>1, LeastElement
      <4>3. i # 1 => i - 1 \in P /\ ~(i <= i - 1)
        BY <1>1
      <4>4. i # 1 => h[i - 1] = g[i - 1]
        BY <4>2, <4>3
      <4>5. h[i] = g[i]
        BY <2>7, <3>1, <4>4 DEF FlattenStep
      <4> QED
        BY <4>5
    <3>5. \A i \in P : h[i] \in V
      BY <2>7, <3>4
    <3>6. \E e : h = [i \in P |-> e[i]]
      <4> HIDE DEF P
      <4>1. h = [i \in P |-> FlattenStep(seqs, i, h)]
        BY <2>15
      <4>2. h = [i \in P |-> h[i]]
        BY <4>1
      <4> QED
        BY <4>2
    <3> QED
      <4> HIDE DEF P, V
      <4> QED
        BY <3>1, <3>5, <3>6
  <2> DEFINE f == [k \in 0..n |-> IF k = 0 THEN <<>> ELSE h[k]]
  <2>11. f \in [0..n -> V] /\ f[0] = <<>> /\ f[n] = h[n]
    <3>1. ASSUME NEW k \in 0..n PROVE (IF k = 0 THEN <<>> ELSE h[k]) \in V
      <4>1. <<>> \in V
        BY EmptySeq
      <4>2. k # 0 => k \in P
        BY <1>1
      <4>3. k # 0 => h[k] \in V
        <5> HIDE DEF V, P
        <5> QED
          BY <2>10, <4>2
      <4> HIDE DEF V
      <4> QED
        BY <4>1, <4>3
    <3>2. 0 \in 0..n /\ n \in 0..n
      BY <1>1
    <3> HIDE DEF V
    <3> QED
      BY <1>3, <3>1, <3>2
  <2>12. ASSUME NEW k \in 1..n PROVE f[k] = f[k - 1] \o seqs[k]
    <3>1. k \in 0..n /\ k # 0 /\ k - 1 \in 0..n /\ (k - 1 = 0 <=> k = 1)
      BY <1>1
    <3>2. f[k] = FlattenStep(seqs, k, h) /\ f[k - 1] = IF k = 1 THEN <<>> ELSE h[k - 1]
      BY <2>10, <3>1
    <3>3. seqs[k] \in Seq(Byte)
      BY <1>1
    <3>4. <<>> \o seqs[k] = seqs[k]
      BY <3>3, ConcatEmptySeq
    <3> HIDE DEF f
    <3> QED
      BY <3>2, <3>4 DEF FlattenStep
  <2> HIDE DEF f
  <2> QED
    BY <2>1, <2>15, <2>11, <2>12 DEF Flattening
<1> QED
  BY <1>2, <1>3

(* A header section of which some lines have been read.                    *)
SectionAt(b, lines, size) == [at |-> b, lines |-> lines, size |-> size, limited |-> TRUE]

(* A section is what its four parts are.                                   *)
LEMMA SameSection ==
  ASSUME NEW s \in Section, NEW t \in Section,
         s.at = t.at, s.lines = t.lines, s.size = t.size, s.limited = t.limited
  PROVE  s = t
<1> DEFINE A == Seq(Byte)
           B == Seq(Line)
<1>1. s \in [at : A, lines : B, size : Nat, limited : BOOLEAN]
      /\ t \in [at : A, lines : B, size : Nat, limited : BOOLEAN]
  BY DEF Section
<1> HIDE DEF A, B
<1> QED
  BY <1>1

(* One more line is read that is not too much.                             *)
LEMMA SectionLineWritten ==
  ASSUME NEW lines \in Seq(Line), NEW size \in Nat, NEW line \in Line, line # <<>>,
         OneLine(line), size + Len(line) + 2 <= MaxHeaderBytes, NEW b \in Seq(Byte)
  PROVE  ReadSection[SectionAt((line \o CRLF) \o b, lines, size)] =
           ReadSection[SectionAt(b, Append(lines, line), size + Len(line) + 2)]
<1> DEFINE a == (line \o CRLF) \o b
           s == SectionAt(a, lines, size)
           l == Ok(line, b)
<1>1. a \in Seq(Byte) /\ ReadLine(a) = l
  BY LineWritten
<1>2. s \in Section /\ s.at = a /\ s.limited
  BY <1>1 DEF Section, SectionAt
<1>3. WithLine(s, l) = SectionAt(b, Append(lines, line), size + Len(line) + 2)
  <2>1. s.lines = lines /\ s.size = size /\ s.limited = TRUE /\ s \in Section
    BY <1>2 DEF SectionAt
  <2>2. l.at = b /\ l.value = line
    BY DEF Ok
  <2> DEFINE t == WithLine(s, l)
             u == SectionAt(b, Append(lines, line), size + Len(line) + 2)
  <2>3. /\ t.at = b /\ t.lines = Append(lines, line) /\ t.size = size + Len(line) + 2
        /\ t.limited = TRUE
    <3> HIDE DEF s, l
    <3> QED
      BY <2>1, <2>2 DEF WithLine, Section
  <2>4. /\ u.at = b /\ u.lines = Append(lines, line) /\ u.size = size + Len(line) + 2
        /\ u.limited = TRUE
    BY DEF SectionAt
  <2>5. t \in Section
    <3> HIDE DEF s, l
    <3> QED
      BY <2>1, <2>2, WithLineType
  <2>6. u \in Section
    <3>1. Append(lines, line) \in Seq(Line) /\ size + Len(line) + 2 \in Nat
      BY LenProperties, AppendProperties DEF Line
    <3> QED
      BY <3>1 DEF SectionAt, Section
  <2> HIDE DEF t, u
  <2>7. t = u
    BY <2>3, <2>4, <2>5, <2>6, SameSection
  <2> QED
    BY <2>7 DEF t, u
<1>4. l.kind = "ok" /\ l.value = line
  BY DEF Ok
<1>5. Len(line) \in Nat
  BY LenProperties DEF Line
<1>6. ~TooLong(WithLine(s, l))
  <2>1. WithLine(s, l).size = size + Len(line) + 2
    BY <1>3 DEF SectionAt
  <2> HIDE DEF s, l
  <2> QED
    BY <1>5, <2>1, LimitAssumption DEF TooLong
<1> HIDE DEF a, s, l
<1>7. ReadSection[s] = SectionStep(s, ReadSection)
  BY <1>2, ReadSectionIs
<1>8. SectionStep(s, ReadSection) = ReadSection[WithLine(s, l)]
  BY <1>1, <1>2, <1>4, <1>6 DEF SectionStep
<1> QED
  BY <1>3, <1>7, <1>8 DEF s, a

(* A blank line ends a section.                                            *)
LEMMA SectionEndWritten ==
  ASSUME NEW s \in Section, NEW b \in Seq(Byte), s.at = CRLF \o b
  PROVE  ReadSection[s] = Ok(s, b)
<1>1. ReadLine(s.at) = Ok(<<>>, b)
  BY BlankWritten
<1>2. ReadSection[s] = SectionStep(s, ReadSection)
  BY ReadSectionIs
<1> QED
  BY <1>1, <1>2 DEF SectionStep, Ok

(* The lines of a header section, and what they are as bytes.              *)
HeaderLinesOf(fields) == [i \in 1..Len(fields) |-> HeaderLine(fields[i])]
LegibleFields(fields) ==
  /\ fields \in Seq(Field)
  /\ \A i \in 1..Len(fields) :
       HeaderLine(fields[i]) \in LinesOf(fields[i]) /\ OneLine(HeaderLine(fields[i]))

(* They are lines of the table, each one that of its field.                *)
LEMMA HeaderLinesAre ==
  ASSUME NEW fields, LegibleFields(fields)
  PROVE  LET lines == HeaderLinesOf(fields)
         IN  /\ lines \in Seq(Line) /\ Len(lines) = Len(fields)
             /\ \A i \in 1..Len(fields) :
                  /\ lines[i] = HeaderLine(fields[i])
                  /\ lines[i] \in Line /\ lines[i] # <<>> /\ OneLine(lines[i])
             /\ WellFormed(lines) /\ FieldsOf(lines) = fields
<1> DEFINE lines == HeaderLinesOf(fields)
<1>1. Len(fields) \in Nat /\ fields = [i \in 1..Len(fields) |-> fields[i]]
  BY LenProperties DEF LegibleFields
<1>2. \A i \in 1..Len(fields) :
        /\ HeaderLine(fields[i]) \in DOMAIN FieldLines
        /\ FieldLines[HeaderLine(fields[i])] = fields[i]
        /\ HeaderLine(fields[i]) \in Line /\ HeaderLine(fields[i]) # <<>>
        /\ OneLine(HeaderLine(fields[i]))
  BY TableAssumption DEF LegibleFields, LinesOf
<1>3. lines \in Seq(Line) /\ Len(lines) = Len(fields)
      /\ \A i \in 1..Len(fields) : lines[i] = HeaderLine(fields[i])
  <2>1. lines \in [1..Len(fields) -> Line]
    BY <1>2 DEF HeaderLinesOf
  <2>2. \A i \in 1..Len(fields) : lines[i] = HeaderLine(fields[i])
    BY DEF HeaderLinesOf
  <2> HIDE DEF lines
  <2>3. lines \in Seq(Line)
    BY <1>1, <2>1, SeqDef
  <2>4. Len(lines) = Len(fields)
    BY <1>1, <2>1, <2>3, LenProperties
  <2> QED
    BY <2>2, <2>3, <2>4
<1> HIDE DEF lines
<1>4. WellFormed(lines)
  BY <1>2, <1>3 DEF WellFormed
<1>5. FieldsOf(lines) = fields
  <2>1. FieldsOf(lines) = [i \in 1..Len(fields) |-> FieldLines[lines[i]]]
    BY <1>3 DEF FieldsOf
  <2>2. \A i \in 1..Len(fields) : FieldLines[lines[i]] = fields[i]
    BY <1>2, <1>3
  <2> QED
    BY <1>1, <2>1, <2>2
<1> QED
  BY <1>2, <1>3, <1>4, <1>5 DEF lines

(* What is taken grows by the next element.                                *)
LEMMA TakeGrows ==
  ASSUME NEW S, NEW b \in Seq(S), NEW k \in 1..Len(b)
  PROVE  Append(Take(b, k - 1), b[k]) = Take(b, k)
<1> DEFINE a == Take(b, k - 1)
           c == Take(b, k)
<1>1. Len(b) \in Nat /\ k - 1 \in 0..Len(b) /\ k \in 0..Len(b) /\ b[k] \in S
  BY LenProperties
<1>2. /\ a \in Seq(S) /\ Len(a) = k - 1 /\ c \in Seq(S) /\ Len(c) = k
  BY <1>1, TakeType
<1>3. (\A i \in 1..(k - 1) : a[i] = b[i]) /\ (\A i \in 1..k : c[i] = b[i])
  BY <1>1 DEF Take
<1> HIDE DEF a, c
<1>4. /\ Append(a, b[k]) \in Seq(S) /\ Len(Append(a, b[k])) = Len(a) + 1
      /\ \A i \in 1..Len(a) : Append(a, b[k])[i] = a[i]
      /\ Append(a, b[k])[Len(a) + 1] = b[k]
  BY <1>1, <1>2, AppendProperties
<1>5. ASSUME NEW i \in 1..k PROVE Append(a, b[k])[i] = c[i]
  <2>1. i \in 1..(k - 1) \/ i = k
    BY <1>1
  <2> QED
    BY <1>2, <1>3, <1>4, <2>1
<1>6. Len(Append(a, b[k])) = k
  BY <1>1, <1>2, <1>4
<1> QED
  BY <1>2, <1>4, <1>5, <1>6, SeqEqual DEF a, c

(* The place in a header section behind its first k lines, whole[k] bytes. *)
SectionBehind(lines, whole, k, b) == SectionAt(b, Take(lines, k), Len(whole[k]))

(* A section of written lines is read line by line up to its end.          *)
LEMMA SectionWritten ==
  ASSUME NEW fields, LegibleFields(fields), Len(HeaderLines(fields)) <= MaxHeaderBytes,
         NEW b \in Seq(Byte)
  PROVE  /\ HeaderLines(fields) \in Seq(Byte)
         /\ ReadSection[Opened(HeaderLines(fields) \o b, TRUE)] =
              ReadSection[SectionAt(b, HeaderLinesOf(fields), Len(HeaderLines(fields)))]
<1> DEFINE lines == HeaderLinesOf(fields)
           n == Len(fields)
           seqs == [i \in 1..n |-> HeaderLine(fields[i]) \o CRLF]
<1>1. /\ lines \in Seq(Line) /\ Len(lines) = n
      /\ \A i \in 1..n : /\ lines[i] = HeaderLine(fields[i])
                         /\ lines[i] \in Line /\ lines[i] # <<>> /\ OneLine(lines[i])
  BY HeaderLinesAre
<1>2. n \in Nat
  BY LenProperties DEF LegibleFields
<1>3. seqs \in Seq(Seq(Byte)) /\ Len(seqs) = n
      /\ \A i \in 1..n : seqs[i] = lines[i] \o CRLF
  <2>1. \A i \in 1..n : seqs[i] = lines[i] \o CRLF
    BY <1>1
  <2>2. \A i \in 1..n : lines[i] \o CRLF \in Seq(Byte)
    BY <1>1, LineEnd, ConcatProperties DEF Line
  <2>3. seqs \in [1..n -> Seq(Byte)]
    <3>1. \A i \in 1..n : HeaderLine(fields[i]) \o CRLF \in Seq(Byte)
      BY <1>1, <2>2
    <3> QED
      BY <3>1
  <2> HIDE DEF seqs
  <2>4. seqs \in Seq(Seq(Byte))
    BY <1>2, <2>3, SeqDef
  <2>5. Len(seqs) = n
    BY <1>2, <2>3, <2>4, LenProperties
  <2> QED
    BY <2>1, <2>4, <2>5
<1>4. PICK whole \in Flattening(seqs) : TRUE
  <2> HIDE DEF seqs
  <2> QED
    BY <1>3, FlattenParts
<1>5. HeaderLines(fields) = FlattenSeq(seqs)
  BY DEF HeaderLines
<1> HIDE DEF seqs, lines, n
<1>6. /\ whole \in [0..n -> Seq(Byte)] /\ whole[0] = <<>>
      /\ \A k \in 1..n : whole[k] = whole[k - 1] \o (lines[k] \o CRLF)
      /\ whole[n] = HeaderLines(fields)
  BY <1>3, <1>4, <1>5 DEF Flattening
<1>7. ASSUME NEW k \in 1..n
      PROVE  /\ k - 1 \in 0..n /\ k \in 0..n /\ k \in Nat
             /\ whole[k - 1] \in Seq(Byte) /\ whole[k] \in Seq(Byte)
             /\ lines[k] \in Line /\ Len(lines[k]) \in Nat /\ Len(whole[k - 1]) \in Nat
             /\ lines[k] \o CRLF \in Seq(Byte) /\ Len(whole[k]) \in Nat
             /\ Len(whole[k]) = Len(whole[k - 1]) + Len(lines[k]) + 2
  <2>1. k - 1 \in 0..n /\ k \in 0..n /\ k \in Nat
    BY <1>2
  <2>2. whole[k - 1] \in Seq(Byte) /\ whole[k] \in Seq(Byte) /\ lines[k] \in Line
    BY <1>1, <1>6, <2>1
  <2>3. lines[k] \in Seq(Byte) /\ Len(lines[k]) \in Nat /\ Len(whole[k - 1]) \in Nat
    BY <2>2, LenProperties DEF Line
  <2>4. lines[k] \o CRLF \in Seq(Byte) /\ Len(lines[k] \o CRLF) = Len(lines[k]) + 2
    <3>1. CRLF \in Seq(Byte) /\ Len(CRLF) = 2
      BY LineEnd
    <3>2. /\ lines[k] \o CRLF \in Seq(Byte)
          /\ Len(lines[k] \o CRLF) = Len(lines[k]) + Len(CRLF)
      BY <2>3, <3>1, BytesJoined, Zenon
    <3> QED
      BY <3>1, <3>2
  <2>5. Len(whole[k]) = Len(whole[k - 1]) + Len(lines[k] \o CRLF)
    <3>1. whole[k] = whole[k - 1] \o (lines[k] \o CRLF)
      BY <1>6
    <3> QED
      BY <2>2, <2>4, <3>1, BytesJoined
  <2>6. Len(whole[k]) \in Nat /\ Len(whole[k]) = Len(whole[k - 1]) + Len(lines[k]) + 2
    <3>1. Len(whole[k]) \in Nat
      BY <2>2, LenProperties
    <3>2. Len(whole[k - 1]) + Len(lines[k] \o CRLF) = Len(whole[k - 1]) + (Len(lines[k]) + 2)
      BY <2>4
    <3>3. \A y, v \in Nat : y + (v + 2) = y + v + 2
      OBVIOUS
    <3>4. Len(whole[k - 1]) + (Len(lines[k]) + 2) = Len(whole[k - 1]) + Len(lines[k]) + 2
      BY <2>3, <3>3
    <3>5. Len(whole[k]) = Len(whole[k - 1]) + Len(lines[k]) + 2
      BY <2>5, <3>2, <3>4, Zenon
    <3> QED
      BY <3>1, <3>5
  <2> QED
    BY <2>1, <2>2, <2>3, <2>4, <2>6
<1>8. \A k \in 0..n : Len(whole[k]) <= MaxHeaderBytes
  <2> DEFINE T == {j \in 0..n : ~(Len(whole[n - j]) <= MaxHeaderBytes)}
  <2>1. T = {}
    <3>1. SUFFICES ASSUME T # {} PROVE FALSE
      OBVIOUS
    <3>2. PICK j \in T : \A i \in T : j <= i
      <4>1. T \in SUBSET Nat
        OBVIOUS
      <4> HIDE DEF T
      <4> QED
        BY <3>1, <4>1, LeastElement
    <3>3. j \in 0..n /\ ~(Len(whole[n - j]) <= MaxHeaderBytes) /\ n - 0 = n
      BY <1>2
    <3>4. j # 0
      BY <1>6, <3>3
    <3>5. j - 1 \in 0..n /\ ~(j <= j - 1) /\ n - (j - 1) \in 1..n
          /\ n - (j - 1) - 1 = n - j
      BY <1>2, <3>3, <3>4
    <3>6. j - 1 \notin T
      BY <3>2, <3>5
    <3>7. Len(whole[n - (j - 1)]) <= MaxHeaderBytes
      BY <3>5, <3>6
    <3>8. /\ Len(whole[n - (j - 1)]) = Len(whole[n - j]) + Len(lines[n - (j - 1)]) + 2
          /\ Len(lines[n - (j - 1)]) \in Nat /\ Len(whole[n - j]) \in Nat
      BY <1>7, <3>5
    <3>9. \A x, y, z \in Nat : z = x + y + 2 /\ z <= MaxHeaderBytes => x <= MaxHeaderBytes
      BY LimitAssumption
    <3>10. Len(whole[n - (j - 1)]) \in Nat
      BY <1>7, <3>5
    <3> QED
      BY <3>3, <3>7, <3>8, <3>9, <3>10
  <2>2. ASSUME NEW k \in 0..n PROVE Len(whole[k]) <= MaxHeaderBytes
    <3>1. n - k \in 0..n /\ n - (n - k) = k
      BY <1>2
    <3>2. n - k \notin T
      BY <2>1
    <3> QED
      BY <3>1, <3>2
  <2> QED
    BY <2>2
<1> DEFINE Reads(k) ==
             \A c \in Seq(Byte) : ReadSection[Opened(whole[k] \o c, TRUE)] =
                                    ReadSection[SectionBehind(lines, whole, k, c)]
           T == {k \in 0..n : ~Reads(k)}
<1>9. Reads(0)
  <2>1. ASSUME NEW c \in Seq(Byte)
        PROVE  Opened(whole[0] \o c, TRUE) = SectionBehind(lines, whole, 0, c)
    <3>1. whole[0] \o c = c /\ Len(whole[0]) = 0
      BY <1>6, ConcatEmptySeq, EmptySeq
    <3>2. Take(lines, 0) = <<>>
      BY <1>1, TakeAndDrop
    <3> QED
      BY <3>1, <3>2 DEF Opened, SectionBehind, SectionAt
  <2> QED
    BY <2>1
<1>10. ASSUME NEW k \in 1..n, Reads(k - 1) PROVE Reads(k)
  <2>1. ASSUME NEW c \in Seq(Byte)
        PROVE  ReadSection[Opened(whole[k] \o c, TRUE)] =
                 ReadSection[SectionBehind(lines, whole, k, c)]
    <3> DEFINE d == (lines[k] \o CRLF) \o c
    <3>1. d \in Seq(Byte) /\ whole[k] \o c = whole[k - 1] \o d
      <4>1. whole[k] = whole[k - 1] \o (lines[k] \o CRLF)
        BY <1>6
      <4>2. (whole[k - 1] \o (lines[k] \o CRLF)) \o c = whole[k - 1] \o d
        <5> DEFINE u == whole[k - 1]
                   v == lines[k] \o CRLF
        <5>1. u \in Seq(Byte) /\ v \in Seq(Byte)
          BY <1>7
        <5> HIDE DEF u, v
        <5>2. (u \o v) \o c = u \o (v \o c)
          BY <5>1, BytesAssociative, SMTT(30)
        <5> QED
          BY <5>2 DEF u, v
      <4> QED
        BY <1>7, <4>1, <4>2, ConcatProperties
    <3>2. ReadSection[Opened(whole[k - 1] \o d, TRUE)] =
            ReadSection[SectionBehind(lines, whole, k - 1, d)]
      BY <1>10, <3>1
    <3>3. /\ Take(lines, k - 1) \in Seq(Line)
          /\ Append(Take(lines, k - 1), lines[k]) = Take(lines, k)
      <4>1. k - 1 \in 0..Len(lines) /\ k \in 0..Len(lines) /\ k \in 1..Len(lines)
        BY <1>1, <1>7
      <4>2. Take(lines, k - 1) \in Seq(Line)
        BY <1>1, <4>1, TakeType
      <4> QED
        BY <1>1, <4>1, <4>2, TakeGrows
    <3>4. /\ Len(whole[k]) = Len(whole[k - 1]) + Len(lines[k]) + 2
          /\ Len(whole[k]) <= MaxHeaderBytes
      BY <1>7, <1>8
    <3>5. ReadSection[SectionBehind(lines, whole, k - 1, d)] =
            ReadSection[SectionBehind(lines, whole, k, c)]
      <4>1. /\ lines[k] # <<>> /\ OneLine(lines[k]) /\ lines[k] \in Line
            /\ Len(whole[k - 1]) \in Nat
            /\ Len(whole[k - 1]) + Len(lines[k]) + 2 <= MaxHeaderBytes
        BY <1>1, <1>7, <3>4
      <4>2. ReadSection[SectionAt(d, Take(lines, k - 1), Len(whole[k - 1]))] =
              ReadSection[SectionAt(c, Append(Take(lines, k - 1), lines[k]),
                                    Len(whole[k - 1]) + Len(lines[k]) + 2)]
        BY <3>3, <4>1, SectionLineWritten
      <4> QED
        BY <3>3, <3>4, <4>2 DEF SectionBehind
    <3> QED
      BY <3>1, <3>2, <3>5
  <2> QED
    BY <2>1
<1> HIDE DEF Reads
<1>11. Reads(n)
  <2>1. SUFFICES ASSUME T # {} PROVE FALSE
    BY <1>2
  <2>2. PICK k \in T : \A i \in T : k <= i
    <3>1. T \in SUBSET Nat
      OBVIOUS
    <3> HIDE DEF T
    <3> QED
      BY <2>1, <3>1, LeastElement
  <2>3. k \in 0..n /\ ~Reads(k)
    OBVIOUS
  <2>4. k # 0
    BY <1>9, <2>3
  <2>5. k \in 1..n /\ k - 1 \in 0..n /\ ~(k <= k - 1)
    BY <1>2, <2>3, <2>4
  <2>6. k - 1 \notin T
    BY <2>2, <2>5
  <2> QED
    BY <1>10, <2>3, <2>5, <2>6
<1>12. Take(lines, n) = lines
  BY <1>1, TakeAndDrop
<1>13. n \in 0..n
  BY <1>2
<1>14. HeaderLines(fields) \in Seq(Byte)
  BY <1>6, <1>13
<1>15. ReadSection[Opened(whole[n] \o b, TRUE)] = ReadSection[SectionBehind(lines, whole, n, b)]
  BY <1>11 DEF Reads
<1> QED
  BY <1>6, <1>12, <1>14, <1>15 DEF SectionBehind, lines

(* The body that is encoded is read chunk by chunk: the last chunk ends it.*)
LEMMA LastChunkWritten ==
  ASSUME NEW c \in Chunks, OneLine(SizeLine[0]), c.at = (SizeLine[0] \o CRLF) \o CRLF
  PROVE  ReadChunks[c] = Ok(c.body, CRLF)
<1>1. SizeLine[0] \in DOMAIN SizeLines /\ SizeLines[SizeLine[0]] = 0
  BY SerializerAssumption
<1>2. SizeLine[0] \in Line
  BY <1>1, TableAssumption
<1>3. ReadLine(c.at) = Ok(SizeLine[0], CRLF)
  BY <1>2, LineEnd, LineWritten
<1>4. ReadChunks[c] = ChunkStep(c, ReadChunks)
  BY ReadChunksIs
<1> QED
  BY <1>1, <1>3, <1>4 DEF ChunkStep, Ok

(* One that is not empty is followed by what is read next.                 *)
LEMMA ChunkWritten ==
  ASSUME NEW body \in Seq(Byte), body # <<>>, Len(body) \in DOMAIN SizeLine,
         OneLine(SizeLine[Len(body)]), NEW b \in Seq(Byte), NEW c \in Chunks,
         c.at = (SizeLine[Len(body)] \o CRLF) \o (body \o (CRLF \o b))
  PROVE  ReadChunks[c] = ReadChunks[[at |-> b, body |-> c.body \o body]]
<1> DEFINE n == Len(body)
           rest == body \o (CRLF \o b)
           data == [c EXCEPT !.at = rest]
<1>1. SizeLine[n] \in DOMAIN SizeLines /\ SizeLines[SizeLine[n]] = n
  BY SerializerAssumption
<1>2. SizeLine[n] \in Line
  BY <1>1, TableAssumption
<1>3. n \in Nat /\ n # 0 /\ Len(b) \in Nat
  BY LenProperties, EmptySeq
<1>4. /\ CRLF \o b \in Seq(Byte) /\ Len(CRLF \o b) = 2 + Len(b)
      /\ rest \in Seq(Byte) /\ Len(rest) = n + 2 + Len(b)
      /\ Take(rest, n) = body /\ Drop(rest, n) = CRLF \o b
  <2>1. CRLF \o b \in Seq(Byte) /\ Len(CRLF \o b) = 2 + Len(b)
    BY LineEnd, BytesJoined
  <2>2. /\ rest \in Seq(Byte) /\ Len(rest) = n + Len(CRLF \o b)
        /\ Take(rest, n) = body /\ Drop(rest, n) = CRLF \o b
    BY <2>1, FrontCut
  <2> HIDE DEF rest, n
  <2> QED
    BY <1>3, <2>1, <2>2
<1>5. Drop(rest, n + 2) = b
  <2>1. body \o CRLF \in Seq(Byte) /\ Len(body \o CRLF) = n + 2
    <3>1. CRLF \in Seq(Byte) /\ Len(CRLF) = 2
      BY LineEnd
    <3>2. /\ body \o CRLF \in Seq(Byte)
          /\ Len(body \o CRLF) = Len(body) + Len(CRLF)
      BY <3>1, BytesJoined, Zenon
    <3> QED
      BY <3>1, <3>2
  <2>2. rest = (body \o CRLF) \o b
    BY LineEnd, BytesAssociative
  <2> QED
    BY <2>1, <2>2, FrontCut
<1>6. SubSeq(rest, n + 1, n + 2) = <<CR, LF>>
  <2>1. (CRLF \o b)[1] = CR /\ (CRLF \o b)[2] = LF
    <3>1. CRLF \in Seq(Byte)
      BY LineEnd
    <3>2. \A i \in 1..Len(CRLF) : (CRLF \o b)[i] = CRLF[i]
      BY <3>1, ByteAt
    <3>3. 1 \in 1..Len(CRLF) /\ 2 \in 1..Len(CRLF)
      BY LineEnd
    <3> QED
      BY <3>2, <3>3, LineEnd, Zenon
  <2>2. rest[n + 1] = CR /\ rest[n + 2] = LF
    <3>1. 1 \in 1..Len(CRLF \o b) /\ 2 \in 1..Len(CRLF \o b)
      BY <1>3, <1>4
    <3>2. \A i \in 1..Len(CRLF \o b) : rest[n + i] = (CRLF \o b)[i]
      BY <1>4, ByteAt
    <3> HIDE DEF rest, n
    <3> QED
      BY <2>1, <3>1, <3>2
  <2> HIDE DEF rest
  <2> DEFINE e == SubSeq(rest, n + 1, n + 2)
  <2>3. e \in Seq(Byte) /\ Len(e) = 2 /\ e[1] = rest[n + 1] /\ e[2] = rest[n + 2]
    <3> HIDE DEF n
    <3>1. n + 1 \in 1..(Len(rest) + 1) /\ n + 2 \in n..Len(rest)
          /\ n + 2 - (n + 1) + 1 = 2 /\ n + 1 + 1 - 1 = n + 1 /\ n + 1 + 2 - 1 = n + 2
      BY <1>3, <1>4
    <3>2. e \in Seq(Byte) /\ Len(e) = n + 2 - (n + 1) + 1
          /\ \A i \in 1..(n + 2 - (n + 1) + 1) : e[i] = rest[n + 1 + i - 1]
      BY <1>3, <1>4, <3>1, SubSeqProperties
    <3> HIDE DEF e
    <3> QED
      BY <3>1, <3>2
  <2>4. CRLF = <<CR, LF>>
    BY DEF CRLF
  <2> HIDE DEF e
  <2>5. e = CRLF
    <3>1. \A i \in 1..2 : e[i] = CRLF[i]
      <4>1. \A i \in 1..2 : i = 1 \/ i = 2
        OBVIOUS
      <4> QED
        BY <2>2, <2>3, <4>1, LineEnd
    <3> QED
      BY <2>3, <3>1, LineEnd, SeqEqual
  <2> QED
    BY <2>4, <2>5 DEF e
<1>7. data \in Chunks /\ data.at = rest /\ data.body = c.body
  <2> HIDE DEF rest
  <2> QED
    BY <1>4 DEF Chunks
<1>8. ReadLine(c.at) = Ok(SizeLine[n], rest)
  BY <1>2, <1>4, LineWritten
<1> HIDE DEF rest, data
<1>9. ChunkThere(n, data)
  BY <1>3, <1>4, <1>6, <1>7 DEF ChunkThere
<1>10. WithChunk(n, data) = [at |-> b, body |-> c.body \o body]
  BY <1>4, <1>5, <1>7 DEF WithChunk
<1>11. ReadChunks[c] = ChunkStep(c, ReadChunks)
  BY ReadChunksIs
<1>12. ChunkStep(c, ReadChunks) = ReadChunks[WithChunk(n, data)]
  <2>1. /\ Ok(SizeLine[n], rest).kind = "ok" /\ Ok(SizeLine[n], rest).value = SizeLine[n]
        /\ Ok(SizeLine[n], rest).at = rest
    BY DEF Ok
  <2> QED
    BY <1>1, <1>3, <1>8, <1>9, <2>1 DEF ChunkStep, data
<1> QED
  BY <1>10, <1>11, <1>12

(* The chunks encodeChunked() writes hold the body, and only that.         *)
LEMMA ChunksWritten ==
  ASSUME NEW body \in Seq(Byte), Len(body) \in DOMAIN SizeLine,
         OneLine(SizeLine[0]), OneLine(SizeLine[Len(body)])
  PROVE  /\ EncodeChunked(body) \in Seq(Byte)
         /\ ReadChunks[[at |-> EncodeChunked(body), body |-> <<>>]] = Ok(body, CRLF)
<1> DEFINE z == SizeLine[0]
           a == SizeLine[Len(body)]
           last == (z \o CRLF) \o CRLF
           d == [at |-> last, body |-> body]
           c == [at |-> EncodeChunked(body), body |-> <<>>]
<1>1. z \in Seq(Byte) /\ a \in Seq(Byte) /\ CRLF \in Seq(Byte) /\ <<>> \in Seq(Byte)
  BY SerializerAssumption, TableAssumption, LineEnd, EmptySeq DEF Line
<1>2. z \o CRLF \in Seq(Byte) /\ last \in Seq(Byte)
  BY <1>1, BytesJoined
<1>3. d \in Chunks /\ d.at = last /\ d.body = body
  BY <1>2 DEF Chunks
<1>4. ReadChunks[d] = Ok(body, CRLF)
  <2> HIDE DEF d
  <2> QED
    BY <1>3, LastChunkWritten
<1>5. CASE body = <<>>
  <2>1. EncodeChunked(body) = ((<<>> \o z) \o CRLF) \o CRLF
    BY <1>5 DEF EncodeChunked
  <2>2. <<>> \o z = z
    BY <1>1, ConcatEmptySeq
  <2> QED
    BY <1>2, <1>4, <1>5, <2>1, <2>2
<1>6. CASE body # <<>>
  <2> DEFINE x == ((a \o CRLF) \o body) \o CRLF
             rest == body \o (CRLF \o last)
  <2>1. EncodeChunked(body) = ((x \o z) \o CRLF) \o CRLF
    BY <1>6 DEF EncodeChunked
  <2>2. /\ a \o CRLF \in Seq(Byte) /\ (a \o CRLF) \o body \in Seq(Byte)
        /\ x \in Seq(Byte)
    BY <1>1, BytesJoined
  <2>3. CRLF \o last \in Seq(Byte) /\ rest \in Seq(Byte)
    BY <1>1, <1>2, BytesJoined
  <2>4. ((x \o z) \o CRLF) \o CRLF = x \o last
    <3> HIDE DEF x, z
    <3> QED
      BY <1>1, <2>2, EndAssociates
  <2>5. x \o last = (a \o CRLF) \o rest
    <3> DEFINE u == a \o CRLF
    <3>1. u \in Seq(Byte) /\ last \in Seq(Byte)
      BY <1>2, <2>2
    <3> HIDE DEF u, last
    <3>2. ((u \o body) \o CRLF) \o last = u \o (body \o (CRLF \o last))
      BY <3>1, MiddleAssociates
    <3> QED
      BY <3>2 DEF u
  <2>6. EncodeChunked(body) = (a \o CRLF) \o rest /\ EncodeChunked(body) \in Seq(Byte)
    <3>1. (a \o CRLF) \o rest \in Seq(Byte)
      BY <2>2, <2>3, BytesJoined
    <3> QED
      BY <2>1, <2>4, <2>5, <3>1
  <2>7. c \in Chunks /\ c.at = (a \o CRLF) \o rest /\ c.body = <<>>
    BY <1>1, <2>6 DEF Chunks
  <2>8. <<>> \o body = body
    BY ConcatEmptySeq
  <2> HIDE DEF c, last
  <2>9. ReadChunks[c] = ReadChunks[[at |-> last, body |-> c.body \o body]]
    BY <1>2, <1>6, <2>7, ChunkWritten
  <2>10. ReadChunks[c] = ReadChunks[d]
    BY <2>7, <2>8, <2>9
  <2> QED
    BY <1>4, <2>6, <2>10 DEF c
<1> QED
  BY <1>5, <1>6

(* What framing has been written for a message: chunks, or a length that   *)
(* is that of the body.                                                    *)
Counted(fields, body) ==
  /\ Named(fields, "transfer-encoding") = {}
  /\ First(fields, "content-length") # {}
  /\ \A i \in First(fields, "content-length") : fields[i].length = Len(body)

(* A length that is announced is the length of what is read.               *)
LEMMA CountedRead ==
  ASSUME NEW fields \in Seq(Field), NEW body \in Seq(Byte), NEW line,
         Counted(fields, body), BodyMode(fields) # "ERROR"
  PROVE  ReadBodyOf(line, fields, body) = Ok(Message1(line, fields, body, <<>>), <<>>)
<1>1. PICK i \in First(fields, "content-length") :
        i = CHOOSE k \in First(fields, "content-length") : TRUE
  BY DEF Counted
<1>2. i \in 1..Len(fields) /\ fields[i].length = Len(body) /\ Len(body) \in Nat
  BY LenProperties DEF First, Named, Counted
<1>3. BodyMode(fields) # "BODY_CHUNK_SIZE"
  BY DEF BodyMode, Counted
<1>4. Announced(fields) = Len(body)
  <2>1. CASE BodyMode(fields) = "BODY_LENGTH"
    BY <1>1, <1>2, <2>1 DEF Announced
  <2>2. CASE BodyMode(fields) # "BODY_LENGTH"
    <3>1. ~(fields[i].length > 0)
      BY <2>2 DEF BodyMode, Counted
    <3> QED
      BY <1>2, <2>2, <3>1 DEF Announced
  <2> QED
    BY <2>1, <2>2
<1>5. Take(body, Len(body)) = body /\ Drop(body, Len(body)) = <<>>
  BY TakeAndDrop
<1>6. ReadCounted(line, fields, body, Len(body)) = Ok(Message1(line, fields, body, <<>>), <<>>)
  BY <1>2, <1>5 DEF ReadCounted
<1> QED
  BY <1>3, <1>4, <1>6, ReadBodyOfIs

(* Chunks that are announced are read, and no trailers behind them.        *)
LEMMA ChunkedRead ==
  ASSUME NEW fields \in Seq(Field), NEW body \in Seq(Byte), NEW line,
         BodyMode(fields) = "BODY_CHUNK_SIZE", Len(body) \in DOMAIN SizeLine,
         OneLine(SizeLine[0]), OneLine(SizeLine[Len(body)])
  PROVE  ReadBodyOf(line, fields, EncodeChunked(body)) =
           Ok(Message1(line, fields, body, <<>>), <<>>)
<1> DEFINE s == Opened(CRLF, FALSE)
           t == Ok(s, <<>>)
<1>1. ReadChunks[[at |-> EncodeChunked(body), body |-> <<>>]] = Ok(body, CRLF)
  BY ChunksWritten
<1>2. ReadBodyOf(line, fields, EncodeChunked(body)) = AfterChunks(line, fields, Ok(body, CRLF))
  BY <1>1, ReadBodyOfIs
<1>3. AfterChunks(line, fields, Ok(body, CRLF)) =
        AfterTrailers(line, fields, body, ReadSection[s])
  BY DEF AfterChunks, Ok
<1>4. ReadSection[s] = t
  <2>1. s \in Section /\ s.at = CRLF
    BY LineEnd, EmptySeq DEF Opened, Section
  <2>2. <<>> \in Seq(Byte) /\ CRLF \o <<>> = CRLF
    BY LineEnd, EmptySeq, ConcatEmptySeq
  <2> HIDE DEF s
  <2> QED
    BY <2>1, <2>2, SectionEndWritten
<1>5. /\ t.kind = "ok" /\ t.at = <<>> /\ t.value.size = 0 /\ t.value.lines = <<>>
  BY DEF Ok, Opened
<1>6. WellFormed(<<>>) /\ FieldsOf(<<>>) = <<>>
  <2>1. Len(<<>>) = 0 /\ <<>> \in Seq(Line)
    BY EmptySeq
  <2>2. WellFormed(<<>>)
    BY <2>1 DEF WellFormed
  <2>3. FieldsOf(<<>>) \in Seq(Field) /\ Len(FieldsOf(<<>>)) = 0
    BY <2>1, <2>2, FieldsType
  <2> QED
    BY <2>2, <2>3, EmptySeq
<1> HIDE DEF t
<1>7. ~(t.value.size > MaxHeaderBytes)
  BY <1>5, LimitAssumption
<1>8. AfterTrailers(line, fields, body, t) = Ok(Message1(line, fields, body, <<>>), <<>>)
  BY <1>5, <1>6, <1>7 DEF AfterTrailers
<1> QED
  BY <1>2, <1>3, <1>4, <1>8

(* A field put behind others is named with them.                           *)
LEMMA NamedBehind ==
  ASSUME NEW fields \in Seq(Field), NEW f \in Field, NEW name
  PROVE  /\ Append(fields, f) \in Seq(Field)
         /\ Len(Append(fields, f)) = Len(fields) + 1
         /\ IsPrefix(fields, Append(fields, f))
         /\ Append(fields, f)[Len(fields) + 1] = f
         /\ Named(Append(fields, f), name) =
              Named(fields, name) \cup (IF f.name = name THEN {Len(fields) + 1} ELSE {})
<1> DEFINE n == Len(fields)
           a == Append(fields, f)
<1>1. n \in Nat
  BY LenProperties
<1>2. /\ a \in Seq(Field) /\ Len(a) = n + 1 /\ a[n + 1] = f
      /\ \A i \in 1..n : a[i] = fields[i]
  BY AppendProperties
<1> HIDE DEF a
<1>3. IsPrefix(fields, a)
  <2>1. n \in 0..Len(a) /\ Take(a, n) \in Seq(Field) /\ Len(Take(a, n)) = n
    BY <1>1, <1>2, TakeType
  <2>2. \A i \in 1..n : Take(a, n)[i] = a[i]
    BY <1>1, <1>2, <2>1 DEF Take
  <2>3. Take(a, n) = fields
    BY <1>2, <2>1, <2>2, SeqEqual
  <2>4. Take(fields, n) = fields
    BY TakeAndDrop
  <2> QED
    BY <1>1, <1>2, <2>3, <2>4 DEF IsPrefix, Take
<1>4. \A i \in 1..(n + 1) : i \in 1..n \/ i = n + 1
  BY <1>1
<1>5. n + 1 \in 1..(n + 1) /\ \A i \in 1..n : i \in 1..(n + 1)
  BY <1>1
<1>6. ASSUME NEW i
      PROVE  i \in Named(a, name) <=>
               i \in Named(fields, name) \/ (i = n + 1 /\ f.name = name)
  BY <1>2, <1>4, <1>5 DEF Named
<1>7. Named(a, name) = Named(fields, name) \cup (IF f.name = name THEN {n + 1} ELSE {})
  BY <1>6
<1> QED
  BY <1>2, <1>3, <1>7 DEF a

(* The bytes of a body.                                                    *)
BodyWritten(m, chunk) == IF chunk THEN EncodeChunked(m.body) ELSE m.body

(* Whatever framing is written for a message, its body is read by it.      *)
LEMMA FramingWritten ==
  ASSUME NEW m \in Message, NEW chunk \in BOOLEAN,
         Readable(m, chunk), Plain(m), ~Refuses(m, chunk)
  PROVE  LET fields == WithFraming(m, chunk)
         IN  /\ fields \in Seq(Field)
             /\ BodyWritten(m, chunk) \in Seq(Byte)
             /\ IsPrefix(m.headers, fields) /\ Len(fields) <= Len(m.headers) + 1
             /\ \A line : ReadBodyOf(line, fields, BodyWritten(m, chunk)) =
                            Ok(Message1(line, fields, m.body, <<>>), <<>>)
<1> DEFINE fields == WithFraming(m, chunk)
           headers == m.headers
           body == m.body
           n == Len(headers)
<1>1. headers \in Seq(Field) /\ body \in Seq(Byte) /\ n \in Nat
  BY LenProperties DEF Message
<1>2. /\ BodyMode(fields) # "ERROR"
      /\ Len(body) \in DOMAIN LengthField /\ Len(body) \in DOMAIN SizeLine
      /\ chunk => OneLine(SizeLine[0]) /\ OneLine(SizeLine[Len(body)])
  BY DEF Readable
<1>3. Named(headers, "transfer-encoding") = {}
      /\ \A i \in First(headers, "content-length") : headers[i].length = Len(body)
  BY DEF Plain
<1>4. CASE chunk
  <2>1. fields = Append(headers, Chunking) /\ BodyWritten(m, chunk) = EncodeChunked(body)
    BY <1>4 DEF WithFraming, BodyWritten
  <2>2. Chunking \in Field /\ Chunking.name = "transfer-encoding"
    BY DEF Chunking, Field
  <2>3. fields \in Seq(Field) /\ Len(fields) = n + 1 /\ IsPrefix(headers, fields)
    <3> HIDE DEF fields, headers
    <3> QED
      BY <1>1, <2>1, <2>2, NamedBehind
  <2>4. Named(fields, "transfer-encoding") # {}
    <3> HIDE DEF fields, headers
    <3>1. \A name : Named(fields, name) = Named(headers, name) \cup
                       (IF Chunking.name = name THEN {n + 1} ELSE {})
      BY <1>1, <2>1, <2>2, NamedBehind
    <3>2. n + 1 \in Named(fields, "transfer-encoding")
      BY <2>2, <3>1
    <3> QED
      BY <3>2
  <2>5. BodyMode(fields) = "BODY_CHUNK_SIZE"
    BY <1>2, <2>4 DEF BodyMode
  <2>6. EncodeChunked(body) \in Seq(Byte)
    BY <1>1, <1>2, <1>4, ChunksWritten
  <2> HIDE DEF fields, body
  <2>7. \A line : ReadBodyOf(line, fields, EncodeChunked(body)) =
                    Ok(Message1(line, fields, body, <<>>), <<>>)
    BY <1>1, <1>2, <1>4, <2>3, <2>5, ChunkedRead
  <2> QED
    BY <1>1, <2>1, <2>3, <2>6, <2>7 DEF fields, body
<1>5. ASSUME ~chunk, fields \in Seq(Field), IsPrefix(headers, fields),
             Len(fields) = n \/ Len(fields) = n + 1, Counted(fields, body)
      PROVE  /\ fields \in Seq(Field)
             /\ BodyWritten(m, chunk) \in Seq(Byte)
             /\ IsPrefix(m.headers, fields) /\ Len(fields) <= Len(m.headers) + 1
             /\ \A line : ReadBodyOf(line, fields, BodyWritten(m, chunk)) =
                            Ok(Message1(line, fields, m.body, <<>>), <<>>)
  <2>1. BodyWritten(m, chunk) = body
    BY <1>5 DEF BodyWritten
  <2> HIDE DEF fields, body
  <2>2. \A line : ReadBodyOf(line, fields, body) = Ok(Message1(line, fields, body, <<>>), <<>>)
    BY <1>1, <1>2, <1>5, CountedRead
  <2>3. Len(fields) <= n + 1
    BY <1>1, <1>5
  <2> QED
    BY <1>1, <1>5, <2>1, <2>2, <2>3 DEF body
<1>6. CASE ~chunk /\ SetsFraming(headers)
  <2>1. fields = headers
    BY <1>6 DEF WithFraming
  <2>2. Named(headers, "content-length") # {}
    BY <1>3, <1>6 DEF SetsFraming
  <2>3. Counted(headers, body)
    BY <1>1, <1>3, <2>2, FirstNamed DEF Counted
  <2>4. IsPrefix(headers, headers)
    BY <1>1 DEF IsPrefix
  <2> HIDE DEF fields, headers, body
  <2> QED
    BY <1>1, <1>5, <1>6, <2>1, <2>3, <2>4 DEF fields, headers, body
<1>7. CASE ~chunk /\ ~SetsFraming(headers)
  <2> DEFINE f == LengthField[Len(body)]
  <2>1. fields = Append(headers, f)
    BY <1>7 DEF WithFraming
  <2>2. f \in Field /\ f.name = "content-length" /\ f.length = Len(body)
    BY <1>2, SerializerAssumption
  <2>3. /\ Named(headers, "content-length") = {}
    BY <1>7 DEF SetsFraming
  <2> HIDE DEF fields, headers, body, f
  <2>4. fields \in Seq(Field) /\ Len(fields) = n + 1 /\ IsPrefix(headers, fields)
        /\ fields[n + 1] = f
    BY <1>1, <2>1, <2>2, NamedBehind
  <2>5. Named(fields, "transfer-encoding") = {}
    BY <1>1, <1>3, <2>1, <2>2, NamedBehind
  <2>6. Named(fields, "content-length") = {n + 1}
    BY <1>1, <2>1, <2>2, <2>3, NamedBehind
  <2>7. First(fields, "content-length") # {}
    BY <2>4, <2>6, FirstNamed
  <2>8. \A i \in First(fields, "content-length") : i = n + 1
    BY <2>6 DEF First
  <2>9. Counted(fields, body)
    BY <2>2, <2>4, <2>5, <2>7, <2>8 DEF Counted
  <2> QED
    BY <1>5, <1>7, <2>4, <2>9 DEF fields, headers, body
<1> QED
  BY <1>4, <1>6, <1>7

(* A message the parser can read of what is written of it.                 *)
Fits(m, chunk) == Readable(m, chunk) /\ Plain(m) /\ Ascii(m.startLine)
WhatIsRead(m, chunk) == Message1(m.startLine, WithFraming(m, chunk), m.body, <<>>)

(* A header section that is written is read, with what stands behind it.   *)
LEMMA HeadersWritten ==
  ASSUME NEW fields, LegibleFields(fields), Len(HeaderLines(fields)) <= MaxHeaderBytes,
         NEW b \in Seq(Byte), NEW line
  PROVE  /\ HeaderLines(fields) \in Seq(Byte)
         /\ AfterHeaders(line, ReadSection[Opened(HeaderLines(fields) \o (CRLF \o b), TRUE)]) =
              ReadBodyOf(line, fields, b)
<1> DEFINE d == CRLF \o b
           lines == HeaderLinesOf(fields)
           n == Len(HeaderLines(fields))
           s == SectionAt(d, lines, n)
<1>1. lines \in Seq(Line) /\ WellFormed(lines) /\ FieldsOf(lines) = fields
  BY HeaderLinesAre
<1>2. d \in Seq(Byte)
  BY LineEnd, BytesJoined
<1> HIDE DEF lines
<1>3. /\ HeaderLines(fields) \in Seq(Byte)
      /\ ReadSection[Opened(HeaderLines(fields) \o d, TRUE)] = ReadSection[s]
  <2> HIDE DEF d
  <2> QED
    BY <1>2, SectionWritten DEF lines
<1>4. n \in Nat
  BY <1>3, LenProperties
<1>5. s \in Section /\ s.at = d /\ s.lines = lines
  <2> HIDE DEF d, n
  <2> QED
    BY <1>1, <1>2, <1>4 DEF SectionAt, Section
<1> HIDE DEF s
<1>6. ReadSection[s] = Ok(s, b)
  BY <1>5, SectionEndWritten
<1>7. AfterHeaders(line, Ok(s, b)) = ReadBodyOf(line, fields, b)
  BY <1>1, <1>5 DEF AfterHeaders, Ok
<1> QED
  BY <1>3, <1>6, <1>7

(* The bytes that are written mean the message, with its framing, and      *)
(* nothing else.                                                           *)
LEMMA MeaningWritten ==
  ASSUME NEW m \in Message, NEW chunk \in BOOLEAN, Fits(m, chunk), ~Refuses(m, chunk)
  PROVE  /\ Serialized(m, chunk) \in Seq(Byte)
         /\ Meaning(Serialized(m, chunk)).status = 0
         /\ Meaning(Serialized(m, chunk)).messages = <<WhatIsRead(m, chunk)>>
<1> DEFINE line == m.startLine
           fields == WithFraming(m, chunk)
           top == line \o CRLF
           headers == HeaderLines(fields)
           body == BodyWritten(m, chunk)
           rest == headers \o (CRLF \o body)
           b == Serialized(m, chunk)
           r == WhatIsRead(m, chunk)
<1>1. /\ line \in DOMAIN StartLines /\ StartLines[line] = 200 /\ OneLine(line)
      /\ Len(headers) <= MaxHeaderBytes
      /\ \A i \in 1..Len(fields) :
           HeaderLine(fields[i]) \in LinesOf(fields[i]) /\ OneLine(HeaderLine(fields[i]))
  BY DEF Fits, Readable
<1>2. line \in Line /\ line # <<>>
  BY <1>1, TableAssumption
<1>3. /\ fields \in Seq(Field) /\ body \in Seq(Byte)
      /\ \A l : ReadBodyOf(l, fields, body) = Ok(Message1(l, fields, m.body, <<>>), <<>>)
  BY FramingWritten DEF Fits
<1>4. LegibleFields(fields)
  BY <1>1, <1>3 DEF LegibleFields
<1>5. r \in Message
  <2>1. m.body \in Seq(Byte) /\ <<>> \in Seq(Field)
    BY EmptySeq DEF Message
  <2> HIDE DEF fields
  <2> QED
    BY <1>2, <1>3, <2>1 DEF WhatIsRead, Message1, Message, fields
<1>6. b = ((top \o headers) \o CRLF) \o body
  BY DEF Serialized, BodyWritten, Fits, Ascii
<1> HIDE DEF fields, headers, body
<1>7. headers \in Seq(Byte)
      /\ AfterHeaders(line, ReadSection[Opened(rest, TRUE)]) = ReadBodyOf(line, fields, body)
  <2>1. /\ LegibleFields(fields) /\ Len(HeaderLines(fields)) <= MaxHeaderBytes
        /\ body \in Seq(Byte)
    BY <1>1, <1>3, <1>4 DEF headers
  <2>2. /\ HeaderLines(fields) \in Seq(Byte)
        /\ AfterHeaders(line,
                        ReadSection[Opened(HeaderLines(fields) \o (CRLF \o body), TRUE)]) =
             ReadBodyOf(line, fields, body)
    BY <2>1, HeadersWritten
  <2> QED
    BY <2>2 DEF headers
<1>8. top \in Seq(Byte) /\ rest \in Seq(Byte)
  BY <1>2, <1>3, <1>7, LineEnd, BytesJoined DEF Line
<1>9. b = top \o rest
  <2> HIDE DEF top
  <2> QED
    BY <1>3, <1>6, <1>7, <1>8, MiddleAssociates
<1> HIDE DEF b, rest
<1>10. b \in Seq(Byte) /\ ReadLine(b) = Ok(line, rest)
  BY <1>1, <1>2, <1>8, <1>9, LineWritten
<1>11. Unbroken(b) = b
  <2>1. line \in Seq(Byte) /\ Len(line) \in Nat /\ Len(line) # 0
    BY <1>2, LenProperties, EmptySeq DEF Line
  <2>2. Len(top) = Len(line) + 2 /\ Len(b) = Len(top) + Len(rest) /\ Len(rest) \in Nat
    <3>1. Len(top) = Len(line) + 2
      BY <2>1, LineEnd, BytesJoined
    <3>2. Len(rest) \in Nat
      BY <1>8, LenProperties
    <3>3. Len(b) = Len(top) + Len(rest)
      <4> HIDE DEF top
      <4> QED
        BY <1>8, <1>9, BytesJoined
    <3> QED
      BY <3>1, <3>2, <3>3
  <2>3. 1 \in 1..Len(line) /\ 1 \in 1..Len(top) /\ 0 \in 0..Len(b) /\ 0 # Len(b)
    BY <2>1, <2>2
  <2>4. top[1] = line[1]
    BY <2>1, <2>3, LineEnd, ByteAt
  <2>5. b[1] = top[1]
    <3> HIDE DEF top
    <3> QED
      BY <1>8, <1>9, <2>3, ByteAt
  <2>6. b[1] \notin {CR, LF}
    BY <1>1, <2>3, <2>4, <2>5 DEF OneLine
  <2>7. 0 \in LeadingBreaks(b)
    BY <2>3, <2>6 DEF LeadingBreaks
  <2>8. Unbroken(b) = Drop(b, 0) /\ Drop(b, 0) = b
    BY <1>10, <2>7, BreaksAre, TakeAndDrop
  <2> QED
    BY <2>8
<1>12. AfterStartLine(Ok(line, rest)) = Ok(r, <<>>)
  <2>1. AfterStartLine(Ok(line, rest)) = AfterHeaders(line, ReadSection[Opened(rest, TRUE)])
    BY <1>1 DEF AfterStartLine, Ok
  <2>2. r = Message1(line, fields, m.body, <<>>)
    BY DEF WhatIsRead, fields
  <2> QED
    BY <1>3, <1>7, <2>1, <2>2
<1>13. ReadMessage(b) = Ok(r, <<>>)
  BY <1>10, <1>11, <1>12 DEF ReadMessage
<1> HIDE DEF r
<1>14. <<>> \in Seq(Byte) /\ <<>> \in Seq(Message)
  BY EmptySeq
<1>15. Meaning(b) = Continued(<<>>, Ok(r, <<>>))
  BY <1>10, <1>13, <1>14, ReadsOn DEF Meaning
<1>16. Continued(<<>>, Ok(r, <<>>)) = Continued(Append(<<>>, r), More(<<>>))
  BY <1>5, <1>14, ReadsOn, NothingRead
<1>17. Append(<<>>, r) = <<r>>
  OBVIOUS
<1>18. /\ Continued(<<r>>, More(<<>>)).status = 0
       /\ Continued(<<r>>, More(<<>>)).messages = <<r>>
  BY DEF Continued, More
<1> QED
  BY <1>10, <1>15, <1>16, <1>17, <1>18 DEF b, r
-----------------------------------------------------------------------------
(* A new parser is about to answer.                                        *)
LEMMA NewOneShot == NewParser /\ outcome = "pending" => OneShotInv
<1>1. SUFFICES ASSUME NewParser, outcome = "pending" PROVE OneShotInv
  OBVIOUS
<1>2. ReaderInv /\ stateName = "START" /\ taken = <<>>
  BY <1>1, NewReader DEF NewParser
<1> QED
  BY <1>1, <1>2 DEF OneShotInv, Exact, Answered

(* A message that fits is on its way to the parser that is to answer it.   *)
Underway ==
  /\ OneShotInv /\ ~Refuses(original[1], chunked)
  /\ offered \o unsent = Serialized(original[1], chunked)
TripInv ==
  /\ original = <<>> => OneShotInv
  /\ original # <<>> =>
       /\ chunked \in BOOLEAN /\ \E m \in Message : original = <<m>>
       /\ outcome = "refused" \/ (Fits(original[1], chunked) => Underway)

(* The parser that answers is fed what it is to be fed.                    *)
LEMMA StepUnderway ==
  ASSUME Underway, [OneShotNext]_oneShotVars, UNCHANGED <<original, chunked>>
  PROVE  Underway'
<1>1. OneShotInv'
  BY StepOneShot DEF Underway
<1>2. offered' \o unsent' = offered \o unsent
  <2>1. unsent \in Seq(Byte) /\ <<>> \in Seq(Byte)
    BY EmptySeq DEF Underway, OneShotInv, ReaderInv, ParserInv, TypeOK
  <2>2. CASE FeedAll
    <3>1. /\ offered = <<>> /\ offered' = <<>> \o Take(unsent, Len(unsent))
          /\ unsent' = Drop(unsent, Len(unsent))
      BY <2>2 DEF FeedAll, Feed
    <3>2. Take(unsent, Len(unsent)) = unsent /\ Drop(unsent, Len(unsent)) = <<>>
      BY <2>1, TakeAndDrop
    <3>3. <<>> \o unsent = unsent /\ unsent \o <<>> = unsent
      BY <2>1, ConcatEmptySeq
    <3> QED
      BY <3>1, <3>2, <3>3
  <2>3. CASE ~FeedAll
    <3>1. UNCHANGED <<offered, unsent>>
      BY <2>3 DEF OneShotNext, Advance, environment, FeedFailed, FirstNext, SecondNext,
                  TakeNext, oneShotVars, vars
    <3> QED
      BY <3>1
  <2> QED
    BY <2>2, <2>3
<1>3. /\ Refuses(original[1], chunked)' = Refuses(original[1], chunked)
      /\ Serialized(original[1], chunked)' = Serialized(original[1], chunked)
  OBVIOUS
<1> QED
  BY <1>1, <1>2, <1>3 DEF Underway

(* Serializing makes a new parser.                                         *)
LEMMA StepSerialize ==
  ASSUME OneShotInv, NEW m \in Message, NEW chunk \in BOOLEAN, Serialize(m, chunk)
  PROVE  TripInv'
<1>1. original' = <<m>> /\ chunked' = chunk /\ original'[1] = m /\ original' # <<>>
  BY DEF Serialize
<1>2. ASSUME ~Refuses(m, chunk), Fits(m, chunk) PROVE Underway'
  <2>1. /\ outcome' = "pending" /\ unsent' = Serialized(m, chunk) /\ offered' = <<>>
        /\ buffer' = <<>> /\ stateName' = "START" /\ current' = EmptyProgress
        /\ ready' = <<>> /\ lastError' = 0 /\ peeked' = <<>> /\ call' = "idle"
        /\ taken' = <<>> /\ allowed' = allowed /\ resets' = resets
    BY <1>2 DEF Serialize
  <2>2. Serialized(m, chunk) \in Seq(Byte)
    BY <1>2, MeaningWritten
  <2>3. allowed \in Nat /\ resets \in Nat
    BY DEF OneShotInv, ReaderInv, ParserInv, TypeOK
  <2>4. NewParser' /\ outcome' = "pending"
    BY <2>1, <2>2, <2>3 DEF NewParser, EmptyProgress
  <2>5. (NewParser /\ outcome = "pending" => OneShotInv)'
    BY NewOneShot, PTL
  <2>6. <<>> \o Serialized(m, chunk) = Serialized(m, chunk)
    BY <2>2, ConcatEmptySeq
  <2> QED
    BY <1>1, <1>2, <2>1, <2>4, <2>5, <2>6 DEF Underway
<1>3. Refuses(m, chunk) => outcome' = "refused"
  BY DEF Serialize
<1> QED
  BY <1>1, <1>2, <1>3 DEF TripInv

(* Each step of a round trip keeps that.                                   *)
LEMMA StepTrip ==
  ASSUME TripInv, [RoundTripNext]_roundTripVars
  PROVE  TripInv'
<1>1. ASSUME [OneShotNext]_oneShotVars, UNCHANGED <<original, chunked>> PROVE TripInv'
  <2>1. CASE original = <<>>
    BY <1>1, <2>1, StepOneShot DEF TripInv
  <2>2. CASE original # <<>>
    <3>1. outcome = "refused" => outcome' = "refused"
      BY <1>1 DEF OneShotNext, FeedAll, FeedFailed, FirstNext, SecondNext, Returned, oneShotVars
    <3>2. Underway => Underway'
      BY <1>1, StepUnderway
    <3>3. Fits(original[1], chunked)' = Fits(original[1], chunked)
      BY <1>1
    <3> QED
      BY <1>1, <2>2, <3>1, <3>2, <3>3 DEF TripInv
  <2> QED
    BY <2>1, <2>2
<1>2. ASSUME NEW chunk \in BOOLEAN, SerializeParsed(chunk) PROVE TripInv'
  <2>1. OneShotInv /\ outcome = "message" /\ Serialize(taken[1], chunk)
    BY <1>2 DEF SerializeParsed, TripInv
  <2>2. taken \in Seq(Message) /\ Len(taken) = 1
    BY <2>1 DEF OneShotInv, Answered, ReaderInv, ParserInv, TypeOK
  <2>3. taken[1] \in Message
    BY <2>2, LenProperties
  <2> QED
    BY <2>1, <2>3, StepSerialize
<1>3. ASSUME NEW chunk \in BOOLEAN, NEW m \in HandMade, SerializeHandMade(m, chunk)
      PROVE  TripInv'
  <2>1. OneShotInv /\ Serialize(m, chunk) /\ m \in Message
    BY <1>3, SerializerAssumption DEF SerializeHandMade, TripInv
  <2> QED
    BY <2>1, StepSerialize
<1>4. UNCHANGED roundTripVars => [OneShotNext]_oneShotVars /\ UNCHANGED <<original, chunked>>
  BY DEF roundTripVars
<1> QED
  BY <1>1, <1>2, <1>3, <1>4 DEF RoundTripNext

(* What comes back is what was written.                                    *)
LEMMA TripEnds ==
  ASSUME TripInv, Readable(original[1], chunked)
  PROVE  RoundTrips
<1>1. SUFFICES ASSUME Back, Plain(original[1]), Ascii(original[1].startLine)
               PROVE  /\ Same(original[1])
                      /\ IsPrefix(original[1].headers, taken[1].headers)
                      /\ Len(taken[1].headers) <= Len(original[1].headers) + 1
                      /\ taken[1].trailers = <<>>
  BY DEF RoundTrips
<1>2. PICK m \in Message : original = <<m>>
  BY <1>1 DEF TripInv, Back
<1>3. original[1] = m
  BY <1>2
<1>4. Fits(m, chunked) /\ chunked \in BOOLEAN
  BY <1>1, <1>3 DEF Fits, TripInv, Back
<1>5. OneShotInv /\ ~Refuses(m, chunked) /\ offered \o unsent = Serialized(m, chunked)
  BY <1>1, <1>3, <1>4 DEF TripInv, Back, Underway
<1>6. unsent = <<>> /\ Answered /\ offered \in Seq(Byte)
  BY <1>1, <1>5 DEF OneShotInv, Back, ReaderInv, ParserInv, TypeOK
<1>7. offered = Serialized(m, chunked)
  BY <1>5, <1>6, ConcatEmptySeq
<1>8. Meaning(offered).status = 0 /\ Meaning(offered).messages = <<WhatIsRead(m, chunked)>>
  BY <1>4, <1>5, <1>7, MeaningWritten
<1>9. outcome = "message" /\ taken = <<WhatIsRead(m, chunked)>>
  <2>1. Len(<<WhatIsRead(m, chunked)>>) = 1
    OBVIOUS
  <2> QED
    BY <1>1, <1>6, <1>8, <2>1 DEF Answered, Back
<1>10. /\ taken[1].startLine = m.startLine /\ taken[1].headers = WithFraming(m, chunked)
       /\ taken[1].body = m.body /\ taken[1].trailers = <<>>
  BY <1>9 DEF WhatIsRead, Message1
<1>11. /\ IsPrefix(m.headers, WithFraming(m, chunked))
       /\ Len(WithFraming(m, chunked)) <= Len(m.headers) + 1
  BY <1>4, <1>5, FramingWritten DEF Fits
<1> QED
  BY <1>3, <1>9, <1>10, <1>11 DEF Same

(* "Serializing has to mirror parsing" (serializer.ts:14): whatever the    *)
(* message, parsed or written by hand, whatever the limits and the tables, *)
(* a message that the parser can read comes back with its start line, its  *)
(* body and its headers, and at most the framing header added.             *)
THEOREM SerializerMirrors ==
  RoundTripSpec => [](Readable(original[1], chunked) => RoundTrips)
<1>1. RoundTripInit => TripInv
  <2>1. SUFFICES ASSUME RoundTripInit PROVE TripInv
    OBVIOUS
  <2>2. OneShotInv
    BY <2>1, InitNew, NewOneShot DEF RoundTripInit, OneShotInit
  <2> QED
    BY <2>1, <2>2 DEF RoundTripInit, TripInv
<1>2. TripInv /\ [RoundTripNext]_roundTripVars => TripInv'
  BY StepTrip
<1>3. TripInv => (Readable(original[1], chunked) => RoundTrips)
  BY TripEnds
<1> QED
  BY <1>1, <1>2, <1>3, PTL DEF RoundTripSpec
=============================================================================
