----------------------- MODULE RequestHandlingProofs -----------------------
(***************************************************************************)
(* Theorems about RequestHandling for every application and request, every *)
(* file system and every way it changes.                                   *)
(***************************************************************************)
EXTENDS RequestHandling, FiniteSetTheorems, WellFoundedInduction, TLAPS

(* Every nonempty set of natural numbers has a least element: the first    *)
(* match that indexOf() and the scanning loops of the code stop at.        *)
LEMMA LeastElement ==
  ASSUME NEW T \in SUBSET Nat, T # {}
  PROVE  \E m \in T : \A n \in T : m <= n
<1> DEFINE R == {ss \in Nat \X Nat : ss[1] < ss[2]}
<1>1. IsWellFoundedOn(R, Nat)
  BY NatLessThanWellFounded DEF OpToRel
<1> HIDE DEF R
<1>2. PICK m \in T : \A n \in T : ~(<<n, m>> \in R)
  BY <1>1, WFMin
<1>3. \A n \in T : ~(n < m)
  BY <1>2 DEF R
<1> QED
  BY <1>3

(* A nonempty set of natural numbers up to a bound has a greatest element: *)
(* the last match of a scan from the end.                                  *)
LEMMA GreatestElement ==
  ASSUME NEW T \in SUBSET Nat, T # {}, NEW b \in Nat, \A n \in T : n <= b
  PROVE  \E m \in T : \A n \in T : n <= m
<1> DEFINE U == {i \in Nat : b - i \in T}
<1>1. U \in SUBSET Nat /\ U # {}
  <2>1. PICK n \in T : TRUE
    OBVIOUS
  <2>2. b - n \in Nat /\ b - (b - n) = n
    OBVIOUS
  <2> QED
    BY <2>1, <2>2
<1>2. PICK i \in U : \A j \in U : i <= j
  <2> HIDE DEF U
  <2> QED
    BY <1>1, LeastElement
<1>3. \A n \in T : b - n \in U /\ n <= b
  OBVIOUS
<1>4. \A n \in T : n <= b - i
  BY <1>2, <1>3
<1> QED
  BY <1>2, <1>4

Below(S, i) == {j \in S : j < i}

(* The members of a set below one of its members.                          *)
LEMMA BelowMembers ==
  ASSUME NEW S \in SUBSET Nat, NEW i \in S
  PROVE  /\ i \in Nat
         /\ \A j \in Below(S, i) : j \in S /\ j \in Nat /\ j < i
         /\ \A j \in S : j < i => j \in Below(S, i)
BY DEF Below

(* A finite set of numbers has one member more up to a member than below   *)
(* it.                                                                     *)
LEMMA BelowSize ==
  ASSUME NEW S \in SUBSET Nat, IsFiniteSet(S), NEW i \in S
  PROVE  /\ IsFiniteSet(Below(S, i)) /\ Cardinality(Below(S, i)) \in Nat
         /\ IsFiniteSet(Below(S, i) \cup {i})
         /\ Cardinality(Below(S, i) \cup {i}) = Cardinality(Below(S, i)) + 1
<1>1. Below(S, i) \subseteq S
  BY DEF Below
<1>2. i \notin Below(S, i)
  <2>1. i \in Nat /\ ~(i < i)
    OBVIOUS
  <2> QED
    BY <2>1, BelowMembers
<1>3. IsFiniteSet(Below(S, i))
  BY <1>1, FS_Subset
<1> QED
  BY <1>2, <1>3, FS_CardinalityType, FS_AddElement

(* In a finite set of numbers, every rank below its size is taken.         *)
LEMMA RankTaken ==
  ASSUME NEW S \in SUBSET Nat, IsFiniteSet(S), NEW n \in Nat, n < Cardinality(S)
  PROVE  \E i \in S : Cardinality(Below(S, i)) = n
<1> DEFINE Free == {k \in Nat : /\ k < Cardinality(S)
                                /\ \A i \in S : Cardinality(Below(S, i)) # k}
<1>1. SUFFICES ASSUME Free # {} PROVE FALSE
  OBVIOUS
<1>2. PICK m \in Free : \A k \in Free : m <= k
  <2>1. Free \in SUBSET Nat
    OBVIOUS
  <2> HIDE DEF Free
  <2> QED
    BY <1>1, <2>1, LeastElement
<1>3. Cardinality(S) \in Nat
  BY FS_CardinalityType
<1>5. CASE m = 0
  <2>1. S # {}
    BY <1>2, <1>5, FS_EmptySet
  <2>2. PICK i \in S : \A j \in S : i <= j
    BY <2>1, LeastElement
  <2>3. ASSUME NEW j \in Below(S, i) PROVE FALSE
    <3>1. i \in Nat /\ j \in Nat /\ j < i /\ i <= j
      BY <2>2, BelowMembers
    <3> QED
      BY <3>1
  <2>4. Below(S, i) = {}
    BY <2>3
  <2> QED
    BY <1>2, <1>5, <2>4, FS_EmptySet
<1>6. CASE m # 0
  <2>1. m - 1 \in Nat /\ m - 1 < Cardinality(S) /\ m - 1 \notin Free
    BY <1>2, <1>3, <1>6
  <2>2. PICK i \in S : Cardinality(Below(S, i)) = m - 1
    BY <2>1
  <2> DEFINE Up == {j \in S : i < j}
             Upto == Below(S, i) \cup {i}
  <2>3. Cardinality(Upto) = m
    <3>1. Cardinality(Upto) = m - 1 + 1
      BY <2>2, BelowSize
    <3> QED
      BY <1>2, <3>1
  <2>4. \A j \in S : j \in Up \/ j \in Upto
    <3>1. SUFFICES ASSUME NEW j \in S PROVE j \in Up \/ j \in Upto
      OBVIOUS
    <3>2. i < j \/ j = i \/ j < i
      OBVIOUS
    <3> QED
      BY <3>2, BelowMembers
  <2>5. Up # {}
    <3>1. SUFFICES ASSUME Up = {} PROVE FALSE
      OBVIOUS
    <3>2. Upto \subseteq S
      BY DEF Below
    <3>3. S = Upto
      BY <2>4, <3>1, <3>2, Zenon
    <3> QED
      BY <1>2, <2>3, <3>3
  <2>6. PICK u \in Up : \A j \in Up : u <= j
    <3>1. Up \in SUBSET Nat
      OBVIOUS
    <3> HIDE DEF Up
    <3> QED
      BY <2>5, <3>1, LeastElement
  <2>7. u \in S /\ i < u /\ u \in Nat /\ i \in Nat
    BY <2>6
  <2>8. ASSUME NEW j \in Below(S, u) PROVE j \in Upto
    <3>1. j \in S /\ j \in Nat /\ j < u
      BY <2>7, BelowMembers
    <3>2. j \notin Up
      BY <2>6, <2>7, <3>1
    <3> QED
      BY <2>4, <3>1, <3>2
  <2>9. ASSUME NEW j \in Upto PROVE j \in Below(S, u)
    <3>1. j = i \/ (j \in S /\ j \in Nat /\ j < i)
      BY BelowMembers
    <3>2. j \in S /\ j < u
      BY <2>7, <3>1
    <3> QED
      BY <2>7, <3>2, BelowMembers
  <2>10. Below(S, u) = Upto
    BY <2>8, <2>9, Zenon
  <2> QED
    BY <1>2, <2>3, <2>7, <2>10
<1> QED
  BY <1>5, <1>6

(* A member of a finite set of numbers has a rank below the set's size,    *)
(* and the ranks of its members are in their order.                        *)
LEMMA RankOrder ==
  ASSUME NEW S \in SUBSET Nat, IsFiniteSet(S), NEW i \in S
  PROVE  /\ Cardinality(S) \in Nat
         /\ Cardinality(Below(S, i)) \in Nat
         /\ Cardinality(Below(S, i)) < Cardinality(S)
         /\ \A j \in S : j < i => Cardinality(Below(S, j)) < Cardinality(Below(S, i))
<1> DEFINE Rank(j) == Cardinality(Below(S, j))
<1>1. \A j \in S : /\ Rank(j) \in Nat
                   /\ Cardinality(Below(S, j) \cup {j}) = Rank(j) + 1
  BY BelowSize
<1>2. Cardinality(S) \in Nat
  BY FS_CardinalityType
<1>3. Rank(i) < Cardinality(S)
  <2>1. Below(S, i) \cup {i} \subseteq S
    BY DEF Below
  <2>2. Cardinality(Below(S, i) \cup {i}) <= Cardinality(S)
    BY <2>1, FS_Subset
  <2> QED
    BY <1>1, <1>2, <2>2
<1>4. ASSUME NEW j \in S, j < i
      PROVE  Rank(j) < Rank(i)
  <2>1. ASSUME NEW k \in Below(S, j) \cup {j} PROVE k \in Below(S, i)
    <3>1. i \in Nat /\ j \in Nat /\ (k = j \/ (k \in S /\ k \in Nat /\ k < j))
      BY BelowMembers
    <3>2. k \in S /\ k < i
      BY <1>4, <3>1
    <3> QED
      BY <3>2, BelowMembers
  <2>2. Below(S, j) \cup {j} \subseteq Below(S, i)
    BY <2>1
  <2>3. Cardinality(Below(S, j) \cup {j}) <= Cardinality(Below(S, i))
    BY <2>2, BelowSize, FS_Subset
  <2>4. Rank(j) \in Nat /\ Rank(i) \in Nat /\ Rank(j) + 1 <= Rank(i)
    BY <1>1, <2>3
  <2> HIDE DEF Rank
  <2> QED
    BY <2>4
<1> QED
  BY <1>1, <1>2, <1>3, <1>4
-----------------------------------------------------------------------------

IsBuilder(b) ==
  /\ b = [status |-> b.status, types |-> b.types, length |-> b.length, sent |-> b.sent]
  /\ b.sent \in BOOLEAN

(* The inductive invariant: the builder is marked sent exactly when the    *)
(* response has gone, an error is reported last, and the chain is pending  *)
(* as long as a handler is due.                                            *)
HandlingInv ==
  /\ IsBuilder(res)
  /\ responses = IF res.sent THEN <<responses[1]>> ELSE <<>>
  /\ turn \in {"receive", "dispatch", "call", "stat", "read"} => outcome = "pending"
  /\ turn = "settled" => outcome \in {"resolved", "rejected"}
  /\ turn # "done" /\ res.sent => responses[1].by # "error"
  /\ turn = "done" =>
       /\ res.sent
       /\ responses[1].by = "error" =>
            responses[1].status = IF outcome = "resolved" THEN 404 ELSE ErrorStatus

(* Setting one field of a builder leaves the others.                       *)
LEMMA Updates ==
  ASSUME NEW b, IsBuilder(b), NEW v
  PROVE  /\ IsBuilder([b EXCEPT !.status = v]) /\ [b EXCEPT !.status = v].status = v
         /\ [b EXCEPT !.status = v].types = b.types
         /\ IsBuilder([b EXCEPT !.types = v]) /\ [b EXCEPT !.types = v].status = b.status
         /\ IsBuilder([b EXCEPT !.length = v])
         /\ [b EXCEPT !.types = v].sent = b.sent
         /\ IsBuilder([b EXCEPT !.sent = TRUE]) /\ [b EXCEPT !.sent = TRUE].sent
<1> DEFINE Make(status, types, length, sent) ==
             [status |-> status, types |-> types, length |-> length, sent |-> sent]
<1>1. b = Make(b.status, b.types, b.length, b.sent) /\ b.sent \in BOOLEAN
  BY DEF IsBuilder
<1>2. /\ [b EXCEPT !.status = v] = Make(v, b.types, b.length, b.sent)
      /\ [b EXCEPT !.types = v] = Make(b.status, v, b.length, b.sent)
      /\ [b EXCEPT !.length = v] = Make(b.status, b.types, v, b.sent)
      /\ [b EXCEPT !.sent = TRUE] = Make(b.status, b.types, b.length, TRUE)
  <2>1. b \in [status : {b.status, v}, types : {b.types, v}, length : {b.length, v},
                sent : BOOLEAN]
    BY <1>1
  <2>2. [b EXCEPT !.status = v] = Make(v, b.types, b.length, b.sent)
    BY <2>1
  <2>3. [b EXCEPT !.types = v] = Make(b.status, v, b.length, b.sent)
    BY <2>1
  <2>4. [b EXCEPT !.length = v] = Make(b.status, b.types, v, b.sent)
    BY <2>1
  <2>5. [b EXCEPT !.sent = TRUE] = Make(b.status, b.types, b.length, TRUE)
    <3>1. ASSUME NEW w PROVE [b EXCEPT !.sent = w] = Make(b.status, b.types, b.length, w)
      <4>1. b \in [status : {b.status, v}, types : {b.types, v}, length : {b.length, v},
                    sent : {b.sent, w}]
        BY <1>1
      <4> QED
        BY <4>1
    <3> QED
      BY <3>1
  <2> QED
    BY <2>2, <2>3, <2>4, <2>5
<1> QED
  BY <1>1, <1>2 DEF IsBuilder

(* The builders that are sent are builders, with the status set last.      *)
LEMMA Builders ==
  ASSUME HandlingInv, NEW status, NEW type
  PROVE  /\ IsBuilder(Ensured(res, type)) /\ IsBuilder(WithType(type))
         /\ \A n : IsBuilder([WithType(type) EXCEPT !.length = n])
         /\ WithType(type).sent = res.sent
         /\ IsBuilder(Ensured(WithStatus(status), type))
         /\ Ensured(WithStatus(status), type).status = status
<1>1. IsBuilder(res)
  BY DEF HandlingInv
<1>2. IsBuilder(Ensured(res, type))
  BY <1>1, Updates DEF Ensured
<1>3. IsBuilder(WithType(type)) /\ WithType(type).sent = res.sent
  BY <1>1, Updates DEF WithType
<1>4. \A n : IsBuilder([WithType(type) EXCEPT !.length = n])
  BY <1>3, Updates
<1>5. IsBuilder(WithStatus(status)) /\ WithStatus(status).status = status
  BY <1>1, Updates DEF WithStatus
<1>6. /\ IsBuilder(Ensured(WithStatus(status), type))
      /\ Ensured(WithStatus(status), type).status = status
  BY <1>5, Updates DEF Ensured
<1> QED
  BY <1>2, <1>3, <1>4, <1>6

(* Flush() sends the one response of its builder.                          *)
LEMMA FlushSends ==
  ASSUME HandlingInv, NEW by, NEW builder, NEW content, IsBuilder(builder),
         Flush(by, builder, content)
  PROVE  /\ ~res.sent /\ IsBuilder(res') /\ res'.sent
         /\ responses' = <<responses'[1]>>
         /\ responses'[1].by = by /\ responses'[1].status = builder.status
<1>1. responses = <<>> /\ ~res.sent
  BY DEF HandlingInv, Flush
<1>2. responses' = <<Written(by, builder, content)>>
  BY <1>1 DEF Flush
<1>3. IsBuilder(res') /\ res'.sent
  BY Updates DEF Flush
<1> QED
  BY <1>1, <1>2, <1>3 DEF Written

(* What a handler does to the response: nothing, it sets a field, or it    *)
(* sends it; and to the chain: it goes on, waits, or settles it.           *)
HandlerSends ==
  \/ NoFlush
  \/ ~res.sent /\ ~res'.sent /\ IsBuilder(res') /\ UNCHANGED responses
  \/ /\ ~res.sent /\ IsBuilder(res') /\ res'.sent
     /\ responses' = <<responses'[1]>> /\ responses'[1].by # "error"
HandlerLeaves ==
  /\ UNCHANGED started
  /\ \/ turn' \in {"dispatch", "stat", "read"} /\ UNCHANGED outcome
     \/ turn' = "settled" /\ outcome' \in {"resolved", "rejected"}

(* A handler that calls next(), returns or throws is left.                 *)
LEMMA Leaving ==
  /\ CallNext => HandlerLeaves
  /\ Stop => HandlerLeaves
  /\ \A status : Reject(status) => HandlerLeaves
BY DEF CallNext, Stop, Reject, HandlerLeaves

(* A response that a handler sends, with a builder of its own making.      *)
LEMMA Sending ==
  ASSUME HandlingInv, NEW by, by # "error", NEW builder, NEW content, IsBuilder(builder),
         Flush(by, builder, content)
  PROVE  HandlerSends
BY FlushSends DEF HandlerSends

(* Whatever a handler is, a call of it sends at most one response.         *)
LEMMA CallStep ==
  ASSUME HandlingInv, Call
  PROVE  HandlerSends /\ HandlerLeaves
<1> DEFINE h == chain[started]
<1>1. CASE Json(h) \/ Urlencoded(h)
  BY <1>1, Leaving DEF Json, Urlencoded, ParseBody, HandlerSends
<1>2. CASE StaticFiles(h)
  <2>1. HandlerSends
    BY <1>2 DEF StaticFiles, HandlerSends
  <2>2. CASE turn' = "stat" /\ UNCHANGED <<started, outcome, error>>
    BY <2>1, <2>2 DEF HandlerLeaves
  <2>3. CASE CallNext \/ Reject(400)
    BY <2>1, <2>3, Leaving
  <2> QED
    BY <1>2, <2>2, <2>3 DEF StaticFiles
<1>3. CASE Own(h)
  <2>1. CASE (h.kind \in {"pass"} /\ NoFlush /\ CallNext) \/ (h.kind \in {"silent"} /\ NoFlush /\ Stop)
             \/ (h.kind \in {"throws"} /\ NoFlush /\ Reject(0)) \/ TooLate
    BY <2>1, Leaving DEF TooLate, HandlerSends
  <2>2. CASE ~res.sent /\ res' = WithType("own") /\ UNCHANGED responses /\ CallNext
    BY <2>2, Builders, Leaving DEF HandlerSends
  <2>3. CASE Flush("handler", Ensured(WithStatus(403), "json"), <<"no">>) /\ Stop
    <3>1. IsBuilder(Ensured(WithStatus(403), "json"))
      <4>1. ASSUME NEW status PROVE IsBuilder(Ensured(WithStatus(status), "json"))
        BY Builders
      <4> QED
        BY <4>1, Zenon
    <3> QED
      BY <2>3, <3>1, Leaving, Sending
  <2>4. CASE Flush("handler", Ensured(res, "text"), <<"hello">>) /\ CallNext
    <3>1. IsBuilder(Ensured(res, "text"))
      BY Builders
    <3> QED
      BY <2>4, <3>1, Leaving, Sending
  <2>5. CASE Flush("handler", Ensured(res, "json"), <<"echo">>) /\ Stop
    <3>1. IsBuilder(Ensured(res, "json"))
      BY Builders
    <3> QED
      BY <2>5, <3>1, Leaving, Sending
  <2> QED
    BY <1>3, <2>1, <2>2, <2>3, <2>4, <2>5 DEF Own
<1> QED
  BY <1>1, <1>2, <1>3 DEF Call

(* Reading a file ends like a handler, too.                                *)
LEMMA ReadFileStep ==
  ASSUME HandlingInv, ReadFile
  PROVE  HandlerSends /\ HandlerLeaves
<1>1. CASE SendFile(Found.content) /\ Stop
  <2>1. HandlerSends
    BY <1>1, Builders, Sending DEF SendFile
  <2> QED
    BY <1>1, <2>1, Leaving
<1>2. CASE (NoFlush /\ CallNext) \/ (NoFlush /\ Reject(0)) \/ TooLate
  BY <1>2, Leaving DEF TooLate, HandlerSends
<1> QED
  BY <1>1, <1>2 DEF ReadFile

(* A handler keeps the invariant.                                          *)
LEMMA HandlerKeeps ==
  ASSUME HandlingInv, turn \in {"call", "stat", "read"}, HandlerSends, HandlerLeaves
  PROVE  HandlingInv'
<1>1. IsBuilder(res') /\ responses' = IF res'.sent THEN <<responses'[1]>> ELSE <<>>
  BY DEF HandlingInv, HandlerSends, NoFlush
<1>2. res'.sent => responses'[1].by # "error"
  BY DEF HandlingInv, HandlerSends, NoFlush
<1>3. turn' \in {"dispatch", "stat", "read"} => outcome' = "pending"
  BY DEF HandlingInv, HandlerLeaves
<1>4. turn' = "settled" => outcome' \in {"resolved", "rejected"}
  BY DEF HandlingInv, HandlerLeaves
<1>5. turn' \in {"dispatch", "stat", "read", "settled"}
  BY DEF HandlerLeaves
<1> QED
  BY <1>1, <1>2, <1>3, <1>4, <1>5 DEF HandlingInv, IsBuilder

(* A request that has not come yet.                                        *)
LEMMA InitInv == Init => HandlingInv
BY DEF Init, HandlingInv, IsBuilder

(* Every step of a request keeps what AnswersOnce rests on.                *)
LEMMA NextInv == HandlingInv /\ [Next]_vars => HandlingInv'
<1> SUFFICES ASSUME HandlingInv, [Next]_vars PROVE HandlingInv'
  OBVIOUS
<1>1. CASE UNCHANGED vars
  BY <1>1 DEF vars, HandlingInv, IsBuilder, ErrorStatus
<1>2. CASE Receive
  <2>1. CASE req.status = 200
    BY <1>2, <2>1 DEF Receive, HandlingInv, NoFlush, IsBuilder
  <2>2. CASE req.status # 200
    <3>1. Flush("parser", Ensured(WithStatus(req.status), "json"), <<"error">>) /\ turn' = "done"
      BY <1>2, <2>2 DEF Receive
    <3>2. /\ IsBuilder(res') /\ res'.sent /\ responses' = <<responses'[1]>>
          /\ responses'[1].by = "parser"
      <4>1. IsBuilder(Ensured(WithStatus(req.status), "json"))
        BY Builders
      <4> QED
        BY <3>1, <4>1, FlushSends
    <3> QED
      BY <3>1, <3>2 DEF HandlingInv, IsBuilder
  <2> QED
    BY <2>1, <2>2
<1>3. CASE Dispatch
  BY <1>3 DEF Dispatch, Stop, HandlingInv, IsBuilder
<1>4. CASE Call
  BY <1>4, CallStep, HandlerKeeps DEF Call
<1>5. CASE Stat
  <2>1. HandlerLeaves /\ HandlerSends /\ turn \in {"call", "stat", "read"}
    BY <1>5, Leaving DEF Stat, HandlerLeaves, HandlerSends, NoFlush
  <2> QED
    BY <2>1, HandlerKeeps
<1>6. CASE ReadFile
  BY <1>6, ReadFileStep, HandlerKeeps DEF ReadFile
<1>7. CASE Finish
  <2>1. /\ turn = "settled" /\ turn' = "done" /\ HandleOutcome
        /\ outcome \in {"resolved", "rejected"} /\ UNCHANGED <<outcome, error>>
    BY <1>7 DEF Finish, HandlingInv
  <2>2. CASE res.sent /\ NoFlush
    BY <2>1, <2>2 DEF HandlingInv, NoFlush, IsBuilder
  <2>3. ASSUME NEW status, Report(status),
               status = IF outcome = "resolved" THEN 404 ELSE ErrorStatus
        PROVE  HandlingInv'
    <3>1. /\ IsBuilder(res') /\ res'.sent /\ responses' = <<responses'[1]>>
          /\ responses'[1].status = status
      <4> DEFINE builder == Ensured(WithStatus(status), "json")
      <4>1. IsBuilder(builder) /\ builder.status = status
        BY Builders
      <4>2. Flush("error", builder, <<"error">>)
        BY <2>3 DEF Report
      <4> QED
        BY <4>1, <4>2, FlushSends
    <3>2. ErrorStatus' = ErrorStatus
      BY <2>1 DEF ErrorStatus
    <3> QED
      BY <2>1, <2>3, <3>1, <3>2 DEF HandlingInv, IsBuilder
  <2> QED
    BY <2>1, <2>2, <2>3 DEF HandleOutcome
<1>8. ASSUME NEW f \in FileNames, NEW e \in Entry, ChangeFile(f, e)
      PROVE  HandlingInv'
  BY <1>8 DEF ChangeFile, chainState, HandlingInv, IsBuilder
<1> QED
  BY <1>1, <1>2, <1>3, <1>4, <1>5, <1>6, <1>7, <1>8 DEF Next, Step

(* The handling of a request never leaves its inductive invariant.         *)
THEOREM Invariance == Spec => []HandlingInv
BY InitInv, NextInv, PTL DEF Spec

(* Every request gets at most one response, and one once it is done; an    *)
(* error is reported with its own status unless a response had gone.       *)
THEOREM AnswersOnce == Spec => []OneAnswer
<1>1. HandlingInv => OneAnswer
  <2> SUFFICES ASSUME HandlingInv PROVE OneAnswer
    OBVIOUS
  <2>1. responses = IF res.sent THEN <<responses[1]>> ELSE <<>>
    BY DEF HandlingInv
  <2>2. Len(responses) = IF res.sent THEN 1 ELSE 0
    BY <2>1
  <2> QED
    BY <2>2 DEF HandlingInv, OneAnswer
<1> QED
  BY Invariance, <1>1, PTL

(* Every step of a request is a step of its chain: it starts the next      *)
(* handler, settles the chain, or does neither.                            *)
LEMMA StepRefines ==
  ASSUME HandlingInv, [Next]_vars
  PROVE  [Promised!Next]_<<Len(chain), started, outcome>>
<1> USE DEF Promised!Next, Promised!StartNext, Promised!Settle
<1>1. CASE UNCHANGED vars
  BY <1>1 DEF vars
<1>2. CASE Receive \/ Finish
  BY <1>2 DEF Receive, Finish, request
<1>3. CASE Dispatch
  BY <1>3 DEF Dispatch, Stop, request, HandlingInv
<1>4. CASE Call \/ ReadFile
  <2>1. HandlerLeaves /\ outcome = "pending" /\ UNCHANGED chain
    BY <1>4, CallStep, ReadFileStep DEF Call, ReadFile, request, HandlingInv
  <2> QED
    BY <2>1 DEF HandlerLeaves
<1>5. CASE Stat
  <2>1. outcome = "pending"
    BY <1>5 DEF Stat, HandlingInv
  <2> QED
    BY <1>5, <2>1 DEF Stat, CallNext, Reject, request
<1>6. ASSUME NEW f \in FileNames, NEW e \in Entry, ChangeFile(f, e)
      PROVE  [Promised!Next]_<<Len(chain), started, outcome>>
  BY <1>6 DEF ChangeFile, request, chainState
<1> QED
  BY <1>1, <1>2, <1>3, <1>4, <1>5, <1>6 DEF Next, Step

(* The handlers picked for a request run in their order, each at most      *)
(* once, and none after the chain has settled.                             *)
THEOREM HandlersInOrder == Spec => InOrder
<1>1. Init => Promised!Init
  BY DEF Init, Promised!Init
<1>2. HandlingInv /\ [Next]_vars => [Promised!Next]_<<Len(chain), started, outcome>>
  BY StepRefines
<1> QED
  BY <1>1, <1>2, Invariance, PTL DEF Spec, InOrder, Promised!Spec, Promised!chain
-----------------------------------------------------------------------------
(* One sequence is a prefix of another when its members are the other's.   *)
LEMMA PrefixMembers ==
  ASSUME NEW S, NEW s \in Seq(S), NEW t \in Seq(S)
  PROVE  IsPrefix(s, t) <=> Len(s) <= Len(t) /\ \A i \in 1..Len(s) : s[i] = t[i]
BY DEF IsPrefix

(* A rank below the size of a finite set of numbers is that of one member. *)
LEMMA RankedMember ==
  ASSUME NEW S \in SUBSET Nat, IsFiniteSet(S), NEW n \in Nat, n < Cardinality(S)
  PROVE  Ranked(S, n) \in S /\ Cardinality(Below(S, Ranked(S, n))) = n
BY RankTaken DEF Ranked, Below

(* A member of a finite set is the one of its rank.                        *)
LEMMA RankedIs ==
  ASSUME NEW S \in SUBSET Nat, IsFiniteSet(S), NEW i \in S
  PROVE  Ranked(S, Cardinality(Below(S, i))) = i
<1> DEFINE n == Cardinality(Below(S, i))
           k == Ranked(S, n)
<1>1. n \in Nat /\ n < Cardinality(S)
  BY RankOrder
<1>2. k \in S /\ Cardinality(Below(S, k)) = n
  BY <1>1, RankedMember
<1>3. ~(k < i) /\ ~(i < k)
  <2>1. k < i => Cardinality(Below(S, k)) < n
    BY <1>2, RankOrder
  <2>2. i < k => n < Cardinality(Below(S, k))
    BY <1>2, RankOrder
  <2> HIDE DEF n, k
  <2> QED
    BY <1>1, <1>2, <2>1, <2>2
<1> HIDE DEF n, k
<1>4. k \in Nat /\ i \in Nat
  BY <1>2
<1>5. k = i
  BY <1>3, <1>4
<1> QED
  BY <1>5 DEF n, k

(* The ranks of a set of numbers are in their order, and nothing is        *)
(* between one and the next.                                               *)
LEMMA RankedNext ==
  ASSUME NEW S \in SUBSET Nat, IsFiniteSet(S), NEW n \in Nat, n + 1 < Cardinality(S)
  PROVE  Ranked(S, n) < Ranked(S, n + 1)
<1> DEFINE a == Ranked(S, n)
           b == Ranked(S, n + 1)
<1>1. Cardinality(S) \in Nat /\ n < Cardinality(S) /\ n + 1 \in Nat
  BY FS_CardinalityType
<1>2. /\ a \in S /\ Cardinality(Below(S, a)) = n
      /\ b \in S /\ Cardinality(Below(S, b)) = n + 1
  BY <1>1, RankedMember
<1>3. b < a => Cardinality(Below(S, b)) < Cardinality(Below(S, a))
  BY <1>2, RankOrder
<1> HIDE DEF a, b
<1>4. ~(b < a) /\ a # b
  BY <1>2, <1>3
<1>5. a \in Nat /\ b \in Nat
  BY <1>2
<1>6. a < b
  BY <1>4, <1>5
<1> QED
  BY <1>6 DEF a, b
-----------------------------------------------------------------------------
(* The cuts of a word at a symbol, in their order: from before its first   *)
(* symbol to behind its last.                                              *)
LEMMA CutsOrder ==
  ASSUME NEW w \in Word, NEW c, NEW n, n = Cardinality(Cuts(w, c)) - 1
  PROVE  /\ Cuts(w, c) \in SUBSET Nat /\ IsFiniteSet(Cuts(w, c))
         /\ n \in Nat \ {0} /\ Cardinality(Cuts(w, c)) = n + 1
         /\ Ranked(Cuts(w, c), 0) = 0
         /\ Ranked(Cuts(w, c), n) = Len(w) + 1
<1> DEFINE C == Cuts(w, c)
<1>0. Len(w) \in Nat
  BY DEF Word
<1>1. C \in SUBSET Nat /\ C \subseteq 0..(Len(w) + 1) /\ 0 \in C /\ Len(w) + 1 \in C
  BY <1>0 DEF Cuts
<1>2. IsFiniteSet(C)
  <2>1. IsFiniteSet(0..(Len(w) + 1))
    BY <1>0, FS_Interval
  <2> QED
    BY <1>1, <2>1, FS_Subset
<1> HIDE DEF C
<1>a. \A j \in C : j \in Nat /\ ~(j < 0) /\ (j < Len(w) + 1 <=> j # Len(w) + 1)
  BY <1>0, <1>1
<1>3. Below(C, 0) = {}
  BY <1>a, Zenon DEF Below
<1>4. Below(C, Len(w) + 1) = C \ {Len(w) + 1}
  <2>1. ASSUME NEW j PROVE j \in Below(C, Len(w) + 1) <=> j \in C \ {Len(w) + 1}
    BY <1>a, Zenon DEF Below
  <2> QED
    BY <2>1, Zenon
<1>5. Cardinality(Below(C, 0)) = 0
  BY <1>3, FS_EmptySet
<1>6. Cardinality(C) \in Nat /\ Cardinality(Below(C, Len(w) + 1)) = Cardinality(C) - 1
  BY <1>1, <1>2, <1>4, FS_RemoveElement, FS_CardinalityType
<1>7. Cardinality(Below(C, 0)) < Cardinality(Below(C, Len(w) + 1))
  BY <1>0, <1>1, <1>2, RankOrder
<1>8. Ranked(C, 0) = 0 /\ Ranked(C, Cardinality(C) - 1) = Len(w) + 1
  BY <1>1, <1>2, <1>5, <1>6, RankedIs
<1>9. Cardinality(C) - 1 \in Nat \ {0} /\ Cardinality(C) = Cardinality(C) - 1 + 1
  BY <1>5, <1>6, <1>7
<1> QED
  BY <1>1, <1>2, <1>8, <1>9 DEF C

(* A segment of a word is what is between two cuts that follow each other. *)
LEMMA SplitSegments ==
  ASSUME NEW w \in Word, NEW c, NEW n, n = Cardinality(Cuts(w, c)) - 1
  PROVE  /\ Split(w, c) \in Seq(Word) /\ Len(Split(w, c)) = n
         /\ \A k \in 1..n : LET a == Ranked(Cuts(w, c), k - 1)
                                b == Ranked(Cuts(w, c), k)
                            IN  /\ a \in Nat /\ b \in Nat /\ a < b /\ b <= Len(w) + 1
                                /\ a # 0 => w[a] = c
                                /\ Split(w, c)[k] = Between(w, a, b)
                                /\ Between(w, a, b) \in Word
                                /\ Len(Between(w, a, b)) = b - a - 1
                                /\ \A i \in 1..(b - a - 1) : Between(w, a, b)[i] = w[a + i]
<1> DEFINE C == Cuts(w, c)
<1>1. /\ C \in SUBSET Nat /\ IsFiniteSet(C) /\ n \in Nat \ {0}
      /\ Cardinality(C) = n + 1
  BY CutsOrder
<1>2. Split(w, c) = [k \in 1..n |-> Between(w, Ranked(C, k - 1), Ranked(C, k))]
  BY DEF Split
<1>3. ASSUME NEW k \in 1..n
      PROVE  LET a == Ranked(C, k - 1)
                 b == Ranked(C, k)
             IN  /\ a \in Nat /\ b \in Nat /\ a < b /\ b <= Len(w) + 1
                 /\ a # 0 => w[a] = c
                 /\ Between(w, a, b) \in Word
                 /\ Len(Between(w, a, b)) = b - a - 1
                 /\ \A i \in 1..(b - a - 1) : Between(w, a, b)[i] = w[a + i]
  <2> DEFINE a == Ranked(C, k - 1)
             b == Ranked(C, k)
  <2>1. k - 1 \in Nat /\ k - 1 + 1 = k /\ k \in Nat /\ k < Cardinality(C) /\ k - 1 < Cardinality(C)
    BY <1>1
  <2>2. a \in C /\ b \in C
    BY <1>1, <2>1, RankedMember
  <2>3. a < b
    BY <1>1, <2>1, RankedNext
  <2> HIDE DEF a, b
  <2>4. a \in Nat /\ b \in Nat /\ b <= Len(w) + 1 /\ a <= Len(w) /\ (a # 0 => w[a] = c)
    BY <2>2, <2>3 DEF Cuts, Word
  <2>5. /\ Between(w, a, b) \in Word
        /\ Len(Between(w, a, b)) = b - a - 1
        /\ \A i \in 1..(b - a - 1) : Between(w, a, b)[i] = w[a + i]
    BY <2>3, <2>4 DEF Between, Word
  <2> QED
    BY <2>3, <2>4, <2>5 DEF a, b
<1> HIDE DEF C
<1>4. \A k \in 1..n : Between(w, Ranked(C, k - 1), Ranked(C, k)) \in Word
  BY <1>3
<1>5. Split(w, c) \in Seq(Word) /\ Len(Split(w, c)) = n
  BY <1>1, <1>2, <1>4
<1> QED
  BY <1>2, <1>3, <1>5 DEF C
-----------------------------------------------------------------------------
(* Two words whose first segments are the same have their first cuts at    *)
(* the same places, and the same symbols up to there.                      *)
LEMMA SameSegments ==
  ASSUME NEW p \in Word, NEW q \in Word, NEW c,
         IsPrefix(Split(p, c), Split(q, c)),
         NEW n \in Nat, n = Cardinality(Cuts(p, c)) - 1
  PROVE  /\ n < Cardinality(Cuts(q, c))
         /\ Ranked(Cuts(q, c), n) = Ranked(Cuts(p, c), n)
         /\ \A i \in 1..(Ranked(Cuts(p, c), n) - 1) : q[i] = p[i]
<1> DEFINE m == Cardinality(Cuts(q, c)) - 1
           P(k) == Ranked(Cuts(p, c), k)
           Q(k) == Ranked(Cuts(q, c), k)
           Apart == {k \in 0..n : ~(Q(k) = P(k) /\ \A i \in 1..(P(k) - 1) : q[i] = p[i])}
<1>1. m \in Nat /\ Cardinality(Cuts(q, c)) = m + 1 /\ P(0) = 0 /\ Q(0) = 0
  BY CutsOrder
<1>2. /\ Split(p, c) \in Seq(Word) /\ Len(Split(p, c)) = n
      /\ Split(q, c) \in Seq(Word) /\ Len(Split(q, c)) = m
  BY SplitSegments
<1>3. n <= m /\ \A k \in 1..n : Split(p, c)[k] = Split(q, c)[k]
  BY <1>2, PrefixMembers
<1>4. Apart = {}
  <2>1. SUFFICES ASSUME Apart # {} PROVE FALSE
    OBVIOUS
  <2>2. PICK k \in Apart : \A j \in Apart : k <= j
    <3>1. Apart \in SUBSET Nat
      OBVIOUS
    <3> HIDE DEF Apart
    <3> QED
      BY <2>1, <3>1, LeastElement
  <2>3. k # 0
    <3>1. Q(0) = P(0) /\ \A i \in 1..(P(0) - 1) : q[i] = p[i]
      BY <1>1
    <3> QED
      BY <3>1
  <2>4. k \in 1..n /\ k \in 1..m /\ k - 1 \in 0..n /\ k - 1 \notin Apart
    BY <1>1, <1>3, <2>2, <2>3
  <2>5. Q(k - 1) = P(k - 1) /\ \A i \in 1..(P(k - 1) - 1) : q[i] = p[i]
    BY <2>4
  <2>6. /\ P(k - 1) \in Nat /\ P(k) \in Nat /\ P(k - 1) < P(k)
        /\ P(k - 1) # 0 => p[P(k - 1)] = c
        /\ Split(p, c)[k] = Between(p, P(k - 1), P(k))
        /\ Len(Between(p, P(k - 1), P(k))) = P(k) - P(k - 1) - 1
        /\ \A i \in 1..(P(k) - P(k - 1) - 1) :
             Between(p, P(k - 1), P(k))[i] = p[P(k - 1) + i]
    BY <2>4, SplitSegments
  <2>7. /\ Q(k - 1) \in Nat /\ Q(k) \in Nat /\ Q(k - 1) < Q(k)
        /\ Q(k - 1) # 0 => q[Q(k - 1)] = c
        /\ Split(q, c)[k] = Between(q, Q(k - 1), Q(k))
        /\ Len(Between(q, Q(k - 1), Q(k))) = Q(k) - Q(k - 1) - 1
        /\ \A i \in 1..(Q(k) - Q(k - 1) - 1) :
             Between(q, Q(k - 1), Q(k))[i] = q[Q(k - 1) + i]
    BY <2>4, SplitSegments
  <2>8. Split(p, c)[k] = Split(q, c)[k]
    BY <1>3, <2>4
  <2> HIDE DEF P, Q
  <2>9. Q(k) = P(k)
    BY <2>5, <2>6, <2>7, <2>8
  <2>10. ASSUME NEW i \in 1..(P(k) - 1) PROVE q[i] = p[i]
    <3>1. CASE i < P(k - 1)
      <4>1. i \in 1..(P(k - 1) - 1)
        BY <2>6, <3>1
      <4> QED
        BY <2>5, <4>1
    <3>2. CASE i = P(k - 1)
      <4>1. P(k - 1) # 0 /\ Q(k - 1) = i
        BY <2>5, <2>6, <3>2
      <4>2. p[i] = c /\ q[i] = c
        BY <2>6, <2>7, <3>2, <4>1
      <4> QED
        BY <4>2
    <3>3. CASE P(k - 1) < i
      <4> DEFINE o == i - P(k - 1)
      <4>1. o \in 1..(P(k) - P(k - 1) - 1) /\ P(k - 1) + o = i
        BY <2>6, <3>3
      <4> HIDE DEF o
      <4>2. p[i] = Between(p, P(k - 1), P(k))[o]
        BY <2>6, <4>1
      <4>3. o \in 1..(Q(k) - Q(k - 1) - 1) /\ Q(k - 1) + o = i
        BY <2>5, <2>9, <4>1
      <4>4. q[i] = Between(q, Q(k - 1), Q(k))[o]
        BY <2>7, <4>3
      <4>5. Between(p, P(k - 1), P(k)) = Between(q, Q(k - 1), Q(k))
        BY <2>6, <2>7, <2>8
      <4> QED
        BY <4>2, <4>4, <4>5
    <3> QED
      BY <2>6, <3>1, <3>2, <3>3
  <2> QED
    BY <2>2, <2>9, <2>10
<1>5. n \in 0..n /\ n \notin Apart
  BY <1>4
<1> HIDE DEF P, Q
<1>6. Q(n) = P(n) /\ \A i \in 1..(P(n) - 1) : q[i] = p[i]
  BY <1>5
<1> QED
  BY <1>1, <1>3, <1>6 DEF P, Q

(* A sequence and one member more.                                         *)
LEMMA Longer ==
  ASSUME NEW S, NEW p \in Seq(S), NEW c \in S
  PROVE  /\ p \o <<c>> \in Seq(S) /\ Len(p \o <<c>>) = Len(p) + 1
         /\ \A i \in 1..Len(p) : (p \o <<c>>)[i] = p[i]
         /\ (p \o <<c>>)[Len(p) + 1] = c
OBVIOUS

(* When a word begins with another and one symbol more.                    *)
LEMMA LongerPrefix ==
  ASSUME NEW p \in Word, NEW q \in Word, NEW c
  PROVE  /\ Len(p) \in Nat /\ Len(q) \in Nat
         /\ IsPrefix(p \o <<c>>, q) <=>
              /\ Len(p) < Len(q) /\ q[Len(p) + 1] = c
              /\ \A i \in 1..Len(p) : p[i] = q[i]
<1> DEFINE S == STRING \cup {c}
           longer == p \o <<c>>
<1>1. p \in Seq(S) /\ q \in Seq(S) /\ c \in S
  BY DEF Word
<1> HIDE DEF S
<1>2. /\ longer \in Seq(S) /\ Len(longer) = Len(p) + 1
      /\ \A i \in 1..Len(p) : longer[i] = p[i]
      /\ longer[Len(p) + 1] = c
  BY <1>1, Longer
<1>3. Len(p) \in Nat /\ Len(q) \in Nat
  BY <1>1
<1> HIDE DEF longer
<1>4. IsPrefix(longer, q) <=> Len(longer) <= Len(q) /\ \A i \in 1..Len(longer) : longer[i] = q[i]
  BY <1>1, <1>2, PrefixMembers
<1>5. IsPrefix(longer, q) <=> /\ Len(p) < Len(q) /\ q[Len(p) + 1] = c
                              /\ \A i \in 1..Len(p) : p[i] = q[i]
  <2>1. Len(longer) <= Len(q) <=> Len(p) < Len(q)
    BY <1>2, <1>3
  <2>2. (\A i \in 1..Len(longer) : longer[i] = q[i]) <=>
          q[Len(p) + 1] = c /\ \A i \in 1..Len(p) : p[i] = q[i]
    <3>1. 1..Len(longer) = 1..Len(p) \cup {Len(p) + 1}
      BY <1>2, <1>3
    <3> QED
      BY <1>2, <3>1, Zenon
  <2> QED
    BY <1>4, <2>1, <2>2
<1> QED
  BY <1>3, <1>5 DEF longer

(* A word that has another, and a symbol behind it, as its first symbols   *)
(* has the same cuts up to there.                                          *)
LEMMA SameCuts ==
  ASSUME NEW p \in Word, NEW q \in Word, NEW c, IsPrefix(p \o <<c>>, q)
  PROVE  IsPrefix(Split(p, c), Split(q, c))
<1> DEFINE C == Cuts(p, c)
           D == Cuts(q, c)
           n == Cardinality(C) - 1
           m == Cardinality(D) - 1
<1>1. /\ C \in SUBSET Nat /\ IsFiniteSet(C) /\ n \in Nat /\ Cardinality(C) = n + 1
      /\ D \in SUBSET Nat /\ IsFiniteSet(D) /\ m \in Nat /\ Cardinality(D) = m + 1
  BY CutsOrder
<1>0. /\ Len(p) < Len(q) /\ q[Len(p) + 1] = c /\ \A i \in 1..Len(p) : p[i] = q[i]
      /\ Len(p) \in Nat /\ Len(q) \in Nat
  BY LongerPrefix
<1>2. \A i \in Nat : i <= Len(p) + 1 => (i \in C <=> i \in D)
  BY <1>0 DEF Cuts
<1>3. \A i \in C : i <= Len(p) + 1 /\ i \in Nat
  BY <1>0 DEF Cuts
<1> HIDE DEF C, D
<1>4. \A i \in C : i \in D /\ Below(C, i) = Below(D, i)
  <2>1. SUFFICES ASSUME NEW i \in C PROVE i \in D /\ Below(C, i) = Below(D, i)
    OBVIOUS
  <2>2. i \in D /\ i \in Nat /\ i <= Len(p) + 1
    BY <1>2, <1>3
  <2>3. ASSUME NEW j PROVE j \in C /\ j < i <=> j \in D /\ j < i
    <3>1. ASSUME j \in C PROVE j \in D
      BY <1>2, <1>3, <3>1
    <3>2. ASSUME j \in D, j < i PROVE j \in C
      <4>1. j \in Nat
        BY <1>1, <3>2
      <4>2. j <= Len(p) + 1
        BY <1>0, <2>2, <3>2, <4>1
      <4> QED
        BY <1>2, <3>2, <4>1, <4>2
    <3> QED
      BY <3>1, <3>2
  <2>4. \A j : j \in Below(C, i) <=> j \in Below(D, i)
    BY <2>3, Zenon DEF Below
  <2> QED
    BY <2>2, <2>4, Zenon
<1>5. C \subseteq D
  BY <1>4
<1>6. n <= m
  <2>1. Cardinality(C) <= Cardinality(D)
    BY <1>1, <1>5, FS_Subset
  <2> HIDE DEF n, m
  <2> QED
    BY <1>1, <2>1
<1>7. \A k \in 0..n : Ranked(D, k) = Ranked(C, k)
  <2>1. SUFFICES ASSUME NEW k \in 0..n PROVE Ranked(D, k) = Ranked(C, k)
    OBVIOUS
  <2>2. k \in Nat /\ k < Cardinality(C)
    BY <1>1
  <2>3. Ranked(C, k) \in C /\ Cardinality(Below(C, Ranked(C, k))) = k
    BY <1>1, <2>2, RankedMember
  <2>4. Ranked(C, k) \in D /\ Cardinality(Below(D, Ranked(C, k))) = k
    BY <1>4, <2>3
  <2> QED
    BY <1>1, <2>4, RankedIs
<1>8. /\ Split(p, c) \in Seq(Word) /\ Len(Split(p, c)) = n
      /\ Split(q, c) \in Seq(Word) /\ Len(Split(q, c)) = m
  BY SplitSegments DEF C, D
<1>9. ASSUME NEW k \in 1..n PROVE Split(p, c)[k] = Split(q, c)[k]
  <2> DEFINE a == Ranked(C, k - 1)
             b == Ranked(C, k)
  <2>1. /\ a \in Nat /\ b \in Nat /\ a < b /\ b <= Len(p) + 1
        /\ Split(p, c)[k] = Between(p, a, b)
    BY SplitSegments DEF C
  <2>2. k \in 1..m /\ k - 1 \in 0..n /\ k \in 0..n
    BY <1>1, <1>6
  <2>3. Split(q, c)[k] = Between(q, Ranked(D, k - 1), Ranked(D, k))
    BY <2>2, SplitSegments DEF D
  <2>4. Split(q, c)[k] = Between(q, a, b)
    BY <1>7, <2>2, <2>3
  <2> HIDE DEF a, b
  <2>5. Between(p, a, b) = Between(q, a, b)
    BY <1>0, <2>1 DEF Between, Word
  <2> QED
    BY <2>1, <2>4, <2>5
<1> QED
  BY <1>6, <1>8, <1>9, PrefixMembers

(* A mount path takes the paths that begin with its segments, whatever the *)
(* two look like: pathMatches(), app.ts:352-356, which compares strings,   *)
(* with what a mount path means.                                           *)
THEOREM MountsBySegments ==
  ASSUME NEW prefix \in Word, NEW path \in Word
  PROVE  MountedBySegments(prefix, path)
<1>1. ASSUME IsPrefix(Split(prefix, SLASH), Split(path, SLASH))
      PROVE  path = prefix \/ IsPrefix(prefix \o <<SLASH>>, path)
  <2> DEFINE n == Cardinality(Cuts(prefix, SLASH)) - 1
             last == Ranked(Cuts(path, SLASH), n)
  <2>1. n \in Nat /\ Ranked(Cuts(prefix, SLASH), n) = Len(prefix) + 1
    BY CutsOrder
  <2>2. /\ n < Cardinality(Cuts(path, SLASH)) /\ last = Len(prefix) + 1
        /\ \A i \in 1..(Len(prefix) + 1 - 1) : path[i] = prefix[i]
    BY <1>1, <2>1, SameSegments
  <2>3. last \in Cuts(path, SLASH)
    <3>1. Cuts(path, SLASH) \in SUBSET Nat /\ IsFiniteSet(Cuts(path, SLASH))
      BY CutsOrder
    <3> QED
      BY <2>1, <2>2, <3>1, RankedMember
  <2> HIDE DEF n, last
  <2>4. Len(prefix) \in Nat /\ Len(path) \in Nat
    BY DEF Word
  <2>5. Len(path) = Len(prefix) \/ (Len(prefix) < Len(path) /\ path[Len(prefix) + 1] = SLASH)
    BY <2>2, <2>3, <2>4 DEF Cuts
  <2>6. \A i \in 1..Len(prefix) : path[i] = prefix[i]
    BY <2>2, <2>4
  <2>7. CASE Len(path) = Len(prefix)
    BY <2>6, <2>7 DEF Word
  <2>8. CASE Len(prefix) < Len(path) /\ path[Len(prefix) + 1] = SLASH
    BY <2>6, <2>8, LongerPrefix
  <2> QED
    BY <2>5, <2>7, <2>8
<1>2. ASSUME path = prefix PROVE IsPrefix(Split(prefix, SLASH), Split(path, SLASH))
  <2>1. Split(prefix, SLASH) \in Seq(Word)
    BY SplitSegments
  <2> QED
    BY <1>2, <2>1, PrefixMembers
<1>3. ASSUME IsPrefix(prefix \o <<SLASH>>, path)
      PROVE  IsPrefix(Split(prefix, SLASH), Split(path, SLASH))
  BY <1>3, SameCuts
<1> QED
  BY <1>1, <1>2, <1>3 DEF MountedBySegments, PathMatches
-----------------------------------------------------------------------------
(* What indexOf() returns: no position, or the first one there is.         *)
LEMMA IndexOfIs ==
  ASSUME NEW w \in Word, NEW c, NEW from \in Nat \ {0}
  PROVE  \/ IndexOf(w, c, from) = 0 /\ \A j \in from..Len(w) : w[j] # c
         \/ /\ IndexOf(w, c, from) \in from..Len(w) /\ w[IndexOf(w, c, from)] = c
            /\ \A j \in from..(IndexOf(w, c, from) - 1) : w[j] # c
<1> DEFINE T == At(w, c, from)
<1>0. Len(w) \in Nat /\ T \in SUBSET Nat
  BY DEF Word, At
<1>1. CASE T = {}
  <2>1. \A j \in from..Len(w) : w[j] # c
    BY <1>1 DEF At
  <2>2. IndexOf(w, c, from) = 0
    BY <1>1 DEF IndexOf
  <2> QED
    BY <2>1, <2>2
<1>2. CASE T # {}
  <2>1. PICK m \in T : \A j \in T : m <= j
    <3> HIDE DEF T
    <3> QED
      BY <1>0, <1>2, LeastElement
  <2> DEFINE i == CHOOSE i \in T : \A j \in T : i <= j
  <2>2. i \in T /\ \A j \in T : i <= j
    BY <2>1
  <2>3. IndexOf(w, c, from) = i
    BY <1>2 DEF IndexOf
  <2> HIDE DEF i
  <2>4. i \in from..Len(w) /\ w[i] = c
    BY <2>2 DEF At
  <2>5. ASSUME NEW j \in from..(i - 1) PROVE w[j] # c
    <3>1. j \in from..Len(w) /\ ~(i <= j)
      BY <1>0, <2>4
    <3>2. j \notin T
      BY <2>2, <3>1
    <3> QED
      BY <3>1, <3>2 DEF At
  <2> QED
    BY <2>3, <2>4, <2>5
<1> QED
  BY <1>1, <1>2

(* The only position of a symbol after which, or before which, there is    *)
(* none is the one that indexOf() finds.                                   *)
LEMMA IndexOfOnly ==
  ASSUME NEW w \in Word, NEW c, NEW from \in Nat \ {0},
         NEW i \in from..Len(w), w[i] = c, \A j \in from..(i - 1) : w[j] # c
  PROVE  IndexOf(w, c, from) = i
<1> DEFINE n == IndexOf(w, c, from)
<1>0. Len(w) \in Nat
  BY DEF Word
<1>1. \/ n = 0 /\ \A j \in from..Len(w) : w[j] # c
      \/ /\ n \in from..Len(w) /\ w[n] = c
         /\ \A j \in from..(n - 1) : w[j] # c
  BY IndexOfIs
<1> HIDE DEF n
<1>2. n \in from..Len(w)
  BY <1>1
<1>3. ~(n < i) /\ ~(i < n)
  BY <1>0, <1>1, <1>2
<1> QED
  BY <1>0, <1>2, <1>3 DEF n

(* The parts of a word around its positions.                               *)
LEMMA BeforeIs ==
  ASSUME NEW w \in Word, NEW i \in 1..(Len(w) + 1)
  PROVE  /\ Before(w, i) \in Word /\ Len(Before(w, i)) = i - 1
         /\ \A k \in 1..(i - 1) : Before(w, i)[k] = w[k]
BY DEF Before, Word

(* The symbols between two cuts of a word.                                 *)
LEMMA BetweenIs ==
  ASSUME NEW w \in Word, NEW i \in 0..Len(w), NEW j \in (i + 1)..(Len(w) + 1)
  PROVE  /\ Between(w, i, j) \in Word /\ Len(Between(w, i, j)) = j - i - 1
         /\ \A k \in 1..(j - i - 1) : Between(w, i, j)[k] = w[i + k]
BY DEF Between, Word

(* The symbols after a cut of a word.                                      *)
LEMMA AfterIs ==
  ASSUME NEW w \in Word, NEW i \in 0..Len(w)
  PROVE  /\ After(w, i) \in Word /\ Len(After(w, i)) = Len(w) - i
         /\ \A k \in 1..(Len(w) - i) : After(w, i)[k] = w[i + k]
BY DEF After, Word

(* parseHttpVersion() tells the supported versions from the others and     *)
(* from what is no version (parse-request-line.ts:73-85).                  *)
LEMMA HttpVersionIs ==
  ASSUME NEW raw \in Word
  PROVE  HttpVersion(raw) = IF IsVersion(raw) THEN 200
                            ELSE IF IsOtherVersion(raw) THEN 505 ELSE 400
<1>1. IsVersion(raw) <=> \E v \in Supported : raw = <<v>>
  <2>1. ASSUME IsVersion(raw) PROVE \E v \in Supported : raw = <<v>>
    <3>1. raw = <<raw[1]>>
      BY <2>1 DEF IsVersion, Word
    <3> QED
      BY <2>1, <3>1 DEF IsVersion
  <2>2. ASSUME NEW v \in Supported, raw = <<v>> PROVE IsVersion(raw)
    BY <2>2 DEF IsVersion
  <2> QED
    BY <2>1, <2>2
<1>2. raw # <<>> => Tail(raw) = After(raw, 1)
  BY DEF After, Word
<1>3. IsOtherVersion(raw) <=> /\ raw # <<>> /\ raw[1] \in Version
                             /\ Of(After(raw, 1), Digit) /\ ~IsVersion(raw)
  BY <1>2 DEF IsOtherVersion
<1> QED
  BY <1>1, <1>3, Zenon DEF HttpVersion
-----------------------------------------------------------------------------
(* The symbol classes a proof about lines needs.                           *)
LEMMA Classes ==
  /\ SP \notin TChar /\ SP \notin Version /\ COLON \notin TChar
  /\ \A c \in TChar : c \notin OWS
  /\ Digit \subseteq TChar /\ Supported \subseteq Version
BY ClassAssumption DEF OWS

(* A request line has its spaces where the two calls of indexOf() look.    *)
LEMMA RequestSpaces ==
  ASSUME NEW w \in Word, NEW i \in 1..Len(w), NEW j \in 1..Len(w), IsRequestLine(w, i, j)
  PROVE  i > 1 /\ i < j /\ IndexOf(w, SP, 1) = i /\ IndexOf(w, SP, i + 1) = j
<1>0. Len(w) \in Nat
  BY DEF Word
<1>1. i < j /\ w[i] = SP /\ w[j] = SP /\ IsToken(Before(w, i)) /\ IsTarget(Between(w, i, j))
  BY DEF IsRequestLine
<1>2. /\ Before(w, i) \in Word /\ Len(Before(w, i)) = i - 1
      /\ \A k \in 1..(i - 1) : Before(w, i)[k] = w[k]
  BY BeforeIs
<1>3. i > 1 /\ \A k \in 1..(i - 1) : w[k] # SP
  <2>1. i # 1
    BY <1>1, <1>2 DEF IsToken, Word
  <2> QED
    BY <1>1, <1>2, <2>1, Classes DEF IsToken, Of
<1>4. /\ Between(w, i, j) \in Word /\ Len(Between(w, i, j)) = j - i - 1
      /\ \A k \in 1..(j - i - 1) : Between(w, i, j)[k] = w[i + k]
  BY <1>0, <1>1, BetweenIs
<1>5. ASSUME NEW k \in (i + 1)..(j - 1) PROVE w[k] # SP
  <2> DEFINE o == k - i
  <2>1. o \in 1..(j - i - 1) /\ i + o = k
    BY <1>0
  <2> HIDE DEF o
  <2> QED
    BY <1>1, <1>4, <2>1 DEF IsTarget, Without
<1>6. IndexOf(w, SP, 1) = i
  BY <1>1, <1>3, IndexOfOnly
<1>7. IndexOf(w, SP, i + 1) = j
  <2>1. i + 1 \in Nat \ {0} /\ j \in (i + 1)..Len(w)
    BY <1>0, <1>1
  <2> QED
    BY <1>1, <1>5, <2>1, IndexOfOnly
<1> QED
  BY <1>1, <1>3, <1>6, <1>7

(* No version holds a space.                                               *)
LEMMA VersionUnspaced ==
  ASSUME NEW raw \in Word, IsVersion(raw) \/ IsOtherVersion(raw), NEW k \in 1..Len(raw)
  PROVE  raw[k] # SP
<1>1. raw[1] \in Version
  BY Classes DEF IsVersion, IsOtherVersion
<1>2. CASE k = 1
  BY <1>1, <1>2, Classes
<1>3. CASE k # 1
  <2>0. ~IsVersion(raw)
    <3>1. Len(raw) \in Nat
      BY DEF Word
    <3>2. 1 < Len(raw)
      BY <1>3, <3>1
    <3>3. ~(1 < 1)
      OBVIOUS
    <3> QED
      BY <3>2, <3>3, Zenon DEF IsVersion
  <2>1. raw # <<>> /\ Of(Tail(raw), Digit)
    BY <2>0 DEF IsOtherVersion
  <2>2. k - 1 \in 1..Len(Tail(raw)) /\ Tail(raw)[k - 1] = raw[k]
    BY <1>3, <2>1 DEF Word
  <2> QED
    BY <2>1, <2>2, Classes DEF Of
<1> QED
  BY <1>2, <1>3

(* A request line is taken apart as the grammar says: parseRequestLine()   *)
(* refuses a line exactly when it is none, with the status the text names. *)
THEOREM RequestLinesAsGrammar ==
  ASSUME NEW line \in Word
  PROVE  RequestLineGrammar(line)
<1> DEFINE first == IndexOf(line, SP, 1)
           second == IndexOf(line, SP, first + 1)
           r == RequestLine(line)
           parts(i, j) == [status |-> 200, method |-> Before(line, i),
                           target |-> Between(line, i, j), version |-> After(line, j)]
           cuts == {c \in (1..Len(line)) \X (1..Len(line)) : IsRequestLine(line, c[1], c[2])}
<1>0. Len(line) \in Nat
  BY DEF Word
<1>1. r = SplitLine(line, first, second)
  BY DEF RequestLine
<1>2. \A c \in cuts : /\ c[1] \in 1..Len(line) /\ c[2] \in 1..Len(line)
                      /\ first = c[1] /\ second = c[2] /\ 1 < first /\ first < second
                      /\ IsRequestLine(line, first, second)
  BY RequestSpaces
<1>3. /\ first = 0 \/ first \in 1..Len(line)
      /\ first \in 1..Len(line) => second = 0 \/ second \in (first + 1)..Len(line)
  <2>1. first = 0 \/ first \in 1..Len(line)
    BY IndexOfIs
  <2>2. ASSUME first \in 1..Len(line) PROVE second = 0 \/ second \in (first + 1)..Len(line)
    <3>1. first + 1 \in Nat \ {0}
      BY <2>2
    <3> QED
      BY <3>1, IndexOfIs
  <2> QED
    BY <2>1, <2>2
<1> DEFINE raw == After(line, second)
<1> HIDE DEF first, second, cuts, r
<1>4. CASE first <= 1 \/ second = 0 \/ IndexOf(line, SP, second + 1) # 0
  <2>1. r.status = 400
    BY <1>1, <1>4 DEF SplitLine, RefusedLine
  <2>2. ASSUME NEW c \in cuts PROVE ~IsVersion(raw) /\ ~IsOtherVersion(raw)
    <3>1. second \in 1..Len(line) /\ IndexOf(line, SP, second + 1) # 0
      BY <1>0, <1>2, <1>4
    <3> DEFINE third == IndexOf(line, SP, second + 1)
    <3>2. third \in (second + 1)..Len(line) /\ line[third] = SP
      <4>1. second + 1 \in Nat \ {0}
        BY <3>1
      <4> QED
        BY <3>1, <4>1, IndexOfIs
    <3> HIDE DEF third
    <3>3. /\ raw \in Word /\ Len(raw) = Len(line) - second
          /\ \A k \in 1..(Len(line) - second) : raw[k] = line[second + k]
      BY <3>1, AfterIs
    <3> DEFINE o == third - second
    <3>4. o \in 1..(Len(line) - second) /\ second + o = third
      BY <1>0, <3>1, <3>2
    <3> HIDE DEF o, raw
    <3>5. o \in 1..Len(raw) /\ raw[o] = SP
      BY <3>2, <3>3, <3>4
    <3> QED
      BY <3>3, <3>5, VersionUnspaced
  <2>3. \A c \in cuts : raw = After(line, c[2])
    BY <1>2
  <2> HIDE DEF raw
  <2>4. /\ r.status \in {200, 400, 505} /\ r.status # 200 /\ r.status # 505
        /\ \A c \in cuts : ~IsVersion(After(line, c[2])) /\ ~IsOtherVersion(After(line, c[2]))
    BY <2>1, <2>2, <2>3
  <2> QED
    BY <2>4 DEF RequestLineGrammar, r, cuts
<1>5. CASE ~(first <= 1 \/ second = 0 \/ IndexOf(line, SP, second + 1) # 0)
  <2>1. /\ first \in 1..Len(line) /\ second \in (first + 1)..Len(line) /\ second \in 1..Len(line)
        /\ r = RequestParts(line, first, second) /\ first < second
    BY <1>0, <1>1, <1>3, <1>5 DEF SplitLine
  <2>2. line[first] = SP /\ line[second] = SP
    <3>1. first + 1 \in Nat \ {0}
      BY <2>1
    <3> QED
      BY <2>1, <3>1, IndexOfIs DEF first, second
  <2>3. raw \in Word
    BY <2>1, AfterIs
  <2>4. HttpVersion(raw) = IF IsVersion(raw) THEN 200
                           ELSE IF IsOtherVersion(raw) THEN 505 ELSE 400
    BY <2>3, HttpVersionIs
  <2>5. IsVersion(raw) => ~IsOtherVersion(raw)
    BY DEF IsOtherVersion
  <2>6. IsRequestLine(line, first, second) <=>
          ~(\/ ~IsToken(Before(line, first)) \/ Between(line, first, second) = <<>>
            \/ \E i \in 1..Len(Between(line, first, second)) :
                 ~InTarget(Between(line, first, second)[i]))
    BY <2>1, <2>2 DEF IsRequestLine, IsTarget, Without, InTarget
  <2>7. CASE IsRequestLine(line, first, second)
    <3> DEFINE d == <<first, second>>
    <3>1. d \in cuts /\ d[1] = first /\ d[2] = second
      BY <2>1, <2>7 DEF cuts
    <3>2. r = IF HttpVersion(raw) # 200 THEN RefusedLine(HttpVersion(raw))
              ELSE parts(first, second)
      BY <2>1, <2>6, <2>7 DEF RequestParts
    <3>3. r.status = HttpVersion(raw) /\ (IsVersion(raw) => r = parts(first, second))
      BY <2>4, <3>2 DEF RefusedLine
    <3> HIDE DEF raw, parts, d
    <3>4. /\ r.status \in {200, 400, 505}
          /\ r.status = 200 => IsVersion(raw) /\ r = parts(first, second)
          /\ r.status = 505 <=> IsOtherVersion(raw)
      BY <2>4, <2>5, <3>3
    <3>5. /\ r.status = 200 => \E c \in cuts : r = parts(c[1], c[2])
          /\ r.status = 505 => \E c \in cuts : IsOtherVersion(After(line, c[2]))
      BY <3>1, <3>4 DEF raw
    <3>6. \A c \in cuts : /\ IsVersion(After(line, c[2])) => r = parts(c[1], c[2])
                          /\ IsOtherVersion(After(line, c[2])) => r.status = 505
      BY <1>2, <3>3, <3>4 DEF raw
    <3> QED
      BY <3>4, <3>5, <3>6 DEF RequestLineGrammar, r, cuts, parts
  <2>8. CASE ~IsRequestLine(line, first, second)
    <3>1. cuts = {}
      BY <1>2, <2>8
    <3>2. r = RefusedLine(400)
      BY <2>1, <2>6, <2>8 DEF RequestParts
    <3>3. r.status = 400
      BY <3>2 DEF RefusedLine
    <3>4. /\ r.status \in {200, 400, 505} /\ r.status # 200 /\ r.status # 505
          /\ \A c \in cuts : FALSE
      BY <3>1, <3>3
    <3> QED
      BY <3>4 DEF RequestLineGrammar, r, cuts
  <2> QED
    BY <2>7, <2>8
<1> QED
  BY <1>4, <1>5
-----------------------------------------------------------------------------
(* A status line has its first space behind the version.                   *)
LEMMA StatusSpace ==
  ASSUME NEW w \in Word, NEW i \in 1..Len(w), HasStatusParts(w, i)
  PROVE  i = 2 /\ IndexOf(w, SP, 1) = i
<1>1. /\ Before(w, i) \in Word /\ Len(Before(w, i)) = i - 1
      /\ \A k \in 1..(i - 1) : Before(w, i)[k] = w[k]
  BY BeforeIs DEF Word
<1>2. w[i] = SP /\ Len(Before(w, i)) = 1 /\ Before(w, i)[1] \in Supported
  BY DEF HasStatusParts, IsVersion
<1>3. i = 2 /\ w[1] # SP
  <2>1. i - 1 = 1 /\ i = 2
    <3>1. i - 1 = 1
      BY <1>1, <1>2, Zenon
    <3> QED
      BY <3>1
  <2>2. Before(w, i)[1] = w[1]
    BY <1>1, <2>1
  <2> QED
    BY <1>2, <2>1, <2>2, Classes
<1>4. \A k \in 1..(i - 1) : w[k] # SP
  BY <1>3
<1> QED
  BY <1>2, <1>3, <1>4, IndexOfOnly

(* What follows the version of a status line: three digits and, after a    *)
(* space, the reason.                                                      *)
LEMMA AfterVersionIs ==
  ASSUME NEW w \in Word, NEW i \in 1..Len(w)
  PROVE  AfterVersion(After(w, i)) = 200 <=>
           /\ Len(w) >= i + 3 /\ Of(SubSeq(w, i + 1, i + 3), Digit)
           /\ Len(w) > i + 3 => w[i + 4] = SP /\ Without(After(w, i + 4), Control)
<1> DEFINE rest == After(w, i)
<1>0. Len(w) \in Nat
  BY DEF Word
<1>1. /\ rest \in Word /\ Len(rest) = Len(w) - i
      /\ \A k \in 1..(Len(w) - i) : rest[k] = w[i + k]
  BY AfterIs
<1>2. CASE Len(w) < i + 3
  <2>1. Len(rest) < 3 /\ ~(Len(w) >= i + 3)
    BY <1>0, <1>1, <1>2
  <2> HIDE DEF rest
  <2>2. AfterVersion(rest) = 400
    BY <2>1 DEF AfterVersion
  <2>3. AfterVersion(rest) # 200
    <3>1. \A x : x = 400 => x # 200
      OBVIOUS
    <3> QED
      BY <2>2, <3>1, Zenon
  <2>4. AfterVersion(After(w, i)) # 200
    BY <2>3 DEF rest
  <2>5. ~(/\ Len(w) >= i + 3 /\ Of(SubSeq(w, i + 1, i + 3), Digit)
          /\ Len(w) > i + 3 => w[i + 4] = SP /\ Without(After(w, i + 4), Control))
    BY <2>1
  <2> QED
    BY <2>4, <2>5, Zenon
<1>3. CASE Len(w) >= i + 3
  <2>1. SubSeq(rest, 1, 3) = SubSeq(w, i + 1, i + 3)
    BY <1>0, <1>3 DEF After, Word
  <2>2. CASE Len(w) = i + 3
    <3>1. ~(Len(rest) < 3) /\ Len(rest) = 3 /\ ~(Len(w) > i + 3)
      BY <1>0, <1>1, <2>2
    <3> HIDE DEF rest
    <3>2. AfterVersion(rest) = 200 <=> Of(SubSeq(rest, 1, 3), Digit)
      <4>1. Of(SubSeq(rest, 1, 3), Digit) => AfterVersion(rest) = 200
        BY <3>1, Zenon DEF AfterVersion, Reason
      <4>2. ASSUME ~Of(SubSeq(rest, 1, 3), Digit) PROVE AfterVersion(rest) # 200
        <5>1. AfterVersion(rest) = 400
          BY <4>2, Zenon DEF AfterVersion
        <5>2. \A x : x = 400 => x # 200
          OBVIOUS
        <5> QED
          BY <5>1, <5>2, Zenon
      <4> QED
        BY <4>1, <4>2, Zenon
    <3> QED
      BY <1>3, <2>1, <3>1, <3>2 DEF rest
  <2>3. CASE Len(w) > i + 3
    <3>1. rest[4] = w[i + 4]
      BY <1>0, <1>1, <2>3
    <3>2. After(rest, 4) = After(w, i + 4)
      BY <1>0, <2>3 DEF After, Word
    <3>3. ~(Len(rest) < 3) /\ Len(rest) # 3
      BY <1>0, <1>1, <2>3
    <3> HIDE DEF rest
    <3>4. AfterVersion(rest) = 200 <=>
            Of(SubSeq(rest, 1, 3), Digit) /\ rest[4] = SP /\ Without(After(rest, 4), Control)
      <4>1. AfterVersion(rest) = IF ~Of(SubSeq(rest, 1, 3), Digit) THEN 400 ELSE Reason(rest)
        BY <3>3, Zenon DEF AfterVersion
      <4>2. Reason(rest) = IF rest[4] # SP \/ ~Without(After(rest, 4), Control) THEN 400 ELSE 200
        BY <3>3, Zenon DEF Reason
      <4> QED
        BY <4>1, <4>2
    <3> QED
      BY <1>3, <2>1, <2>3, <3>1, <3>2, <3>4 DEF rest
  <2> QED
    BY <1>0, <1>3, <2>2, <2>3
<1> QED
  BY <1>0, <1>2, <1>3

(* A line is a status line, or would be but for DEL in its reason-phrase,  *)
(* when it has the parts of one and no other control character there.      *)
LEMMA StatusTaken ==
  ASSUME NEW w \in Word, NEW i \in 1..Len(w)
  PROVE  IsStatusLine(w, i) \/ HasLooseReason(w, i) <=>
           HasStatusParts(w, i) /\ (Len(w) > i + 3 => Without(After(w, i + 4), Control))
<1> DEFINE reason == After(w, i + 4)
<1>0. Len(w) \in Nat
  BY DEF Word
<1>1. IsText(reason) => Without(reason, Control)
  BY DEF IsText, Without
<1>2. HasStatusParts(w, i) /\ ~(Len(w) > i + 3) => IsText(reason)
  <2>1. SUFFICES ASSUME HasStatusParts(w, i), ~(Len(w) > i + 3) PROVE IsText(reason)
    OBVIOUS
  <2>2. Len(w) = i + 3
    BY <1>0, <2>1 DEF HasStatusParts
  <2>3. Len(reason) = 0
    BY <1>0, <2>2 DEF After, Word
  <2> QED
    BY <2>3 DEF IsText, Without
<1> HIDE DEF reason
<1>3. /\ IsStatusLine(w, i) <=> HasStatusParts(w, i) /\ IsText(reason)
      /\ HasLooseReason(w, i) <=>
           HasStatusParts(w, i) /\ ~IsText(reason) /\ Without(reason, Control)
  BY DEF IsStatusLine, HasLooseReason, reason
<1> QED
  BY <1>1, <1>2, <1>3, Zenon DEF reason

(* parseStatusLine() takes a line exactly when it is a status line, or     *)
(* would be one but for DEL in its reason-phrase.                          *)
THEOREM StatusLinesAsGrammar ==
  ASSUME NEW line \in Word
  PROVE  StatusLineGrammar(line)
<1> DEFINE first == IndexOf(line, SP, 1)
<1>0. Len(line) \in Nat
  BY DEF Word
<1>1. ASSUME NEW i \in 1..Len(line), IsStatusLine(line, i) \/ HasLooseReason(line, i)
      PROVE  StatusLine(line) = 200
  <2>0. /\ HasStatusParts(line, i)
        /\ Len(line) > i + 3 => Without(After(line, i + 4), Control)
    BY <1>1, StatusTaken
  <2>1. i = 2 /\ first = i /\ ~(first <= 1)
    BY <2>0, StatusSpace
  <2>2. Before(line, i) \in Word /\ IsVersion(Before(line, i))
    BY <1>0, <2>0, BeforeIs DEF HasStatusParts
  <2>3. HttpVersion(Before(line, i)) = 200
    BY <2>2, HttpVersionIs
  <2>4. AfterVersion(After(line, i)) = 200
    BY <2>0, AfterVersionIs DEF HasStatusParts
  <2> HIDE DEF first
  <2>5. StatusLine(line) = AfterVersion(After(line, i))
    BY <2>1, <2>3 DEF StatusLine, first
  <2> QED
    BY <2>4, <2>5
<1>2. ASSUME StatusLine(line) = 200
      PROVE  \E i \in 1..Len(line) : IsStatusLine(line, i) \/ HasLooseReason(line, i)
  <2>1. first > 1 /\ HttpVersion(Before(line, first)) = 200
        /\ AfterVersion(After(line, first)) = 200
    <3>1. first = 0 \/ first \in 1..Len(line)
      BY IndexOfIs
    <3> HIDE DEF first
    <3> QED
      BY <1>0, <1>2, <3>1 DEF StatusLine, first
  <2>2. first \in 1..Len(line) /\ line[first] = SP
    BY <2>1, IndexOfIs
  <2> HIDE DEF first
  <2>3. Before(line, first) \in Word
    BY <1>0, <2>2, BeforeIs
  <2>4. IsVersion(Before(line, first))
    <3>1. HttpVersion(Before(line, first)) =
            IF IsVersion(Before(line, first)) THEN 200
            ELSE IF IsOtherVersion(Before(line, first)) THEN 505 ELSE 400
      BY <2>3, HttpVersionIs
    <3> QED
      BY <2>1, <3>1
  <2>5. /\ HasStatusParts(line, first)
        /\ Len(line) > first + 3 => Without(After(line, first + 4), Control)
    BY <2>1, <2>2, <2>4, AfterVersionIs DEF HasStatusParts
  <2>6. IsStatusLine(line, first) \/ HasLooseReason(line, first)
    BY <2>2, <2>5, StatusTaken
  <2> QED
    BY <2>2, <2>6
<1> QED
  BY <1>1, <1>2 DEF StatusLineGrammar
-----------------------------------------------------------------------------
(* What is left of the value of a field line, from j to k, when the white  *)
(* space around it is gone.                                                *)
Trims(w, i, j, k) ==
  /\ i < j /\ j <= k + 1 /\ k <= Len(w)
  /\ Of(Between(w, i, j), OWS) /\ Of(After(w, k), OWS)
  /\ j <= k => w[j] \notin OWS /\ w[k] \notin OWS

Kept(w, i) == {n \in 1..Len(After(w, i)) : After(w, i)[n] \notin OWS}

(* trimOWS() (grammar.ts:24-29) returns what is left, and nothing else.    *)
LEMMA TrimmedIs ==
  ASSUME NEW w \in Word, NEW i \in 1..Len(w), NEW j \in 1..(Len(w) + 1), NEW k \in 0..Len(w),
         Trims(w, i, j, k)
  PROVE  TrimOWS(After(w, i)) = SubSeq(w, j, k)
<1> DEFINE v == After(w, i)
           T == Kept(w, i)
<1>0. Len(w) \in Nat /\ i < j /\ j <= k + 1
  BY DEF Word, Trims
<1>1. /\ v \in Word /\ Len(v) = Len(w) - i
      /\ \A n \in 1..(Len(w) - i) : v[n] = w[i + n]
  BY AfterIs
<1>2. \A n \in (i + 1)..(j - 1) : w[n] \in OWS
  <2>1. /\ Len(Between(w, i, j)) = j - i - 1
        /\ \A n \in 1..(j - i - 1) : Between(w, i, j)[n] = w[i + n]
    BY <1>0, BetweenIs
  <2>2. SUFFICES ASSUME NEW n \in (i + 1)..(j - 1) PROVE w[n] \in OWS
    OBVIOUS
  <2> DEFINE o == n - i
  <2>3. o \in 1..(j - i - 1) /\ i + o = n
    BY <1>0
  <2> HIDE DEF o
  <2> QED
    BY <2>1, <2>3 DEF Trims, Of
<1>3. \A n \in (k + 1)..Len(w) : w[n] \in OWS
  <2>1. /\ Len(After(w, k)) = Len(w) - k
        /\ \A n \in 1..(Len(w) - k) : After(w, k)[n] = w[k + n]
    BY AfterIs
  <2>2. SUFFICES ASSUME NEW n \in (k + 1)..Len(w) PROVE w[n] \in OWS
    OBVIOUS
  <2> DEFINE o == n - k
  <2>3. o \in 1..(Len(w) - k) /\ k + o = n
    BY <1>0
  <2> HIDE DEF o
  <2> QED
    BY <2>1, <2>3 DEF Trims, Of
<1>4. \A n \in T : n \in Int /\ j - i <= n /\ n <= k - i /\ n \in 1..(Len(w) - i)
  <2>1. SUFFICES ASSUME NEW n \in T
                 PROVE  n \in Int /\ j - i <= n /\ n <= k - i /\ n \in 1..(Len(w) - i)
    OBVIOUS
  <2>2. n \in 1..(Len(w) - i) /\ w[i + n] \notin OWS
    BY <1>1 DEF Kept
  <2>3. i + n \notin (i + 1)..(j - 1) /\ i + n \notin (k + 1)..Len(w)
    BY <1>2, <1>3, <2>2
  <2> QED
    BY <1>0, <2>2, <2>3
<1>5. TrimOWS(v) = IF T = {} THEN <<>>
                   ELSE SubSeq(v, CHOOSE n \in T : \A m \in T : n <= m,
                                  CHOOSE n \in T : \A m \in T : n >= m)
  BY DEF TrimOWS, Kept
<1>6. CASE j <= k
  <2>1. w[j] \notin OWS /\ w[k] \notin OWS
    BY <1>6 DEF Trims
  <2>2. j - i \in T /\ k - i \in T
    <3>1. j - i \in 1..(Len(w) - i) /\ k - i \in 1..(Len(w) - i)
          /\ i + (j - i) = j /\ i + (k - i) = k
      BY <1>0, <1>6
    <3> QED
      BY <1>1, <2>1, <3>1 DEF Kept
  <2> HIDE DEF T, v
  <2>3. (CHOOSE n \in T : \A m \in T : n <= m) = j - i
    <3>1. \A m \in T : j - i <= m
      BY <1>4
    <3>2. \A n \in T : (\A m \in T : n <= m) => n = j - i
      BY <1>4, <2>2
    <3> QED
      BY <2>2, <3>1, <3>2
  <2>4. (CHOOSE n \in T : \A m \in T : n >= m) = k - i
    <3>1. \A m \in T : k - i >= m
      BY <1>4
    <3>2. \A n \in T : (\A m \in T : n >= m) => n = k - i
      BY <1>4, <2>2
    <3> QED
      BY <2>2, <3>1, <3>2
  <2>5. TrimOWS(v) = SubSeq(v, j - i, k - i)
    BY <1>5, <2>2, <2>3, <2>4
  <2>6. SubSeq(v, j - i, k - i) = SubSeq(w, j, k)
    BY <1>0, <1>6 DEF v, After, Word
  <2> QED
    BY <2>5, <2>6 DEF v
<1>7. CASE ~(j <= k)
  <2>1. T = {}
    BY <1>0, <1>4, <1>7
  <2>2. SubSeq(w, j, k) = <<>>
    BY <1>0, <1>7 DEF Word
  <2> QED
    BY <1>5, <2>1, <2>2
<1> QED
  BY <1>6, <1>7

(* There is always such a part.                                            *)
LEMMA TrimmedExists ==
  ASSUME NEW w \in Word, NEW i \in 1..Len(w)
  PROVE  \E j \in 1..(Len(w) + 1), k \in 0..Len(w) : Trims(w, i, j, k)
<1> DEFINE T == {n \in (i + 1)..Len(w) : w[n] \notin OWS}
<1>0. Len(w) \in Nat /\ T \in SUBSET Nat /\ \A n \in T : n <= Len(w)
  BY DEF Word
<1>1. ASSUME NEW j \in (i + 1)..(Len(w) + 1), \A n \in (i + 1)..(j - 1) : w[n] \in OWS
      PROVE  Of(Between(w, i, j), OWS)
  <2>1. /\ Len(Between(w, i, j)) = j - i - 1
        /\ \A n \in 1..(j - i - 1) : Between(w, i, j)[n] = w[i + n]
    BY <1>0, BetweenIs
  <2>2. \A n \in 1..(j - i - 1) : w[i + n] \in OWS
    BY <1>0, <1>1
  <2> QED
    BY <2>1, <2>2 DEF Of
<1>2. ASSUME NEW k \in i..Len(w), \A n \in (k + 1)..Len(w) : w[n] \in OWS
      PROVE  Of(After(w, k), OWS)
  <2>1. /\ Len(After(w, k)) = Len(w) - k
        /\ \A n \in 1..(Len(w) - k) : After(w, k)[n] = w[k + n]
    <3>1. k \in 0..Len(w)
      BY <1>0
    <3> QED
      BY <3>1, AfterIs
  <2>2. \A n \in 1..(Len(w) - k) : w[k + n] \in OWS
    BY <1>0, <1>2
  <2> QED
    BY <2>1, <2>2 DEF Of
<1>3. CASE T = {}
  <2> DEFINE j == Len(w) + 1
             k == Len(w)
  <2>1. \A n \in (i + 1)..(j - 1) : w[n] \in OWS
    BY <1>0, <1>3
  <2>2. Of(Between(w, i, j), OWS) /\ Of(After(w, k), OWS)
    BY <1>0, <1>1, <1>2, <2>1
  <2>3. Trims(w, i, j, k)
    BY <1>0, <2>2 DEF Trims
  <2> QED
    BY <1>0, <2>3
<1>4. CASE T # {}
  <2>1. PICK j \in T : \A n \in T : j <= n
    <3> HIDE DEF T
    <3> QED
      BY <1>0, <1>4, LeastElement
  <2>2. PICK k \in T : \A n \in T : n <= k
    <3> HIDE DEF T
    <3> QED
      BY <1>0, <1>4, GreatestElement
  <2>3. j <= k /\ j \in (i + 1)..Len(w) /\ k \in (i + 1)..Len(w)
        /\ w[j] \notin OWS /\ w[k] \notin OWS
    BY <2>1, <2>2
  <2>4. ASSUME NEW n \in (i + 1)..(j - 1) PROVE w[n] \in OWS
    <3>1. n \in (i + 1)..Len(w) /\ ~(j <= n)
      BY <1>0, <2>3
    <3> QED
      BY <2>1, <3>1
  <2>5. ASSUME NEW n \in (k + 1)..Len(w) PROVE w[n] \in OWS
    <3>1. n \in (i + 1)..Len(w) /\ ~(n <= k)
      BY <1>0, <2>3
    <3> QED
      BY <2>2, <3>1
  <2>6. Of(Between(w, i, j), OWS) /\ Of(After(w, k), OWS)
    BY <1>0, <1>1, <1>2, <2>3, <2>4, <2>5
  <2>7. Trims(w, i, j, k)
    BY <1>0, <2>3, <2>6 DEF Trims
  <2>8. j \in 1..(Len(w) + 1) /\ k \in 0..Len(w)
    BY <1>0, <2>3
  <2> QED
    BY <2>7, <2>8
<1> QED
  BY <1>3, <1>4

(* The colon of a field line is the first there is, and no white space     *)
(* stands at its beginning.                                                *)
LEMMA FieldColon ==
  ASSUME NEW w \in Word, NEW i \in 1..Len(w), w[i] = COLON, IsToken(Before(w, i))
  PROVE  w # <<>> /\ w[1] \notin OWS /\ IndexOf(w, COLON, 1) = i
<1>0. Len(w) \in Nat
  BY DEF Word
<1>1. /\ Before(w, i) \in Word /\ Len(Before(w, i)) = i - 1
      /\ \A n \in 1..(i - 1) : Before(w, i)[n] = w[n]
  BY <1>0, BeforeIs
<1>2. i # 1
  BY <1>1 DEF IsToken, Word
<1>3. \A n \in 1..(i - 1) : w[n] \in TChar
  BY <1>1 DEF IsToken, Of
<1>4. w[1] \notin OWS /\ \A n \in 1..(i - 1) : w[n] # COLON
  BY <1>2, <1>3, Classes
<1>5. IndexOf(w, COLON, 1) = i
  BY <1>4, IndexOfOnly
<1> QED
  BY <1>4, <1>5 DEF Word

(* A line is a field line, or would be but for control characters in its   *)
(* value, when it has the parts of one and none of NUL, LF and CR there.   *)
LEMMA FieldTaken ==
  ASSUME NEW w, NEW i, NEW j, NEW k
  PROVE  IsFieldLine(w, i, j, k) \/ HasLooseValue(w, i, j, k) <=>
           HasFieldParts(w, i, j, k) /\ Without(SubSeq(w, j, k), Forbidden)
<1> DEFINE value == SubSeq(w, j, k)
<1>1. IsText(value) => Without(value, Forbidden)
  BY ClassAssumption DEF IsText, Without
<1> HIDE DEF value
<1>2. /\ IsFieldLine(w, i, j, k) <=> HasFieldParts(w, i, j, k) /\ IsText(value)
      /\ HasLooseValue(w, i, j, k) <=>
           HasFieldParts(w, i, j, k) /\ ~IsText(value) /\ Without(value, Forbidden)
  BY DEF IsFieldLine, HasLooseValue, value
<1> QED
  BY <1>1, <1>2, Zenon DEF value

(* A line of parseHeaderLines() is a field exactly when it is a field line *)
(* of the grammar, or would be one but for control characters other than   *)
(* NUL, LF and CR in its value; with the name and the value the grammar    *)
(* finds in it.                                                            *)
THEOREM FieldLinesAsGrammar ==
  ASSUME NEW line \in Word
  PROVE  FieldLineGrammar(line)
<1> DEFINE colon == IndexOf(line, COLON, 1)
           f == FieldLine(line)
           cuts == {c \in (1..Len(line)) \X (1..(Len(line) + 1)) \X (0..Len(line)) :
                      \/ IsFieldLine(line, c[1], c[2], c[3])
                      \/ HasLooseValue(line, c[1], c[2], c[3])}
<1>0. Len(line) \in Nat
  BY DEF Word
<1>1. CASE f.valid
  <2>1. /\ colon # 0 /\ f = FieldParts(Before(line, colon), TrimOWS(After(line, colon)))
    BY <1>1 DEF FieldLine, NoField
  <2>2. colon \in 1..Len(line) /\ line[colon] = COLON
    BY <2>1, IndexOfIs
  <2> HIDE DEF colon
  <2>3. /\ IsToken(Before(line, colon)) /\ Without(TrimOWS(After(line, colon)), Forbidden)
        /\ f.name = Before(line, colon) /\ f.value = TrimOWS(After(line, colon))
    <3> HIDE DEF f
    <3> QED
      BY <1>1, <2>1 DEF FieldParts, NoField
  <2>4. PICK j \in 1..(Len(line) + 1), k \in 0..Len(line) : Trims(line, colon, j, k)
    BY <2>2, TrimmedExists
  <2>5. TrimOWS(After(line, colon)) = SubSeq(line, j, k)
    BY <2>2, <2>4, TrimmedIs
  <2>6. IsFieldLine(line, colon, j, k) \/ HasLooseValue(line, colon, j, k)
    <3>1. HasFieldParts(line, colon, j, k) /\ Without(SubSeq(line, j, k), Forbidden)
      BY <2>2, <2>3, <2>4, <2>5 DEF HasFieldParts, Trims
    <3> QED
      BY <3>1, FieldTaken
  <2> DEFINE c == <<colon, j, k>>
  <2>7. c \in cuts /\ c[1] = colon /\ c[2] = j /\ c[3] = k
    BY <2>2, <2>6
  <2>8. f.name = Before(line, c[1]) /\ f.value = SubSeq(line, c[2], c[3])
    BY <2>3, <2>5, <2>7
  <2> HIDE DEF c, cuts
  <2>9. \E d \in cuts : f.name = Before(line, d[1]) /\ f.value = SubSeq(line, d[2], d[3])
    BY <2>7, <2>8
  <2> QED
    BY <1>1, <2>9 DEF FieldLineGrammar, cuts
<1>2. CASE ~f.valid
  <2>1. SUFFICES ASSUME NEW i \in 1..Len(line), NEW j \in 1..(Len(line) + 1),
                        NEW k \in 0..Len(line),
                        IsFieldLine(line, i, j, k) \/ HasLooseValue(line, i, j, k)
                 PROVE  FALSE
    BY <1>2 DEF FieldLineGrammar
  <2>2. Trims(line, i, j, k) /\ line[i] = COLON /\ IsToken(Before(line, i))
        /\ Without(SubSeq(line, j, k), Forbidden)
    BY <2>1, FieldTaken DEF HasFieldParts, Trims
  <2>3. line # <<>> /\ line[1] \notin OWS /\ colon = i /\ colon # 0
    BY <2>2, FieldColon
  <2>4. TrimOWS(After(line, i)) = SubSeq(line, j, k)
    BY <2>2, TrimmedIs
  <2>5. f = FieldParts(Before(line, i), SubSeq(line, j, k))
    BY <2>3, <2>4 DEF FieldLine
  <2>6. f.valid
    <3> HIDE DEF f
    <3> QED
      BY <2>2, <2>5 DEF FieldParts
  <2> QED
    BY <1>2, <2>6
<1> QED
  BY <1>1, <1>2
-----------------------------------------------------------------------------
(* What the scenario settles is not touched by any step.                   *)
LEMMA RequestStays == [Next]_vars => UNCHANGED request
BY DEF Next, Step, Receive, Dispatch, Call, Stat, ReadFile, Finish, ChangeFile, vars, request

(* What the scenario decides is a function of the request alone.           *)
LEMMA SettledStays ==
  ASSUME Settled, UNCHANGED request
  PROVE  Settled'
<1>0. scenario' = scenario /\ req' = req /\ route' = route /\ params' = params /\ chain' = chain
  BY DEF request
<1>1. Line' = Line /\ Fields' = Fields
  BY <1>0 DEF Line, Fields
<1>2. ReadRequest' = ReadRequest
  BY <1>0, <1>1 DEF ReadRequest, Refused, GetHeader
<1>3. FindRoute' = FindRoute
  BY <1>0 DEF FindRoute, SelectInSeq
<1>4. OnPath' = OnPath
  BY <1>0 DEF OnPath
<1>5. Mounted' = Mounted
  BY <1>0, <1>4 DEF Mounted
<1>6. PickChain' = PickChain /\ RouteParams' = RouteParams
  BY <1>0, <1>5 DEF PickChain, RouteParams
<1> QED
  BY <1>0, <1>2, <1>3, <1>6 DEF Settled

(* It is decided when the request comes.                                   *)
LEMMA InitSettled == Init => Settled
BY DEF Init, Settled

(* The handlers are picked once, for the request that came.                *)
LEMMA PickedOnce == Spec => []Settled
BY InitSettled, RequestStays, SettledStays, PTL DEF Spec

(* Every line of every request, whatever it looks like, is taken apart as  *)
(* the grammar of RFC 9112 says, or is one of the two that the code takes  *)
(* beside it: the three line theorems, of the lines that come.             *)
THEOREM LinesTakenApart == Spec => []LinesAsGrammar
<1>1. Settled => LinesAsGrammar
  <2> SUFFICES ASSUME Settled PROVE LinesAsGrammar
    OBVIOUS
  <2>1. scenario.line \in Word /\ scenario.fields \in Seq(Word)
    BY HandlingAssumption DEF Settled, Scenario
  <2>2. \A i \in DOMAIN scenario.fields : scenario.fields[i] \in Word
    BY <2>1
  <2> QED
    BY <2>1, <2>2, RequestLinesAsGrammar, StatusLinesAsGrammar, FieldLinesAsGrammar
       DEF LinesAsGrammar
<1> QED
  BY PickedOnce, <1>1, PTL
-----------------------------------------------------------------------------
(* The handlers of middlewares and routes: only a route ends in echo.      *)
LEMMA Handlers ==
  /\ \A m \in Middleware :
       m.handler \in Handler(HandlerKind) /\ m.handler.kind # "echo" /\ m.path \in Word
  /\ \A r \in Route : r.handler \in Handler(HandlerKind)
<1>1. HandlerKind \ {"echo"} \subseteq HandlerKind
  OBVIOUS
<1>2. Handler(HandlerKind \ {"echo"}) \subseteq Handler(HandlerKind)
  <2> HIDE DEF HandlerKind
  <2> QED
    BY <1>1 DEF Handler
<1>3. \A h \in Handler(HandlerKind \ {"echo"}) : h.kind # "echo"
  <2> HIDE DEF HandlerKind
  <2> QED
    BY DEF Handler
<1> HIDE DEF Handler, HandlerKind
<1>4. \A m \in Middleware : m.handler \in Handler(HandlerKind \ {"echo"}) /\ m.path \in Word
  BY DEF Middleware
<1>5. \A r \in Route : r.handler \in Handler(HandlerKind)
  BY DEF Route
<1> QED
  BY <1>2, <1>3, <1>4, <1>5

(* What runChain() picks: the middlewares mounted on the path, in their    *)
(* order, and the handler of the route.                                    *)
LEMMA MountedIs ==
  ASSUME Settled
  PROVE  /\ OnPath \in SUBSET Nat /\ IsFiniteSet(OnPath) /\ Cardinality(OnPath) \in Nat
         /\ \A k \in 1..Cardinality(OnPath) :
              /\ Ranked(OnPath, k - 1) \in DOMAIN scenario.middlewares
              /\ Mounted[k] = scenario.middlewares[Ranked(OnPath, k - 1)]
         /\ Mounted \in Seq(Middleware) /\ Len(Mounted) = Cardinality(OnPath)
<1>1. scenario.middlewares \in Seq(Middleware)
  BY HandlingAssumption DEF Settled, Scenario
<1>2. OnPath \subseteq 1..Len(scenario.middlewares) /\ Len(scenario.middlewares) \in Nat
  BY <1>1 DEF OnPath
<1>3. OnPath \in SUBSET Nat /\ IsFiniteSet(OnPath)
  <2> HIDE DEF OnPath
  <2>1. IsFiniteSet(1..Len(scenario.middlewares))
    BY <1>2, FS_Interval
  <2>2. IsFiniteSet(OnPath)
    BY <1>2, <2>1, FS_Subset
  <2>3. 1..Len(scenario.middlewares) \subseteq Nat
    OBVIOUS
  <2> QED
    BY <1>2, <2>2, <2>3
<1>4. Cardinality(OnPath) \in Nat
  BY <1>3, FS_CardinalityType
<1>5. ASSUME NEW k \in 1..Cardinality(OnPath) PROVE Ranked(OnPath, k - 1) \in OnPath
  <2>1. k - 1 \in Nat /\ k - 1 < Cardinality(OnPath)
    BY <1>4
  <2> QED
    BY <1>3, <2>1, RankedMember
<1>6. \A k \in 1..Cardinality(OnPath) : Ranked(OnPath, k - 1) \in DOMAIN scenario.middlewares
  BY <1>1, <1>2, <1>5
<1>7. \A k \in 1..Cardinality(OnPath) :
        scenario.middlewares[Ranked(OnPath, k - 1)] \in Middleware
  BY <1>1, <1>6
<1>8. Mounted \in [1..Cardinality(OnPath) -> Middleware]
  BY <1>7 DEF Mounted
<1>9. Mounted \in Seq(Middleware) /\ Len(Mounted) = Cardinality(OnPath)
  BY <1>4, <1>8
<1> QED
  BY <1>3, <1>4, <1>6, <1>9 DEF Mounted

(* A route that is found is one of the application (app.ts:176-178).       *)
LEMMA FindRouteIs ==
  ASSUME Settled
  PROVE  FindRoute = 0 \/ FindRoute \in DOMAIN scenario.routes
<1> DEFINE fits == {i \in 1..Len(scenario.routes) :
                     /\ scenario.routes[i].method = ToUpper(req.method)
                     /\ Matches(scenario.routes[i].pattern, req.path)}
<1>1. scenario.routes \in Seq(Route)
  BY HandlingAssumption DEF Settled, Scenario
<1>2. FindRoute = IF fits # {} THEN Min(fits) ELSE 0
  BY DEF FindRoute, SelectInSeq
<1>3. fits \subseteq DOMAIN scenario.routes /\ fits \subseteq Nat
  BY <1>1
<1>4. fits # {} => Min(fits) \in fits
  <2> HIDE DEF fits
  <2> QED
    BY <1>3, LeastElement DEF Min
<1> QED
  BY <1>2, <1>3, <1>4

(* The chain is the middlewares mounted above the path and at most a route *)
(* behind them (app.ts:171-189).                                           *)
LEMMA ChainIs ==
  ASSUME Settled
  PROVE  /\ chain \in Seq(Handler(HandlerKind)) /\ Len(chain) \in Nat
         /\ chain # <<>> =>
              /\ Len(chain) \in {Len(Mounted), Len(Mounted) + 1}
              /\ \A k \in 1..Len(Mounted) : chain[k] = Mounted[k].handler
<1> DEFINE above == [i \in DOMAIN Mounted |-> Mounted[i].handler]
           last == IF route = 0 THEN <<>> ELSE <<scenario.routes[route].handler>>
<1>1. Mounted \in Seq(Middleware)
  BY MountedIs
<1>2. above \in Seq(Handler(HandlerKind)) /\ Len(above) = Len(Mounted)
  <2>1. \A m \in Middleware : m.handler \in Handler(HandlerKind)
    BY Handlers
  <2>2. \A i \in DOMAIN Mounted : Mounted[i].handler \in Handler(HandlerKind)
    BY <1>1, <2>1
  <2> QED
    BY <1>1, <2>2
<1>3. route # 0 => scenario.routes[route].handler \in Handler(HandlerKind)
  <2>1. route # 0 => route \in DOMAIN scenario.routes
    BY FindRouteIs DEF Settled
  <2>2. scenario.routes \in Seq(Route)
    BY HandlingAssumption DEF Settled, Scenario
  <2> QED
    BY <2>1, <2>2, Handlers
<1>4. last \in Seq(Handler(HandlerKind)) /\ Len(last) \in {0, 1}
  BY <1>3
<1>5. chain = above \o last \/ chain = <<>>
  BY DEF Settled, PickChain
<1> HIDE DEF above, last
<1>6. /\ above \o last \in Seq(Handler(HandlerKind))
      /\ Len(above \o last) = Len(Mounted) + Len(last)
      /\ \A k \in 1..Len(Mounted) : (above \o last)[k] = above[k]
  BY <1>2, <1>4
<1>7. \A k \in 1..Len(Mounted) : above[k] = Mounted[k].handler
  BY <1>1 DEF above
<1>8. Len(Mounted) \in Nat
  BY <1>1
<1>9. CASE chain = <<>>
  BY <1>9
<1>10. CASE chain = above \o last
  <2>1. \A k \in 1..Len(Mounted) : chain[k] = Mounted[k].handler
    BY <1>6, <1>7, <1>10
  <2>2. Len(chain) = Len(Mounted) + Len(last) /\ chain \in Seq(Handler(HandlerKind))
    BY <1>6, <1>10
  <2>3. Len(chain) \in {Len(Mounted), Len(Mounted) + 1}
    <3>1. \A a, b, c : a \in Nat /\ b \in {0, 1} /\ c = a + b => c \in {a, a + 1}
      OBVIOUS
    <3> QED
      BY <1>4, <1>8, <2>2, <3>1, Zenon
  <2> QED
    BY <1>8, <2>1, <2>2, <2>3
<1> QED
  BY <1>5, <1>9, <1>10
-----------------------------------------------------------------------------
(* Setting a field leaves the status and the length as they were, and the  *)
(* status set is the one sent.                                             *)
LEMMA LengthKept ==
  ASSUME NEW b, IsBuilder(b), NEW v
  PROVE  /\ [b EXCEPT !.status = v].length = b.length
         /\ [b EXCEPT !.types = v].length = b.length
         /\ [b EXCEPT !.sent = TRUE].length = b.length
         /\ [b EXCEPT !.sent = TRUE].status = b.status
         /\ [b EXCEPT !.length = v].length = v
         /\ [b EXCEPT !.length = v].status = b.status
BY DEF IsBuilder

(* Setting a type leaves the status and the length alone (response.ts).    *)
LEMMA BuilderKept ==
  ASSUME HandlingInv, NEW status, NEW type
  PROVE  /\ Ensured(res, type).length = res.length /\ Ensured(res, type).status = res.status
         /\ WithType(type).length = res.length /\ WithType(type).status = res.status
         /\ \A n : /\ [WithType(type) EXCEPT !.length = n].length = n
                  /\ [WithType(type) EXCEPT !.length = n].status = res.status
         /\ Ensured(WithStatus(status), type).length = res.length
<1>1. IsBuilder(res)
  BY DEF HandlingInv
<1>2. Ensured(res, type).length = res.length /\ Ensured(res, type).status = res.status
  BY <1>1, Updates, LengthKept DEF Ensured
<1>3. /\ IsBuilder(WithType(type))
      /\ WithType(type).length = res.length /\ WithType(type).status = res.status
  <2>1. IsBuilder(WithType(type)) /\ WithType(type).status = res.status
    BY <1>1, Updates DEF WithType
  <2>2. WithType(type).length = res.length
    BY <1>1, LengthKept DEF WithType
  <2> QED
    BY <2>1, <2>2
<1>4. \A n : /\ [WithType(type) EXCEPT !.length = n].length = n
             /\ [WithType(type) EXCEPT !.length = n].status = res.status
  BY <1>3, LengthKept
<1>5. IsBuilder(WithStatus(status)) /\ WithStatus(status).length = res.length
  <2>1. IsBuilder(WithStatus(status))
    BY <1>1, Updates DEF WithStatus
  <2>2. WithStatus(status).length = res.length
    BY <1>1, LengthKept DEF WithStatus
  <2> QED
    BY <2>1, <2>2
<1>6. Ensured(WithStatus(status), type).length = res.length
  BY <1>5, LengthKept DEF Ensured
<1> QED
  BY <1>2, <1>3, <1>4, <1>6

NoFile(rs) == \A k \in DOMAIN rs : rs[k].by # "file"

(* What is sent has the status and the length of its builder, and is a     *)
(* file only when staticFiles() sends it.                                  *)
LEMMA FlushKeeps ==
  ASSUME HandlingInv, NEW by, NEW builder, NEW content, IsBuilder(builder),
         Flush(by, builder, content)
  PROVE  /\ res'.status = builder.status /\ res'.length = builder.length /\ res'.sent
         /\ responses' = <<Written(by, builder, content)>>
         /\ by # "file" => NoFile(responses')
<1>1. responses' = <<Written(by, builder, content)>>
  BY DEF HandlingInv, Flush
<1>2. res'.status = builder.status /\ res'.length = builder.length /\ res'.sent
  BY Updates, LengthKept DEF Flush
<1>3. Written(by, builder, content).by = by
  BY DEF Written
<1> QED
  BY <1>1, <1>2, <1>3 DEF NoFile

(* What a handler does to the response, with its status and its length.    *)
CallEffect ==
  /\ error' \in {error, 0, 400, 413}
  /\ res'.status \in {res.status, 403} /\ res'.length = res.length
  /\ body'.as \in {body.as, "json", "form", "undefined"}
  /\ responses' = responses \/ NoFile(responses')
  /\ turn' = "stat" => Inside(target')
  /\ turn' # "read"

(* What a body parser may do (body-parsers.ts).                            *)
LEMMA ParseBodyEffect ==
  ASSUME NEW h, NEW type, NEW parsed, NEW valid, ParseBody(h, type, parsed, valid),
         parsed.as \in {"json", "form", "undefined"}
  PROVE  CallEffect
<1>1. error' \in {error, 400, 413} /\ turn' \in {"dispatch", "settled"}
  BY DEF ParseBody, CallNext, Reject
<1>2. res' = res /\ responses' = responses
  BY DEF ParseBody, NoFlush
<1>3. body' = body \/ body' = parsed
  BY DEF ParseBody
<1> QED
  BY <1>1, <1>2, <1>3 DEF CallEffect

(* What a handler of the application may do.                               *)
LEMMA OwnEffect ==
  ASSUME HandlingInv, NEW h, Own(h)
  PROVE  CallEffect
<1>0. body' = body
  BY DEF Own
<1>a. error' \in {error, 0} /\ turn' \in {"dispatch", "settled"}
  BY DEF Own, CallNext, Stop, Reject, TooLate
<1>1. CASE NoFlush
  BY <1>0, <1>a, <1>1 DEF NoFlush, CallEffect
<1>2. CASE res' = WithType("own") /\ UNCHANGED responses
  <2>1. res'.status = res.status /\ res'.length = res.length
    BY <1>2, BuilderKept
  <2> QED
    BY <1>0, <1>a, <1>2, <2>1 DEF CallEffect
<1>3. ASSUME NEW builder, NEW content, Flush("handler", builder, content), IsBuilder(builder),
             builder.status \in {res.status, 403}, builder.length = res.length
      PROVE  CallEffect
  <2>1. /\ res'.status = builder.status /\ res'.length = builder.length
        /\ NoFile(responses')
    BY <1>3, FlushKeeps
  <2> QED
    BY <1>0, <1>a, <1>3, <2>1 DEF CallEffect
<1>4. ASSUME NEW status \in {403}, NEW content,
             Flush("handler", Ensured(WithStatus(status), "json"), content)
      PROVE  CallEffect
  <2>1. /\ IsBuilder(Ensured(WithStatus(status), "json"))
        /\ Ensured(WithStatus(status), "json").status = status
        /\ Ensured(WithStatus(status), "json").length = res.length
    <3>1. ASSUME NEW s
          PROVE  /\ IsBuilder(Ensured(WithStatus(s), "json"))
                 /\ Ensured(WithStatus(s), "json").status = s
      BY Builders
    <3>2. ASSUME NEW s
          PROVE  Ensured(WithStatus(s), "json").length = res.length
      BY BuilderKept
    <3> QED
      BY <3>1, <3>2, Zenon
  <2> QED
    BY <1>3, <1>4, <2>1
<1>5. ASSUME NEW type, NEW content, Flush("handler", Ensured(res, type), content)
      PROVE  CallEffect
  <2>1. /\ IsBuilder(Ensured(res, type)) /\ Ensured(res, type).length = res.length
        /\ Ensured(res, type).status \in {res.status, 403}
    BY Builders, BuilderKept
  <2> QED
    BY <1>3, <1>5, <2>1
<1> QED
  BY <1>1, <1>2, <1>4, <1>5, 403 \in {403} DEF Own, TooLate

(* What any call of a handler may do.                                      *)
LEMMA CallEffects ==
  ASSUME HandlingInv, Call
  PROVE  CallEffect
<1> DEFINE h == chain[started]
<1>1. CASE Json(h)
  <2>1. Decoded("undefined").as = "undefined"
    BY DEF Decoded
  <2>2. [Decoded("json") EXCEPT !.text = scenario.body].as = "json"
    BY DEF Decoded
  <2> QED
    BY <1>1, <2>1, <2>2, ParseBodyEffect DEF Json
<1>2. CASE Urlencoded(h)
  <2>1. Decoded("form").as = "form"
    BY DEF Decoded
  <2> QED
    BY <1>2, <2>1, ParseBodyEffect DEF Urlencoded
<1>3. CASE StaticFiles(h)
  BY <1>3 DEF StaticFiles, CallNext, Reject, NoFlush, CallEffect
<1>4. CASE Own(h)
  BY <1>4, OwnEffect
<1> QED
  BY <1>1, <1>2, <1>3, <1>4 DEF Call

(* The default responses: a status, and the builder as it was.             *)
LEMMA Defaults ==
  ASSUME HandlingInv, NEW by, by # "file", NEW status, NEW content,
         Flush(by, Ensured(WithStatus(status), "json"), content)
  PROVE  res'.status = status /\ res'.length = res.length /\ res'.sent /\ NoFile(responses')
<1> DEFINE builder == Ensured(WithStatus(status), "json")
<1>1. IsBuilder(builder) /\ builder.status = status
  BY Builders
<1>2. builder.length = res.length
  BY BuilderKept
<1> QED
  BY <1>1, <1>2, FlushKeeps

(* What there is at a path is an entry, and a file has a content.          *)
LEMMA FoundIs ==
  ASSUME TypeOK
  PROVE  /\ Found \in Entry
         /\ Found.kind = "file" => target \in FileNames /\ Found = files[target]
                                 /\ Found.content \in Contents
<1>1. (Found = files[target] /\ target \in FileNames) \/ Found \in {Bare("dir"), Bare("absent")}
  BY DEF Found
<1>2. Found \in Entry
  BY <1>1 DEF TypeOK, Entry
<1>3. \A e \in Entry : e.kind = "file" => e.content \in Contents
  BY DEF Entry, Bare, File
<1>4. Bare("dir").kind # "file" /\ Bare("absent").kind # "file"
  BY DEF Bare
<1> QED
  BY <1>1, <1>2, <1>3, <1>4

(* What readFile() does: nothing is sent but the file as it is now, whole  *)
(* and with its length.                                                    *)
FileSent(e) ==
  /\ res'.sent
  /\ responses' = <<responses'[1]>> /\ responses'[1].length = Len(e.content)
  /\ responses'[1].content = IF ToUpper(req.method) = <<"HEAD">> THEN <<>> ELSE e.content

ReadEffect ==
  /\ error' \in {error, 0}
  /\ res'.status = res.status
  /\ \/ res' = res /\ responses' = responses
     \/ /\ Found.kind = "file" /\ turn' = "settled" /\ FileSent(Found)
        /\ res'.length \in {res.length, Len(Found.content)}

(* What the answer of readFile() may do (static.ts:56-69).                 *)
LEMMA ReadEffects ==
  ASSUME HandlingInv, TypeOK, Serving, ReadFile
  PROVE  ReadEffect
<1>1. error' \in {error, 0}
  BY DEF ReadFile, CallNext, Reject, Stop, TooLate
<1>2. CASE NoFlush
  BY <1>1, <1>2 DEF NoFlush, ReadEffect
<1>3. CASE Found.kind = "file" /\ SendFile(Found.content) /\ Stop
  <2> DEFINE n == Len(Found.content)
             head == [WithType("mime") EXCEPT !.length = n]
             whole == WithType("mime")
  <2>1. n \in Nat
    <3>1. Found.content \in Word
      BY <1>3, FoundIs, HandlingAssumption
    <3> QED
      BY <3>1 DEF Word
  <2>2. res.length = -1
    BY <1>3 DEF SendFile, Flush, Serving
  <2>3. /\ IsBuilder(head) /\ head.length = n /\ head.status = res.status
        /\ IsBuilder(whole) /\ whole.length = -1 /\ whole.status = res.status
    BY <2>2, Builders, BuilderKept
  <2>4. ASSUME NEW builder \in {head, whole}, NEW content, Flush("file", builder, content),
               Len(content) = n \/ builder.length = n
        PROVE  /\ res'.sent /\ res'.status = res.status
               /\ responses' = <<responses'[1]>> /\ responses'[1].length = n
               /\ responses'[1].content = content
               /\ res'.length \in {res.length, n}
    <3> HIDE DEF n, head, whole
    <3>1. /\ res'.status = builder.status /\ res'.length = builder.length /\ res'.sent
          /\ responses' = <<Written("file", builder, content)>>
      BY <2>3, <2>4, FlushKeeps
    <3>2. builder.length = n \/ (builder.length = -1 /\ Len(content) = n)
      BY <2>3, <2>4
    <3>3. Written("file", builder, content).length = n
      BY <2>1, <3>2 DEF Written
    <3>4. Written("file", builder, content).content = content
      BY DEF Written
    <3> QED
      BY <2>2, <2>3, <3>1, <3>3, <3>4
  <2>5. turn' = "settled"
    BY <1>3 DEF Stop
  <2>6. CASE ToUpper(req.method) = <<"HEAD">> /\ Flush("file", head, <<>>)
    <3> HIDE DEF n, head
    <3>1. /\ res'.sent /\ res'.status = res.status
          /\ responses' = <<responses'[1]>> /\ responses'[1].length = n
          /\ responses'[1].content = <<>>
          /\ res'.length \in {res.length, n}
      BY <2>3, <2>4, <2>6
    <3> QED
      BY <1>1, <1>3, <2>5, <2>6, <3>1 DEF ReadEffect, FileSent, n
  <2>7. CASE ToUpper(req.method) # <<"HEAD">> /\ Flush("file", whole, Found.content)
    <3>1. /\ res'.sent /\ res'.status = res.status
          /\ responses' = <<responses'[1]>> /\ responses'[1].length = n
          /\ responses'[1].content = Found.content
          /\ res'.length \in {res.length, n}
      BY <2>4, <2>7
    <3> QED
      BY <1>1, <1>3, <2>5, <2>7, <3>1 DEF ReadEffect, FileSent
  <2> QED
    BY <1>3, <2>6, <2>7 DEF SendFile
<1> QED
  BY <1>2, <1>3 DEF ReadFile, TooLate

(* The status with which the lines are refused.                            *)
LEMMA RefusedIs ==
  ASSUME Settled
  PROVE  req.status \in {200, 400, 505}
<1>1. scenario.line \in Word
  BY HandlingAssumption DEF Settled, Scenario
<1>2. Line.status \in {200, 400, 505}
  BY <1>1, RequestLinesAsGrammar DEF RequestLineGrammar, Line
<1>3. req.status = Refused
  BY DEF Settled, ReadRequest
<1>4. Refused \in {Line.status, 400, 200}
  BY DEF Refused
<1> HIDE DEF Refused, Line
<1> QED
  BY <1>2, <1>3, <1>4

(* The statuses and lengths that a builder may come to have.               *)
Statuses == {200, 400, 403, 404, 413, 500, 505}
Lengths == {-1} \cup {Len(c) : c \in Contents}

(* A request that has not come yet is well typed.                          *)
LEMMA InitTypes == Init => TypeOK
<1> SUFFICES ASSUME Init PROVE TypeOK
  OBVIOUS
<1>1. Settled
  BY InitSettled
<1>2. scenario.files \in [FileNames -> Entry]
  BY <1>1, HandlingAssumption DEF Settled, Scenario
<1>3. files \in [FileNames -> Entry] /\ had \in [FileNames -> SUBSET Entry]
  BY <1>2 DEF Init
<1>4. started \in 0..Len(chain)
  BY <1>1, ChainIs DEF Init
<1>5. changes \in 0..MaxChanges
  BY HandlingAssumption DEF Init
<1> QED
  BY <1>3, <1>4, <1>5 DEF Init, TypeOK, RawBody

(* Every step keeps the types.                                             *)
LEMMA NextTypes ==
  ASSUME HandlingInv, Settled, TypeOK, Serving, [Next]_vars
  PROVE  TypeOK'
<1> DEFINE Store(f, hd, c) == /\ f \in [FileNames -> Entry] /\ hd \in [FileNames -> SUBSET Entry]
                              /\ c \in 0..MaxChanges
           Turn(tn) == tn \in {"receive", "dispatch", "call", "stat", "read", "settled", "done"}
           Outcome(o, e) == o \in {"pending", "resolved", "rejected"} /\ e \in {0, 400, 413}
           Response(r) == r.status \in Statuses /\ r.length \in Lengths /\ r.sent \in BOOLEAN
           Parts == /\ Store(files', had', changes') /\ Turn(turn') /\ started' \in 0..Len(chain)
                    /\ Outcome(outcome', error') /\ body'.as \in {"raw", "json", "form", "undefined"}
                    /\ Response(res')
<1>a. /\ Store(files, had, changes) /\ Turn(turn) /\ started \in 0..Len(chain)
      /\ Outcome(outcome, error) /\ body.as \in {"raw", "json", "form", "undefined"}
      /\ Response(res)
  BY DEF TypeOK, Statuses, Lengths
<1>b. chain' = chain
  BY RequestStays DEF request
<1>c. Parts => TypeOK'
  BY <1>b DEF TypeOK, Statuses, Lengths
<1>d. HandlingInv'
  BY NextInv
<1>e. res'.sent \in BOOLEAN
  BY <1>d DEF HandlingInv, IsBuilder
<1>1. CASE UNCHANGED vars
  BY <1>a, <1>1, <1>c DEF vars
<1>2. CASE Receive
  <2>1. /\ UNCHANGED <<files, had, changes, started, outcome, error, body>>
        /\ turn' \in {"dispatch", "done"}
    BY <1>2 DEF Receive, store
  <2>2. Response(res')
    <3>1. CASE NoFlush
      BY <1>a, <3>1 DEF NoFlush
    <3>2. CASE Flush("parser", Ensured(WithStatus(req.status), "json"), <<"error">>)
      <4>1. res'.status = req.status /\ res'.length = res.length
        BY <3>2, Defaults
      <4>2. req.status \in Statuses
        BY RefusedIs DEF Statuses
      <4> QED
        BY <1>a, <1>e, <4>1, <4>2
    <3> QED
      BY <1>2, <3>1, <3>2 DEF Receive
  <2> QED
    BY <1>a, <1>c, <2>1, <2>2
<1>3. CASE Dispatch
  <2>1. UNCHANGED <<files, had, changes, body, res, error>> /\ turn' \in {"call", "settled"}
    BY <1>3 DEF Dispatch, Stop, store
  <2>2. started' \in 0..Len(chain)
    <3>1. Len(chain) \in Nat
      BY ChainIs
    <3> QED
      BY <1>a, <1>3, <3>1 DEF Dispatch, Stop
  <2>3. outcome' \in {outcome, "resolved"}
    BY <1>3 DEF Dispatch, Stop
  <2> QED
    BY <1>a, <1>c, <2>1, <2>2, <2>3
<1>4. CASE Call
  <2>1. CallEffect /\ HandlerLeaves /\ UNCHANGED <<files, had, changes>>
    BY <1>4, CallEffects, CallStep DEF Call, store
  <2>2. Response(res')
    BY <1>a, <1>e, <2>1 DEF CallEffect, Statuses
  <2>3. /\ Outcome(outcome', error') /\ Turn(turn') /\ started' = started
        /\ body'.as \in {"raw", "json", "form", "undefined"}
    BY <1>a, <2>1 DEF CallEffect, HandlerLeaves
  <2> QED
    BY <1>a, <1>c, <2>1, <2>2, <2>3
<1>5. CASE Stat
  <2>1. /\ UNCHANGED <<files, had, changes, started, body, res>>
        /\ turn' \in {"dispatch", "read", "settled"}
    BY <1>5 DEF Stat, CallNext, Reject, store
  <2>2. Outcome(outcome', error')
    BY <1>a, <1>5 DEF Stat, CallNext, Reject
  <2> QED
    BY <1>a, <1>c, <2>1, <2>2
<1>6. CASE ReadFile
  <2>1. ReadEffect /\ HandlerLeaves /\ UNCHANGED <<files, had, changes, body>>
    BY <1>6, ReadEffects, ReadFileStep DEF ReadFile, store
  <2>2. Response(res')
    <3>1. Found.kind = "file" => Len(Found.content) \in Lengths
      BY FoundIs DEF Lengths
    <3>2. res'.status \in Statuses
      BY <1>a, <2>1 DEF ReadEffect
    <3>3. res'.length \in Lengths
      BY <1>a, <2>1, <3>1 DEF ReadEffect
    <3> QED
      BY <1>e, <3>2, <3>3
  <2>3. Outcome(outcome', error') /\ Turn(turn') /\ started' = started
    BY <1>a, <2>1 DEF ReadEffect, HandlerLeaves
  <2> QED
    BY <1>a, <1>c, <2>1, <2>2, <2>3
<1>7. CASE Finish
  <2>1. UNCHANGED <<files, had, changes, started, outcome, error, body>> /\ turn' = "done"
    BY <1>7 DEF Finish, store
  <2>2. Response(res')
    <3>1. CASE NoFlush
      BY <1>a, <3>1 DEF NoFlush
    <3>2. ASSUME NEW status \in {ErrorStatus, 404}, Report(status) PROVE Response(res')
      <4>1. res'.status = status /\ res'.length = res.length
        BY <3>2, Defaults DEF Report
      <4>2. ErrorStatus \in {500, 0, 400, 413} \ {0}
        BY <1>a DEF ErrorStatus
      <4>3. status \in Statuses
        BY <3>2, <4>2 DEF Statuses
      <4> QED
        BY <1>a, <1>e, <4>1, <4>3
    <3> QED
      BY <1>7, <3>1, <3>2 DEF Finish, HandleOutcome
  <2> QED
    BY <1>a, <1>c, <2>1, <2>2
<1>8. ASSUME NEW f \in FileNames, NEW e \in Entry, ChangeFile(f, e)
      PROVE  TypeOK'
  <2>1. UNCHANGED <<turn, started, outcome, error, body, res>>
    BY <1>8 DEF ChangeFile, chainState
  <2>2. Store(files', had', changes')
    <3>1. files' \in [FileNames -> Entry] /\ had' \in [FileNames -> SUBSET Entry]
      BY <1>a, <1>8 DEF ChangeFile
    <3>2. changes' \in 0..MaxChanges
      BY <1>a, <1>8, HandlingAssumption DEF ChangeFile
    <3> QED
      BY <3>1, <3>2
  <2> QED
    BY <1>a, <1>c, <2>1, <2>2
<1> QED
  BY <1>1, <1>2, <1>3, <1>4, <1>5, <1>6, <1>7, <1>8 DEF Next, Step

(* A file is read under the root only, from one of the states it has had.  *)
LEMMA InitServing == Init => Serving /\ FileServed
BY DEF Init, Serving, FileServed

(* Every step keeps what is known between stat() and readFile().           *)
LEMMA NextServing ==
  ASSUME HandlingInv, TypeOK, Serving, [Next]_vars
  PROVE  Serving'
<1> DEFINE Quiet == NoFile(responses') \/ (turn' \in {"settled", "done"})
           Had(f, h) == \A g \in FileNames : f[g] \in h[g]
           Sent(r) == ~r.sent => r.length = -1
<1>a. Sent(res) /\ Had(files, had)
  BY DEF Serving
<1>b. turn \notin {"settled", "done"} => NoFile(responses)
  BY DEF Serving, NoFile
<1>c. ASSUME Sent(res'), turn' \in {"stat", "read"} => Inside(target'), Had(files', had'), Quiet
      PROVE  Serving'
  BY <1>c DEF Serving, NoFile
<1>1. CASE UNCHANGED vars
  BY <1>1 DEF vars, Serving
<1>2. CASE Receive
  <2>1. UNCHANGED <<files, had>> /\ turn' \in {"dispatch", "done"} /\ turn = "receive"
    BY <1>2 DEF Receive, store
  <2>2. CASE NoFlush
    BY <1>a, <1>b, <1>c, <2>1, <2>2 DEF NoFlush
  <2>3. CASE Flush("parser", Ensured(WithStatus(req.status), "json"), <<"error">>)
    <3>1. res'.sent /\ NoFile(responses')
      BY <2>3, Defaults
    <3> QED
      BY <1>a, <1>c, <2>1, <3>1
  <2> QED
    BY <1>2, <2>2, <2>3 DEF Receive
<1>3. CASE Dispatch
  <2>1. /\ UNCHANGED <<files, had, res, responses>> /\ turn' \in {"call", "settled"}
        /\ turn = "dispatch"
    BY <1>3 DEF Dispatch, Stop, store
  <2> QED
    BY <1>a, <1>b, <1>c, <2>1
<1>4. CASE Call
  <2>1. /\ CallEffect /\ HandlerSends /\ HandlerLeaves /\ UNCHANGED <<files, had>>
        /\ turn = "call"
    BY <1>4, CallEffects, CallStep DEF Call, store
  <2>2. Sent(res')
    BY <1>a, <2>1 DEF CallEffect, HandlerSends, NoFlush
  <2>3. turn' \in {"stat", "read"} => Inside(target')
    BY <2>1 DEF CallEffect
  <2>4. NoFile(responses')
    BY <1>b, <2>1 DEF CallEffect
  <2> QED
    BY <1>a, <1>c, <2>1, <2>2, <2>3, <2>4
<1>5. CASE Stat
  <2>1. /\ UNCHANGED <<files, had, res, responses, target>>
        /\ turn = "stat" /\ turn' \in {"dispatch", "read", "settled"}
    BY <1>5 DEF Stat, CallNext, Reject, store
  <2>2. Inside(target')
    BY <2>1 DEF Serving
  <2> QED
    BY <1>a, <1>b, <1>c, <2>1, <2>2
<1>6. CASE ReadFile
  <2>1. ReadEffect /\ UNCHANGED <<files, had, target>> /\ turn = "read"
    BY <1>6, ReadEffects DEF ReadFile, store
  <2>2. Inside(target')
    BY <2>1 DEF Serving
  <2>3. Sent(res')
    BY <1>a, <2>1 DEF ReadEffect, FileSent
  <2>4. Quiet
    BY <1>b, <2>1 DEF ReadEffect
  <2> QED
    BY <1>a, <1>c, <2>1, <2>2, <2>3, <2>4
<1>7. CASE Finish
  <2>1. UNCHANGED <<files, had>> /\ turn' = "done"
    BY <1>7 DEF Finish, store
  <2>2. Sent(res')
    <3>1. CASE NoFlush
      BY <1>a, <3>1 DEF NoFlush
    <3>2. ASSUME NEW status, Report(status) PROVE res'.sent
      BY <3>2, Defaults DEF Report
    <3> QED
      BY <1>7, <3>1, <3>2 DEF Finish, HandleOutcome
  <2> QED
    BY <1>a, <1>c, <2>1, <2>2
<1>8. ASSUME NEW f \in FileNames, NEW e \in Entry, ChangeFile(f, e)
      PROVE  Serving'
  <2>1. UNCHANGED <<turn, res, responses, target>> /\ turn \in {"stat", "read"}
    BY <1>8 DEF ChangeFile, chainState
  <2>2. Had(files', had')
    <3>1. files' = [files EXCEPT ![f] = e] /\ had' = [had EXCEPT ![f] = @ \cup {e}]
      BY <1>8 DEF ChangeFile
    <3>2. files \in [FileNames -> Entry] /\ had \in [FileNames -> SUBSET Entry]
      BY DEF TypeOK
    <3> QED
      BY <1>a, <3>1, <3>2
  <2>3. Inside(target')
    BY <2>1 DEF Serving
  <2> QED
    BY <1>a, <1>b, <1>c, <2>1, <2>2, <2>3
<1> QED
  BY <1>1, <1>2, <1>3, <1>4, <1>5, <1>6, <1>7, <1>8 DEF Next, Step

(* A path under the root that is not the root itself is longer, and has    *)
(* the root's segments first.                                              *)
LEMMA UnderRoot ==
  ASSUME NEW f \in FileNames, Inside(f)
  PROVE  Len(f) > Len(Root) /\ \A i \in DOMAIN Root : f[i] = Root[i]
<1>1. Root \in Seq(Word) /\ f \in Seq(Word) /\ f # Root
  BY RoutingAssumption, HandlingAssumption
<1> HIDE DEF Word
<1>2. Len(Root) <= Len(f) /\ \A i \in 1..Len(Root) : Root[i] = f[i]
  BY <1>1, PrefixMembers DEF Inside
<1>3. Len(f) # Len(Root)
  <2>1. ASSUME Len(f) = Len(Root) PROVE f = Root
    BY <1>1, <1>2, <2>1
  <2> QED
    BY <1>1, <2>1
<1> QED
  BY <1>1, <1>2, <1>3

(* A file served stays served as it was, and only readFile() serves one.   *)
LEMMA NextServed ==
  ASSUME HandlingInv, TypeOK, Serving, FileServed, [Next]_vars
  PROVE  FileServed'
<1>a. turn \notin {"settled", "done"} => NoFile(responses)
  BY DEF Serving, NoFile
<1>b. NoFile(responses') => FileServed'
  BY DEF NoFile, FileServed
<1>c. req' = req
  BY RequestStays DEF request
<1>d. ASSUME responses' = responses, UNCHANGED <<had, target>> PROVE FileServed'
  <2>1. ToUpper(req.method)' = ToUpper(req.method)
    BY <1>c DEF ToUpper
  <2> QED
    BY <1>d, <2>1, Zenon DEF FileServed
<1>1. CASE UNCHANGED vars
  BY <1>1, <1>d DEF vars
<1>2. CASE Receive
  <2>1. CASE NoFlush
    BY <1>2, <1>d, <2>1 DEF NoFlush, Receive, store
  <2>2. CASE Flush("parser", Ensured(WithStatus(req.status), "json"), <<"error">>)
    <3>1. NoFile(responses')
      BY <2>2, Defaults
    <3> QED
      BY <1>b, <3>1
  <2> QED
    BY <1>2, <2>1, <2>2 DEF Receive
<1>3. CASE Dispatch \/ Stat
  BY <1>3, <1>d DEF Dispatch, Stat, store
<1>4. CASE Call
  <2>1. CallEffect /\ turn = "call"
    BY <1>4, CallEffects DEF Call
  <2>2. NoFile(responses')
    BY <1>a, <2>1 DEF CallEffect
  <2> QED
    BY <1>b, <2>2
<1>5. CASE ReadFile
  <2>1. ReadEffect /\ UNCHANGED <<files, had, target>> /\ turn = "read"
    BY <1>5, ReadEffects DEF ReadFile, store
  <2>2. CASE res' = res /\ responses' = responses
    BY <1>d, <2>1, <2>2
  <2>3. CASE Found.kind = "file" /\ FileSent(Found)
    <3>1. /\ target \in FileNames /\ Found = files[target]
          /\ Inside(target) /\ files[target] \in had[target]
      BY <2>1, <2>3, FoundIs DEF Serving
    <3>2. Len(target) > Len(Root) /\ \A i \in DOMAIN Root : target[i] = Root[i]
      BY <3>1, UnderRoot
    <3>3. /\ responses' = <<responses'[1]>> /\ responses'[1].length = Len(Found.content)
          /\ responses'[1].content = IF ToUpper(req.method) = <<"HEAD">> THEN <<>> ELSE Found.content
      BY <2>3 DEF FileSent
    <3>4. ASSUME NEW k \in DOMAIN responses'
          PROVE  /\ responses'[k].length = Len(Found.content)
                 /\ responses'[k].content = IF ToUpper(req.method) = <<"HEAD">> THEN <<>> ELSE Found.content
      <4>1. k = 1
        BY <3>3
      <4> QED
        BY <3>3, <4>1
    <3>5. ToUpper(req.method)' = ToUpper(req.method)
      BY <1>c DEF ToUpper
    <3>6. Found \in had'[target']
      BY <2>1, <3>1
    <3> QED
      BY <2>1, <2>3, <3>1, <3>2, <3>4, <3>5, <3>6 DEF FileServed
  <2> QED
    BY <2>1, <2>2, <2>3 DEF ReadEffect
<1>6. CASE Finish
  <2>1. CASE NoFlush
    BY <1>6, <1>d, <2>1 DEF NoFlush, Finish, store
  <2>2. ASSUME NEW status, Report(status) PROVE FileServed'
    <3>1. NoFile(responses')
      BY <2>2, Defaults DEF Report
    <3> QED
      BY <1>b, <3>1
  <2> QED
    BY <1>6, <2>1, <2>2 DEF Finish, HandleOutcome
<1>7. ASSUME NEW f \in FileNames, NEW e \in Entry, ChangeFile(f, e)
      PROVE  FileServed'
  <2>1. NoFile(responses) /\ responses' = responses
    BY <1>7, <1>a DEF ChangeFile
  <2> QED
    BY <1>b, <2>1
<1> QED
  BY <1>1, <1>2, <1>3, <1>4, <1>5, <1>6, <1>7 DEF Next, Step

(* The framework's state keeps its types: a builder has one of the seven   *)
(* statuses, and a length only when it is a file's.                        *)
THEOREM Types == Spec => []TypeOK
<1>1. Init => HandlingInv /\ Settled /\ TypeOK /\ Serving
  BY InitInv, InitSettled, InitTypes, InitServing
<1>2. HandlingInv /\ Settled /\ TypeOK /\ Serving /\ [Next]_vars
        => HandlingInv' /\ Settled' /\ TypeOK' /\ Serving'
  BY NextInv, RequestStays, SettledStays, NextTypes, NextServing
<1> QED
  BY <1>1, <1>2, PTL DEF Spec

(* A file that is served lies under the root and is one the file has been  *)
(* since the request arrived, whole and with its length, whatever happens  *)
(* to the files between stat() and readFile().                             *)
THEOREM FilesUnderRoot == Spec => []FileServed
<1>1. Init => HandlingInv /\ Settled /\ TypeOK /\ Serving /\ FileServed
  BY InitInv, InitSettled, InitTypes, InitServing
<1>2. HandlingInv /\ Settled /\ TypeOK /\ Serving /\ FileServed /\ [Next]_vars
        => HandlingInv' /\ Settled' /\ TypeOK' /\ Serving' /\ FileServed'
  BY NextInv, RequestStays, SettledStays, NextTypes, NextServing, NextServed
<1> QED
  BY <1>1, <1>2, PTL DEF Spec
-----------------------------------------------------------------------------
(* The path of a request is a word of its line.                            *)
LEMMA TargetIs ==
  ASSUME NEW w \in Word
  PROVE  RequestLine(w).target \in Word
<1> DEFINE first == IndexOf(w, SP, 1)
           second == IndexOf(w, SP, first + 1)
<1>0. Len(w) \in Nat
  BY DEF Word
<1>1. \A status : RefusedLine(status).target \in Word
  BY DEF RefusedLine, Word
<1>2. ASSUME ~(first <= 1), second # 0 PROVE RequestParts(w, first, second).target \in Word
  <2>1. first \in 1..Len(w)
    <3>1. first = 0 \/ first \in 1..Len(w)
      BY IndexOfIs
    <3> HIDE DEF first
    <3> QED
      BY <1>2, <3>1
  <2>2. second \in (first + 1)..Len(w)
    <3> HIDE DEF first
    <3>1. first + 1 \in Nat \ {0}
      BY <1>0, <2>1
    <3>2. second = 0 \/ second \in (first + 1)..Len(w)
      BY <3>1, IndexOfIs
    <3> QED
      BY <1>2, <3>2
  <2> HIDE DEF first, second
  <2>3. Between(w, first, second) \in Word
    BY <1>0, <2>1, <2>2, BetweenIs
  <2> QED
    BY <1>1, <2>3, Zenon DEF RequestParts
<1>3. RequestLine(w) = SplitLine(w, first, second)
  BY DEF RequestLine
<1> HIDE DEF first, second
<1> QED
  BY <1>1, <1>2, <1>3, Zenon DEF SplitLine

(* The path of a request is a word.                                        *)
LEMMA PathIs ==
  ASSUME Settled
  PROVE  req.path \in Word
<1>1. scenario.line \in Word
  BY HandlingAssumption DEF Settled, Scenario
<1>2. Line.target \in Word
  BY <1>1, TargetIs DEF Line
<1>3. ASSUME NEW w \in Word PROVE Path(w) \in Word
  <2> DEFINE i == IndexOf(w, QMARK, 1)
  <2>1. Path(w) = IF i = 0 THEN w ELSE Before(w, i)
    BY DEF Path, Cut
  <2>2. i = 0 \/ i \in 1..(Len(w) + 1)
    <3>1. i = 0 \/ i \in 1..Len(w)
      BY IndexOfIs
    <3>2. Len(w) \in Nat
      BY DEF Word
    <3> QED
      BY <3>1, <3>2
  <2> HIDE DEF i
  <2> QED
    BY <2>1, <2>2, BeforeIs
<1> QED
  BY <1>2, <1>3 DEF Settled, ReadRequest

(* Every middleware above the path of a route handler stands before it in  *)
(* the chain, and has let the request pass when it is called.              *)
LEMMA AboveCleared ==
  ASSUME Settled, TypeOK, Guarding, turn = "call", chain[started].kind = "echo",
         NEW i \in DOMAIN scenario.middlewares, Above(scenario.middlewares[i])
  PROVE  Cleared(scenario.middlewares[i].handler)
<1> DEFINE m == scenario.middlewares[i]
           k == Cardinality(Below(OnPath, i)) + 1
<1>1. m \in Middleware /\ m.path \in Word
  <2>1. scenario.middlewares \in Seq(Middleware)
    BY HandlingAssumption DEF Settled, Scenario
  <2>2. m \in Middleware
    BY <2>1
  <2> QED
    BY <2>2, Handlers
<1>2. i \in OnPath
  <2>1. MountedBySegments(m.path, req.path)
    BY <1>1, PathIs, MountsBySegments
  <2> QED
    BY <2>1 DEF Above, MountedBySegments, OnPath
<1> HIDE DEF OnPath
<1>3. k \in 1..Cardinality(OnPath) /\ Ranked(OnPath, k - 1) = i
  <2>1. OnPath \in SUBSET Nat /\ IsFiniteSet(OnPath)
    BY MountedIs
  <2>2. /\ Cardinality(OnPath) \in Nat /\ Cardinality(Below(OnPath, i)) \in Nat
        /\ Cardinality(Below(OnPath, i)) < Cardinality(OnPath)
    BY <1>2, <2>1, RankOrder
  <2>3. k \in 1..Cardinality(OnPath) /\ k - 1 = Cardinality(Below(OnPath, i))
    BY <2>2
  <2> QED
    BY <1>2, <2>1, <2>3, RankedIs
<1> HIDE DEF k
<1>4. Mounted[k] = m /\ k \in 1..Len(Mounted)
  BY <1>3, MountedIs
<1>5. started \in 1..Len(chain) /\ Len(chain) \in Nat /\ chain # <<>>
  <2>1. Len(chain) \in Nat /\ started \in 0..Len(chain) /\ started >= 1
    BY ChainIs DEF Guarding, TypeOK
  <2>2. Len(chain) # 0
    BY <2>1
  <2> QED
    BY <2>1, <2>2
<1>6. \A n \in 1..Len(Mounted) : chain[n] = Mounted[n].handler /\ Mounted[n] \in Middleware
  BY <1>5, ChainIs, MountedIs
<1>7. \A n \in 1..Len(Mounted) : chain[n].kind # "echo"
  BY <1>6, Handlers
<1>8. started \notin 1..Len(Mounted) /\ Len(Mounted) \in Nat
  BY <1>7, MountedIs
<1>9. k \in 1..(started - 1)
  BY <1>4, <1>5, <1>8
<1>10. Cleared(chain[k])
  BY <1>9 DEF Guarding
<1> QED
  BY <1>4, <1>6, <1>10

(* A handler that has let the request pass stays so: a body that has been  *)
(* decoded is never taken back.                                            *)
LEMMA ClearedStays ==
  ASSUME UNCHANGED request, body.as # "raw" => body'.as # "raw", NEW k, Cleared(chain[k])
  PROVE  Cleared(chain[k])'
<1>1. scenario' = scenario /\ req' = req /\ chain' = chain
  BY DEF request
<1>2. HasType(JSON)' = HasType(JSON) /\ HasType(FORM)' = HasType(FORM)
  BY <1>1 DEF HasType
<1> HIDE DEF HasType
<1> QED
  BY <1>1, <1>2 DEF Cleared

(* A handler that calls next() has let the request pass, and a body is     *)
(* decoded only as what it is.                                             *)
Passing(h) ==
  /\ body.as # "raw" => body'.as # "raw"
  /\ body'.as \in {"json", "undefined"} /\ body' # body => HasType(JSON)
  /\ turn' \in {"dispatch", "stat", "settled"}
  /\ turn' = "stat" => h.kind = "static"
  /\ turn' = "dispatch" =>
       /\ h.kind \notin {"deny", "silent", "throws"}
       /\ h.kind = "json" /\ HasType(JSON) => body'.as # "raw" /\ Len(scenario.body) <= h.limit
       /\ h.kind = "urlencoded" /\ HasType(FORM) =>
            body'.as # "raw" /\ Len(scenario.body) <= h.limit

(* A body parser that lets a request pass has decoded its body or left it  *)
(* (body-parsers.ts).                                                      *)
LEMMA ParserPasses ==
  ASSUME NEW h, NEW type, NEW parsed, NEW valid, ParseBody(h, type, parsed, valid),
         parsed.as \in {"json", "form", "undefined"}
  PROVE  /\ body.as # "raw" => body'.as # "raw"
         /\ body' = body \/ (HasType(type) /\ body' = parsed)
         /\ turn' \in {"dispatch", "settled"}
         /\ turn' = "dispatch" /\ HasType(type) => body'.as # "raw" /\ Len(scenario.body) <= h.limit
<1>1. \/ turn' = "dispatch" /\ ~HasType(type) /\ body' = body
      \/ turn' = "settled" /\ body' = body
      \/ /\ turn' = "dispatch" /\ HasType(type) /\ body' = parsed
         /\ Len(scenario.body) <= h.limit
  BY DEF ParseBody, CallNext, Reject
<1> QED
  BY <1>1

(* A call after which the next handler is due has let the request pass.    *)
LEMMA CallPasses ==
  ASSUME Call
  PROVE  Passing(chain[started])
<1> DEFINE h == chain[started]
<1>1. CASE Json(h)
  <2> DEFINE parsed == IF scenario.body = <<>> THEN Decoded("undefined")
                       ELSE [Decoded("json") EXCEPT !.text = scenario.body]
  <2>1. parsed.as \in {"json", "undefined"}
    BY DEF Decoded
  <2>2. h.kind = "json" /\ ParseBody(h, JSON, parsed, scenario.body \in Documents)
    BY <1>1 DEF Json
  <2> HIDE DEF parsed, h
  <2>3. /\ body.as # "raw" => body'.as # "raw"
        /\ body' = body \/ (HasType(JSON) /\ body' = parsed)
        /\ turn' \in {"dispatch", "settled"}
        /\ turn' = "dispatch" /\ HasType(JSON) => body'.as # "raw" /\ Len(scenario.body) <= h.limit
    BY <2>1, <2>2, ParserPasses
  <2> QED
    BY <2>2, <2>3 DEF Passing, h
<1>2. CASE Urlencoded(h)
  <2> DEFINE parsed == Decoded("form")
  <2>1. parsed.as = "form"
    BY DEF Decoded
  <2>2. h.kind = "urlencoded" /\ ParseBody(h, FORM, parsed, ValidForm(scenario.body))
    BY <1>2 DEF Urlencoded
  <2> HIDE DEF parsed, h
  <2>3. /\ body.as # "raw" => body'.as # "raw"
        /\ body' = body \/ (HasType(FORM) /\ body' = parsed)
        /\ turn' \in {"dispatch", "settled"}
        /\ turn' = "dispatch" /\ HasType(FORM) => body'.as # "raw" /\ Len(scenario.body) <= h.limit
    BY <2>1, <2>2, ParserPasses
  <2> QED
    BY <2>1, <2>2, <2>3 DEF Passing, h
<1>3. CASE StaticFiles(h)
  <2>1. h.kind = "static" /\ body' = body /\ turn' \in {"dispatch", "stat", "settled"}
    BY <1>3 DEF StaticFiles, CallNext, Reject
  <2> QED
    BY <2>1 DEF Passing
<1>4. CASE Own(h)
  <2>1. body' = body /\ turn' \in {"dispatch", "settled"}
    BY <1>4 DEF Own, CallNext, Stop, Reject, TooLate
  <2>2. turn' = "dispatch" => h.kind \in {"pass", "typed", "replyNext"}
    BY <1>4 DEF Own, CallNext, Stop, Reject, TooLate
  <2> HIDE DEF h
  <2> QED
    BY <2>1, <2>2 DEF Passing, h
<1> QED
  BY <1>1, <1>2, <1>3, <1>4 DEF Call

(* Every step keeps the request past the handlers it has passed.           *)
LEMMA NextGuarding ==
  ASSUME HandlingInv, Settled, TypeOK, Guarding, [Next]_vars
  PROVE  Guarding'
<1>0. UNCHANGED request /\ chain' = chain /\ HasType(JSON)' = HasType(JSON)
  <2>1. UNCHANGED request
    BY RequestStays
  <2>2. req' = req
    BY <2>1 DEF request
  <2> QED
    BY <2>1, <2>2 DEF request, HasType
<1>a. ASSUME body' = body, turn' \in {"settled", "done"} PROVE Guarding'
  BY <1>0, <1>a DEF Guarding
<1>b. ASSUME body' = body, NEW k, Cleared(chain[k]) PROVE Cleared(chain[k])'
  BY <1>0, <1>b, ClearedStays
<1>c. started \in Nat
  BY ChainIs DEF TypeOK
<1>d. ASSUME turn \in {"stat", "read"}, body' = body, started' = started, turn' = "dispatch"
      PROVE  Guarding'
  <2>1. Cleared(chain[started])
    BY <1>d DEF Guarding, Cleared
  <2>2. ASSUME NEW k \in 1..started PROVE Cleared(chain[k])
    <3>1. k = started \/ k \in 1..(started - 1)
      BY <1>c
    <3> QED
      BY <1>d, <2>1, <3>1 DEF Guarding
  <2>3. \A k \in 1..started : Cleared(chain[k])'
    BY <1>b, <1>d, <2>2
  <2> QED
    BY <1>0, <1>d, <2>3 DEF Guarding
<1>1. CASE UNCHANGED vars
  <2>1. body' = body /\ turn' = turn /\ started' = started
    BY <1>1 DEF vars
  <2> QED
    BY <1>0, <1>b, <2>1 DEF Guarding
<1>2. CASE Receive
  <2>1. body' = body /\ turn' \in {"dispatch", "done"} /\ started' = 0
    BY <1>2 DEF Receive, Guarding
  <2>2. \A k \in 1..started' : FALSE
    BY <2>1
  <2> QED
    BY <1>0, <2>1, <2>2 DEF Guarding
<1>3. CASE Dispatch
  <2>1. body' = body /\ turn = "dispatch"
    BY <1>3 DEF Dispatch
  <2>2. CASE Stop
    BY <1>a, <2>1, <2>2 DEF Stop
  <2>3. CASE started' = started + 1 /\ turn' = "call"
    <3>1. started' >= 1 /\ started' - 1 = started
      BY <1>c, <2>3
    <3>2. \A k \in 1..started : Cleared(chain[k])'
      BY <1>b, <2>1 DEF Guarding
    <3> QED
      BY <1>0, <2>1, <2>3, <3>1, <3>2 DEF Guarding
  <2> QED
    BY <1>3, <2>2, <2>3 DEF Dispatch
<1>4. CASE Call
  <2>1. Passing(chain[started]) /\ started' = started /\ turn = "call"
    BY <1>4, CallPasses, CallStep DEF Call, HandlerLeaves
  <2>2. body'.as \in {"json", "undefined"} => HasType(JSON)
    BY <2>1 DEF Passing, Guarding
  <2>3. ASSUME NEW k \in 1..(started - 1) PROVE Cleared(chain[k])'
    BY <1>0, <2>1, ClearedStays DEF Passing, Guarding
  <2>4. turn' = "dispatch" => Cleared(chain[started])'
    <3>1. scenario' = scenario
      BY <1>0 DEF request
    <3>2. HasType(FORM)' = HasType(FORM)
      <4>1. req' = req
        BY <1>0 DEF request
      <4> QED
        BY <4>1 DEF HasType
    <3> HIDE DEF HasType
    <3> QED
      BY <1>0, <2>1, <3>1, <3>2 DEF Passing, Cleared
  <2>5. turn' = "dispatch" => \A k \in 1..started : Cleared(chain[k])'
    <3>1. ASSUME turn' = "dispatch", NEW k \in 1..started PROVE Cleared(chain[k])'
      <4>1. k = started \/ k \in 1..(started - 1)
        BY <1>c
      <4>2. CASE k = started
        BY <2>1, <2>4, <3>1, <4>2
      <4> QED
        BY <2>3, <4>1, <4>2
    <3> QED
      BY <3>1
  <2>6. started >= 1
    BY <2>1 DEF Guarding
  <2> QED
    BY <1>0, <2>1, <2>2, <2>3, <2>5, <2>6 DEF Passing, Guarding
<1>5. CASE Stat
  <2>1. /\ body' = body /\ started' = started /\ turn = "stat"
        /\ turn' \in {"dispatch", "read", "settled"}
    BY <1>5 DEF Stat, CallNext, Reject
  <2>2. turn' = "read" => Guarding'
    BY <1>0, <1>b, <2>1 DEF Guarding
  <2> QED
    BY <1>a, <1>d, <2>1, <2>2
<1>6. CASE ReadFile
  <2>1. /\ body' = body /\ started' = started /\ turn = "read" /\ turn' \in {"dispatch", "settled"}
    BY <1>6 DEF ReadFile, CallNext, Stop, Reject, TooLate
  <2> QED
    BY <1>a, <1>d, <2>1
<1>7. CASE Finish
  BY <1>7, <1>a DEF Finish
<1>8. ASSUME NEW f \in FileNames, NEW e \in Entry, ChangeFile(f, e)
      PROVE  Guarding'
  <2>1. body' = body /\ turn' = turn /\ started' = started
    BY <1>8 DEF ChangeFile, chainState
  <2> QED
    BY <1>0, <1>b, <2>1 DEF Guarding
<1> QED
  BY <1>1, <1>2, <1>3, <1>4, <1>5, <1>6, <1>7, <1>8 DEF Next, Step

(* What a route handler has seen stays as it was; and when it sees it, the *)
(* middlewares above the path have all let the request pass.               *)
LEMMA NextGuarded ==
  ASSUME Settled, TypeOK, Guarding, HandlersGuarded, [Next]_vars
  PROVE  HandlersGuarded'
<1>0. scenario' = scenario /\ req' = req /\ HasType(JSON)' = HasType(JSON)
      /\ HasType(FORM)' = HasType(FORM)
  <2>1. scenario' = scenario /\ req' = req
    BY RequestStays DEF request
  <2> QED
    BY <2>1 DEF HasType
<1>1. \A m : Above(m)' <=> Above(m)
  BY <1>0 DEF Above
<1> HIDE DEF HasType, Above
<1>2. CASE shown' = shown
  BY <1>0, <1>1, <1>2 DEF HandlersGuarded
<1>3. CASE Call /\ Own(chain[started]) /\ chain[started].kind = "echo"
  <2>1. turn = "call" /\ shown'.body = body
    BY <1>3 DEF Call, Own
  <2>2. body.as \in {"json", "undefined"} => HasType(JSON)
    BY DEF Guarding
  <2>3. \A i \in DOMAIN scenario.middlewares :
          Above(scenario.middlewares[i]) => Cleared(scenario.middlewares[i].handler)
    BY <1>3, <2>1, AboveCleared
  <2> QED
    BY <1>0, <1>1, <2>1, <2>2, <2>3 DEF HandlersGuarded, Cleared
<1>4. shown' = shown \/ (Call /\ Own(chain[started]) /\ chain[started].kind = "echo")
  <2>1. ASSUME Call PROVE shown' = shown \/ (Own(chain[started]) /\ chain[started].kind = "echo")
    BY <2>1 DEF Call, Json, Urlencoded, ParseBody, StaticFiles, Own
  <2> QED
    BY <2>1 DEF Next, Step, Receive, Dispatch, Stat, ReadFile, Finish, ChangeFile, vars
<1> QED
  BY <1>2, <1>3, <1>4

(* A route handler runs only when every middleware mounted above the path  *)
(* has let the request pass, and what it sees as decoded is no longer than *)
(* each of their limits: whatever the patterns, the mount paths and the    *)
(* order of the middlewares.                                               *)
THEOREM HandlersSeeCleared == Spec => []HandlersGuarded
<1>1. Init => HandlingInv /\ Settled /\ TypeOK /\ Serving /\ Guarding /\ HandlersGuarded
  <2>1. Init => Guarding /\ HandlersGuarded
    BY DEF Init, Guarding, HandlersGuarded, RawBody, NothingShown
  <2> QED
    BY <2>1, InitInv, InitSettled, InitTypes, InitServing
<1>2. HandlingInv /\ Settled /\ TypeOK /\ Serving /\ Guarding /\ HandlersGuarded /\ [Next]_vars
        => HandlingInv' /\ Settled' /\ TypeOK' /\ Serving' /\ Guarding' /\ HandlersGuarded'
  BY NextInv, RequestStays, SettledStays, NextTypes, NextServing, NextGuarding, NextGuarded
<1> QED
  BY <1>1, <1>2, PTL DEF Spec
-----------------------------------------------------------------------------
(* The greatest member of a bounded set of numbers.                        *)
LEMMA MaxIs ==
  ASSUME NEW T \in SUBSET Nat, NEW m \in T, \A n \in T : n <= m
  PROVE  Max(T) = m
<1> DEFINE P(x) == x \in T /\ \A y \in T : x >= y
<1>1. P(m)
  OBVIOUS
<1>2. \A x : P(x) => x = m
  OBVIOUS
<1>3. Max(T) = CHOOSE x : P(x)
  BY DEF Max
<1> HIDE DEF P
<1> QED
  BY <1>1, <1>2, <1>3

(* There is one when the set is not empty.                                 *)
LEMMA MaxExists ==
  ASSUME NEW T \in SUBSET Nat, T # {}, NEW b \in Nat, \A n \in T : n <= b
  PROVE  Max(T) \in T /\ \A n \in T : n <= Max(T)
BY GreatestElement, MaxIs

(* What the loop has made of the first n pairs: of each name that is kept  *)
(* the last value.                                                         *)
LastOf(names, kept, n, name) == Max({i \in kept : i <= n /\ names[i] = name})
AssignedUpTo(names, values, kept, n) ==
  [name \in {names[i] : i \in {i \in kept : i <= n}} \ {<<PROTO>>} |->
     values[LastOf(names, kept, n, name)]]

(* One more pair replaces what its name had.                               *)
LEMMA AssignOne ==
  ASSUME NEW N \in Nat, NEW names, NEW values, NEW kept \in SUBSET (1..N), NEW n \in 1..N
  PROVE  AssignedUpTo(names, values, kept, n) =
           IF n \in kept
           THEN Assign(AssignedUpTo(names, values, kept, n - 1), names[n], values[n])
           ELSE AssignedUpTo(names, values, kept, n - 1)
<1> DEFINE Upto(m) == {i \in kept : i <= m}
           Named(m) == {names[i] : i \in Upto(m)} \ {<<PROTO>>}
           Places(m, name) == {i \in kept : i <= m /\ names[i] = name}
           Newest(m, name) == LastOf(names, kept, m, name)
           out(m) == AssignedUpTo(names, values, kept, m)
<1>1. \A m : /\ DOMAIN out(m) = Named(m)
             /\ \A name \in Named(m) : out(m)[name] = values[Newest(m, name)]
             /\ out(m) = [name \in Named(m) |-> out(m)[name]]
  BY DEF AssignedUpTo
<1>2. \A m, name : Newest(m, name) = Max(Places(m, name))
  BY DEF LastOf
<1>3. \A i \in kept : i \in Nat /\ n \in Nat /\ (i <= n <=> i <= n - 1 \/ i = n)
                     /\ ~(n <= n - 1)
  OBVIOUS
<1>4. \A name : n \notin kept \/ names[n] # name => Places(n, name) = Places(n - 1, name)
  <2> TAKE name
  <2> HAVE n \notin kept \/ names[n] # name
  <2>1. ASSUME NEW i PROVE i \in Places(n, name) <=> i \in Places(n - 1, name)
    BY <1>3
  <2> HIDE DEF Places
  <2> QED
    BY <2>1
<1>5. \A name : n \notin kept \/ names[n] # name => Newest(n, name) = Newest(n - 1, name)
  <2> HIDE DEF Places, Newest
  <2> QED
    BY <1>2, <1>4, Zenon
<1>6. n \notin kept => Upto(n) = Upto(n - 1)
  BY <1>3
<1>7. n \in kept => Upto(n) = Upto(n - 1) \cup {n}
  BY <1>3
<1> HIDE DEF out, Newest, Upto
<1>8. CASE n \notin kept
  <2>1. Named(n) = Named(n - 1)
    BY <1>6, <1>8
  <2>2. \A name \in Named(n) : out(n)[name] = out(n - 1)[name]
    BY <1>1, <1>5, <1>8, <2>1
  <2> HIDE DEF Named
  <2>3. out(n) = out(n - 1)
    BY <1>1, <2>1, <2>2
  <2> QED
    BY <1>8, <2>3 DEF out
<1>9. CASE n \in kept /\ names[n] = <<PROTO>>
  <2>1. Named(n) = Named(n - 1)
    BY <1>7, <1>9
  <2>2. \A name \in Named(n) : out(n)[name] = out(n - 1)[name]
    BY <1>1, <1>5, <1>9, <2>1
  <2> HIDE DEF Named
  <2>3. out(n) = out(n - 1)
    BY <1>1, <2>1, <2>2
  <2> QED
    BY <1>9, <2>3 DEF out, Assign
<1>10. CASE n \in kept /\ names[n] # <<PROTO>>
  <2>1. Named(n) = Named(n - 1) \cup {names[n]}
    BY <1>7, <1>10
  <2>2. Newest(n, names[n]) = n
    <3> DEFINE T == Places(n, names[n])
    <3>1. n \in T
      BY <1>10
    <3>2. \A j \in T : j \in kept /\ j <= n
      OBVIOUS
    <3>3. Newest(n, names[n]) = Max(T)
      BY <1>2
    <3> HIDE DEF T, Newest
    <3>4. T \in SUBSET Nat
      BY <1>3, <3>2
    <3> QED
      BY <3>1, <3>2, <3>3, <3>4, MaxIs
  <2>3. out(n)[names[n]] = values[n]
    BY <1>1, <2>1, <2>2
  <2>4. \A name \in Named(n - 1) : name # names[n] => out(n)[name] = out(n - 1)[name]
    BY <1>1, <1>5, <2>1
  <2> DEFINE more == [name \in DOMAIN out(n - 1) \cup {names[n]} |->
                        IF name = names[n] THEN values[n] ELSE out(n - 1)[name]]
  <2>5. more = Assign(out(n - 1), names[n], values[n])
    BY <1>10 DEF Assign
  <2>6. out(n) = more
    <3>1. Named(n) = DOMAIN out(n - 1) \cup {names[n]}
      BY <1>1, <2>1
    <3>2. \A name \in Named(n) :
            out(n)[name] = IF name = names[n] THEN values[n] ELSE out(n - 1)[name]
      BY <2>1, <2>3, <2>4
    <3> HIDE DEF Named
    <3> QED
      BY <1>1, <3>1, <3>2
  <2> HIDE DEF more
  <2> QED
    BY <1>10, <2>5, <2>6 DEF out
<1> QED
  BY <1>8, <1>9, <1>10

(* The pairs that are kept are assigned one after the other, so the last   *)
(* one of a name counts, wherever it stands.                               *)
LastAssigned(names, values, kept) ==
  [name \in {names[i] : i \in kept} \ {<<PROTO>>} |->
     values[Max({i \in kept : names[i] = name})]]

(* That is what the loop comes to.                                         *)
LEMMA AssignAllIs ==
  ASSUME NEW N \in Nat, NEW names, Len(names) = N, NEW values, NEW kept \in SUBSET (1..N)
  PROVE  AssignAll(names, values, kept) = LastAssigned(names, values, kept)
<1> DEFINE Loop(f) == [n \in 0..N |->
                         IF n = 0 THEN NoEntries
                         ELSE IF n \in kept THEN Assign(f[n - 1], names[n], values[n])
                         ELSE f[n - 1]]
           out == CHOOSE f : f = Loop(f)
           g == [n \in 0..N |-> AssignedUpTo(names, values, kept, n)]
<1>1. AssignAll(names, values, kept) = out[N]
  BY Zenon DEF AssignAll
<1>2. g[0] = NoEntries
  <2>1. {i \in kept : i <= 0} = {}
    <3>1. \A i \in kept : ~(i <= 0)
      OBVIOUS
    <3> QED
      BY <3>1
  <2>2. {names[i] : i \in {i \in kept : i <= 0}} \ {<<PROTO>>} = {}
    BY <2>1
  <2> QED
    BY <2>2 DEF AssignedUpTo, NoEntries
<1>3. \A n \in 1..N : g[n] = IF n \in kept THEN Assign(g[n - 1], names[n], values[n])
                                          ELSE g[n - 1]
  <2> TAKE n \in 1..N
  <2>1. n \in 0..N /\ n - 1 \in 0..N
    OBVIOUS
  <2> QED
    BY <2>1, AssignOne
<1>4. g = Loop(g)
  <2>1. \A n \in 0..N : n = 0 \/ n \in 1..N
    OBVIOUS
  <2>2. \A n \in 0..N : g[n] = Loop(g)[n]
    BY <1>2, <1>3, <2>1
  <2>3. g = [n \in 0..N |-> g[n]]
    OBVIOUS
  <2> HIDE DEF g
  <2> QED
    BY <2>2, <2>3
<1>5. out = Loop(out)
  <2> HIDE DEF g, Loop
  <2> QED
    BY <1>4
<1> DEFINE Apart == {n \in 0..N : out[n] # g[n]}
<1> HIDE DEF out, g
<1>6. Apart = {}
  <2>1. SUFFICES ASSUME Apart # {} PROVE FALSE
    OBVIOUS
  <2>2. PICK n \in Apart : \A m \in Apart : n <= m
    <3>1. Apart \in SUBSET Nat
      OBVIOUS
    <3> HIDE DEF Apart
    <3> QED
      BY <2>1, <3>1, LeastElement
  <2>3. n # 0
    BY <1>2, <1>5
  <2>4. n \in 1..N /\ n - 1 \in 0..N /\ n - 1 \notin Apart
    BY <2>2, <2>3
  <2>5. out[n - 1] = g[n - 1]
    BY <2>4
  <2>6. out[n] = IF n \in kept THEN Assign(out[n - 1], names[n], values[n]) ELSE out[n - 1]
    BY <1>5, <2>3
  <2> QED
    BY <1>3, <2>4, <2>5, <2>6
<1>7. out[N] = g[N]
  BY <1>6
<1>8. g[N] = LastAssigned(names, values, kept)
  <2>0. \A i \in kept : i <= N
    OBVIOUS
  <2>1. {i \in kept : i <= N} = kept
    BY <2>0, Zenon
  <2>2. \A name : {i \in kept : i <= N /\ names[i] = name} = {i \in kept : names[i] = name}
    BY <2>0, Zenon
  <2>3. g[N] = AssignedUpTo(names, values, kept, N)
    BY DEF g
  <2> QED
    BY <2>1, <2>2, <2>3 DEF AssignedUpTo, LastOf, LastAssigned
<1> QED
  BY <1>1, <1>7, <1>8

-----------------------------------------------------------------------------
(* The symbol a word is split at is at the cuts and nowhere between them.  *)
LEMMA BetweenCuts ==
  ASSUME NEW w \in Word, NEW c, NEW n, n = Cardinality(Cuts(w, c)) - 1,
         NEW k \in 1..n, NEW i \in 1..Len(w),
         Ranked(Cuts(w, c), k - 1) < i, i < Ranked(Cuts(w, c), k)
  PROVE  w[i] # c
<1> DEFINE C == Cuts(w, c)
           a == Ranked(C, k - 1)
           b == Ranked(C, k)
<1>1. /\ C \in SUBSET Nat /\ IsFiniteSet(C) /\ n \in Nat /\ Cardinality(C) = n + 1
  BY CutsOrder
<1>2. /\ k \in Nat /\ k - 1 \in Nat /\ k < Cardinality(C) /\ k - 1 < Cardinality(C)
  BY <1>1
<1>3. /\ a \in C /\ Cardinality(Below(C, a)) = k - 1
      /\ b \in C /\ Cardinality(Below(C, b)) = k
  BY <1>1, <1>2, RankedMember
<1>4. SUFFICES ASSUME w[i] = c PROVE FALSE
  OBVIOUS
<1>5. i \in C
  BY <1>4 DEF Cuts
<1> HIDE DEF C, a, b
<1>6. a < i /\ i < b
  BY DEF a, b, C
<1>7. /\ Cardinality(Below(C, i)) \in Nat
      /\ Cardinality(Below(C, a)) < Cardinality(Below(C, i))
      /\ Cardinality(Below(C, i)) < Cardinality(Below(C, b))
  BY <1>1, <1>3, <1>5, <1>6, RankOrder
<1> QED
  BY <1>2, <1>3, <1>7

(* Every other symbol is in one of the segments.                           *)
LEMMA InSegment ==
  ASSUME NEW w \in Word, NEW c, NEW n, n = Cardinality(Cuts(w, c)) - 1,
         NEW i \in 1..Len(w), w[i] # c
  PROVE  \E k \in 1..n : /\ Ranked(Cuts(w, c), k - 1) \in Nat /\ Ranked(Cuts(w, c), k) \in Nat
                         /\ Ranked(Cuts(w, c), k - 1) < i /\ i < Ranked(Cuts(w, c), k)
<1> DEFINE R(k) == Ranked(Cuts(w, c), k)
           T == {k \in 0..n : R(k) < i}
<1>0. Len(w) \in Nat /\ i \in Nat
  BY DEF Word
<1>1. n \in Nat \ {0} /\ R(0) = 0 /\ R(n) = Len(w) + 1
  BY CutsOrder
<1>2. \A k \in 1..n : R(k - 1) \in Nat /\ R(k) \in Nat /\ (R(k - 1) # 0 => w[R(k - 1)] = c)
  BY SplitSegments
<1> HIDE DEF R
<1>3. T \in SUBSET Nat /\ T # {} /\ n \in Nat /\ \A k \in T : k <= n
  <2>1. 0 \in T
    BY <1>0, <1>1
  <2> QED
    BY <1>1, <2>1
<1>4. PICK k \in T : \A j \in T : j <= k
  <2> HIDE DEF T
  <2> QED
    BY <1>3, GreatestElement
<1>5. k \in 0..n /\ R(k) < i /\ k # n
  BY <1>0, <1>1, <1>4
<1>6. k + 1 \in 1..n /\ k + 1 - 1 = k /\ k + 1 \in 0..n /\ ~(k + 1 <= k)
  BY <1>1, <1>5
<1>7. k + 1 \notin T
  BY <1>4, <1>6
<1>8. R(k) \in Nat /\ R(k + 1) \in Nat
  BY <1>2, <1>6
<1>9. i <= R(k + 1)
  BY <1>0, <1>6, <1>7, <1>8
<1>10. R(k + 1) # i
  <2>1. CASE k + 1 = n
    BY <1>0, <1>1, <2>1
  <2>2. CASE k + 1 # n
    <3>1. k + 2 \in 1..n /\ k + 2 - 1 = k + 1
      BY <1>1, <1>6, <2>2
    <3>2. R(k + 1) # 0 => w[R(k + 1)] = c
      BY <1>2, <3>1
    <3> QED
      BY <1>0, <3>2
  <2> QED
    BY <2>1, <2>2
<1>11. R(k) < i /\ i < R(k + 1)
  BY <1>0, <1>5, <1>8, <1>9, <1>10
<1> QED
  BY <1>6, <1>8, <1>11 DEF R

(* What is not in a word is in no segment of it, and what is in no segment *)
(* is not in the word, unless it is what the word is split at.             *)
LEMMA SplitWithout ==
  ASSUME NEW w \in Word, NEW c, NEW S
  PROVE  /\ Split(w, c) \in Seq(Word) /\ Len(Split(w, c)) \in Nat \ {0}
         /\ \A k \in 1..Len(Split(w, c)) : Without(Split(w, c)[k], {c})
         /\ Without(w, S) => \A k \in 1..Len(Split(w, c)) : Without(Split(w, c)[k], S)
         /\ c \notin S /\ (\A k \in 1..Len(Split(w, c)) : Without(Split(w, c)[k], S))
              => Without(w, S)
<1> DEFINE n == Cardinality(Cuts(w, c)) - 1
           A(k) == Ranked(Cuts(w, c), k - 1)
           B(k) == Ranked(Cuts(w, c), k)
           seg(k) == Split(w, c)[k]
<1>0. Len(w) \in Nat
  BY DEF Word
<1>1. n \in Nat \ {0}
  BY CutsOrder
<1>2. Split(w, c) \in Seq(Word) /\ Len(Split(w, c)) = n
  BY SplitSegments
<1>3. \A k \in 1..n : /\ A(k) \in Nat /\ B(k) \in Nat /\ A(k) < B(k) /\ B(k) <= Len(w) + 1
                      /\ Len(seg(k)) = B(k) - A(k) - 1
                      /\ \A i \in 1..(B(k) - A(k) - 1) : seg(k)[i] = w[A(k) + i]
  <2> TAKE k \in 1..n
  <2> QED
    BY SplitSegments
<1>4. \A k \in 1..n : \A i \in 1..Len(w) : A(k) < i /\ i < B(k) => w[i] # c
  BY BetweenCuts
<1>5. \A i \in 1..Len(w) : w[i] # c => \E k \in 1..n : A(k) < i /\ i < B(k)
  BY InSegment
<1> HIDE DEF n, A, B, seg
<1>6. ASSUME NEW k \in 1..n, NEW i \in 1..Len(seg(k))
      PROVE  /\ A(k) + i \in 1..Len(w) /\ seg(k)[i] = w[A(k) + i]
             /\ A(k) < A(k) + i /\ A(k) + i < B(k)
  BY <1>0, <1>3
<1>7. \A k \in 1..n : Without(seg(k), {c})
  BY <1>4, <1>6 DEF Without
<1>8. ASSUME Without(w, S) PROVE \A k \in 1..n : Without(seg(k), S)
  BY <1>6, <1>8 DEF Without
<1>9. ASSUME c \notin S, \A k \in 1..n : Without(seg(k), S) PROVE Without(w, S)
  <2>1. ASSUME NEW i \in 1..Len(w), w[i] # c PROVE w[i] \notin S
    <3>1. PICK k \in 1..n : A(k) < i /\ i < B(k)
      BY <1>5, <2>1
    <3> DEFINE o == i - A(k)
    <3>2. o \in 1..Len(seg(k)) /\ A(k) + o = i
      BY <1>0, <1>3, <3>1
    <3> HIDE DEF o
    <3>3. seg(k)[o] = w[i]
      BY <1>6, <3>2
    <3> QED
      BY <1>9, <3>2, <3>3 DEF Without
  <2> QED
    BY <1>9, <2>1 DEF Without
<1> QED
  BY <1>1, <1>2, <1>7, <1>8, <1>9 DEF seg

(* The same of the two parts of a word cut in two.                         *)
LEMMA CutWithout ==
  ASSUME NEW w \in Word, NEW c, NEW S
  PROVE  /\ Cut(w, c)[1] \in Word /\ Cut(w, c)[2] \in Word
         /\ Without(w, S) => Without(Cut(w, c)[1], S) /\ Without(Cut(w, c)[2], S)
         /\ c \notin S /\ Without(Cut(w, c)[1], S) /\ Without(Cut(w, c)[2], S) => Without(w, S)
<1> DEFINE i == IndexOf(w, c, 1)
<1>0. Len(w) \in Nat /\ 1 \in Nat \ {0}
  BY DEF Word
<1>1. CASE i = 0
  <2>1. Cut(w, c) = <<w, <<>>>>
    BY <1>1 DEF Cut
  <2>2. <<>> \in Word /\ Without(<<>>, S)
    BY DEF Word, Without
  <2> QED
    BY <2>1, <2>2
<1>2. CASE i # 0
  <2>1. i \in 1..Len(w) /\ w[i] = c
    BY <1>0, <1>2, IndexOfIs
  <2>2. Cut(w, c) = <<Before(w, i), After(w, i)>>
    BY <1>2 DEF Cut
  <2> HIDE DEF i
  <2> DEFINE b == Before(w, i)
             a == After(w, i)
  <2>3. i \in 1..(Len(w) + 1) /\ i \in 0..Len(w)
    BY <1>0, <2>1
  <2>4. b \in Word /\ Len(b) = i - 1 /\ \A k \in 1..(i - 1) : b[k] = w[k]
    BY <2>3, BeforeIs
  <2>5. /\ a \in Word /\ Len(a) = Len(w) - i
        /\ \A k \in 1..(Len(w) - i) : a[k] = w[i + k]
    BY <2>3, AfterIs
  <2>6. Cut(w, c)[1] = b /\ Cut(w, c)[2] = a
    BY <2>2
  <2> HIDE DEF a, b
  <2>7. ASSUME Without(w, S) PROVE Without(b, S) /\ Without(a, S)
    <3>1. \A k \in 1..(i - 1) : k \in 1..Len(w)
      BY <1>0, <2>1
    <3>2. \A k \in 1..(Len(w) - i) : i + k \in 1..Len(w)
      BY <1>0, <2>1
    <3> QED
      BY <2>4, <2>5, <2>7, <3>1, <3>2 DEF Without
  <2>8. ASSUME c \notin S, Without(b, S), Without(a, S) PROVE Without(w, S)
    <3>1. \A k \in 1..Len(w) : \/ k \in 1..(i - 1) \/ k = i
                               \/ k - i \in 1..(Len(w) - i) /\ i + (k - i) = k
      BY <1>0, <2>1
    <3>2. \A k \in 1..Len(w) : w[k] \notin S
      BY <2>1, <2>4, <2>5, <2>8, <3>1 DEF Without
    <3> QED
      BY <3>2 DEF Without
  <2> QED
    BY <2>4, <2>5, <2>6, <2>7, <2>8
<1> QED
  BY <1>1, <1>2

(* A pair can be decoded when its two parts can, and a "+" that becomes a  *)
(* space changes nothing about that; without "+" it changes nothing.       *)
LEMMA PairParts ==
  ASSUME NEW pair \in Word
  PROVE  /\ Decodable(pair) <=> \A k \in {1, 2} : Decodable(Cut(pair, EQUALS)[k])
         /\ Decodable(pair) <=> \A k \in {1, 2} : Decodable(FormPart(pair, k))
         /\ Without(pair, {PLUS}) =>
              \A k \in {1, 2} : FormPart(pair, k) = Cut(pair, EQUALS)[k]
<1>1. EQUALS \notin Malformed /\ PLUS \notin Malformed /\ SP \notin Malformed
  BY RoutingAssumption
<1>2. /\ Cut(pair, EQUALS)[1] \in Word /\ Cut(pair, EQUALS)[2] \in Word
      /\ Decodable(pair) <=> /\ Decodable(Cut(pair, EQUALS)[1])
                             /\ Decodable(Cut(pair, EQUALS)[2])
      /\ Without(pair, {PLUS}) => /\ Without(Cut(pair, EQUALS)[1], {PLUS})
                                  /\ Without(Cut(pair, EQUALS)[2], {PLUS})
  BY <1>1, CutWithout DEF Decodable
<1>3. ASSUME NEW w \in Word
      PROVE  /\ Decodable(w) <=> Decodable(Spaced(w))
             /\ Without(w, {PLUS}) => Spaced(w) = w
  <2>1. /\ DOMAIN w = 1..Len(w) /\ Len(w) \in Nat /\ w = [i \in 1..Len(w) |-> w[i]]
    BY DEF Word
  <2>2. /\ Len(Spaced(w)) = Len(w)
        /\ \A i \in 1..Len(w) : Spaced(w)[i] = IF w[i] = PLUS THEN SP ELSE w[i]
    BY <2>1 DEF Spaced
  <2>3. Decodable(w) <=> Decodable(Spaced(w))
    BY <1>1, <2>2 DEF Decodable, Without
  <2>4. ASSUME Without(w, {PLUS}) PROVE Spaced(w) = w
    <3>1. \A i \in 1..Len(w) : (IF w[i] = PLUS THEN SP ELSE w[i]) = w[i]
      BY <2>4 DEF Without
    <3>2. Spaced(w) = [i \in 1..Len(w) |-> IF w[i] = PLUS THEN SP ELSE w[i]]
      BY <2>1 DEF Spaced
    <3>3. [i \in 1..Len(w) |-> IF w[i] = PLUS THEN SP ELSE w[i]] = [i \in 1..Len(w) |-> w[i]]
      BY <3>1
    <3> QED
      BY <2>1, <3>2, <3>3
  <2> QED
    BY <2>3, <2>4
<1>4. \A k \in {1, 2} : FormPart(pair, k) = Spaced(Cut(pair, EQUALS)[k])
  BY DEF FormPart
<1> QED
  BY <1>2, <1>3, <1>4

(* Any text is read as a list of pairs in which the last one of a name     *)
(* counts, by parseQuery() (url.ts:21-37) and, where nothing is malformed  *)
(* and no "+" stands for a space, by urlencoded() (body-parsers.ts:56-66). *)
THEOREM PairsLastCount ==
  ASSUME NEW text \in Word
  PROVE  ReadAsPairs(text)
<1> DEFINE pairs == Split(text, AMP)
           n == Len(pairs)
           kept == NotEmpty(pairs)
           name(i) == QueryPart(pairs[i], 1)
           value(i) == QueryPart(pairs[i], 2)
<1>1. AMP \notin Malformed
  BY RoutingAssumption
<1>2. /\ pairs \in Seq(Word) /\ n \in Nat
      /\ Decodable(text) <=> \A i \in 1..n : Decodable(pairs[i])
      /\ Without(text, {PLUS}) => \A i \in 1..n : Without(pairs[i], {PLUS})
  BY <1>1, SplitWithout DEF Decodable
<1>3. DOMAIN pairs = 1..n /\ kept \in SUBSET (1..n) /\ \A i \in 1..n : pairs[i] \in Word
  BY <1>2 DEF NotEmpty
<1> HIDE DEF pairs, n, kept
<1>4. \A i \in 1..n : name(i) = NameOf(pairs[i]) /\ value(i) = ValueOf(pairs[i])
  <2> TAKE i \in 1..n
  <2>1. Decodable(pairs[i]) <=> \A k \in {1, 2} : Decodable(Cut(pairs[i], EQUALS)[k])
    BY <1>3, PairParts
  <2> QED
    BY <2>1 DEF QueryPart, NameOf, ValueOf
<1> HIDE DEF name, value
<1> DEFINE names == [i \in 1..n |-> name(i)]
           values == [i \in 1..n |-> value(i)]
<1>5. ParseQuery(text) = AssignAll(names, values, kept)
  BY <1>3 DEF ParseQuery, FromQuery, pairs, kept, name, value
<1>6. Len(names) = n /\ \A i \in 1..n : names[i] = name(i) /\ values[i] = value(i)
  BY <1>2
<1> HIDE DEF names, values
<1>7. ParseQuery(text) =
        [m \in {NameOf(pairs[i]) : i \in kept} \ {<<PROTO>>} |->
           ValueOf(pairs[Max({i \in kept : NameOf(pairs[i]) = m})])]
  <2> DEFINE last(m) == Max({i \in kept : names[i] = m})
             given == {names[i] : i \in kept} \ {<<PROTO>>}
  <2>1. ParseQuery(text) = [m \in given |-> values[last(m)]]
    <3>1. n \in Nat /\ Len(names) = n /\ kept \in SUBSET (1..n)
      BY <1>2, <1>3, <1>6
    <3>2. AssignAll(names, values, kept) = LastAssigned(names, values, kept)
      BY <3>1, AssignAllIs
    <3> QED
      BY <1>5, <3>2 DEF LastAssigned
  <2>2. \A i \in kept : names[i] = NameOf(pairs[i])
    BY <1>3, <1>4, <1>6
  <2>3. given = {NameOf(pairs[i]) : i \in kept} \ {<<PROTO>>}
    BY <2>2
  <2>4. \A m : {i \in kept : names[i] = m} = {i \in kept : NameOf(pairs[i]) = m}
    BY <2>2
  <2>5. \A m \in given : last(m) \in kept
    <3> TAKE m \in given
    <3> DEFINE T == {i \in kept : names[i] = m}
    <3>1. PICK i \in kept : names[i] = m
      BY Zenon
    <3>2. i \in T
      BY <3>1
    <3>3. T \subseteq kept
      OBVIOUS
    <3> HIDE DEF T
    <3>4. \A j \in T : j \in 1..n
      BY <1>3, <3>3
    <3>5. T \in SUBSET Nat /\ \A j \in T : j <= n
      BY <1>2, <3>4
    <3>6. Max(T) \in T
      BY <1>2, <3>2, <3>5, MaxExists
    <3> QED
      BY <3>6 DEF T
  <2>6. \A m \in given :
          values[last(m)] = ValueOf(pairs[Max({i \in kept : NameOf(pairs[i]) = m})])
    <3> TAKE m \in given
    <3>1. last(m) = Max({i \in kept : NameOf(pairs[i]) = m})
      BY <2>4
    <3>2. values[last(m)] = ValueOf(pairs[last(m)])
      BY <1>3, <1>4, <1>6, <2>5
    <3> QED
      BY <3>1, <3>2
  <2> HIDE DEF last, given
  <2> QED
    BY <2>1, <2>3, <2>6
<1>8. ValidForm(text) <=> Decodable(text)
  <2>1. \A i \in 1..n : pairs[i] = <<>> => Decodable(pairs[i])
    BY DEF Decodable, Without
  <2>2. \A i \in 1..n : Decodable(pairs[i])
                          <=> \A k \in {1, 2} : Decodable(FormPart(pairs[i], k))
    BY <1>3, PairParts
  <2>3. ValidForm(text) <=> \A i \in kept, k \in {1, 2} : Decodable(FormPart(pairs[i], k))
    BY DEF ValidForm, pairs, kept
  <2>4. \A i \in 1..n : i \in kept <=> pairs[i] # <<>>
    BY <1>3 DEF kept, NotEmpty
  <2> QED
    BY <1>2, <1>3, <2>1, <2>2, <2>3, <2>4
<1>9. ASSUME Decodable(text), Without(text, {PLUS})
      PROVE  ParseForm(text) = ParseQuery(text)
  <2>1. \A i \in 1..n : \A k \in {1, 2} : Decode(FormPart(pairs[i], k)) = QueryPart(pairs[i], k)
    <3> TAKE i \in 1..n
    <3> TAKE k \in {1, 2}
    <3>1. /\ \A m \in {1, 2} : Decodable(Cut(pairs[i], EQUALS)[m])
          /\ FormPart(pairs[i], k) = Cut(pairs[i], EQUALS)[k]
      BY <1>2, <1>3, <1>9, PairParts
    <3> QED
      BY <3>1 DEF QueryPart
  <2>2. /\ [i \in 1..n |-> Decode(FormPart(pairs[i], 1))] = names
        /\ [i \in 1..n |-> Decode(FormPart(pairs[i], 2))] = values
    BY <2>1 DEF names, values, name, value
  <2>3. ParseForm(text) = AssignAll([i \in 1..n |-> Decode(FormPart(pairs[i], 1))],
                                    [i \in 1..n |-> Decode(FormPart(pairs[i], 2))], kept)
    BY <1>3 DEF ParseForm, pairs, kept
  <2> QED
    BY <1>5, <2>2, <2>3
<1> QED
  BY <1>7, <1>8, <1>9 DEF ReadAsPairs, pairs, kept

(* The words of a request line are words.                                  *)
LEMMA RequestWords ==
  ASSUME NEW line \in Word
  PROVE  /\ RequestLine(line).target \in Word
         /\ Path(RequestLine(line).target) \in Word
         /\ Query(RequestLine(line).target) \in Word
<1> DEFINE first == IndexOf(line, SP, 1)
           second == IndexOf(line, SP, first + 1)
           where == RequestLine(line).target
<1>0. Len(line) \in Nat /\ 1 \in Nat \ {0}
  BY DEF Word
<1>1. RequestLine(line) = SplitLine(line, first, second)
  BY DEF RequestLine
<1>2. where = <<>> \/ (where = Between(line, first, second) /\ ~(first <= 1) /\ second # 0)
  <2>1. \A status : RefusedLine(status).target = <<>>
    BY DEF RefusedLine
  <2>2. \A i, j : RequestParts(line, i, j).target \in {<<>>, Between(line, i, j)}
    BY <2>1 DEF RequestParts
  <2> HIDE DEF first, second
  <2> QED
    BY <1>1, <2>1, <2>2 DEF SplitLine
<1>3. where \in Word
  <2>1. <<>> \in Word
    BY DEF Word
  <2>2. ASSUME ~(first <= 1), second # 0 PROVE Between(line, first, second) \in Word
    <3>1. first \in 1..Len(line)
      BY <1>0, <2>2, IndexOfIs
    <3>2. first + 1 \in Nat \ {0}
      BY <1>0, <3>1
    <3>3. second \in (first + 1)..Len(line)
      BY <2>2, <3>2, IndexOfIs
    <3> HIDE DEF first, second
    <3>4. first \in 0..Len(line) /\ second \in (first + 1)..(Len(line) + 1)
      BY <1>0, <3>1, <3>3
    <3> QED
      BY <3>4, BetweenIs
  <2> HIDE DEF where, first, second
  <2> QED
    BY <1>2, <2>1, <2>2
<1> HIDE DEF first, second, where
<1>4. Path(where) \in Word /\ Query(where) \in Word
  BY <1>3, CutWithout DEF Path, Query
<1> QED
  BY <1>3, <1>4 DEF where

(* However a form or a query is written, parseQuery() and urlencoded()     *)
(* read the same pairs in it, the last one of a name counts, and only what *)
(* cannot be decoded divides them.                                         *)
THEOREM FormsAsQueries == Spec => []FormsAgree
<1>1. Settled => FormsAgree
  <2> SUFFICES ASSUME Settled PROVE FormsAgree
    OBVIOUS
  <2>1. scenario.line \in Word /\ scenario.body \in Word
    BY HandlingAssumption DEF Settled, Scenario
  <2>2. Query(Line.target) \in Word
    BY <2>1, RequestWords DEF Line
  <2> QED
    BY <2>1, <2>2, PairsLastCount DEF FormsAgree
<1> QED
  BY <1>1, PickedOnce, PTL
-----------------------------------------------------------------------------
(* One part of a compiled pattern, read from a cut of the path on up to    *)
(* where another may be: it is the next one, and the segment between them  *)
(* is what the part stands for.                                            *)
LEMMA PartRead ==
  ASSUME NEW path \in Word, NEW n, n = Cardinality(Cuts(path, SLASH)) - 1, NEW k \in 1..n,
         NEW segment \in Word, Without(segment, {SLASH}),
         NEW j \in Ranked(Cuts(path, SLASH), k - 1)..Len(path), j + 1 \in Cuts(path, SLASH)
  PROVE  LET text == SubSeq(path, Ranked(Cuts(path, SLASH), k - 1) + 1, j)
         IN  /\ Consumes(segment, text)
                  <=> j + 1 = Ranked(Cuts(path, SLASH), k) /\ Fits(segment, Split(path, SLASH)[k])
             /\ j + 1 = Ranked(Cuts(path, SLASH), k) => text = Split(path, SLASH)[k]
<1> DEFINE C == Cuts(path, SLASH)
           a == Ranked(C, k - 1)
           b == Ranked(C, k)
           text == SubSeq(path, a + 1, j)
           given == Split(path, SLASH)[k]
<1>0. Len(path) \in Nat
  BY DEF Word
<1>1. /\ a \in Nat /\ b \in Nat /\ a < b /\ b <= Len(path) + 1
      /\ given = Between(path, a, b)
  BY SplitSegments
<1>2. n \in Nat /\ b \in C
  <2>1. C \in SUBSET Nat /\ IsFiniteSet(C) /\ n \in Nat /\ Cardinality(C) = n + 1
    BY CutsOrder
  <2>2. k \in Nat /\ k < Cardinality(C)
    BY <2>1
  <2> QED
    BY <2>1, <2>2, RankedMember
<1>3. Without(given, {SLASH})
  <2>1. Len(Split(path, SLASH)) = n
    BY SplitSegments
  <2> QED
    BY <2>1, SplitWithout
<1>4. \A i \in 1..Len(path) : a < i /\ i < b => path[i] # SLASH
  BY BetweenCuts
<1>5. \A i \in C : i \in Nat /\ (i = 0 \/ i = Len(path) + 1 \/ path[i] = SLASH)
  BY <1>0 DEF Cuts
<1>6. j \in a..Len(path) /\ j + 1 \in C
  OBVIOUS
<1> HIDE DEF C, a, b, given
<1>7. Len(text) = j - a /\ \A i \in 1..(j - a) : text[i] = path[a + i]
  BY <1>0, <1>1, <1>6 DEF Word
<1>8. ASSUME j + 1 = b PROVE text = given
  <2>1. j = b - 1
    BY <1>0, <1>1, <1>6, <1>8
  <2> QED
    BY <1>1, <2>1 DEF Between
<1>9. ASSUME Without(text, {SLASH}) PROVE j + 1 = b
  <2>1. ~(j + 1 < b)
    <3>1. SUFFICES ASSUME j + 1 < b PROVE FALSE
      OBVIOUS
    <3>2. j + 1 \in 1..Len(path) /\ a < j + 1
      BY <1>0, <1>1, <1>6, <3>1
    <3>3. path[j + 1] = SLASH
      BY <1>0, <1>5, <1>6, <3>2
    <3> QED
      BY <1>4, <3>1, <3>2, <3>3
  <2>2. ~(b < j + 1)
    <3>1. SUFFICES ASSUME b < j + 1 PROVE FALSE
      OBVIOUS
    <3> DEFINE o == b - a
    <3>2. o \in 1..(j - a) /\ a + o = b /\ b # 0 /\ b # Len(path) + 1
      BY <1>0, <1>1, <1>6, <3>1
    <3> HIDE DEF o
    <3>3. text[o] = SLASH
      BY <1>2, <1>5, <1>7, <3>2
    <3>4. o \in 1..Len(text)
      BY <1>7, <3>2
    <3> HIDE DEF text
    <3> QED
      BY <1>9, <3>3, <3>4 DEF Without
  <2> QED
    BY <1>0, <1>1, <1>6, <2>1, <2>2
<1> HIDE DEF text
<1>10. Consumes(segment, text) => Without(text, {SLASH})
  BY DEF Consumes
<1>11. ASSUME j + 1 = b PROVE Consumes(segment, text) <=> Fits(segment, given)
  BY <1>3, <1>8, <1>11 DEF Consumes, Fits
<1>12. /\ Consumes(segment, text) <=> j + 1 = b /\ Fits(segment, given)
       /\ j + 1 = b => text = given
  BY <1>8, <1>9, <1>10, <1>11
<1> QED
  BY <1>12 DEF text, given, a, b, C

(* The groups of the parameters among the first k segments.                *)
GroupsUpTo(wanted, given, k) ==
  [i \in 1..Cardinality({p \in ParamsOf(wanted) : p <= k}) |->
     given[Ranked(ParamsOf(wanted), i - 1)]]

(* A parameter adds its segment.                                           *)
LEMMA GroupsGrow ==
  ASSUME NEW wanted \in Seq(Word), NEW given, NEW k \in 1..Len(wanted)
  PROVE  GroupsUpTo(wanted, given, k) =
           IF IsParam(wanted[k]) THEN Append(GroupsUpTo(wanted, given, k - 1), given[k])
                                 ELSE GroupsUpTo(wanted, given, k - 1)
<1> DEFINE P == ParamsOf(wanted)
           Upto(i) == {p \in P : p <= i}
           count(i) == Cardinality(Upto(i))
           group(i) == given[Ranked(P, i - 1)]
<1>1. P \in SUBSET (1..Len(wanted)) /\ Len(wanted) \in Nat /\ (k \in P <=> IsParam(wanted[k]))
  BY DEF ParamsOf
<1>2. P \in SUBSET Nat /\ IsFiniteSet(P) /\ k \in Nat
  <2>1. IsFiniteSet(1..Len(wanted))
    BY <1>1, FS_Interval
  <2> QED
    BY <1>1, <2>1, FS_Subset
<1> HIDE DEF P
<1>3. CASE k \notin P
  <2>1. \A p \in P : p <= k <=> p <= k - 1
    BY <1>2, <1>3
  <2>2. Upto(k) = Upto(k - 1)
    BY <2>1
  <2> QED
    BY <1>1, <1>3, <2>2 DEF GroupsUpTo, P
<1>4. CASE k \in P
  <2>1. \A p \in P : (p <= k <=> p <= k - 1 \/ p = k) /\ ~(k <= k - 1) /\ (p <= k - 1 <=> p < k)
    BY <1>2
  <2>2. Upto(k) = Upto(k - 1) \cup {k} /\ Upto(k - 1) = Below(P, k)
    BY <1>4, <2>1 DEF Below
  <2>3. count(k) = count(k - 1) + 1 /\ count(k - 1) \in Nat
    BY <1>2, <1>4, <2>2, BelowSize
  <2>4. Ranked(P, count(k - 1)) = k
    BY <1>2, <1>4, <2>2, RankedIs
  <2> DEFINE c == count(k - 1)
             G == GroupsUpTo(wanted, given, k - 1)
  <2>5. /\ G = [i \in 1..c |-> group(i)]
        /\ GroupsUpTo(wanted, given, k) = [i \in 1..(c + 1) |-> group(i)]
    BY <2>3 DEF GroupsUpTo, P
  <2>6. group(c + 1) = given[k]
    <3>1. Ranked(P, c) = k
      BY <2>4
    <3>2. \A i, j : j = i - 1 => group(i) = given[Ranked(P, j)]
      OBVIOUS
    <3>3. c = (c + 1) - 1
      BY <2>3
    <3> HIDE DEF c, group
    <3>4. group(c + 1) = given[Ranked(P, c)]
      BY <3>2, <3>3
    <3> QED
      BY <3>1, <3>4
  <2> HIDE DEF c, G, group
  <2>7. c \in Nat
    BY <2>3 DEF c
  <2>8. Append(G, given[k]) = [i \in 1..(c + 1) |-> group(i)]
    BY <2>5, <2>6, <2>7
  <2> QED
    BY <1>1, <1>4, <2>5, <2>8 DEF G
<1> QED
  BY <1>1, <1>3, <1>4

(* One part is read from one place on up to wherever it matches.           *)
Place(at, groups) == [at |-> at, groups |-> groups]
ReadTo(path, at, groups, segment, j) ==
  Place(j, IF IsParam(segment) THEN Append(groups, SubSeq(path, at + 1, j)) ELSE groups)
EndsRead(path, at, groups, segment) ==
  {ReadTo(path, at, groups, segment, j) :
     j \in {j \in at..Len(path) : Consumes(segment, SubSeq(path, at + 1, j))}}

(* A place to read on from adds what is read from there.                   *)
LEMMA ReadFrom ==
  ASSUME NEW path, NEW at, NEW groups, NEW segment
  PROVE  ReadSegment(path, {Place(at, groups)}, segment) = EndsRead(path, at, groups, segment)
<1> DEFINE s == Place(at, groups)
           From(t) == {[at |-> j, groups |-> IF IsParam(segment)
                                             THEN Append(t.groups, SubSeq(path, t.at + 1, j))
                                             ELSE t.groups] :
                         j \in {j \in t.at..Len(path) :
                                  Consumes(segment, SubSeq(path, t.at + 1, j))}}
<1>1. ReadSegment(path, {s}, segment) = UNION {From(t) : t \in {s}}
  BY Zenon DEF ReadSegment
<1>2. s.at = at /\ s.groups = groups
  BY DEF Place
<1> HIDE DEF s
<1>3. From(s) = EndsRead(path, at, groups, segment)
  BY <1>2, Zenon DEF EndsRead, ReadTo, Place
<1> HIDE DEF From
<1>4. UNION {From(t) : t \in {s}} = From(s)
  OBVIOUS
<1> QED
  BY <1>1, <1>3, <1>4 DEF s

(* From nowhere nothing is read.                                           *)
LEMMA ReadNowhere ==
  ASSUME NEW path, NEW segment
  PROVE  ReadSegment(path, {}, segment) = {}
BY DEF ReadSegment

(* The first parts are read up to a cut when the first segments fit them,  *)
(* and then in one way: up to that cut, with their groups.                 *)
FrontFits(wanted, given, k) ==
  k <= Len(given) /\ \A i \in 1..k : Fits(wanted[i], given[i])
StartsOf(path, wanted, given, k) ==
  IF k < Len(given) /\ FrontFits(wanted, given, k)
  THEN {Place(Ranked(Cuts(path, SLASH), k), GroupsUpTo(wanted, given, k))}
  ELSE {}
ReadUpTo(path, wanted, given, k) ==
  ReadSegment(path, StartsOf(path, wanted, given, k - 1), wanted[k])
EndOf(path, wanted, given, k) ==
  Place(Ranked(Cuts(path, SLASH), k) - 1, GroupsUpTo(wanted, given, k))

(* Of what a part is read up to, only one end is at a cut.                 *)
LEMMA ReadEnds ==
  ASSUME NEW path \in Word, NEW given, given = Split(path, SLASH), NEW wanted \in Seq(Word),
         \A i \in 1..Len(wanted) : Without(wanted[i], {SLASH}), NEW k \in 1..Len(wanted)
  PROVE  /\ \A r \in ReadUpTo(path, wanted, given, k) : r.at \in 0..Len(path)
         /\ \A r : r \in ReadUpTo(path, wanted, given, k) /\ r.at + 1 \in Cuts(path, SLASH)
                     <=> FrontFits(wanted, given, k) /\ r = EndOf(path, wanted, given, k)
<1> DEFINE C == Cuts(path, SLASH)
           n == Len(given)
           a == Ranked(C, k - 1)
           b == Ranked(C, k)
           segment == wanted[k]
           G == GroupsUpTo(wanted, given, k - 1)
           text(j) == SubSeq(path, a + 1, j)
           read(j) == ReadTo(path, a, G, segment, j)
           front(i) == FrontFits(wanted, given, i)
<1>0. Len(path) \in Nat /\ k \in Nat \ {0} /\ segment \in Word /\ Without(segment, {SLASH})
  <2>1. Len(path) \in Nat
    BY DEF Word
  <2>2. Len(wanted) \in Nat
    OBVIOUS
  <2>3. segment \in Word /\ Without(segment, {SLASH})
    OBVIOUS
  <2> QED
    BY <2>1, <2>2, <2>3
<1>1. n = Cardinality(C) - 1 /\ n \in Nat \ {0}
  BY SplitSegments, CutsOrder
<1>2. front(k) <=> k <= n /\ front(k - 1) /\ Fits(segment, given[k])
  <2>1. \A i : i \in 1..k <=> i \in 1..(k - 1) \/ i = k
    BY <1>0
  <2>2. k <= n => k - 1 <= n
    BY <1>0, <1>1
  <2> QED
    BY <2>1, <2>2 DEF FrontFits
<1>3. k - 1 < n <=> k <= n
  BY <1>0, <1>1
<1>4. \A r : r \in ReadUpTo(path, wanted, given, k)
               <=> /\ k <= n /\ front(k - 1)
                   /\ \E j \in a..Len(path) : Consumes(segment, text(j)) /\ r = read(j)
  <2>1. CASE k <= n /\ front(k - 1)
    <3>1. StartsOf(path, wanted, given, k - 1) = {Place(a, G)}
      BY <1>3, <2>1 DEF StartsOf
    <3>2. ReadSegment(path, {Place(a, G)}, segment) = EndsRead(path, a, G, segment)
      <4> HIDE DEF a, G, segment
      <4> QED
        BY ReadFrom
    <3>3. \A r : r \in EndsRead(path, a, G, segment)
                   <=> \E j \in a..Len(path) : Consumes(segment, text(j)) /\ r = read(j)
      <4> HIDE DEF a, G, segment
      <4> QED
        BY DEF EndsRead
    <3> HIDE DEF a, G, segment, text, read
    <3> QED
      BY <2>1, <3>1, <3>2, <3>3 DEF ReadUpTo, segment
  <2>2. CASE ~(k <= n /\ front(k - 1))
    <3>1. StartsOf(path, wanted, given, k - 1) = {}
      BY <1>3, <2>2 DEF StartsOf
    <3>2. ReadUpTo(path, wanted, given, k) = {}
      BY <3>1, ReadNowhere DEF ReadUpTo
    <3> QED
      BY <2>2, <3>2
  <2> QED
    BY <2>1, <2>2
<1>5. ASSUME k <= n
      PROVE  /\ a \in Nat /\ b \in Nat /\ a < b /\ b <= Len(path) + 1 /\ b \in C
             /\ \A j \in a..Len(path) : j + 1 \in C =>
                  /\ Consumes(segment, text(j)) <=> j + 1 = b /\ Fits(segment, given[k])
                  /\ j + 1 = b => text(j) = given[k]
  <2>1. k \in 1..n
    BY <1>0, <1>1, <1>5
  <2>2. a \in Nat /\ b \in Nat /\ a < b /\ b <= Len(path) + 1
    BY <1>1, <2>1, SplitSegments
  <2>3. b \in C
    <3>1. C \in SUBSET Nat /\ IsFiniteSet(C)
      BY CutsOrder
    <3>2. k \in Nat /\ k < Cardinality(C)
      <4>1. Cardinality(C) \in Nat
        BY <3>1, FS_CardinalityType
      <4> QED
        BY <1>0, <1>1, <1>5, <4>1
    <3> QED
      BY <3>1, <3>2, RankedMember
  <2>4. ASSUME NEW j \in a..Len(path), j + 1 \in C
        PROVE  /\ Consumes(segment, text(j)) <=> j + 1 = b /\ Fits(segment, given[k])
               /\ j + 1 = b => text(j) = given[k]
    <3>1. given[k] = Split(path, SLASH)[k]
      OBVIOUS
    <3>2. n = Cardinality(Cuts(path, SLASH)) - 1 /\ k \in 1..n
      BY <1>1, <2>1
    <3>3. j \in Ranked(Cuts(path, SLASH), k - 1)..Len(path) /\ j + 1 \in Cuts(path, SLASH)
      BY <2>4
    <3>4. LET t == SubSeq(path, Ranked(Cuts(path, SLASH), k - 1) + 1, j)
          IN  /\ Consumes(segment, t)
                   <=> /\ j + 1 = Ranked(Cuts(path, SLASH), k)
                       /\ Fits(segment, Split(path, SLASH)[k])
              /\ j + 1 = Ranked(Cuts(path, SLASH), k) => t = Split(path, SLASH)[k]
      <4> HIDE DEF n, segment
      <4> QED
        BY <1>0, <3>2, <3>3, PartRead
    <3> QED
      BY <3>1, <3>4
  <2> QED
    BY <2>2, <2>3, <2>4
<1>6. GroupsUpTo(wanted, given, k) = IF IsParam(segment) THEN Append(G, given[k]) ELSE G
  BY GroupsGrow
<1>7. EndOf(path, wanted, given, k) = Place(b - 1, GroupsUpTo(wanted, given, k))
  BY DEF EndOf
<1> HIDE DEF C, n, a, b, segment, G, text, front
<1>8. \A j : read(j).at = j
  BY DEF ReadTo, Place
<1>9. \A j : j + 1 = b /\ j \in Int /\ text(j) = given[k] /\ b \in Nat
               => read(j) = EndOf(path, wanted, given, k)
  <2> TAKE j
  <2> HAVE j + 1 = b /\ j \in Int /\ text(j) = given[k] /\ b \in Nat
  <2>1. b - 1 = j
    OBVIOUS
  <2> QED
    BY <1>6, <1>7, <2>1 DEF ReadTo, text
<1> HIDE DEF read
<1>10. ASSUME NEW r, r \in ReadUpTo(path, wanted, given, k), r.at + 1 \in C
       PROVE  front(k) /\ r = EndOf(path, wanted, given, k)
  <2>1. k <= n /\ front(k - 1)
    BY <1>4, <1>10
  <2>2. PICK j \in a..Len(path) : Consumes(segment, text(j)) /\ r = read(j)
    BY <1>4, <1>10
  <2>3. j + 1 \in C
    BY <1>8, <1>10, <2>2
  <2>4. j + 1 = b /\ Fits(segment, given[k]) /\ text(j) = given[k] /\ b \in Nat /\ a \in Nat
    BY <1>5, <2>1, <2>2, <2>3
  <2>5. j \in Int
    BY <1>0, <2>4
  <2> QED
    BY <1>2, <1>9, <2>1, <2>2, <2>4, <2>5
<1>11. ASSUME front(k)
       PROVE  LET r == EndOf(path, wanted, given, k)
              IN  r \in ReadUpTo(path, wanted, given, k) /\ r.at + 1 \in C
  <2>1. k <= n /\ front(k - 1) /\ Fits(segment, given[k])
    BY <1>2, <1>11
  <2> DEFINE j == b - 1
  <2>2. b \in Nat /\ b \in C /\ j \in a..Len(path) /\ j + 1 = b /\ j \in Int
    BY <1>0, <1>5, <2>1
  <2> HIDE DEF j
  <2>3. Consumes(segment, text(j)) /\ text(j) = given[k]
    BY <1>5, <2>1, <2>2
  <2>4. read(j) = EndOf(path, wanted, given, k)
    BY <1>9, <2>2, <2>3
  <2>5. read(j) \in ReadUpTo(path, wanted, given, k)
    BY <1>4, <2>1, <2>2, <2>3
  <2>6. read(j).at + 1 \in C
    BY <1>8, <2>2
  <2> QED
    BY <2>4, <2>5, <2>6
<1>12. ASSUME NEW r \in ReadUpTo(path, wanted, given, k) PROVE r.at \in 0..Len(path)
  <2>1. k <= n
    BY <1>4
  <2>2. PICK j \in a..Len(path) : r = read(j)
    BY <1>4
  <2>3. a \in Nat
    BY <1>5, <2>1
  <2>4. r.at = j
    BY <1>8, <2>2
  <2> QED
    BY <1>0, <2>3, <2>4
<1> QED
  BY <1>10, <1>11, <1>12 DEF C, front

(* The last cut is behind the word, and the symbol is at those between.    *)
LEMMA CutPlace ==
  ASSUME NEW w \in Word, NEW c, NEW k \in 1..Len(Split(w, c)), NEW b, b = Ranked(Cuts(w, c), k)
  PROVE  /\ b \in Nat \ {0}
         /\ k = Len(Split(w, c)) => b = Len(w) + 1
         /\ k # Len(Split(w, c)) => b \in 1..Len(w) /\ w[b] = c
<1> DEFINE n == Cardinality(Cuts(w, c)) - 1
           R(i) == Ranked(Cuts(w, c), i)
<1>1. n \in Nat \ {0} /\ R(n) = Len(w) + 1 /\ Len(w) \in Nat
  BY CutsOrder DEF Word
<1>2. n = Len(Split(w, c))
  BY SplitSegments
<1>3. \A i \in 1..n : /\ R(i - 1) \in Nat /\ R(i) \in Nat /\ R(i - 1) < R(i) /\ R(i) <= Len(w) + 1
                      /\ R(i - 1) # 0 => w[R(i - 1)] = c
  <2> TAKE i \in 1..n
  <2> QED
    BY SplitSegments
<1> HIDE DEF n, R
<1>4. b = R(k) /\ k \in 1..n
  BY <1>2 DEF R
<1>5. b \in Nat \ {0}
  BY <1>3, <1>4
<1>6. ASSUME k # n PROVE b \in 1..Len(w) /\ w[b] = c
  <2>1. k + 1 \in 1..n /\ (k + 1) - 1 = k
    BY <1>1, <1>4, <1>6
  <2>2. R(k + 1) \in Nat /\ R(k) < R(k + 1) /\ R(k + 1) <= Len(w) + 1 /\ (R(k) # 0 => w[R(k)] = c)
    BY <1>3, <2>1
  <2> QED
    BY <1>1, <1>4, <1>5, <2>2
<1> QED
  BY <1>1, <1>2, <1>4, <1>5, <1>6

(* The slash behind a part is the cut its reading ended at.                *)
LEMMA SlashEnds ==
  ASSUME NEW path \in Word, NEW given, given = Split(path, SLASH), NEW wanted \in Seq(Word),
         \A i \in 1..Len(wanted) : Without(wanted[i], {SLASH}), NEW k \in 1..Len(wanted)
  PROVE  ReadSlash(path, ReadUpTo(path, wanted, given, k)) = StartsOf(path, wanted, given, k)
<1> DEFINE C == Cuts(path, SLASH)
           n == Len(given)
           b == Ranked(C, k)
           R == ReadUpTo(path, wanted, given, k)
           front == FrontFits(wanted, given, k)
           end == EndOf(path, wanted, given, k)
           G == GroupsUpTo(wanted, given, k)
           T == {r \in R : r.at < Len(path) /\ path[r.at + 1] = SLASH}
<1>0. Len(path) \in Nat /\ n \in Nat \ {0} /\ k \in Nat \ {0}
  <2>1. Len(path) \in Nat
    BY DEF Word
  <2>2. n \in Nat \ {0}
    BY SplitSegments, CutsOrder
  <2>3. Len(wanted) \in Nat
    OBVIOUS
  <2> QED
    BY <2>1, <2>2, <2>3
<1>1. /\ \A r \in R : r.at \in 0..Len(path)
      /\ \A r : r \in R /\ r.at + 1 \in C <=> front /\ r = end
  BY ReadEnds
<1>2. end = Place(b - 1, G)
  BY DEF EndOf
<1>3. front => k <= n
  BY DEF FrontFits
<1>4. k <= n => /\ b \in Nat \ {0} /\ (k = n => b = Len(path) + 1)
                /\ k # n => b \in 1..Len(path) /\ path[b] = SLASH
  BY <1>0, CutPlace
<1>5. \A i \in 1..Len(path) : path[i] = SLASH => i \in C
  BY DEF Cuts
<1>6. StartsOf(path, wanted, given, k) = IF k < n /\ front THEN {Place(b, G)} ELSE {}
  BY DEF StartsOf
<1>7. ReadSlash(path, R) = {[r EXCEPT !.at = @ + 1] : r \in T}
  BY DEF ReadSlash
<1>8. end.at = b - 1
  BY <1>2 DEF Place
<1> HIDE DEF C, n, b, R, front, end, G
<1>9. ASSUME NEW r \in T PROVE front /\ k < n /\ r = end
  <2>1. r.at + 1 \in 1..Len(path) /\ path[r.at + 1] = SLASH /\ r \in R /\ r.at < Len(path)
    BY <1>0, <1>1
  <2>2. front /\ r = end
    BY <1>1, <1>5, <2>1
  <2>3. k # n
    BY <1>0, <1>3, <1>4, <1>8, <2>1, <2>2
  <2> QED
    BY <1>0, <1>3, <2>2, <2>3
<1>10. ASSUME front, k < n PROVE end \in T
  <2>1. end \in R
    BY <1>1, <1>10
  <2>2. b \in 1..Len(path) /\ path[b] = SLASH /\ b \in Nat
    BY <1>0, <1>4, <1>10
  <2>3. end.at + 1 = b /\ end.at < Len(path)
    BY <1>0, <1>8, <2>2
  <2> QED
    BY <2>1, <2>2, <2>3
<1> HIDE DEF T
<1>11. CASE k < n /\ front
  <2>1. T = {end}
    BY <1>9, <1>10, <1>11
  <2>2. [end EXCEPT !.at = @ + 1] = Place(b, G)
    <3>1. b \in Nat
      BY <1>0, <1>4, <1>11
    <3>2. (b - 1) + 1 = b
      BY <3>1
    <3>3. [Place(b - 1, G) EXCEPT !.at = @ + 1] = Place((b - 1) + 1, G)
      BY DEF Place
    <3> QED
      BY <1>2, <3>2, <3>3
  <2> DEFINE more == [end EXCEPT !.at = @ + 1]
  <2>3. {[r EXCEPT !.at = @ + 1] : r \in {end}} = {more}
    OBVIOUS
  <2> QED
    BY <1>6, <1>7, <1>11, <2>1, <2>2, <2>3 DEF R
<1>12. CASE ~(k < n /\ front)
  <2>1. T = {}
    BY <1>9, <1>12
  <2> QED
    BY <1>6, <1>7, <1>12, <2>1 DEF R
<1> QED
  BY <1>11, <1>12 DEF R

(* A path is read on from its start.                                       *)
LEMMA StartAtNothing ==
  ASSUME NEW path \in Word, NEW given, given = Split(path, SLASH), NEW wanted \in Seq(Word)
  PROVE  StartsOf(path, wanted, given, 0) = {Unread}
<1>1. Len(given) \in Nat \ {0} /\ Ranked(Cuts(path, SLASH), 0) = 0
  BY SplitSegments, CutsOrder
<1>2. FrontFits(wanted, given, 0) /\ 0 < Len(given)
  <2>1. \A i : i \notin 1..0
    OBVIOUS
  <2> QED
    BY <1>1, <2>1 DEF FrontFits
<1>3. GroupsUpTo(wanted, given, 0) = <<>>
  <2>1. ParamsOf(wanted) \subseteq 1..Len(wanted)
    BY DEF ParamsOf
  <2>2. {p \in ParamsOf(wanted) : p <= 0} = {}
    BY <2>1
  <2>3. Cardinality({p \in ParamsOf(wanted) : p <= 0}) = 0
    BY <2>2, FS_EmptySet
  <2>4. 1..0 = {}
    OBVIOUS
  <2>5. GroupsUpTo(wanted, given, 0) = [i \in {} |-> given[Ranked(ParamsOf(wanted), i - 1)]]
    BY <2>3, <2>4, Zenon DEF GroupsUpTo
  <2> QED
    BY <2>5
<1> QED
  BY <1>1, <1>2, <1>3 DEF StartsOf, Place, Unread

(* The loop over the parts comes to what the last of them is read up to.   *)
LEMMA ReadingsAre ==
  ASSUME NEW path \in Word, NEW pattern \in Word,
         NEW given, given = Split(path, SLASH), NEW wanted, wanted = Split(pattern, SLASH),
         NEW m, m = Len(wanted)
  PROVE  Readings(pattern, path) = ReadUpTo(path, wanted, given, m)
<1> DEFINE Loop(f) == [k \in 1..Len(wanted) |->
                         ReadSegment(path, IF k = 1 THEN {Unread} ELSE ReadSlash(path, f[k - 1]),
                                     wanted[k])]
           read == CHOOSE f : f = Loop(f)
           g == [k \in 1..m |-> ReadUpTo(path, wanted, given, k)]
<1>1. Readings(pattern, path) = read[m]
  BY Zenon DEF Readings
<1>2. /\ wanted \in Seq(Word) /\ m \in Nat \ {0}
      /\ \A i \in 1..m : Without(wanted[i], {SLASH})
  BY SplitWithout
<1> HIDE DEF Loop, g, read
<1>3. \A k \in 1..m : g[k] = ReadSegment(path, IF k = 1 THEN {Unread}
                                               ELSE ReadSlash(path, g[k - 1]), wanted[k])
  <2> TAKE k \in 1..m
  <2>1. g[k] = ReadSegment(path, StartsOf(path, wanted, given, k - 1), wanted[k])
    BY DEF g, ReadUpTo
  <2>2. CASE k = 1
    <3>1. k - 1 = 0
      BY <2>2
    <3>2. StartsOf(path, wanted, given, 0) = {Unread}
      BY <1>2, StartAtNothing
    <3> QED
      BY <2>1, <2>2, <3>1, <3>2
  <2>3. CASE k # 1
    <3>1. k - 1 \in 1..m
      BY <1>2, <2>3
    <3>2. ReadSlash(path, ReadUpTo(path, wanted, given, k - 1))
            = StartsOf(path, wanted, given, k - 1)
      BY <1>2, <3>1, SlashEnds
    <3>3. g[k - 1] = ReadUpTo(path, wanted, given, k - 1)
      BY <3>1 DEF g
    <3> QED
      BY <2>1, <2>3, <3>2, <3>3
  <2> QED
    BY <2>2, <2>3
<1>4. g = Loop(g)
  <2>1. \A k \in 1..m : g[k] = Loop(g)[k]
    BY <1>3 DEF Loop
  <2>2. g = [k \in 1..m |-> g[k]]
    BY DEF g
  <2>3. Loop(g) = [k \in 1..m |-> Loop(g)[k]]
    BY DEF Loop
  <2> QED
    BY <2>1, <2>2, <2>3
<1>5. read = Loop(read)
  BY <1>4 DEF read
<1> DEFINE Apart == {k \in 1..m : read[k] # g[k]}
<1>6. Apart = {}
  <2>1. SUFFICES ASSUME Apart # {} PROVE FALSE
    OBVIOUS
  <2>2. PICK k \in Apart : \A i \in Apart : k <= i
    <3>1. Apart \in SUBSET Nat
      OBVIOUS
    <3> HIDE DEF Apart
    <3> QED
      BY <2>1, <3>1, LeastElement
  <2>3. read[k] = ReadSegment(path, IF k = 1 THEN {Unread} ELSE ReadSlash(path, read[k - 1]),
                              wanted[k])
    <3>1. read[k] = Loop(read)[k]
      BY <1>5
    <3>2. k \in 1..Len(wanted)
      BY <2>2
    <3> QED
      BY <3>1, <3>2 DEF Loop
  <2>4. CASE k = 1
    BY <1>3, <2>2, <2>3, <2>4
  <2>5. CASE k # 1
    <3>1. k - 1 \in 1..m /\ ~(k <= k - 1)
      BY <1>2, <2>2, <2>5
    <3>2. read[k - 1] = g[k - 1]
      BY <2>2, <3>1
    <3> QED
      BY <1>3, <2>2, <2>3, <3>2
  <2> QED
    BY <2>4, <2>5
<1>7. read[m] = g[m] /\ m \in 1..m
  BY <1>2, <1>6
<1> QED
  BY <1>1, <1>7 DEF g

(* A path is read to its end in one way when its segments match, with the  *)
(* segments of the parameters as groups, and in no way when they do not.   *)
LEMMA CapturesAre ==
  ASSUME NEW path \in Word, NEW pattern \in Word,
         NEW given, given = Split(path, SLASH), NEW wanted, wanted = Split(pattern, SLASH)
  PROVE  Captures(pattern, path) = IF SegmentsMatch(wanted, given)
                                   THEN {GroupsUpTo(wanted, given, Len(wanted))} ELSE {}
<1> DEFINE m == Len(wanted)
           n == Len(given)
           R == ReadUpTo(path, wanted, given, m)
           end == EndOf(path, wanted, given, m)
           front == FrontFits(wanted, given, m)
           G == GroupsUpTo(wanted, given, m)
           b == Ranked(Cuts(path, SLASH), m)
<1>0. Len(path) \in Nat /\ n \in Nat \ {0}
  <2>1. Len(path) \in Nat
    BY DEF Word
  <2>2. n \in Nat \ {0}
    BY SplitSegments, CutsOrder
  <2> QED
    BY <2>1, <2>2
<1>1. /\ wanted \in Seq(Word) /\ m \in Nat \ {0}
      /\ \A i \in 1..m : Without(wanted[i], {SLASH})
  BY SplitWithout
<1>2. Readings(pattern, path) = R
  BY ReadingsAre
<1>3. \A r : r \in R /\ r.at + 1 \in Cuts(path, SLASH) <=> front /\ r = end
  <2>1. m \in 1..Len(wanted)
    BY <1>1
  <2> HIDE DEF m
  <2> QED
    BY <1>1, <2>1, ReadEnds DEF m
<1>4. end.at = b - 1 /\ end.groups = G
  BY DEF EndOf, Place
<1>5. m <= n => b \in Nat \ {0} /\ (m = n => b = Len(path) + 1) /\ (m # n => b \in 1..Len(path))
  <2> HAVE m <= n
  <2>1. m \in 1..n
    BY <1>0, <1>1
  <2> QED
    BY <2>1, CutPlace
<1>6. SegmentsMatch(wanted, given) <=> front /\ m = n
  <2>1. DOMAIN wanted = 1..m
    BY <1>1
  <2>2. m = n => m <= n
    BY <1>0
  <2> QED
    BY <2>1, <2>2 DEF SegmentsMatch, FrontFits
<1>7. Len(path) + 1 \in Cuts(path, SLASH)
  BY DEF Cuts
<1>8. front => m <= n
  BY DEF FrontFits
<1> HIDE DEF m, n, R, end, front, G, b
<1>9. \A r : r \in R /\ r.at = Len(path) <=> front /\ m = n /\ r = end
  <2> TAKE r
  <2>1. ASSUME r \in R, r.at = Len(path) PROVE front /\ m = n /\ r = end
    <3>1. front /\ r = end
      BY <1>3, <1>7, <2>1
    <3>2. b - 1 = Len(path) /\ m <= n
      BY <1>4, <1>8, <2>1, <3>1
    <3> QED
      BY <1>0, <1>1, <1>5, <3>1, <3>2
  <2>2. ASSUME front, m = n, r = end PROVE r \in R /\ r.at = Len(path)
    <3>1. r \in R
      BY <1>3, <2>2
    <3>2. b = Len(path) + 1
      BY <1>5, <1>8, <2>2
    <3> QED
      BY <1>0, <1>4, <2>2, <3>1, <3>2
  <2> QED
    BY <2>1, <2>2
<1>10. Captures(pattern, path) = {r.groups : r \in {r \in R : r.at = Len(path)}}
  BY <1>2 DEF Captures
<1>11. CASE front /\ m = n
  <2>1. {r \in R : r.at = Len(path)} = {end}
    BY <1>9, <1>11
  <2> QED
    BY <1>4, <1>6, <1>10, <1>11, <2>1 DEF G, m
<1>12. CASE ~(front /\ m = n)
  <2>1. {r \in R : r.at = Len(path)} = {}
    BY <1>9, <1>12
  <2> QED
    BY <1>6, <1>10, <1>12, <2>1
<1> QED
  BY <1>11, <1>12

(* The members of a finite set of numbers are those of its ranks, in order. *)
LEMMA RanksInOrder ==
  ASSUME NEW P \in SUBSET Nat, IsFiniteSet(P), NEW N, N = Cardinality(P)
  PROVE  /\ N \in Nat
         /\ \A i \in 1..N : Ranked(P, i - 1) \in P
         /\ \A k \in P : \E i \in 1..N : Ranked(P, i - 1) = k
         /\ \A i, j \in 1..N : i <= j => Ranked(P, i - 1) <= Ranked(P, j - 1)
<1> DEFINE rank(k) == Cardinality(Below(P, k))
           at(i) == Ranked(P, i - 1)
<1>1. N \in Nat
  BY FS_CardinalityType
<1>2. \A i \in 1..N : at(i) \in P /\ rank(at(i)) = i - 1
  <2> TAKE i \in 1..N
  <2>1. i - 1 \in Nat /\ i - 1 < Cardinality(P)
    BY <1>1
  <2> DEFINE o == i - 1
  <2> HIDE DEF o
  <2>2. Ranked(P, o) \in P /\ Cardinality(Below(P, Ranked(P, o))) = o
    BY <2>1, RankedMember DEF o
  <2> QED
    BY <2>2 DEF o
<1>3. \A k \in P : rank(k) \in Nat /\ rank(k) < N /\ Ranked(P, rank(k)) = k
  BY RankOrder, RankedIs
<1>4. \A k, l \in P : k < l => rank(k) < rank(l)
  BY RankOrder
<1> HIDE DEF rank
<1>5. ASSUME NEW k \in P PROVE \E i \in 1..N : at(i) = k
  <2> DEFINE i == rank(k) + 1
  <2>1. i \in 1..N /\ i - 1 = rank(k)
    BY <1>1, <1>3
  <2> HIDE DEF i
  <2>2. at(i) = k
    BY <1>3, <2>1
  <2> QED
    BY <2>1, <2>2
<1> HIDE DEF at
<1>6. ASSUME NEW i \in 1..N, NEW j \in 1..N, i <= j PROVE at(i) <= at(j)
  <2>1. at(i) \in Nat /\ at(j) \in Nat
    BY <1>2
  <2>2. at(j) < at(i) => j - 1 < i - 1
    BY <1>2, <1>4
  <2> QED
    BY <1>1, <1>6, <2>1, <2>2
<1> QED
  BY <1>1, <1>2, <1>5, <1>6 DEF at

(* The segments that the parameters stand for, the last one of a name.     *)
SegmentParams(wanted, given) ==
  [name \in {Tail(wanted[k]) : k \in ParamsOf(wanted)} \ {<<PROTO>>} |->
     given[Max({k \in ParamsOf(wanted) : Tail(wanted[k]) = name})]]

(* They are the parameters of a pattern that matches.                      *)
LEMMA ParamsAre ==
  ASSUME NEW path \in Word, NEW pattern \in Word,
         NEW given, given = Split(path, SLASH), NEW wanted, wanted = Split(pattern, SLASH),
         SegmentsMatch(wanted, given)
  PROVE  Params(pattern, path) = SegmentParams(wanted, given)
<1> DEFINE P == ParamsOf(wanted)
           N == Cardinality(P)
           at(i) == Ranked(P, i - 1)
           names == ParamNames(pattern)
           G == GroupsUpTo(wanted, given, Len(wanted))
           owned == {Tail(wanted[k]) : k \in P} \ {<<PROTO>>}
           I(name) == {i \in 1..N : names[i] = name}
           K(name) == {k \in P : Tail(wanted[k]) = name}
<1>1. wanted \in Seq(Word) /\ Len(wanted) \in Nat
  BY SplitSegments
<1>2. P \in SUBSET Nat /\ IsFiniteSet(P) /\ \A k \in P : k <= Len(wanted)
  <2>1. P \in SUBSET (1..Len(wanted))
    BY <1>1 DEF ParamsOf
  <2>2. IsFiniteSet(1..Len(wanted))
    BY <1>1, FS_Interval
  <2> HIDE DEF P
  <2>3. IsFiniteSet(P)
    BY <2>1, <2>2, FS_Subset
  <2>4. P \in SUBSET Nat /\ \A k \in P : k <= Len(wanted)
    BY <1>1, <2>1
  <2> QED
    BY <2>3, <2>4
<1>3. names = [i \in 1..N |-> Tail(wanted[at(i)])]
  BY DEF ParamNames
<1>4. G = [i \in 1..N |-> given[at(i)]]
  <2>1. {p \in P : p <= Len(wanted)} = P
    BY <1>2
  <2> QED
    BY <2>1 DEF GroupsUpTo
<1>5. Params(pattern, path) = AssignAll(names, G, 1..N)
  <2>1. Captures(pattern, path) = {G}
    BY CapturesAre
  <2>2. (CHOOSE g \in {G} : TRUE) = G
    OBVIOUS
  <2>3. DOMAIN names = 1..N
    BY <1>3
  <2> HIDE DEF G, names, N
  <2> QED
    BY <2>1, <2>2, <2>3 DEF Params, names
<1> HIDE DEF P, N
<1>6. /\ N \in Nat
      /\ \A i \in 1..N : at(i) \in P
      /\ \A k \in P : \E i \in 1..N : at(i) = k
      /\ \A i, j \in 1..N : i <= j => at(i) <= at(j)
  BY <1>2, RanksInOrder DEF N
<1> HIDE DEF at
<1>7. Len(names) = N /\ \A i \in 1..N : names[i] = Tail(wanted[at(i)]) /\ G[i] = given[at(i)]
  BY <1>3, <1>4, <1>6
<1> HIDE DEF names, G
<1>8. AssignAll(names, G, 1..N) = LastAssigned(names, G, 1..N)
  <2>1. 1..N \in SUBSET (1..N)
    OBVIOUS
  <2> QED
    BY <1>6, <1>7, <2>1, AssignAllIs
<1>9. {names[i] : i \in 1..N} \ {<<PROTO>>} = owned
  <2>1. \A i \in 1..N : names[i] \in {Tail(wanted[k]) : k \in P}
    BY <1>6, <1>7
  <2>2. ASSUME NEW k \in P PROVE Tail(wanted[k]) \in {names[i] : i \in 1..N}
    <3>1. PICK i \in 1..N : at(i) = k
      BY <1>6
    <3> QED
      BY <1>7, <3>1
  <2> QED
    BY <2>1, <2>2
<1>10. \A name \in owned : G[Max(I(name))] = given[Max(K(name))]
  <2> TAKE name \in owned
  <2> DEFINE T == I(name)
             x == Max(T)
  <2>1. \A i : i \in T <=> i \in 1..N /\ names[i] = name
    OBVIOUS
  <2>2. \A k : k \in K(name) <=> k \in P /\ Tail(wanted[k]) = name
    OBVIOUS
  <2>3. T # {}
    BY <1>9, <2>1
  <2> DEFINE L == K(name)
  <2> HIDE DEF T, L, owned
  <2>4. T \in SUBSET Nat /\ \A i \in T : i <= N
    BY <1>6, <2>1
  <2>5. x \in T /\ \A i \in T : i <= x
    BY <1>6, <2>3, <2>4, MaxExists
  <2> HIDE DEF x
  <2>6. x \in 1..N /\ at(x) \in P /\ Tail(wanted[at(x)]) = name
    BY <1>6, <1>7, <2>1, <2>5
  <2>7. at(x) \in L /\ L \in SUBSET Nat
    BY <1>2, <2>2, <2>6 DEF L
  <2>8. \A k \in L : k <= at(x)
    <3> TAKE k \in L
    <3>1. k \in P /\ Tail(wanted[k]) = name
      BY <2>2 DEF L
    <3>2. PICK i \in 1..N : at(i) = k
      BY <1>6, <3>1
    <3>3. i \in T
      BY <1>7, <2>1, <3>1, <3>2
    <3> QED
      BY <1>6, <2>5, <2>6, <3>2, <3>3
  <2>9. Max(L) = at(x)
    BY <2>7, <2>8, MaxIs
  <2> QED
    BY <1>7, <2>6, <2>9 DEF x, T, L
<1>11. LastAssigned(names, G, 1..N)
         = [name \in {names[i] : i \in 1..N} \ {<<PROTO>>} |-> G[Max(I(name))]]
  BY DEF LastAssigned
<1>12. Params(pattern, path) = [name \in owned |-> given[Max(K(name))]]
  <2> HIDE DEF owned, I, K
  <2> QED
    BY <1>5, <1>8, <1>9, <1>10, <1>11
<1> QED
  BY <1>12 DEF P, SegmentParams

(* A path matches a pattern when its segments do, in one way, and the      *)
(* parameters are the segments they stand for (compilePath(),              *)
(* app.ts:334-350; matchRoute(), app.ts:172-189).                          *)
THEOREM PatternsBySegments ==
  ASSUME NEW pattern \in Word, NEW path \in Word
  PROVE  MatchesBySegments(pattern, path)
<1> DEFINE wanted == Split(pattern, SLASH)
           given == Split(path, SLASH)
           G == GroupsUpTo(wanted, given, Len(wanted))
<1>1. Captures(pattern, path) = IF SegmentsMatch(wanted, given) THEN {G} ELSE {}
  BY CapturesAre
<1>2. Matches(pattern, path) <=> SegmentsMatch(wanted, given)
  BY <1>1 DEF Matches
<1>3. SegmentsMatch(wanted, given) => Cardinality(Captures(pattern, path)) = 1
  <2> HIDE DEF G
  <2> QED
    BY <1>1, FS_Singleton
<1>4. SegmentsMatch(wanted, given) =>
        Params(pattern, path) = SegmentParams(wanted, given)
  BY ParamsAre
<1> QED
  BY <1>2, <1>3, <1>4 DEF MatchesBySegments, SegmentParams

(* Every pattern and every mount path decides by the segments of the path  *)
(* of every request, whatever it looks like (compilePath() and             *)
(* pathMatches(), app.ts:334-356).                                         *)
THEOREM RoutesDecided == Spec => []RoutesBySegments
<1>1. Settled => RoutesBySegments
  <2> SUFFICES ASSUME Settled PROVE RoutesBySegments
    OBVIOUS
  <2>1. scenario \in Scenario /\ req = ReadRequest
    BY HandlingAssumption DEF Settled
  <2>2. req.path \in Word
    <3>1. scenario.line \in Word
      BY <2>1 DEF Scenario
    <3>2. Path(Line.target) \in Word
      BY <3>1, RequestWords DEF Line
    <3> QED
      BY <2>1, <3>2 DEF ReadRequest, Refused, Word
  <2>3. \A i \in DOMAIN scenario.routes : scenario.routes[i].pattern \in Word
    <3>1. scenario.routes \in Seq(Route)
      BY <2>1 DEF Scenario
    <3>2. \A i \in DOMAIN scenario.routes : scenario.routes[i] \in Route
      BY <3>1
    <3>3. \A r \in Route : r.pattern \in Word
      BY DEF Route
    <3> QED
      BY <3>2, <3>3
  <2>4. \A i \in DOMAIN scenario.middlewares : scenario.middlewares[i].path \in Word
    <3>1. scenario.middlewares \in Seq(Middleware)
      BY <2>1 DEF Scenario
    <3>2. \A i \in DOMAIN scenario.middlewares : scenario.middlewares[i] \in Middleware
      BY <3>1
    <3>3. \A m \in Middleware : m.path \in Word
      BY DEF Middleware
    <3> QED
      BY <3>2, <3>3
  <2> QED
    BY <2>2, <2>3, <2>4, PatternsBySegments, MountsBySegments DEF RoutesBySegments
<1> QED
  BY <1>1, PickedOnce, PTL
=============================================================================
