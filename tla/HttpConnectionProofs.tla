------------------------ MODULE HttpConnectionProofs ------------------------
(***************************************************************************)
(* One connection answers its requests in order, whatever its scenario:    *)
(* theorems about HttpConnection for every set of scenarios.               *)
(***************************************************************************)
EXTENDS HttpConnection, SequenceTheorems, FiniteSetTheorems, TLAPS

(* The plan of a scenario is a sequence of requests.                       *)
LEMMA PlanType ==
  ASSUME TypeOK
  PROVE  plan \in Seq(Request) /\ Len(plan) \in Nat
<1>1. plan \in Seq(Request)
  BY ScenarioAssumption DEF TypeOK, Scenario, plan
<1> QED
  BY <1>1, LenProperties

(* A callback that may run has every one before it done, none of those     *)
(* behind it begun: promise reactions chained with then() (app.ts:116,     *)
(* :123, :126, :130).                                                      *)
Runs(k) == MayStart(k) \/ tasks[k].at \notin {"waiting", "done"}

(* Of the reactions chained on "processing" one runs: those before it are  *)
(* done, those behind it wait (app.ts:116-130).                            *)
LEMMA OneRuns ==
  ASSUME TypeOK, Chain, NEW k \in 1..Len(tasks), Runs(k), NEW j \in 1..Len(tasks)
  PROVE  /\ j < k => tasks[j].at = "done"
         /\ j > k => tasks[j].at = "waiting"
<1>0. Len(tasks) \in Nat /\ tasks[k] \in Task /\ tasks[j] \in Task
  BY LenProperties, ElementOfSeq DEF TypeOK
<1>1. CASE tasks[k].at # "waiting"
  BY <1>0, <1>1 DEF Chain, Runs, MayStart
<1>2. CASE tasks[k].at = "waiting"
  <2>1. k > 1 => tasks[k - 1].at = "done"
    BY <1>2 DEF Runs, MayStart
  <2>2. k > 1 => \A i \in 1..(k - 2) : tasks[i].at = "done"
    <3> HAVE k > 1
    <3>1. k - 1 \in 1..Len(tasks)
      BY <1>0
    <3>2. \A i \in 1..((k - 1) - 1) : tasks[i].at = "done"
      BY <2>1, <3>1 DEF Chain
    <3> QED
      BY <3>2, <1>0
  <2>3. j < k => tasks[j].at = "done"
    BY <1>0, <2>1, <2>2
  <2>4. j > k => tasks[j].at = "waiting"
    BY <1>0, <1>2 DEF Chain
  <2> QED
    BY <2>3, <2>4
<1> QED
  BY <1>1, <1>2

(* What a step of callback k makes of the chain: only k moves, and a       *)
(* request is in hand after the step when k is busy with it.               *)
LEMMA TaskStep ==
  ASSUME TypeOK, Chain, NEW k \in 1..Len(tasks), Runs(k), NEW t \in Task,
         tasks' = [tasks EXCEPT ![k] = t], t.kind = tasks[k].kind,
         t.at # "waiting", t.kind # "drain" => t.at = "done",
         t.at \in Busy => t.msg = Len(handled') /\ Len(handled') > 0
  PROVE  /\ tasks' \in Seq(Task)
         /\ Chain'
         /\ Free' <=> t.at \notin Busy
         /\ tasks[k].at \notin Busy => Free
         /\ tasks'[k] = t
         /\ \A j \in 1..Len(tasks') : j # k => tasks'[j].at \in {"waiting", "done"}
         /\ Len(tasks') = Len(tasks)
<1>0. Len(tasks) \in Nat /\ \A j \in 1..Len(tasks) : tasks[j] \in Task
  BY LenProperties, ElementOfSeq DEF TypeOK
<1>1. /\ tasks' \in Seq(Task)
      /\ Len(tasks') = Len(tasks)
      /\ \A j \in 1..Len(tasks) : tasks'[j] = IF j = k THEN t ELSE tasks[j]
  BY ExceptSeq DEF TypeOK
<1>2. \A j \in 1..Len(tasks) : /\ j < k => tasks[j].at = "done"
                               /\ j > k => tasks[j].at = "waiting"
  BY OneRuns
<1>3. \A j \in 1..Len(tasks) : j # k => tasks'[j].at \in {"waiting", "done"}
  BY <1>0, <1>1, <1>2
<1>4. Chain'
  <2> SUFFICES ASSUME NEW j \in 1..Len(tasks)
               PROVE  /\ tasks'[j].at # "waiting" => \A i \in 1..(j - 1) : tasks'[i].at = "done"
                      /\ tasks'[j].kind # "drain" => tasks'[j].at \in {"waiting", "done"}
                      /\ tasks'[j].at \in Busy => tasks'[j].msg = Len(handled') /\ Len(handled') > 0
    BY <1>1 DEF Chain
  <2>1. tasks'[j].at # "waiting" => \A i \in 1..(j - 1) : tasks'[i].at = "done"
    <3>1. CASE j = k
      BY <3>1, <1>0, <1>1, <1>2
    <3>2. CASE j < k
      BY <3>2, <1>0, <1>1, <1>2
    <3>3. CASE j > k
      BY <3>3, <1>0, <1>1, <1>2
    <3> QED
      BY <1>0, <3>1, <3>2, <3>3
  <2>2. CASE j = k
    BY <2>1, <2>2, <1>1
  <2>3. CASE j # k
    BY <2>1, <2>3, <1>1, <1>3 DEF Chain, Busy
  <2> QED
    BY <2>2, <2>3
<1>5. Free' <=> t.at \notin Busy
  BY <1>1, <1>3 DEF Free, Busy
<1>6. tasks[k].at \notin Busy => Free
  BY <1>0, <1>2 DEF Free, Busy
<1> QED
  BY <1>1, <1>3, <1>4, <1>5, <1>6

(* processing.then(...): what is chained waits.                            *)
LEMMA ChainedStep ==
  ASSUME TypeOK, Chain, NEW kind \in {"drain", "error", "end"},
         tasks' = Chained(kind), UNCHANGED handled
  PROVE  /\ tasks' \in Seq(Task)
         /\ Chain'
         /\ Free' <=> Free
         /\ \A k \in 1..Len(tasks') : tasks'[k].at # "waiting" =>
              k \in 1..Len(tasks) /\ tasks'[k] = tasks[k]
<1> DEFINE t == [kind |-> kind, at |-> "waiting", msg |-> 0]
<1>0. Len(tasks) \in Nat /\ t \in Task
  BY LenProperties DEF TypeOK, Task
<1>1. /\ tasks' \in Seq(Task)
      /\ Len(tasks') = Len(tasks) + 1
      /\ \A k \in 1..Len(tasks) : tasks'[k] = tasks[k]
      /\ tasks'[Len(tasks) + 1] = t
  BY <1>0, AppendProperties DEF TypeOK, Chained
<1>2. t.at = "waiting" /\ t.kind = kind
  OBVIOUS
<1> HIDE DEF t
<1>3. \A k \in 1..Len(tasks') : tasks'[k].at # "waiting" =>
              k \in 1..Len(tasks) /\ tasks'[k] = tasks[k]
  BY <1>0, <1>1, <1>2
<1>4. Chain'
  BY <1>0, <1>1, <1>2, <1>3 DEF Chain, Busy
<1>5. Free' <=> Free
  BY <1>0, <1>1, <1>2 DEF Free, Busy
<1> QED
  BY <1>1, <1>3, <1>4, <1>5
-----------------------------------------------------------------------------
(* The wire, and what a write does to it.                                  *)
Wired == OnWire /\ ResponsesPaired /\ ClosingResponseLast

(* The wire is what the client has and what is on its way to it.           *)
LEMMA WireType ==
  ASSUME TypeOK
  PROVE  /\ Wire \in Seq(Response) /\ Len(Wire) \in Nat
         /\ Len(received) \in Nat /\ Len(received) <= Len(Wire)
         /\ \A k \in 1..Len(received) : received[k] = Wire[k]
<1>1. /\ received \in Seq(Response) /\ outbox \in Seq(Response)
      /\ Len(received) \in Nat /\ Len(outbox) \in Nat
  BY LenProperties DEF TypeOK
<1> QED
  BY <1>1, ConcatProperties, LenProperties DEF Wire

(* Appending to the second of two sequences appends to both together.      *)
LEMMA ConcatAppend ==
  ASSUME NEW S, NEW s \in Seq(S), NEW t \in Seq(S), NEW e \in S
  PROVE  s \o Append(t, e) = Append(s \o t, e)
OBVIOUS

(* A write on an open socket is the last response on the wire; one on a    *)
(* socket that has been ended takes what has not left with it.             *)
LEMMA WriteStep ==
  ASSUME TypeOK, OnWire, NEW r \in Response, Write(r), UNCHANGED received
  PROVE  /\ outbox' \in Seq(Response) /\ destroyed' \in BOOLEAN
         /\ ended \/ ~destroyed'
         /\ ended \/ /\ Len(Wire') = Len(Wire) + 1
                     /\ \A k \in 1..Len(Wire) : Wire'[k] = Wire[k]
                     /\ Wire'[Len(Wire) + 1] = r
         /\ ended => /\ Len(Wire') <= Len(Wire)
                     /\ \A k \in 1..Len(Wire') : Wire'[k] = Wire[k]
         /\ Len(Wire') \in Nat
<1>1. /\ received \in Seq(Response) /\ outbox \in Seq(Response)
      /\ Len(received) \in Nat /\ Len(outbox) \in Nat
  BY LenProperties DEF TypeOK
<1>2. Wire \in Seq(Response) /\ Len(Wire) = Len(received) + Len(outbox)
  BY <1>1, ConcatProperties DEF Wire
<1>3. CASE ended \/ destroyed
  <2>1. ended /\ destroyed' = TRUE /\ outbox' = <<>>
    BY <1>3 DEF OnWire, Write
  <2>2. outbox' \in Seq(Response) /\ Len(outbox') = 0
    BY <2>1, EmptySeq
  <2>3. /\ Len(Wire') = Len(received)
        /\ \A k \in 1..Len(received) : Wire'[k] = received[k]
    BY <1>1, <2>2, ConcatProperties DEF Wire
  <2>4. \A k \in 1..Len(received) : Wire[k] = received[k]
    BY WireType
  <2> QED
    BY <1>1, <1>2, <2>1, <2>2, <2>3, <2>4
<1>4. CASE ~ended /\ ~destroyed
  <2>1. outbox' = Append(outbox, r) /\ destroyed' = destroyed
    BY <1>4 DEF Write
  <2>2. /\ outbox' \in Seq(Response)
        /\ Len(outbox') = Len(outbox) + 1
        /\ \A k \in 1..Len(outbox) : outbox'[k] = outbox[k]
        /\ outbox'[Len(outbox) + 1] = r
    BY <1>1, <2>1, AppendProperties
  <2>3. Wire' = received \o Append(outbox, r)
    BY <2>1 DEF Wire
  <2>4. received \o Append(outbox, r) = Append(Wire, r)
    BY <1>1, ConcatAppend DEF Wire
  <2>5. /\ Len(Wire') = Len(Wire) + 1
        /\ \A k \in 1..Len(Wire) : Wire'[k] = Wire[k]
        /\ Wire'[Len(Wire) + 1] = r
    BY <1>2, <2>3, <2>4, AppendProperties
  <2> QED
    BY <1>1, <1>2, <1>4, <2>1, <2>2, <2>5 DEF TypeOK
<1> QED
  BY <1>3, <1>4

(* A scenario does not change, and what depends on it alone neither.       *)
LEMMA PlanKept ==
  ASSUME UNCHANGED scenario
  PROVE  /\ plan' = plan
         /\ \A i : Poisoned(i)' <=> Poisoned(i)
         /\ \A i : KeepAlive(i)' <=> KeepAlive(i)
         /\ \A i : NeverTried(i)' <=> NeverTried(i)
         /\ \A n : Serializable(n)' = Serializable(n)
<1>1. plan' = plan
  BY DEF plan
<1>2. \A i : Poisoned(i)' <=> Poisoned(i)
  BY <1>1 DEF Poisoned
<1>3. \A i : KeepAlive(i)' <=> KeepAlive(i)
  BY <1>1 DEF KeepAlive
<1>4. \A i : NeverTried(i)' <=> NeverTried(i)
  BY <1>1 DEF NeverTried
<1>5. \A n : Serializable(n)' = Serializable(n)
  BY <1>2 DEF Serializable
<1> QED
  BY <1>1, <1>2, <1>3, <1>4, <1>5

(* A wire that loses its end, or nothing, stays paired.                    *)
LEMMA WirePrefix ==
  ASSUME TypeOK, Wired, UNCHANGED scenario,
         Len(Wire') \in Nat, Len(Wire') <= Len(Wire),
         \A k \in 1..Len(Wire') : Wire'[k] = Wire[k],
         sent \subseteq sent', ended => ended', destroyed' => ended',
         ~ended' => Len(Wire') = Cardinality({i \in sent' : ~Poisoned(i)})
  PROVE  Wired'
<1>1. Len(Wire) \in Nat
  BY WireType
<1>2. \A k \in 1..Len(Wire') : k \in 1..Len(Wire) /\ (k = Len(Wire) => k = Len(Wire'))
  BY <1>1
<1>3. OnWire'
  <2>1. {i \in sent' : ~Poisoned(i)'} = {i \in sent' : ~Poisoned(i)}
    BY PlanKept
  <2> QED
    BY <1>2, <2>1 DEF Wired, OnWire, ErrorId
<1>4. ResponsesPaired'
  BY <1>2, PlanKept DEF Wired, ResponsesPaired, ErrorId
<1>5. ClosingResponseLast'
  BY <1>2, PlanKept DEF Wired, ClosingResponseLast, ErrorId
<1> QED
  BY <1>3, <1>4, <1>5 DEF Wired

(* The requests answered on the wire are finitely many.                    *)
LEMMA AnsweredFinite ==
  ASSUME TypeOK
  PROVE  IsFiniteSet({i \in sent : ~Poisoned(i)})
<1>1. IsFiniteSet(Ids)
  BY PlanType, FS_Interval DEF Ids
<1>2. {i \in sent : ~Poisoned(i)} \in SUBSET Ids
  BY DEF TypeOK
<1> QED
  BY <1>1, <1>2, FS_Subset

(* The response of the request in hand, on an open connection, takes the   *)
(* place its request has among those that can be answered.                 *)
LEMMA WireAppend ==
  ASSUME TypeOK, Answering, Wired, UNCHANGED scenario, ~ended,
         NEW m \in Ids, m = Len(handled), m \notin sent, ~Poisoned(m),
         sent' = sent \cup {m}, NEW r \in Response, r.id = m,
         Len(Wire') = Len(Wire) + 1, ~destroyed' \/ ended',
         \A k \in 1..Len(Wire) : Wire'[k] = Wire[k],
         Wire'[Len(Wire) + 1] = r
  PROVE  Wired'
<1> DEFINE before == {i \in sent : ~Poisoned(i)}
           after  == {i \in sent' : ~Poisoned(i)}
<1>1. Len(Wire) \in Nat /\ m \in Nat /\ m > 0
  BY WireType, PlanType DEF Ids
<1>2. /\ after = before \cup {m} /\ m \notin before
      /\ IsFiniteSet(before)
  BY AnsweredFinite
<1>3. Cardinality(after) = Cardinality(before) + 1
  <2> HIDE DEF before, after
  <2> QED
    BY <1>2, FS_AddElement
<1>4. Len(Wire) = Cardinality(before)
  BY DEF Wired, OnWire
<1>5. \A i \in 1..m : i < m => i \in sent \/ Poisoned(i)
  BY DEF Answering, Settled
<1>6. after = Serializable(m)
  <2>1. \A i \in sent : i \in 1..m
    BY PlanType DEF Answering, TypeOK, Ids
  <2> QED
    BY <1>1, <1>5, <2>1 DEF Serializable
<1>7. \A k \in 1..Len(Wire') : k \in 1..Len(Wire) \/ k = Len(Wire')
  BY <1>1
<1>8. \A k \in 1..Len(Wire) : Wire[k].id \in sent /\ Wire[k].id # ErrorId
  BY PlanType DEF Wired, OnWire, TypeOK, Ids, ErrorId
<1>9. \A k \in 1..Len(Wire) : KeepAlive(Wire[k].id)
  <2> SUFFICES ASSUME NEW k \in 1..Len(Wire) PROVE KeepAlive(Wire[k].id)
    OBVIOUS
  <2>1. Wire[k].id \in 1..m /\ Wire[k].id < m
    <3>1. \A i \in sent : i # m => i \in 1..m /\ i < m
      BY <1>1, PlanType DEF Answering, TypeOK, Ids
    <3>2. Wire[k].id \in sent /\ Wire[k].id # m
      BY <1>8
    <3> QED
      BY <3>1, <3>2
  <2> QED
    BY <2>1 DEF Answering, Settled
<1> HIDE DEF before, after
<1>10. OnWire'
  <2>1. {i \in sent' : ~Poisoned(i)'} = after
    BY PlanKept DEF after
  <2>2. \A k \in 1..Len(Wire') : Wire'[k].id \in sent'
    BY <1>1, <1>7, <1>8
  <2> QED
    BY <1>1, <1>3, <1>4, <2>1, <2>2 DEF OnWire
<1>11. ResponsesPaired'
  <2> SUFFICES ASSUME NEW k \in 1..Len(Wire')
               PROVE  /\ Wire'[k].id # ErrorId
                      /\ ~Poisoned(Wire'[k].id)
                      /\ Cardinality(Serializable(Wire'[k].id)) = k
    BY PlanKept DEF ResponsesPaired, ErrorId
  <2>1. CASE k = Len(Wire')
    BY <1>1, <1>3, <1>4, <1>6, <2>1 DEF ErrorId
  <2>2. CASE k \in 1..Len(Wire)
    BY <1>8, <2>2 DEF Wired, ResponsesPaired
  <2> QED
    BY <1>7, <2>1, <2>2
<1>12. ClosingResponseLast'
  BY <1>1, <1>7, <1>8, <1>9, PlanKept DEF ClosingResponseLast, ErrorId
<1> QED
  BY <1>10, <1>11, <1>12 DEF Wired
-----------------------------------------------------------------------------
(* HttpResponseBuilder: what a handler, an error handler or handleOne()    *)
(* does with the response of request m (response.ts:81-97).                *)
Sends(m) ==
  \/ UNCHANGED sent /\ NoWrite
  \/ \E status \in {200, 404, 500} : FlushWrites(m, status)
  \/ FlushThrows(m)

(* However the response of the request in hand is sent, or not, and the    *)
(* connection ended after it, the wire stays paired.                       *)
LEMMA SendStep ==
  ASSUME TypeOK, Answering, Wired, UNCHANGED <<scenario, received>>,
         NEW m \in Ids, m = Len(handled), Sends(m), ended' \in BOOLEAN, ended => ended'
  PROVE  /\ Wired'
         /\ outbox' \in Seq(Response) /\ destroyed' \in BOOLEAN /\ sent' \subseteq Ids
         /\ sent \subseteq sent' /\ sent' \subseteq sent \cup {m}
<1>0. Len(Wire) \in Nat /\ m \in Nat
  BY WireType, PlanType DEF Ids
<1>1. CASE sent' = sent /\ NoWrite
  <2>1. Wire' = Wire /\ destroyed' = destroyed /\ outbox' = outbox
    BY <1>1 DEF NoWrite, Wire
  <2>2. Wired'
    BY <1>0, <1>1, <2>1, WirePrefix DEF Wired, OnWire
  <2> QED
    BY <1>1, <2>1, <2>2 DEF TypeOK
<1>2. CASE FlushThrows(m)
  <2>1. /\ Wire' = Wire /\ destroyed' = destroyed /\ outbox' = outbox
        /\ sent' = sent \cup {m} /\ Poisoned(m)
    BY <1>2 DEF FlushThrows, NoWrite, Wire
  <2>2. {i \in sent' : ~Poisoned(i)} = {i \in sent : ~Poisoned(i)}
    BY <2>1
  <2>3. /\ ~ended' => Len(Wire') = Cardinality({i \in sent' : ~Poisoned(i)})
        /\ destroyed' => ended'
    BY <2>1, <2>2 DEF Wired, OnWire
  <2>4. /\ Len(Wire') \in Nat /\ Len(Wire') <= Len(Wire) /\ sent \subseteq sent'
        /\ \A k \in 1..Len(Wire') : Wire'[k] = Wire[k]
    BY <1>0, <2>1
  <2>5. Wired'
    BY <2>3, <2>4, WirePrefix
  <2> QED
    BY <2>1, <2>5 DEF TypeOK
<1>3. CASE \E status \in {200, 404, 500} : FlushWrites(m, status)
  <2> PICK status \in {200, 404, 500} : FlushWrites(m, status)
    BY <1>3
  <2> DEFINE r == [id |-> m, status |-> status]
  <2>1. /\ m \notin sent /\ ~Poisoned(m) /\ sent' = sent \cup {m} /\ Write(r)
        /\ r \in Response /\ r.id = m
    BY <1>0 DEF FlushWrites, Response
  <2> HIDE DEF r
  <2>2. /\ outbox' \in Seq(Response) /\ destroyed' \in BOOLEAN /\ Len(Wire') \in Nat
        /\ ended \/ ~destroyed'
    BY <2>1, WriteStep DEF Wired
  <2>3. CASE ended
    <3>1. /\ Len(Wire') <= Len(Wire)
          /\ \A k \in 1..Len(Wire') : Wire'[k] = Wire[k]
      BY <2>1, <2>3, WriteStep DEF Wired
    <3>2. Wired'
      BY <2>1, <2>2, <2>3, <3>1, WirePrefix
    <3> QED
      BY <2>1, <2>2, <3>2 DEF TypeOK
  <2>4. CASE ~ended
    <3>1. /\ Len(Wire') = Len(Wire) + 1
          /\ \A k \in 1..Len(Wire) : Wire'[k] = Wire[k]
          /\ Wire'[Len(Wire) + 1] = r
      BY <2>1, <2>4, WriteStep DEF Wired
    <3>2. Wired'
      BY <2>1, <2>2, <2>4, <3>1, WireAppend
    <3> QED
      BY <2>1, <2>2, <3>2 DEF TypeOK
  <2> QED
    BY <2>3, <2>4 DEF TypeOK
<1> QED
  BY <1>1, <1>2, <1>3 DEF Sends

(* No other step of the connection touches what was sent, or the wire.     *)
LEMMA SilentStep ==
  ASSUME TypeOK, Answering, Wired, UNCHANGED <<scenario, received, sent, outbox, destroyed>>,
         ended => ended'
  PROVE  Wired'
<1>1. Wire' = Wire /\ Len(Wire) \in Nat
  BY WireType DEF Wire
<1> QED
  BY <1>1, WirePrefix DEF Wired, OnWire

(* writeParseError(): with no request in hand every response on an open    *)
(* wire keeps it alive, so the 400 may end it.                             *)
LEMMA ErrorStep ==
  ASSUME TypeOK, Answering, Wired, Free, UNCHANGED <<scenario, received, sent>>,
         Write([id |-> ErrorId, status |-> 400]), ended' = TRUE
  PROVE  Wired' /\ outbox' \in Seq(Response) /\ destroyed' \in BOOLEAN
<1> DEFINE r == [id |-> ErrorId, status |-> 400]
<1>1. r \in Response /\ r.id = ErrorId
  BY DEF Response, ErrorId
<1>2. Write(r)
  OBVIOUS
<1> HIDE DEF r
<1>3. /\ outbox' \in Seq(Response) /\ destroyed' \in BOOLEAN /\ Len(Wire') \in Nat
  BY <1>1, <1>2, WriteStep DEF Wired
<1>4. CASE ended
  <2>1. /\ Len(Wire') <= Len(Wire)
        /\ \A k \in 1..Len(Wire') : Wire'[k] = Wire[k]
    BY <1>1, <1>2, <1>4, WriteStep DEF Wired
  <2> QED
    BY <1>3, <1>4, <2>1, WirePrefix
<1>5. CASE ~ended
  <2>1. /\ Len(Wire') = Len(Wire) + 1
        /\ \A k \in 1..Len(Wire) : Wire'[k] = Wire[k]
        /\ Wire'[Len(Wire) + 1] = r
    BY <1>1, <1>2, <1>5, WriteStep DEF Wired
  <2>2. Len(Wire) \in Nat
    BY WireType
  <2>3. \A k \in 1..Len(Wire') : k \in 1..Len(Wire) \/ k = Len(Wire')
    BY <2>1, <2>2
  <2>4. \A i \in sent : i # ErrorId /\ KeepAlive(i)
    BY <1>5, PlanType DEF Answering, Settled, TypeOK, Ids, ErrorId
  <2>5. \A k \in 1..Len(Wire) : Wire[k].id \in sent /\ Wire[k].id # ErrorId
    BY <1>5, <2>4 DEF Wired, OnWire
  <2>6. OnWire'
    BY <1>1, <2>1, <2>2, <2>3, <2>5 DEF OnWire, ErrorId
  <2>7. ResponsesPaired'
    BY <1>1, <2>1, <2>2, <2>3, <2>5, PlanKept DEF Wired, ResponsesPaired, ErrorId
  <2>8. ClosingResponseLast'
    BY <1>1, <2>1, <2>2, <2>3, <2>4, <2>5, PlanKept DEF ClosingResponseLast, ErrorId
  <2> QED
    BY <1>3, <2>6, <2>7, <2>8 DEF Wired
<1> QED
  BY <1>4, <1>5 DEF TypeOK
-----------------------------------------------------------------------------
(* The invariant before the first chunk (app.ts:115-116).                  *)
LEMMA Initially == Init => ConnectionInv
<1> SUFFICES ASSUME Init PROVE ConnectionInv
  OBVIOUS
<1>1. TypeOK
  <2>1. Len(plan) \in Nat
    BY ScenarioAssumption, LenProperties DEF Init, Scenario, plan
  <2>2. ready \in Seq(Ids) /\ handled \in Seq(Ids) /\ tasks \in Seq(Task)
    BY EmptySeq DEF Init
  <2>3. outbox \in Seq(Response) /\ received \in Seq(Response)
    BY EmptySeq DEF Init
  <2>4. arrived \in 0..Len(plan)
    BY <2>1 DEF Init
  <2>5. failed \in BOOLEAN /\ {ended, destroyed, fin, crashed} \subseteq BOOLEAN
    BY DEF Init
  <2>6. sent \subseteq Ids /\ due \subseteq Ids /\ scenario \in Scenarios
    BY DEF Init
  <2> QED
    BY <2>2, <2>3, <2>4, <2>5, <2>6 DEF TypeOK
<1>2. Len(handled) = 0 /\ Len(tasks) = 0 /\ Len(ready) = 0
  BY EmptySeq DEF Init
<1>3. Chain /\ InOrder /\ Answering /\ Causes
  BY <1>2 DEF Init, Chain, InOrder, Answering, Causes
<1>4. Wire = <<>>
  BY DEF Init, Wire
<1>5. OnWire /\ ResponsesPaired /\ ClosingResponseLast
  <2>1. {i \in sent : ~Poisoned(i)} = {}
    BY DEF Init
  <2> QED
    BY <1>4, <2>1, FS_EmptySet DEF Init, OnWire, ResponsesPaired, ClosingResponseLast
<1> QED
  BY <1>1, <1>3, <1>5 DEF Init, ConnectionInv, CrashExplained
(* An event that only chains a callback, or ends the socket, keeps what is *)
(* known of requests in hand (app.ts:110-131).                             *)
LEMMA EventKeeps ==
  ASSUME TypeOK, Answering, Causes, CrashExplained,
         UNCHANGED <<scenario, sent, handled, crashed>>, ended => ended',
         Free' => Free,
         \A k \in 1..Len(tasks') : tasks'[k].at # "waiting" =>
           k \in 1..Len(tasks) /\ tasks'[k] = tasks[k]
  PROVE  Answering' /\ Causes' /\ CrashExplained'
<1>1. Answering'
  BY PlanKept DEF Answering, Settled
<1>2. Causes'
  <2> SUFFICES ASSUME NEW k \in 1..Len(tasks') PROVE Cause(k)'
    BY DEF Causes
  <2>1. CASE tasks'[k].at = "waiting"
    BY <2>1 DEF Cause, At
  <2>2. CASE tasks'[k].at # "waiting"
    <3>1. k \in 1..Len(tasks) /\ tasks'[k] = tasks[k] /\ Cause(k)
      BY <2>2 DEF Causes
    <3> QED
      BY <3>1, PlanKept DEF Cause, At
  <2> QED
    BY <2>1, <2>2
<1>3. CrashExplained'
  BY PlanKept DEF CrashExplained
<1> QED
  BY <1>1, <1>2, <1>3

(* socket.on("data") (app.ts:118-127).                                     *)
LEMMA DataStep ==
  ASSUME ConnectionInv, NEW n \in Ids, Data(n)
  PROVE  ConnectionInv'
<1> USE DEF ConnectionInv
<1>1. PICK last \in arrived..n :
        /\ Finishes(last, n)
        /\ ready' = ready \o [i \in 1..(last - arrived) |-> arrived + i]
        /\ failed' = (failed \/ last < n)
        /\ tasks' = Chained(IF failed \/ last < n THEN "error" ELSE "drain")
        /\ due' = IF ended \/ failed \/ last < n THEN due
                  ELSE due \cup {i \in (arrived + 1)..last : Owed(i)}
  BY DEF Data
<1>2. /\ arrived < n /\ arrived' = n
      /\ UNCHANGED <<scenario, sent, socket, fin, received, crashed, handled>>
  BY DEF Data
<1>3. /\ arrived \in Nat /\ n \in Nat /\ last \in Nat /\ Len(plan) \in Nat
      /\ n <= Len(plan) /\ Len(handled) \in Nat /\ Len(ready) \in Nat
  BY PlanType, LenProperties DEF TypeOK, Ids
<1> DEFINE more == [i \in 1..(last - arrived) |-> arrived + i]
           fresh == last - arrived
<1>4. fresh \in Nat /\ more \in Seq(Ids) /\ Len(more) = fresh
  <2>1. fresh \in Nat /\ \A i \in 1..fresh : arrived + i \in Ids
    BY <1>3 DEF Ids
  <2>2. more \in Seq(Ids)
    BY <2>1, IsASeq
  <2> QED
    BY <2>1, <2>2, LenProperties
<1>5. \A i \in 1..fresh : more[i] = arrived + i
  OBVIOUS
<1>6. ready' = ready \o more
  BY <1>1
<1> HIDE DEF more
<1>7. /\ ready' \in Seq(Ids) /\ Len(ready') = Len(ready) + fresh
      /\ \A i \in 1..Len(ready') :
           ready'[i] = IF i <= Len(ready) THEN ready[i] ELSE more[i - Len(ready)]
  <2>1. /\ ready \o more \in Seq(Ids) /\ Len(ready \o more) = Len(ready) + fresh
        /\ \A i \in 1..(Len(ready) + fresh) :
             (ready \o more)[i] = IF i <= Len(ready) THEN ready[i] ELSE more[i - Len(ready)]
    BY <1>4, ConcatProperties DEF TypeOK
  <2> QED
    BY <1>6, <2>1
<1>8. failed => fresh = 0
  BY <1>1, <1>3 DEF Finishes
<1>9. InOrder'
  <2>1. \A i \in 1..Len(ready') : ready'[i] = Len(handled) + i
    <3> SUFFICES ASSUME NEW i \in 1..Len(ready')
                 PROVE  ready'[i] = Len(handled) + i
      OBVIOUS
    <3>1. CASE i <= Len(ready)
      BY <1>3, <1>7, <3>1 DEF InOrder
    <3>2. CASE ~(i <= Len(ready))
      <4>1. i - Len(ready) \in 1..fresh
        BY <1>3, <1>4, <1>7, <3>2
      <4>2. ~failed
        BY <1>8, <4>1
      <4>3. ready'[i] = arrived + (i - Len(ready))
        BY <1>5, <1>7, <3>2, <4>1
      <4>4. Len(handled) + Len(ready) = arrived
        BY <4>2 DEF InOrder
      <4> QED
        BY <1>3, <4>3, <4>4
    <3> QED
      BY <3>1, <3>2
  <2>2. Len(handled) + Len(ready') <= arrived'
    BY <1>2, <1>3, <1>7 DEF InOrder
  <2>3. ~failed' => Len(handled) + Len(ready') = arrived'
    <3> HAVE ~failed'
    <3>1. ~failed /\ ~(last < n)
      BY <1>1
    <3>2. Len(handled) + Len(ready) = arrived
      BY <3>1 DEF InOrder
    <3>3. fresh = n - arrived
      BY <1>3, <3>1
    <3>4. Len(ready') = Len(ready) + fresh /\ arrived' = n
      BY <1>2, <1>7
    <3> HIDE DEF fresh, ConnectionInv
    <3> QED
      BY <1>3, <3>2, <3>3, <3>4
  <2> QED
    BY <1>2, <2>1, <2>2, <2>3 DEF InOrder
<1>10. /\ tasks' \in Seq(Task) /\ Chain' /\ (Free' <=> Free)
       /\ \A k \in 1..Len(tasks') : tasks'[k].at # "waiting" =>
            k \in 1..Len(tasks) /\ tasks'[k] = tasks[k]
  <2>1. (IF failed \/ last < n THEN "error" ELSE "drain") \in {"drain", "error", "end"}
    OBVIOUS
  <2> QED
    BY <1>1, <1>2, <2>1, ChainedStep
<1>11. Wired'
  BY <1>2, SilentStep DEF Wired, socket
<1>12. Answering' /\ Causes' /\ CrashExplained'
  BY <1>2, <1>10, EventKeeps DEF socket
<1>13. TypeOK'
  <2>1. due' \subseteq Ids
    BY <1>1, <1>3 DEF TypeOK, Ids
  <2>2. failed' \in BOOLEAN /\ arrived' \in 0..Len(plan)
    BY <1>1, <1>2, <1>3 DEF TypeOK
  <2> QED
    BY <1>2, <1>7, <1>10, <2>1, <2>2, PlanKept DEF TypeOK, Ids, socket
<1> QED
  BY <1>9, <1>10, <1>11, <1>12, <1>13 DEF Wired
(* socket.on("end"), and the end of the socket by its timeout, by close()  *)
(* or by the client's FIN (app.ts:110-111, :128-131, :220).                *)
LEMMA EndSteps ==
  ASSUME ConnectionInv, ClientFin \/ Timeout \/ AppClose
  PROVE  ConnectionInv'
<1> USE DEF ConnectionInv
<1>1. /\ UNCHANGED <<scenario, arrived, parser, sent, destroyed, outbox, received,
                     crashed, handled, due>>
      /\ ended' = TRUE
      /\ fin' \in BOOLEAN
      /\ UNCHANGED tasks \/ tasks' = Chained("end")
  BY DEF ClientFin, Timeout, AppClose, End, TypeOK
<1>2. /\ tasks' \in Seq(Task) /\ Chain' /\ (Free' <=> Free)
      /\ \A k \in 1..Len(tasks') : tasks'[k].at # "waiting" =>
           k \in 1..Len(tasks) /\ tasks'[k] = tasks[k]
  <2>1. CASE UNCHANGED tasks
    BY <1>1, <2>1 DEF TypeOK, Chain, Free
  <2>2. CASE tasks' = Chained("end")
    BY <1>1, <2>2, ChainedStep
  <2> QED
    BY <1>1, <2>1, <2>2
<1>3. Wired'
  BY <1>1, SilentStep DEF Wired
<1>4. Answering' /\ Causes' /\ CrashExplained'
  BY <1>1, <1>2, EventKeeps
<1>5. InOrder'
  BY <1>1 DEF InOrder, parser
<1>6. TypeOK'
  BY <1>1, <1>2, PlanKept DEF TypeOK, Ids, parser
<1> QED
  BY <1>2, <1>3, <1>4, <1>5, <1>6 DEF Wired

(* Nothing that the invariant speaks of changes, but for where a callback  *)
(* is that has no request in hand, before and after.                       *)
LEMMA OutsideRequest ==
  ASSUME TypeOK, Answering, Causes, CrashExplained, Free, Free',
         UNCHANGED <<scenario, sent, handled, crashed>>, ended => ended'
  PROVE  Answering' /\ Causes' /\ CrashExplained'
<1>1. Answering'
  BY PlanKept DEF Answering, Settled
<1>2. Causes'
  BY DEF Causes, Cause, At, Free, Busy
<1>3. CrashExplained'
  BY PlanKept DEF CrashExplained
<1> QED
  BY <1>1, <1>2, <1>3

(* A callback with no request in hand moves to another place of that kind. *)
LEMMA FreeMove ==
  ASSUME TypeOK, Chain, NEW k \in 1..Len(tasks), Runs(k), tasks[k].at \notin Busy,
         NEW where \in {"top", "done"}, Move(k, where), UNCHANGED handled,
         tasks[k].kind # "drain" => where = "done"
  PROVE  tasks' \in Seq(Task) /\ Chain' /\ Free /\ Free'
<1> DEFINE t == [tasks[k] EXCEPT !.at = where]
<1>1. tasks[k] \in Task
  BY ElementOfSeq DEF TypeOK
<1>2. /\ t \in Task /\ t.kind = tasks[k].kind /\ t.at = where /\ tasks' = [tasks EXCEPT ![k] = t]
  BY <1>1 DEF Task, Move
<1>3. t.at \notin Busy /\ t.at # "waiting"
  BY <1>2 DEF Busy
<1> HIDE DEF t
<1> QED
  BY <1>2, <1>3, TaskStep

(* The callbacks that only move, write an error or end the socket          *)
(* (app.ts:116, :123, :126, :130, :134-135, :358-368).                     *)
LEMMA FreeSteps ==
  ASSUME ConnectionInv, NEW k \in 1..Len(tasks),
         StartDrain(k) \/ WriteParseError(k) \/ EndAfterFin(k)
  PROVE  ConnectionInv'
<1> USE DEF ConnectionInv
<1>1. /\ UNCHANGED <<scenario, arrived, failed, fin, received, due>>
      /\ UNCHANGED <<ready, sent, crashed, handled>>
      /\ ended' \in BOOLEAN /\ (ended => ended')
  <2>1. CASE StartDrain(k)
    BY <2>1 DEF StartDrain, Rest, socket, TypeOK
  <2>2. CASE WriteParseError(k)
    BY <2>2 DEF WriteParseError, Rest
  <2>3. CASE EndAfterFin(k)
    BY <2>3 DEF EndAfterFin, Rest
  <2> QED
    BY <2>1, <2>2, <2>3
<1>2. tasks' \in Seq(Task) /\ Chain' /\ Free /\ Free'
  <2>1. MayStart(k) /\ Runs(k) /\ tasks[k].at \notin Busy
    BY DEF StartDrain, WriteParseError, EndAfterFin, Runs, MayStart, Busy
  <2>2. \E where \in {"top", "done"} :
          Move(k, where) /\ (tasks[k].kind # "drain" => where = "done")
    BY DEF StartDrain, WriteParseError, EndAfterFin
  <2> QED
    BY <1>1, <2>1, <2>2, FreeMove
<1>3. Answering' /\ Causes' /\ CrashExplained'
  BY <1>1, <1>2, OutsideRequest
<1>4. InOrder'
  BY <1>1 DEF InOrder
<1>5. Wired' /\ outbox' \in Seq(Response) /\ destroyed' \in BOOLEAN
  <2>1. CASE WriteParseError(k)
    BY <1>1, <1>2, <2>1, ErrorStep DEF WriteParseError, Wired
  <2>2. CASE StartDrain(k) \/ EndAfterFin(k)
    <3>1. UNCHANGED <<outbox, destroyed>>
      BY <2>2 DEF StartDrain, EndAfterFin, socket, NoWrite
    <3> QED
      BY <1>1, <3>1, SilentStep DEF Wired, TypeOK
  <2> QED
    BY <2>1, <2>2
<1>6. TypeOK'
  BY <1>1, <1>2, <1>5, PlanKept DEF TypeOK, Ids
<1> QED
  BY <1>2, <1>3, <1>4, <1>5, <1>6 DEF Wired
-----------------------------------------------------------------------------
(* The request a callback is busy with: a drain's, and the last handled.   *)
LEMMA InHand ==
  ASSUME TypeOK, Chain, InOrder, NEW k \in 1..Len(tasks), tasks[k].at \in Busy
  PROVE  /\ tasks[k] \in Task /\ tasks[k].kind = "drain" /\ Runs(k)
         /\ tasks[k].msg = Len(handled)
         /\ tasks[k].msg \in 1..Len(handled)
         /\ tasks[k].msg \in Ids /\ handled[tasks[k].msg] = tasks[k].msg
<1>1. tasks[k] \in Task /\ Len(handled) \in Nat
  BY ElementOfSeq, LenProperties DEF TypeOK
<1>2. tasks[k].msg = Len(handled) /\ Len(handled) > 0
  BY DEF Chain
<1>3. tasks[k].kind = "drain" /\ Runs(k)
  BY DEF Chain, Runs, Busy
<1>4. Len(handled) \in 1..Len(handled)
  BY <1>1, <1>2
<1>5. handled[Len(handled)] \in Ids /\ handled[Len(handled)] = Len(handled)
  BY <1>4, ElementOfSeq DEF TypeOK, InOrder
<1> QED
  BY <1>1, <1>2, <1>3, <1>4, <1>5

(* What is said of handled requests survives a step that marks the one in  *)
(* hand as sent, or not, and leaves it settled if it leaves it.            *)
LEMMA AnsweringKept ==
  ASSUME TypeOK, Answering, UNCHANGED <<scenario, handled>>,
         sent \subseteq sent', sent' \subseteq sent \cup {Len(handled)}, ended => ended',
         Free' => Free \/ Settled(Len(handled))'
  PROVE  Answering'
<1>1. Len(handled) \in Nat
  BY LenProperties DEF TypeOK
<1>2. \A i : Settled(i) => Settled(i)'
  BY PlanKept DEF Settled
<1>3. \A i \in 1..Len(handled) : i < Len(handled) \/ i = Len(handled)
  BY <1>1
<1>4. \A i \in sent' : i <= Len(handled)
  BY <1>1 DEF Answering
<1>5. \A i \in 1..Len(handled) : i < Len(handled) \/ Free' => Settled(i)'
  BY <1>2, <1>3 DEF Answering
<1> QED
  BY <1>4, <1>5 DEF Answering

(* A step within a request, up to the end of handleOne(): the response is  *)
(* sent or not, and when the callback leaves the request it is settled.    *)
LEMMA RequestStep ==
  ASSUME ConnectionInv, NEW k \in 1..Len(tasks), tasks[k].at \in Busy,
         NEW m \in Nat, m = tasks[k].msg,
         NEW where \in Busy \cup {"top"}, Move(k, where), Sends(m),
         UNCHANGED <<ready, crashed, handled>>, Rest,
         ended' \in BOOLEAN, ended => ended',
         where = "top" => Settled(m)', Cause(k)'
  PROVE  ConnectionInv'
<1> USE DEF ConnectionInv
<1> DEFINE t == [tasks[k] EXCEPT !.at = where]
<1>1. /\ tasks[k] \in Task /\ tasks[k].kind = "drain" /\ Runs(k)
      /\ m = Len(handled) /\ Len(handled) > 0 /\ m \in Ids
  BY InHand
<1>2. UNCHANGED <<scenario, arrived, failed, fin, received, due>>
  BY DEF Rest
<1>3. /\ t \in Task /\ t.kind = "drain" /\ t.at = where /\ t.msg = m
      /\ tasks' = [tasks EXCEPT ![k] = t]
  BY <1>1 DEF Task, Move, Busy
<1>4. where # "waiting"
  BY DEF Busy
<1>5. /\ tasks' \in Seq(Task) /\ Chain'
      /\ Free' <=> where \notin Busy
      /\ \A j \in 1..Len(tasks') : j # k => tasks'[j].at \in {"waiting", "done"}
  <2> HIDE DEF t
  <2> QED
    BY <1>1, <1>3, <1>4, TaskStep
<1>6. /\ Wired'
      /\ outbox' \in Seq(Response) /\ destroyed' \in BOOLEAN /\ sent' \subseteq Ids
      /\ sent \subseteq sent' /\ sent' \subseteq sent \cup {m}
  BY <1>1, <1>2, SendStep DEF Wired
<1>7. Answering'
  BY <1>1, <1>2, <1>5, <1>6, AnsweringKept
<1>8. Causes'
  <2> SUFFICES ASSUME NEW j \in 1..Len(tasks'), j # k PROVE Cause(j)'
    BY DEF Causes
  <2>1. tasks'[j].at \in {"waiting", "done"}
    BY <1>5
  <2> QED
    BY <2>1 DEF Cause, At
<1>9. InOrder' /\ CrashExplained'
  BY <1>2, PlanKept DEF InOrder, CrashExplained
<1>10. TypeOK'
  BY <1>2, <1>5, <1>6, PlanKept DEF TypeOK, Ids
<1> QED
  BY <1>5, <1>6, <1>7, <1>8, <1>9, <1>10 DEF Wired

(* A throw that nobody catches stops the process; it is explained when the *)
(* response of the request in hand had never been tried.                   *)
LEMMA CrashStep ==
  ASSUME ConnectionInv, NEW k \in 1..Len(tasks), tasks[k].at \in Busy,
         NEW m \in Nat, m = tasks[k].msg, FlushThrows(m), NeverTried(m), crashed' = TRUE,
         UNCHANGED <<tasks, ready, ended, handled>>, Rest
  PROVE  ConnectionInv'
<1> USE DEF ConnectionInv
<1>1. /\ m = Len(handled) /\ m \in 1..Len(handled) /\ m \in Ids /\ handled[m] = m
  BY InHand
<1>2. UNCHANGED <<scenario, arrived, failed, fin, received, due>>
  BY DEF Rest
<1>3. Sends(m) /\ ended' \in BOOLEAN /\ (ended => ended')
  BY DEF Sends, TypeOK
<1>4. /\ Wired'
      /\ outbox' \in Seq(Response) /\ destroyed' \in BOOLEAN /\ sent' \subseteq Ids
      /\ sent \subseteq sent' /\ sent' \subseteq sent \cup {m}
  BY <1>1, <1>2, <1>3, SendStep DEF Wired
<1>5. Chain' /\ Free' = Free /\ InOrder'
  BY <1>2 DEF Chain, Free, InOrder
<1>6. Answering'
  BY <1>1, <1>2, <1>3, <1>4, <1>5, AnsweringKept
<1>7. Causes'
  BY <1>2, <1>4, PlanKept DEF Causes, Cause, At
<1>8. CrashExplained'
  <2>1. NeverTried(m)' /\ m \in 1..Len(handled') /\ handled'[m] = m
    BY <1>1, <1>2, PlanKept
  <2> QED
    BY <2>1 DEF CrashExplained, NeverTried
<1>9. TypeOK'
  BY <1>2, <1>3, <1>4, PlanKept DEF TypeOK, Ids
<1> QED
  BY <1>4, <1>5, <1>6, <1>7, <1>8, <1>9 DEF Wired
(* parser.next() and what drainAndHandle() does with it (app.ts:134-140):  *)
(* the next request is the one after the last handled.                     *)
LEMMA NextMessageStep ==
  ASSUME ConnectionInv, ~crashed, NEW k \in 1..Len(tasks), NextMessage(k)
  PROVE  ConnectionInv'
<1> USE DEF ConnectionInv
<1>1. /\ UNCHANGED <<scenario, arrived, failed, fin, received, due, sent, socket, crashed>>
      /\ tasks[k].at = "top"
  BY DEF NextMessage, Rest, At
<1>2. tasks[k] \in Task /\ Runs(k) /\ tasks[k].at \notin Busy /\ tasks[k].kind = "drain"
  BY <1>1, ElementOfSeq DEF TypeOK, Runs, Busy, Chain
<1>3. Len(handled) \in Nat /\ Len(ready) \in Nat
  BY LenProperties DEF TypeOK
<1>4. Wired'
  BY <1>1, SilentStep DEF Wired, socket
<1>5. CASE Move(k, "done") /\ UNCHANGED <<ready, handled>>
  <2>1. tasks' \in Seq(Task) /\ Chain' /\ Free /\ Free'
    BY <1>2, <1>5, FreeMove
  <2>2. Answering' /\ Causes' /\ CrashExplained'
    BY <1>1, <1>5, <2>1, OutsideRequest DEF socket
  <2>3. TypeOK' /\ InOrder'
    BY <1>1, <1>5, <2>1, PlanKept DEF TypeOK, Ids, InOrder, socket
  <2> QED
    BY <1>4, <2>1, <2>2, <2>3 DEF Wired
<1>6. CASE /\ ready # <<>>
           /\ tasks' = [tasks EXCEPT ![k].at = "handler", ![k].msg = Head(ready)]
           /\ ready' = Tail(ready)
           /\ handled' = Append(handled, Head(ready))
  <2> DEFINE m == Head(ready)
             t == [tasks[k] EXCEPT !.at = "handler", !.msg = m]
  <2>1. /\ m \in Ids /\ ready' \in Seq(Ids) /\ Len(ready') = Len(ready) - 1
        /\ \A i \in 1..Len(ready') : ready'[i] = ready[i + 1]
    BY <1>6, HeadTailProperties DEF TypeOK
  <2>2. /\ handled' \in Seq(Ids) /\ Len(handled') = Len(handled) + 1
        /\ \A i \in 1..Len(handled) : handled'[i] = handled[i]
        /\ handled'[Len(handled) + 1] = m
    BY <1>6, <2>1, AppendProperties DEF TypeOK
  <2>3. Len(ready) > 0 /\ m = Len(handled) + 1
    <3>1. Len(ready) # 0
      BY <1>6, EmptySeq DEF TypeOK
    <3>2. 1 \in 1..Len(ready) /\ m = ready[1]
      BY <1>3, <3>1
    <3> QED
      BY <1>3, <3>2 DEF InOrder
  <2>4. /\ t \in Task /\ t.kind = tasks[k].kind /\ t.at = "handler" /\ t.msg = m
        /\ tasks' = [tasks EXCEPT ![k] = t]
    <3>1. m \in Nat
      BY <1>3, <2>3
    <3> DEFINE u == [tasks[k] EXCEPT !.at = "handler"]
    <3>2. /\ u \in Task /\ u.kind = tasks[k].kind /\ u.at = "handler"
          /\ t = [u EXCEPT !.msg = m]
      BY <1>2 DEF Task
    <3> HIDE DEF u
    <3>5. t \in Task /\ t.kind = u.kind /\ t.at = u.at /\ t.msg = m
      BY <3>1, <3>2 DEF Task
    <3>3. tasks \in [1..Len(tasks) -> Task]
      BY LenProperties DEF TypeOK
    <3>4. tasks' = [tasks EXCEPT ![k] = t]
      BY <1>2, <1>6, <3>3 DEF Task
    <3> QED
      BY <3>2, <3>4, <3>5
  <2> HIDE DEF t, m
  <2>5. /\ tasks' \in Seq(Task) /\ Chain' /\ ~Free' /\ Free
        /\ tasks'[k] = t /\ Len(tasks') = Len(tasks)
        /\ \A j \in 1..Len(tasks') : j # k => tasks'[j].at \in {"waiting", "done"}
    <3>1. t.at \in Busy => t.msg = Len(handled') /\ Len(handled') > 0
      BY <1>3, <2>2, <2>3, <2>4
    <3>2. t.at \in Busy /\ t.at # "waiting" /\ (t.kind # "drain" => t.at = "done")
      BY <1>2, <2>4 DEF Busy
    <3> QED
      BY <1>2, <2>4, <3>1, <3>2, TaskStep
  <2>6. InOrder'
    <3>1. \A i \in 1..Len(handled') : i \in 1..Len(handled) \/ i = Len(handled) + 1
      BY <1>3, <2>2
    <3>2. \A i \in 1..Len(handled') : handled'[i] = i
      BY <2>2, <2>3, <3>1 DEF InOrder
    <3>3. \A i \in 1..Len(ready') : ready'[i] = Len(handled') + i
      <4> SUFFICES ASSUME NEW i \in 1..Len(ready') PROVE ready'[i] = Len(handled') + i
        OBVIOUS
      <4>1. i + 1 \in 1..Len(ready)
        BY <1>3, <2>1
      <4>2. ready[i + 1] = Len(handled) + (i + 1)
        BY <4>1 DEF InOrder
      <4> QED
        BY <1>3, <2>1, <2>2, <4>2
    <3>4. Len(handled') + Len(ready') = Len(handled) + Len(ready)
      BY <1>3, <2>1, <2>2
    <3> QED
      BY <1>1, <3>2, <3>3, <3>4 DEF InOrder
  <2>7. Answering'
    <3>1. \A i \in sent' : i <= Len(handled')
      <4> SUFFICES ASSUME NEW i \in sent PROVE i <= Len(handled) + 1
        BY <1>1, <2>2
      <4>1. i \in Nat /\ i <= Len(handled)
        BY PlanType DEF TypeOK, Ids, Answering
      <4> QED
        BY <1>3, <4>1
    <3>2. \A i \in 1..Len(handled) : Settled(i)'
      BY <1>1, <2>5, PlanKept DEF Answering, Settled, socket
    <3>3. \A i \in 1..Len(handled') : i < Len(handled') => i \in 1..Len(handled)
      BY <1>3, <2>2
    <3> QED
      BY <2>5, <3>1, <3>2, <3>3 DEF Answering
  <2>8. Causes'
    BY <2>4, <2>5 DEF Causes, Cause, At
  <2>9. CrashExplained'
    BY <1>1 DEF CrashExplained
  <2>10. TypeOK'
    BY <1>1, <2>1, <2>2, <2>5, PlanKept DEF TypeOK, Ids, socket
  <2> QED
    BY <1>4, <2>5, <2>6, <2>7, <2>8, <2>9, <2>10 DEF Wired
<1> QED
  BY <1>5, <1>6 DEF NextMessage
(* The request of a callback is known by a number.                         *)
LEMMA MsgType ==
  ASSUME TypeOK, NEW k \in 1..Len(tasks)
  PROVE  tasks[k].msg \in Nat /\ ended \in BOOLEAN
<1>1. tasks[k] \in Task
  BY ElementOfSeq DEF TypeOK
<1>2. ended \in BOOLEAN
  BY DEF TypeOK
<1> QED
  BY <1>1, <1>2 DEF Task

(* What Move does to the callback it moves.                                *)
LEMMA MovedTask ==
  ASSUME TypeOK, NEW k \in 1..Len(tasks), NEW where, Move(k, where)
  PROVE  tasks'[k].at = where /\ tasks'[k].msg = tasks[k].msg
<1>1. tasks \in [1..Len(tasks) -> Task]
  BY LenProperties DEF TypeOK
<1> QED
  BY <1>1 DEF Move, Task

(* The handler runs to its first await or to its end (app.ts:142-158).     *)
LEMMA CallHandlerStep ==
  ASSUME ConnectionInv, NEW k \in 1..Len(tasks), CallHandler(k)
  PROVE  ConnectionInv'
<1> DEFINE m == tasks[k].msg
<1>1. /\ tasks[k].at = "handler" /\ tasks[k].at \in Busy
      /\ UNCHANGED <<ready, ended, crashed, handled>> /\ Rest
  BY DEF CallHandler, At, Busy
<1>2. m \in Nat /\ ended' \in BOOLEAN /\ (ended => ended')
  BY <1>1, MsgType DEF ConnectionInv
<1>3. UNCHANGED scenario
  BY <1>1 DEF Rest
<1>4. PICK where \in {"after", "error", "awaiting"} :
        /\ Move(k, where) /\ Sends(m)
        /\ Poisoned(m) /\ m \notin sent' =>
             /\ where = "error" => plan[m].kind = "badThrows"
             /\ where = "after" => plan[m].kind = "badSilent"
  <2>1. CASE plan[m].kind = "reply" /\ FlushWrites(m, 200) /\ Move(k, "after")
    BY <2>1 DEF Sends, Poisoned
  <2>2. CASE plan[m].kind = "again" /\ FlushWrites(m, 200) /\ Move(k, "error")
    BY <2>2 DEF Sends, Poisoned
  <2>3. CASE plan[m].kind = "badReply" /\ FlushThrows(m) /\ Move(k, "error")
    BY <2>3 DEF Sends, FlushThrows
  <2>4. CASE plan[m].kind \in {"throws", "badThrows"} /\ Move(k, "error") /\ UNCHANGED sent /\ NoWrite
    BY <2>4 DEF Sends, Poisoned
  <2>5. CASE plan[m].kind \in {"silent", "late", "badSilent"} /\ Move(k, "after") /\ UNCHANGED sent /\ NoWrite
    BY <2>5 DEF Sends, Poisoned
  <2>6. CASE plan[m].kind = "slow" /\ Move(k, "awaiting") /\ UNCHANGED sent /\ NoWrite
    BY <2>6 DEF Sends, Poisoned
  <2> QED
    BY <2>1, <2>2, <2>3, <2>4, <2>5, <2>6 DEF CallHandler
<1>5. where \in Busy \cup {"top"} /\ where # "top"
  BY DEF Busy
<1>6. tasks'[k].at = where /\ tasks'[k].msg = m
  BY <1>2, <1>4, MovedTask DEF ConnectionInv
<1>7. Cause(k)'
  BY <1>3, <1>4, <1>6, PlanKept DEF Cause, At, NeverTried
<1> QED
  BY <1>1, <1>2, <1>4, <1>5, <1>7, RequestStep
(* The default error handler answers, has nothing to answer, or is thrown  *)
(* out by the builder: either way the response has been tried              *)
(* (app.ts:234-243).                                                       *)
LEMMA DefaultHandlerTries ==
  ASSUME NEW m, DefaultErrorHandler(m)
  PROVE  Sends(m) /\ m \in sent'
BY DEF DefaultErrorHandler, Sends, FlushWrites, FlushThrows

(* safeError(): the error handler runs, and the 500 that follows its own   *)
(* throw is the one that may not be caught (app.ts:191-200).               *)
LEMMA SafeErrorStep ==
  ASSUME ConnectionInv, ~crashed, NEW k \in 1..Len(tasks), SafeError(k)
  PROVE  ConnectionInv'
<1> DEFINE m == tasks[k].msg
<1>1. /\ tasks[k].at = "error" /\ tasks[k].at \in Busy
      /\ UNCHANGED <<ready, ended, handled>> /\ Rest /\ UNCHANGED scenario
  BY DEF SafeError, At, Busy, Rest
<1>2. m \in Nat /\ ended' \in BOOLEAN /\ (ended => ended')
  BY <1>1, MsgType DEF ConnectionInv
<1>3. Poisoned(m) /\ m \notin sent => plan[m].kind = "badThrows"
  BY <1>1 DEF ConnectionInv, Causes, Cause, At
<1>4. CASE UNCHANGED crashed
  <2>1. PICK where \in {"after", "errorAwaiting"} :
          /\ Move(k, where) /\ Sends(m)
          /\ where = "after" /\ Poisoned(m) => m \in sent' \/ NeverTried(m)
    <3>1. CASE scenario.onError = "default" /\ DefaultErrorHandler(m) /\ Move(k, "after")
      BY <3>1, DefaultHandlerTries
    <3>2. CASE scenario.onError = "silent" /\ UNCHANGED sent /\ NoWrite /\ Move(k, "after")
      BY <1>3, <3>2 DEF Sends, NeverTried
    <3>3. CASE scenario.onError = "throws" /\ Rescue(m) /\ Move(k, "after")
      BY <3>3 DEF Rescue, Sends, FlushWrites
    <3>4. CASE UNCHANGED sent /\ NoWrite /\ Move(k, "errorAwaiting")
      BY <3>4 DEF Sends
    <3>5. ~crashed'
      BY <1>4
    <3> QED
      BY <3>1, <3>2, <3>3, <3>4, <3>5 DEF SafeError
  <2>2. where \in Busy \cup {"top"} /\ where # "top" /\ where # "error"
    BY DEF Busy
  <2>3. tasks'[k].at = where /\ tasks'[k].msg = m
    BY <2>1, MovedTask DEF ConnectionInv
  <2>4. Cause(k)'
    BY <1>1, <2>1, <2>2, <2>3, PlanKept DEF Cause, At, NeverTried
  <2> QED
    BY <1>1, <1>2, <1>4, <2>1, <2>2, <2>4, RequestStep
<1>5. CASE ~UNCHANGED crashed
  <2>1. /\ scenario.onError = "throws" /\ FlushThrows(m)
        /\ crashed' = TRUE /\ UNCHANGED tasks
    BY <1>5 DEF SafeError
  <2>2. NeverTried(m)
    BY <1>3, <2>1 DEF FlushThrows, NeverTried
  <2> QED
    BY <1>1, <1>2, <2>1, <2>2, CrashStep
<1> QED
  BY <1>4, <1>5

(* The rest of handleOne(): the 404, and the end of the connection         *)
(* (app.ts:160-169).                                                       *)
LEMMA FinishRequestStep ==
  ASSUME ConnectionInv, NEW k \in 1..Len(tasks), FinishRequest(k)
  PROVE  ConnectionInv'
<1> DEFINE m == tasks[k].msg
<1>1. /\ tasks[k].at = "after" /\ tasks[k].at \in Busy
      /\ UNCHANGED <<ready, handled>> /\ Rest /\ UNCHANGED scenario
  BY DEF FinishRequest, At, Busy, Rest
<1>2. m \in Nat /\ ended \in BOOLEAN
  BY MsgType DEF ConnectionInv
<1>3. CASE FlushThrows(m) /\ crashed' = TRUE /\ UNCHANGED <<tasks, ended>>
  <2>1. NeverTried(m)
    BY <1>1, <1>3 DEF ConnectionInv, Causes, Cause, At, FlushThrows
  <2> QED
    BY <1>1, <1>2, <1>3, <2>1, CrashStep
<1>4. CASE /\ (m \in sent /\ UNCHANGED sent /\ NoWrite) \/ FlushWrites(m, 404)
           /\ ended' = (ended \/ ~KeepAlive(m))
           /\ Move(k, "top")
           /\ UNCHANGED crashed
  <2>1. Sends(m) /\ m \in sent'
    BY <1>4 DEF Sends, FlushWrites
  <2>2. ended' \in BOOLEAN /\ (ended => ended') /\ (ended' \/ KeepAlive(m))
    BY <1>2, <1>4
  <2>3. tasks'[k].at = "top" /\ tasks'[k].msg = m
    BY <1>4, MovedTask DEF ConnectionInv
  <2>4. Cause(k)'
    BY <2>3 DEF Cause, At
  <2>5. \A i : i = m => Settled(i)'
    BY <1>1, <2>1, <2>2, PlanKept DEF Settled
  <2>6. "top" \in Busy \cup {"top"}
    OBVIOUS
  <2> HIDE DEF m
  <2>7. PICK i \in Nat : i = m
    BY <1>2
  <2> QED
    BY <1>1, <1>4, <2>1, <2>2, <2>4, <2>5, <2>6, <2>7, RequestStep DEF m
<1> QED
  BY <1>3, <1>4 DEF FinishRequest

(* What a handler, or an error handler, awaits arrives, and it responds    *)
(* (app.ts:154-155, :192-194).                                             *)
LEMMA ResumptionStep ==
  ASSUME ConnectionInv, NEW k \in 1..Len(tasks), Resumption(k)
  PROVE  ConnectionInv'
<1> DEFINE m == tasks[k].msg
<1>1. /\ tasks[k].at \in Busy /\ Move(k, "after")
      /\ UNCHANGED <<ready, ended, crashed, handled>> /\ Rest /\ UNCHANGED scenario
  BY DEF Resumption, HandlerResumes, ErrorHandlerResumes, At, Busy, Rest
<1>2. m \in Nat /\ ended' \in BOOLEAN /\ (ended => ended')
  BY <1>1, MsgType DEF ConnectionInv
<1>3. Sends(m) /\ m \in sent'
  <2>1. CASE FlushWrites(m, 200)
    BY <2>1 DEF Sends, FlushWrites
  <2>2. CASE DefaultErrorHandler(m)
    BY <2>2, DefaultHandlerTries
  <2> QED
    BY <2>1, <2>2 DEF Resumption, HandlerResumes, ErrorHandlerResumes
<1>4. tasks'[k].at = "after" /\ tasks'[k].msg = m
  BY <1>1, MovedTask DEF ConnectionInv
<1>5. Cause(k)'
  BY <1>3, <1>4 DEF Cause, At
<1>6. "after" \in Busy \cup {"top"} /\ "after" # "top"
  BY DEF Busy
<1> QED
  BY <1>1, <1>2, <1>3, <1>5, <1>6, RequestStep
(* A callback that sends after its handler has returned stops the process  *)
(* (response.ts:81-82).                                                    *)
LEMMA LateSendStep ==
  ASSUME ConnectionInv, NEW m \in Ids, LateSend(m)
  PROVE  ConnectionInv'
<1> USE DEF ConnectionInv
<1>1. /\ UNCHANGED <<scenario, arrived, parser, tasks, sent, socket, fin, received, handled, due>>
      /\ crashed' = TRUE /\ plan[m].kind = "late" /\ m \in sent
  BY DEF LateSend
<1>2. m \in 1..Len(handled) /\ handled[m] = m
  <2>1. m \in Nat /\ m > 0 /\ m <= Len(handled) /\ Len(handled) \in Nat
    BY <1>1, PlanType, LenProperties DEF Ids, Answering, TypeOK
  <2>2. m \in 1..Len(handled)
    BY <2>1
  <2> QED
    BY <2>2 DEF InOrder
<1>3. CrashExplained'
  BY <1>1, <1>2 DEF CrashExplained, plan
<1>4. Wired'
  BY <1>1, SilentStep DEF Wired, socket
<1>5. Chain' /\ InOrder' /\ Answering' /\ Causes'
  BY <1>1, PlanKept DEF Chain, InOrder, Answering, Settled, Free, Causes, Cause, At, socket, parser
<1>6. TypeOK'
  BY <1>1, PlanKept DEF TypeOK, Ids, socket, parser
<1> QED
  BY <1>3, <1>4, <1>5, <1>6 DEF Wired

(* Moving the head of the second of two sequences to the end of the first  *)
(* leaves both together as they were.                                      *)
LEMMA HeadMoves ==
  ASSUME NEW S, NEW s \in Seq(S), NEW t \in Seq(S), t # <<>>
  PROVE  Append(s, Head(t)) \o Tail(t) = s \o t
OBVIOUS

(* A response that leaves the socket's buffer stays on the wire.           *)
LEMMA FlushStep ==
  ASSUME ConnectionInv, Flush
  PROVE  ConnectionInv'
<1> USE DEF ConnectionInv
<1>1. /\ UNCHANGED <<scenario, arrived, parser, tasks, sent, ended, destroyed, fin,
                     crashed, handled, due>>
      /\ outbox # <<>> /\ received' = Append(received, Head(outbox))
      /\ outbox' = Tail(outbox)
  BY DEF Flush
<1>2. received' \in Seq(Response) /\ outbox' \in Seq(Response)
  BY <1>1, HeadTailProperties, AppendProperties DEF TypeOK
<1>3. Wire' = Wire
  BY <1>1, HeadMoves DEF TypeOK, Wire
<1>4. Wired'
  <2>1. Len(Wire) \in Nat
    BY WireType
  <2> QED
    BY <1>1, <1>3, <2>1, WirePrefix DEF Wired, OnWire
<1>5. Chain' /\ InOrder' /\ Answering' /\ Causes' /\ CrashExplained'
  BY <1>1, PlanKept DEF Chain, InOrder, Answering, Settled, Free, Causes, Cause, At,
                        CrashExplained, parser
<1>6. TypeOK'
  BY <1>1, <1>2, PlanKept DEF TypeOK, Ids, parser
<1> QED
  BY <1>4, <1>5, <1>6 DEF Wired
-----------------------------------------------------------------------------
(* Every step keeps the invariant.                                         *)
LEMMA InvariantStep == ConnectionInv /\ [Next]_vars => ConnectionInv'
<1> SUFFICES ASSUME ConnectionInv, [Next]_vars PROVE ConnectionInv'
  OBVIOUS
<1>1. CASE \E n \in Ids : Data(n)
  BY <1>1, DataStep
<1>2. CASE ClientFin \/ Timeout \/ AppClose
  BY <1>2, EndSteps
<1>3. CASE \E k \in 1..Len(tasks) : Microtask(k)
  <2> PICK k \in 1..Len(tasks) : Microtask(k)
    BY <1>3
  <2>1. CASE StartDrain(k) \/ WriteParseError(k) \/ EndAfterFin(k)
    BY <2>1, FreeSteps
  <2>2. CASE NextMessage(k)
    BY <2>2, NextMessageStep DEF Microtask
  <2>3. CASE CallHandler(k)
    BY <2>3, CallHandlerStep
  <2>4. CASE SafeError(k)
    BY <2>4, SafeErrorStep DEF Microtask
  <2>5. CASE FinishRequest(k)
    BY <2>5, FinishRequestStep
  <2> QED
    BY <2>1, <2>2, <2>3, <2>4, <2>5 DEF Microtask
<1>4. CASE \E k \in 1..Len(tasks) : Resumption(k)
  BY <1>4, ResumptionStep
<1>5. CASE \E m \in Ids : LateSend(m)
  BY <1>5, LateSendStep
<1>6. CASE Flush
  BY <1>6, FlushStep
<1>7. CASE UNCHANGED vars
  <2>1. Wired'
    BY <1>7, SilentStep DEF vars, Wired, ConnectionInv
  <2>2. Chain' /\ InOrder' /\ Answering' /\ Causes' /\ CrashExplained'
    BY <1>7, PlanKept DEF vars, ConnectionInv, Chain, InOrder, Answering, Settled, Free,
                          Causes, Cause, At, CrashExplained
  <2>3. TypeOK'
    BY <1>7, PlanKept DEF vars, ConnectionInv, TypeOK, Ids
  <2> QED
    BY <2>1, <2>2, <2>3 DEF ConnectionInv, Wired
<1> QED
  BY <1>1, <1>2, <1>3, <1>4, <1>5, <1>6, <1>7 DEF Next

(* In every scenario the invariant holds.                                  *)
THEOREM Invariance == Spec => []ConnectionInv
BY Initially, InvariantStep, PTL DEF Spec

(* Every value stays of its type.                                          *)
THEOREM Types == Spec => []TypeOK
<1>1. ConnectionInv => TypeOK
  BY DEF ConnectionInv
<1> QED
  BY Invariance, <1>1, PTL

(* A pipelining client can tell its responses apart: none is skipped,      *)
(* repeated or overtaken, and an error is the last (app.ts:118-168).       *)
THEOREM Paired == Spec => []ResponsesPaired
<1>1. ConnectionInv => ResponsesPaired
  BY DEF ConnectionInv
<1> QED
  BY Invariance, <1>1, PTL

(* What closes the connection is the last response on it (app.ts:165-168,  *)
(* :367).                                                                  *)
THEOREM ClosingLast == Spec => []ClosingResponseLast
<1>1. ConnectionInv => ClosingResponseLast
  BY DEF ConnectionInv
<1> QED
  BY Invariance, <1>1, PTL

(* The drains on "processing" together handle one request after another    *)
(* (app.ts:116-140).                                                       *)
THEOREM Serially == Spec => []HandledSerially
<1>1. ConnectionInv => HandledSerially
  BY DEF ConnectionInv, InOrder, Chain, Busy, HandledSerially
<1> QED
  BY Invariance, <1>1, PTL

(* The process survives every handler and error handler but those that     *)
(* send too late or leave a response that cannot be made (app.ts:155-163,  *)
(* :191-200).                                                              *)
THEOREM Crashes == Spec => []CrashExplained
<1>1. ConnectionInv => CrashExplained
  BY DEF ConnectionInv
<1> QED
  BY Invariance, <1>1, PTL

(* A sequence is a prefix of what it begins.                               *)
LEMMA PrefixOfConcat ==
  ASSUME NEW S, NEW s \in Seq(S), NEW t \in Seq(S)
  PROVE  IsPrefix(s, s \o t)
BY DEF IsPrefix

(* A chunk that is fed is a step of the source, one that a failed parser   *)
(* drops is none (app.ts:118-127).                                         *)
LEMMA DataFeeds ==
  ASSUME TypeOK, NEW n \in Ids, Data(n)
  PROVE  [Source!Next]_(Source!source)
<1>1. PICK last \in arrived..n :
        /\ Finishes(last, n)
        /\ ready' = ready \o [i \in 1..(last - arrived) |-> arrived + i]
        /\ failed' = (failed \/ last < n)
  BY DEF Data
<1>2. UNCHANGED handled
  BY DEF Data
<1> DEFINE more == [i \in 1..(last - arrived) |-> arrived + i]
<1>3. /\ arrived \in Nat /\ last \in Nat /\ arrived <= last
      /\ last - arrived \in Nat /\ \A i \in 1..(last - arrived) : arrived + i \in Ids
  BY PlanType DEF TypeOK, Ids
<1>4. more \in Seq(Ids)
  BY <1>3, IsASeq
<1>5. CASE failed
  <2>1. last = arrived
    BY <1>1, <1>5 DEF Finishes
  <2>2. Len(more) = 0
    BY <1>3, <2>1
  <2>3. more = <<>>
    BY <1>4, <2>2, EmptySeq
  <2>4. ready' = ready
    BY <1>1, <2>3, ConcatEmptySeq DEF TypeOK
  <2> QED
    BY <1>1, <1>2, <1>5, <2>4 DEF Source!source, TypeOK
<1>6. CASE ~failed
  <2>1. ready' = ready \o more
    BY <1>1
  <2> HIDE DEF more
  <2>2. IsPrefix(ready, ready \o more)
    BY <1>4, PrefixOfConcat DEF TypeOK
  <2> QED
    BY <1>1, <1>2, <1>6, <2>1, <2>2 DEF Source!Next, Source!Feed, Source!IsPrefix, IsPrefix
<1> QED
  BY <1>5, <1>6

(* For the connection its parser is a MessageSource: chunks feed it, the   *)
(* drains take from it (app.ts:119, :136).                                 *)
THEOREM UsesItsSource == Spec => UsesSource
<1>1. Init => Source!Init
  BY DEF Init, Source!Init
<1>2. ConnectionInv /\ [Next]_vars => [Source!Next]_(Source!source)
  <2>1. SUFFICES ASSUME ConnectionInv, [Next]_vars
                 PROVE  [Source!Next]_(Source!source)
    OBVIOUS
  <2>2. CASE \E n \in Ids : Data(n)
    BY <2>1, <2>2, DataFeeds DEF ConnectionInv
  <2>3. CASE \E k \in 1..Len(tasks) : NextMessage(k)
    BY <2>3 DEF NextMessage, Rest, Source!Next, Source!Take, Source!source
  <2>4. CASE UNCHANGED <<ready, failed, handled>>
    BY <2>4 DEF Source!source
  <2>5. CASE \E k \in 1..Len(tasks) : Microtask(k) /\ ~NextMessage(k)
    BY <2>5 DEF Microtask, StartDrain, CallHandler, SafeError, FinishRequest,
                WriteParseError, EndAfterFin, Rest, Source!source
  <2>6. CASE \/ ClientFin \/ Timeout \/ AppClose \/ Flush
             \/ \E k \in 1..Len(tasks) : Resumption(k)
             \/ \E m \in Ids : LateSend(m)
    BY <2>6 DEF ClientFin, Timeout, AppClose, End, Flush, Resumption, HandlerResumes,
                ErrorHandlerResumes, LateSend, Rest, parser, Source!source
  <2>7. CASE UNCHANGED vars
    BY <2>7 DEF vars, Source!source
  <2> QED
    BY <2>1, <2>2, <2>3, <2>5, <2>6, <2>7 DEF Next
<1> QED
  BY <1>1, <1>2, Invariance, PTL DEF Spec, UsesSource, Source!Spec
=============================================================================
