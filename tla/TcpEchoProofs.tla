---------------------------- MODULE TcpEchoProofs ----------------------------
(***************************************************************************)
(* The bound on the write queue, the wholeness of the echo and what        *)
(* close() waits for, for every set of sockets, mark and chunk size.       *)
(***************************************************************************)
EXTENDS TcpEcho, TLAPS

USE SizeAssumption, DisturbanceAssumption DEF Chunk

(* A step that rewrites one socket into another of the type keeps the      *)
(* others as they were.                                                    *)
LEMMA OneSocket ==
  ASSUME TypeOK, NEW s \in Sockets, NEW c \in Connection,
         conn' = [conn EXCEPT ![s] = c]
  PROVE  /\ conn' \in [Sockets -> Connection]
         /\ conn'[s] = c
         /\ \A t \in Sockets : t # s => conn'[t] = conn[t]
BY DEF TypeOK

(* A step of socket s that leaves closing alone preserves the invariant if *)
(* it keeps the accounts of s and does not reopen s.                       *)
LEMMA LocalStep ==
  ASSUME EchoInv, UNCHANGED closing, NEW s \in Sockets, NEW c \in Connection,
         conn' = [conn EXCEPT ![s] = c], Accounted(c),
         closing \in {"drained", "done"} => c.state # "open",
         closing = "done" => c.state \in {"new", "closed"}
  PROVE  EchoInv'
<1>1. /\ conn' \in [Sockets -> Connection]
      /\ conn'[s] = c
      /\ \A t \in Sockets : t # s => conn'[t] = conn[t]
  BY OneSocket DEF EchoInv
<1>2. TypeOK'
  BY <1>1 DEF EchoInv, TypeOK
<1>3. \A t \in Sockets : Accounted(conn'[t])
  BY <1>1 DEF EchoInv
<1>4. closing' \in {"drained", "done"} => \A t \in Sockets : conn'[t].state # "open"
  BY <1>1 DEF EchoInv, Open
<1>5. closing' = "done" => \A t \in Sockets : conn'[t].state \in {"new", "closed"}
  BY <1>1 DEF EchoInv, CloseDrains
<1> QED
  BY <1>2, <1>3, <1>4, <1>5 DEF EchoInv, Open, CloseDrains, Accounted

(* The invariant holds before the first connection (echo-server.ts:45-46). *)
LEMMA Initially == Init => EchoInv
<1> SUFFICES ASSUME Init PROVE EchoInv
  OBVIOUS
<1>1. Fresh \in Connection /\ Accounted(Fresh)
  BY DEF Fresh, Connection, Accounted
<1>2. \A s \in Sockets : conn[s] = Fresh
  BY DEF Init
<1> QED
  BY <1>1, <1>2 DEF Init, EchoInv, TypeOK, CloseDrains, Open, Fresh

(* The fields of a connection have their types.                            *)
LEMMA Fields ==
  ASSUME NEW c \in Connection
  PROVE  c.sent \in Nat /\ c.read \in Nat /\ c.queued \in Nat /\ c.received \in Nat
BY DEF Connection

(* The steps of a client.                                                  *)
LEMMA ClientSteps ==
  ASSUME EchoInv, NEW s \in Sockets,
         \/ Connect(s) \/ ClientFin(s) \/ ClientReset(s)
         \/ \E n \in Chunk : ClientSend(s, n)
  PROVE  EchoInv'
<1>0. conn[s] \in Connection /\ Accounted(conn[s])
  BY DEF EchoInv, TypeOK
<1>1. closing \in {"drained", "done"} => ~Open(s)
  BY DEF EchoInv
<1>2. CASE Connect(s)
  <2> DEFINE c == [conn[s] EXCEPT !.state = "open"]
  <2>1. conn' = [conn EXCEPT ![s] = c] /\ UNCHANGED closing
    BY <1>2 DEF Connect
  <2>2. c \in Connection
    BY <1>0 DEF Connection
  <2>3. Accounted(c)
    BY <1>0, <1>2, Fields DEF Accounted, Connection, Open, Connect
  <2>4. closing = "done" => c.state \in {"new", "closed"}
    BY <1>0, <1>1, <1>2 DEF Connect, Open, Connection
  <2>5. closing \in {"drained", "done"} => c.state # "open"
    BY <1>0, <1>1, <1>2 DEF Connect, Open, Connection
  <2> HIDE DEF c
  <2> QED
    BY <2>1, <2>2, <2>3, <2>4, <2>5, LocalStep
<1>3. CASE \E n \in Chunk : ClientSend(s, n)
  <2> PICK n \in Chunk : ClientSend(s, n)
    BY <1>3
  <2>0. n \in Nat
    BY <1>0, Fields
  <2> DEFINE c == [conn[s] EXCEPT !.sent = @ + n]
  <2>1. conn' = [conn EXCEPT ![s] = c] /\ UNCHANGED closing
    BY DEF ClientSend
  <2>2. c \in Connection
    <3>1. conn[s].sent + n \in Nat
      BY <1>0, <2>0, Fields DEF ClientSend
    <3> QED
      BY <1>0, <3>1 DEF Connection
  <2>3. Accounted(c)
    BY <1>0, <2>0, Fields DEF Accounted, Connection, Open, ClientSend
  <2>4. closing = "done" => c.state \in {"new", "closed"}
    BY <1>0, <1>1 DEF ClientSend, Open, Connection
  <2>5. closing \in {"drained", "done"} => c.state # "open"
    BY <1>0, <1>1 DEF ClientSend, Open, Connection
  <2> HIDE DEF c
  <2> QED
    BY <2>1, <2>2, <2>3, <2>4, <2>5, LocalStep
<1>4. CASE ClientFin(s)
  <2> DEFINE c == [conn[s] EXCEPT !.fin = TRUE]
  <2>1. conn' = [conn EXCEPT ![s] = c] /\ UNCHANGED closing
    BY <1>4 DEF ClientFin
  <2>2. c \in Connection
    BY <1>0 DEF Connection
  <2>3. Accounted(c)
    BY <1>0, <1>4, Fields DEF Accounted, Connection, Open, ClientFin
  <2>4. closing = "done" => c.state \in {"new", "closed"}
    BY <1>0, <1>1, <1>4 DEF ClientFin, Open, Connection
  <2>5. closing \in {"drained", "done"} => c.state # "open"
    BY <1>0, <1>1, <1>4 DEF ClientFin, Open, Connection
  <2> HIDE DEF c
  <2> QED
    BY <2>1, <2>2, <2>3, <2>4, <2>5, LocalStep
<1>5. CASE ClientReset(s)
  <2> DEFINE c == [conn[s] EXCEPT !.state = "destroyed", !.queued = 0, !.fault = "reset"]
  <2>1. conn' = [conn EXCEPT ![s] = c] /\ UNCHANGED closing
    BY <1>5 DEF ClientReset
  <2>2. c \in Connection
    BY <1>0 DEF Connection
  <2>3. Accounted(c)
    <3>1. /\ c.state = "destroyed" /\ c.sent = conn[s].sent /\ c.read = conn[s].read
          /\ c.queued = 0 /\ c.received = conn[s].received /\ c.fault = "reset"
      BY <1>0 DEF Connection
    <3>2. /\ (c.fin <=> conn[s].fin) /\ (c.ended <=> conn[s].ended)
          /\ (c.paused <=> conn[s].paused)
          /\ (c.ending <=> conn[s].ending) /\ (c.shut <=> conn[s].shut)
      BY <1>0 DEF Connection
    <3> QED
      BY <1>0, <1>5, Fields, <3>1, <3>2 DEF Accounted, Open, ClientReset
  <2>4. closing = "done" => c.state \in {"new", "closed"}
    BY <1>0, <1>1, <1>5 DEF ClientReset, Open, Connection
  <2>5. closing \in {"drained", "done"} => c.state # "open"
    BY <1>0, <1>1, <1>5 DEF ClientReset, Open, Connection
  <2> HIDE DEF c
  <2> QED
    BY <2>1, <2>2, <2>3, <2>4, <2>5, LocalStep
<1> QED
  BY <1>2, <1>3, <1>4, <1>5

(* What the 'data' handler does, and the rest of the server's socket.      *)
LEMMA DataStep ==
  ASSUME EchoInv, NEW s \in Sockets, NEW n \in Chunk, Data(s, n)
  PROVE  EchoInv'
<1>0. conn[s] \in Connection /\ Accounted(conn[s])
  BY DEF EchoInv, TypeOK
<1>1. closing \in {"drained", "done"} => ~Open(s)
  BY DEF EchoInv
<1>2. n \in Nat /\ n <= MaxChunk
  OBVIOUS
<1>3. Open(s) /\ ~conn[s].paused /\ ~conn[s].ended
  BY DEF Data, Readable
<1>4. CASE ~conn[s].ending
  <2> DEFINE c == [conn[s] EXCEPT !.read = @ + n, !.queued = @ + n,
                                  !.paused = conn[s].queued + n >= HighWater]
  <2>1. conn' = [conn EXCEPT ![s] = c] /\ UNCHANGED closing
    BY <1>4 DEF Data
  <2>2. c \in Connection
    <3>1. conn[s].read + n \in Nat /\ conn[s].queued + n \in Nat
      BY <1>0, <1>2, Fields
    <3>2. (conn[s].queued + n >= HighWater) \in BOOLEAN
      OBVIOUS
    <3> QED
      BY <1>0, <3>1, <3>2 DEF Connection
  <2>3. /\ c.queued = conn[s].queued + n /\ c.read = conn[s].read + n
        /\ c.received = conn[s].received /\ c.state = "open"
        /\ c.paused <=> conn[s].queued + n >= HighWater
    BY <1>0, <1>3 DEF Connection, Open
  <2>4. ~c.ended /\ (c.shut <=> conn[s].shut)
    BY <1>0, <1>3 DEF Connection
  <2>5. Accounted(c)
    BY <1>0, <1>2, <1>3, <1>4, <2>3, <2>4, Fields DEF Accounted, Open
  <2> HIDE DEF c
  <2> QED
    BY <1>1, <1>3, <2>1, <2>2, <2>5, LocalStep
<1>5. CASE conn[s].ending
  <2> DEFINE c == [conn[s] EXCEPT !.state = "destroyed", !.queued = 0,
                                  !.fault = "write after end"]
  <2>1. conn' = [conn EXCEPT ![s] = c] /\ UNCHANGED closing
    BY <1>5 DEF Data
  <2>2. c \in Connection
    BY <1>0 DEF Connection
  <2>3. Accounted(c)
    <3>1. /\ c.state = "destroyed" /\ c.sent = conn[s].sent /\ c.read = conn[s].read
          /\ c.queued = 0 /\ c.received = conn[s].received /\ c.fault = "write after end"
      BY <1>0 DEF Connection
    <3>2. /\ (c.fin <=> conn[s].fin) /\ (c.ended <=> conn[s].ended)
          /\ (c.paused <=> conn[s].paused)
          /\ (c.ending <=> conn[s].ending) /\ (c.shut <=> conn[s].shut)
      BY <1>0 DEF Connection
    <3> QED
      BY <1>0, <1>3, <3>1, <3>2 DEF Accounted
  <2> HIDE DEF c
  <2> QED
    BY <1>1, <1>3, <2>1, <2>2, <2>3, LocalStep
<1> QED
  BY <1>4, <1>5

(* Every step of a socket that exists preserves the invariant (echo-       *)
(* server.ts:62-94).                                                       *)
LEMMA SocketSteps ==
  ASSUME EchoInv, NEW s \in Sockets, Reads(s) \/ Writes(s) \/ Ends(s)
  PROVE  EchoInv'
<1>0. conn[s] \in Connection /\ Accounted(conn[s])
  BY DEF EchoInv, TypeOK
<1>1. closing \in {"drained", "done"} => ~Open(s)
  BY DEF EchoInv
<1>2. CASE End(s)
  <2> DEFINE c == [conn[s] EXCEPT !.ended = TRUE, !.ending = TRUE]
  <2>1. conn' = [conn EXCEPT ![s] = c] /\ UNCHANGED closing
    BY <1>2 DEF End
  <2>2. c \in Connection
    BY <1>0 DEF Connection
  <2>3. Accounted(c)
    BY <1>0, <1>2, Fields DEF Accounted, Connection, Open, End
  <2>4. closing = "done" => c.state \in {"new", "closed"}
    BY <1>0, <1>1, <1>2 DEF End, Open, Connection
  <2>5. closing \in {"drained", "done"} => c.state # "open"
    BY <1>0, <1>1, <1>2 DEF End, Open, Connection
  <2> HIDE DEF c
  <2> QED
    BY <2>1, <2>2, <2>3, <2>4, <2>5, LocalStep
<1>3. CASE \E n \in 1..conn[s].queued : Flush(s, n)
  <2> PICK n \in 1..conn[s].queued : Flush(s, n)
    BY <1>3
  <2>0. n \in Nat /\ n <= conn[s].queued
    BY <1>0, Fields
  <2> DEFINE c == [conn[s] EXCEPT !.queued = @ - n, !.received = @ + n, !.paused = @ /\ (n < conn[s].queued \/ conn[s].ending)]
  <2>1. conn' = [conn EXCEPT ![s] = c] /\ UNCHANGED closing
    BY DEF Flush
  <2>2. c \in Connection
    <3>1. conn[s].queued - n \in Nat /\ conn[s].received + n \in Nat
      BY <1>0, <2>0, Fields DEF Flush
    <3> QED
      BY <1>0, <3>1 DEF Connection
  <2>3. Accounted(c)
    <3>1. /\ c.state = conn[s].state /\ c.sent = conn[s].sent /\ c.read = conn[s].read
          /\ c.queued = conn[s].queued - n /\ c.received = conn[s].received + n /\ c.fault = conn[s].fault
      BY <1>0 DEF Connection
    <3>2. /\ (c.fin <=> conn[s].fin) /\ (c.ended <=> conn[s].ended)
          /\ (c.paused <=> conn[s].paused /\ (n < conn[s].queued \/ conn[s].ending))
          /\ (c.ending <=> conn[s].ending) /\ (c.shut <=> conn[s].shut)
      BY <1>0 DEF Connection
    <3> QED
      BY <1>0, <2>0, Fields, <3>1, <3>2 DEF Accounted, Open, Flush
  <2>4. closing = "done" => c.state \in {"new", "closed"}
    BY <1>0, <1>1 DEF Flush, Open, Connection
  <2>5. closing \in {"drained", "done"} => c.state # "open"
    BY <1>0, <1>1 DEF Flush, Open, Connection
  <2> HIDE DEF c
  <2> QED
    BY <2>1, <2>2, <2>3, <2>4, <2>5, LocalStep
<1>4. CASE Shut(s)
  <2> DEFINE c == [conn[s] EXCEPT !.shut = TRUE]
  <2>1. conn' = [conn EXCEPT ![s] = c] /\ UNCHANGED closing
    BY <1>4 DEF Shut
  <2>2. c \in Connection
    BY <1>0 DEF Connection
  <2>3. Accounted(c)
    BY <1>0, <1>4, Fields DEF Accounted, Connection, Open, Shut
  <2>4. closing = "done" => c.state \in {"new", "closed"}
    BY <1>0, <1>1, <1>4 DEF Shut, Open, Connection
  <2>5. closing \in {"drained", "done"} => c.state # "open"
    BY <1>0, <1>1, <1>4 DEF Shut, Open, Connection
  <2> HIDE DEF c
  <2> QED
    BY <2>1, <2>2, <2>3, <2>4, <2>5, LocalStep
<1>5. CASE Destroy(s)
  <2> DEFINE c == [conn[s] EXCEPT !.state = "destroyed"]
  <2>1. conn' = [conn EXCEPT ![s] = c] /\ UNCHANGED closing
    BY <1>5 DEF Destroy
  <2>2. c \in Connection
    BY <1>0 DEF Connection
  <2>3. Accounted(c)
    <3>1. /\ c.state = "destroyed" /\ c.sent = conn[s].sent /\ c.read = conn[s].read
          /\ c.queued = conn[s].queued /\ c.received = conn[s].received /\ c.fault = conn[s].fault
      BY <1>0 DEF Connection
    <3>2. /\ (c.fin <=> conn[s].fin) /\ (c.ended <=> conn[s].ended)
          /\ (c.paused <=> conn[s].paused)
          /\ (c.ending <=> conn[s].ending) /\ (c.shut <=> conn[s].shut)
      BY <1>0 DEF Connection
    <3> QED
      BY <1>0, <1>5, Fields, <3>1, <3>2 DEF Accounted, Open, Destroy
  <2>4. closing = "done" => c.state \in {"new", "closed"}
    BY <1>0, <1>1, <1>5 DEF Destroy, Open, Connection
  <2>5. closing \in {"drained", "done"} => c.state # "open"
    BY <1>0, <1>1, <1>5 DEF Destroy, Open, Connection
  <2> HIDE DEF c
  <2> QED
    BY <2>1, <2>2, <2>3, <2>4, <2>5, LocalStep
<1>6. CASE Closed(s)
  <2> DEFINE c == [conn[s] EXCEPT !.state = "closed"]
  <2>1. conn' = [conn EXCEPT ![s] = c] /\ UNCHANGED closing
    BY <1>6 DEF Closed
  <2>2. c \in Connection
    BY <1>0 DEF Connection
  <2>3. Accounted(c)
    BY <1>0, <1>6, Fields DEF Accounted, Connection, Open, Closed
  <2>4. closing = "done" => c.state \in {"new", "closed"}
    BY <1>0, <1>1, <1>6 DEF Closed, Open, Connection
  <2>5. closing \in {"drained", "done"} => c.state # "open"
    BY <1>0, <1>1, <1>6 DEF Closed, Open, Connection
  <2> HIDE DEF c
  <2> QED
    BY <2>1, <2>2, <2>3, <2>4, <2>5, LocalStep
<1> QED
  BY <1>2, <1>3, <1>4, <1>5, <1>6, DataStep DEF Reads, Writes, Ends

(* The steps of close().                                                   *)
LEMMA CloseSteps ==
  ASSUME EchoInv, Close \/ ServerClosed \/ CloseReturns
  PROVE  EchoInv'
<1>1. CASE Close
  <2>1. \A s \in Sockets : conn'[s] \in Connection /\ Accounted(conn'[s])
    <3> SUFFICES ASSUME NEW s \in Sockets
                 PROVE  conn'[s] \in Connection /\ Accounted(conn'[s])
      OBVIOUS
    <3>1. conn[s] \in Connection /\ Accounted(conn[s])
      BY DEF EchoInv, TypeOK
    <3>2. [conn[s] EXCEPT !.ending = TRUE] \in Connection
      BY <3>1 DEF Connection
    <3>3. Accounted([conn[s] EXCEPT !.ending = TRUE])
      BY <3>1 DEF Accounted, Connection
    <3> QED
      BY <1>1, <3>1, <3>2, <3>3 DEF Close
  <2>2. conn' \in [Sockets -> Connection]
    BY <1>1, <2>1 DEF Close
  <2> QED
    BY <1>1, <2>1, <2>2 DEF Close, EchoInv, TypeOK, CloseDrains, Accounted
<1>2. CASE ServerClosed
  BY <1>2 DEF ServerClosed, EchoInv, TypeOK, CloseDrains, Open, Accounted
<1>3. CASE CloseReturns
  <2>1. \A s \in Sockets : conn[s].state \in {"new", "closed"}
    BY <1>3 DEF CloseReturns, activeSockets, EchoInv, TypeOK, Connection
  <2> QED
    BY <1>3, <2>1 DEF CloseReturns, EchoInv, TypeOK, CloseDrains, Open, Accounted
<1> QED
  BY <1>1, <1>2, <1>3

(* The invariant of the echo server, for every value of the constants.     *)
THEOREM Invariance == Spec => []EchoInv
<1>1. EchoInv /\ [Next]_vars => EchoInv'
  <2> SUFFICES ASSUME EchoInv, [Next]_vars PROVE EchoInv'
    OBVIOUS
  <2>1. CASE Next
    BY <2>1, ClientSteps, SocketSteps, CloseSteps DEF Next
  <2>2. CASE UNCHANGED vars
    BY <2>2 DEF vars, EchoInv, TypeOK, CloseDrains, Open, Accounted
  <2> QED
    BY <2>1, <2>2
<1> QED
  BY Initially, <1>1, PTL DEF Spec

(* The write queue of a socket never reaches a chunk more than the mark.   *)
THEOREM Bounded == Spec => []QueueBounded
<1>1. EchoInv => QueueBounded
  BY DEF EchoInv, Accounted, QueueBounded
<1> QED
  BY Invariance, <1>1, PTL

(* A socket closed in good order has echoed all its client sent.           *)
THEOREM Whole == Spec => []EchoedWhole
<1>1. EchoInv => EchoedWhole
  BY DEF EchoInv, Accounted, EchoedWhole
<1> QED
  BY Invariance, <1>1, PTL

(* close() returns only when no socket is left.                            *)
THEOREM Drained == Spec => []CloseDrains
<1>1. EchoInv => CloseDrains
  BY DEF EchoInv
<1> QED
  BY Invariance, <1>1, PTL
=============================================================================
