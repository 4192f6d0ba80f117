------------------------------- MODULE TcpEcho -------------------------------
(***************************************************************************)
(* The TCP echo server of src/src/tcp/echo-server.ts: its socket handlers  *)
(* with their backpressure, and the graceful close() of the handle.        *)
(*                                                                         *)
(* Bytes are counted, not named: a socket keeps them in order.  Of Node's  *)
(* net.Socket the model keeps what the handlers depend on: a paused socket *)
(* gives no data, but 'end' when nothing is left to read; 'drain' comes    *)
(* when the queue of writes is empty and end() has not been called; a      *)
(* write after end() destroys the socket; the server's socket ends itself  *)
(* after 'end' (allowHalfOpen is false) and is destroyed when both halves  *)
(* are closed.                                                             *)
(***************************************************************************)
EXTENDS Naturals

CONSTANTS
  Sockets,      \* the connections that may be made
  HighWater,    \* bytes in the write queue from which write() returns false
  MaxChunk,     \* bytes of the largest chunk a 'data' event carries
  MaxBytes,     \* bound: socket -> bytes its client sends
  Disturbances  \* what may happen at any moment: a subset of {"reset", "close"}

ASSUME SizeAssumption == /\ HighWater \in Nat \ {0} /\ MaxChunk \in Nat \ {0}
                         /\ MaxBytes \in [Sockets -> Nat]
ASSUME DisturbanceAssumption == Disturbances \subseteq {"reset", "close"}

VARIABLES
  conn,     \* the sockets, and what their clients have done
  closing   \* close(): not called, server.close() under way, its promise
            \* resolved, or returned

vars == <<conn, closing>>

Connection ==
  [state : {"new", "open", "destroyed", "closed"},
   sent : Nat,          \* bytes the client has sent
   fin : BOOLEAN,       \* and its FIN
   read : Nat,          \* bytes read, and taken by write()
   ended : BOOLEAN,     \* 'end' has been emitted
   paused : BOOLEAN,    \* paused, with a listener for 'drain'
   queued : Nat,        \* bytes in the write queue
   ending : BOOLEAN,    \* end() has been called
   shut : BOOLEAN,      \* the server's FIN has left
   received : Nat,      \* bytes echoed to the client
   fault : {"none", "reset", "write after end"}]   \* what destroyed it

Fresh == [state |-> "new", sent |-> 0, fin |-> FALSE, read |-> 0,
          ended |-> FALSE, paused |-> FALSE, queued |-> 0, ending |-> FALSE,
          shut |-> FALSE, received |-> 0, fault |-> "none"]

TypeOK ==
  /\ conn \in [Sockets -> Connection]
  /\ closing \in {"no", "waiting", "drained", "done"}

Open(s) == conn[s].state = "open"
activeSockets == {s \in Sockets : conn[s].state \in {"open", "destroyed"}}
-----------------------------------------------------------------------------
Init == conn = [s \in Sockets |-> Fresh] /\ closing = "no"

(* net.createServer's listener: activeSockets.add(socket).                 *)
Connect(s) ==
  /\ closing = "no"
  /\ conn[s].state = "new"
  /\ conn' = [conn EXCEPT ![s].state = "open"]
  /\ UNCHANGED closing

ClientSend(s, n) ==
  /\ Open(s) /\ ~conn[s].fin
  /\ conn[s].sent + n <= MaxBytes[s]
  /\ conn' = [conn EXCEPT ![s].sent = @ + n]
  /\ UNCHANGED closing

ClientFin(s) ==
  /\ Open(s) /\ ~conn[s].fin
  /\ conn' = [conn EXCEPT ![s].fin = TRUE]
  /\ UNCHANGED closing

(* An RST, or the client's process dying.                                  *)
ClientReset(s) ==
  /\ "reset" \in Disturbances /\ Open(s)
  /\ conn' = [conn EXCEPT ![s].state = "destroyed", ![s].queued = 0,
                          ![s].fault = "reset"]
  /\ UNCHANGED closing

Readable(s, n) == /\ Open(s) /\ ~conn[s].paused /\ ~conn[s].ended
                  /\ conn[s].read + n <= conn[s].sent

(* Mutant of Data: the value of write() is ignored.                        *)
DataUnpaused(s, n) ==
  /\ Readable(s, n)
  /\ UNCHANGED closing
  /\ \/ /\ ~conn[s].ending
        /\ conn' = [conn EXCEPT ![s].read = @ + n, ![s].queued = @ + n]
     \/ /\ conn[s].ending
        /\ conn' = [conn EXCEPT ![s].state = "destroyed", ![s].queued = 0,
                                ![s].fault = "write after end"]

(* socket.on("data"): write the chunk back; pause when write() says the    *)
(* queue is full, until 'drain'.                                           *)
Data(s, n) ==
  /\ Readable(s, n)
  /\ UNCHANGED closing
  /\ \/ /\ ~conn[s].ending
        /\ conn' = [conn EXCEPT ![s].read = @ + n, ![s].queued = @ + n,
                                ![s].paused = conn[s].queued + n >= HighWater]
     \/ /\ conn[s].ending
        /\ conn' = [conn EXCEPT ![s].state = "destroyed", ![s].queued = 0,
                                ![s].fault = "write after end"]

(* Mutant of End: a half-open socket, its 'end' handler only logging.      *)
EndHalfOpen(s) ==
  /\ Open(s) /\ conn[s].fin /\ ~conn[s].ended
  /\ conn[s].read = conn[s].sent
  /\ conn' = [conn EXCEPT ![s].ended = TRUE]
  /\ UNCHANGED closing

(* 'end', after which the socket calls end() by itself.                    *)
End(s) ==
  /\ Open(s) /\ conn[s].fin /\ ~conn[s].ended
  /\ conn[s].read = conn[s].sent
  /\ conn' = [conn EXCEPT ![s].ended = TRUE, ![s].ending = TRUE]
  /\ UNCHANGED closing

(* Mutant of Flush: 'drain' has no listener.                               *)
FlushUnheard(s, n) ==
  /\ Open(s) /\ n <= conn[s].queued
  /\ conn' = [conn EXCEPT ![s].queued = @ - n, ![s].received = @ + n]
  /\ UNCHANGED closing

(* Writes complete; with the last of them comes 'drain', and resume().     *)
Flush(s, n) ==
  /\ Open(s) /\ n <= conn[s].queued
  /\ conn' = [conn EXCEPT ![s].queued = @ - n, ![s].received = @ + n,
                          ![s].paused = @ /\ (n < conn[s].queued \/ conn[s].ending)]
  /\ UNCHANGED closing

(* Mutant of Shut: the queue is not waited for, as by destroySoon().       *)
ShutAtOnce(s) ==
  /\ Open(s) /\ conn[s].ending /\ ~conn[s].shut
  /\ conn' = [conn EXCEPT ![s].shut = TRUE]
  /\ UNCHANGED closing

(* The queue of an ending socket is empty: its FIN leaves.                 *)
Shut(s) ==
  /\ Open(s) /\ conn[s].ending /\ ~conn[s].shut
  /\ conn[s].queued = 0
  /\ conn' = [conn EXCEPT ![s].shut = TRUE]
  /\ UNCHANGED closing

Destroy(s) ==
  /\ Open(s) /\ conn[s].ended /\ conn[s].shut
  /\ conn' = [conn EXCEPT ![s].state = "destroyed"]
  /\ UNCHANGED closing

(* socket.on("close"): activeSockets.delete(socket).                       *)
Closed(s) ==
  /\ conn[s].state = "destroyed"
  /\ conn' = [conn EXCEPT ![s].state = "closed"]
  /\ UNCHANGED closing
-----------------------------------------------------------------------------
(* close(): no more connections; socket.end() for each of activeSockets.   *)
Close ==
  /\ "close" \in Disturbances
  /\ closing = "no" /\ closing' = "waiting"
  /\ conn' = [s \in Sockets |->
                IF s \in activeSockets THEN [conn[s] EXCEPT !.ending = TRUE] ELSE conn[s]]

(* The server's 'close': every socket has been destroyed, but may not have *)
(* emitted its own yet.                                                    *)
ServerClosed ==
  /\ closing = "waiting"
  /\ \A s \in Sockets : ~Open(s)
  /\ closing' = "drained"
  /\ UNCHANGED conn

(* Mutant of CloseReturns: without the last loop of close().               *)
CloseReturnsEarly ==
  /\ closing = "drained"
  /\ closing' = "done"
  /\ UNCHANGED conn

(* while (activeSockets.size > 0)                                          *)
CloseReturns ==
  /\ closing = "drained"
  /\ activeSockets = {}
  /\ closing' = "done"
  /\ UNCHANGED conn
-----------------------------------------------------------------------------
Chunk == 1..MaxChunk

Reads(s) == (\E n \in Chunk : Data(s, n)) \/ End(s)
Writes(s) == (\E n \in 1..conn[s].queued : Flush(s, n)) \/ Shut(s)
Ends(s) == Destroy(s) \/ Closed(s)

Next ==
  \/ \E s \in Sockets :
       \/ Connect(s) \/ ClientFin(s) \/ ClientReset(s)
       \/ \E n \in Chunk : ClientSend(s, n)
       \/ Reads(s) \/ Writes(s) \/ Ends(s)
  \/ Close \/ ServerClosed \/ CloseReturns

(* The server's events are delivered, the client reads what it is sent,    *)
(* and a client that has got the server's FIN sends its own (it is a       *)
(* net.Socket with allowHalfOpen false).  Nobody owes bytes.               *)
Fairness ==
  /\ \A s \in Sockets : /\ WF_vars(Reads(s)) /\ WF_vars(Writes(s)) /\ WF_vars(Ends(s))
                        /\ WF_vars(conn[s].shut /\ ClientFin(s))
  /\ WF_vars(ServerClosed) /\ WF_vars(CloseReturns)

Spec == Init /\ [][Next]_vars /\ Fairness
-----------------------------------------------------------------------------
(* The write queue stays within one chunk of the high-water mark, however  *)
(* slowly the client reads (the pause of echo-server.ts:62-69).            *)
QueueBounded == \A s \in Sockets : conn[s].queued < HighWater + MaxChunk

(* A socket that neither a reset nor a write after end() destroyed has     *)
(* echoed every byte its client sent before it is closed.                  *)
EchoedWhole ==
  \A s \in Sockets :
    conn[s].state \in {"destroyed", "closed"} /\ conn[s].fault = "none" =>
      conn[s].received = conn[s].sent

(* close() returns with no socket left, though the server's own 'close'    *)
(* may come first (echo-server.ts:127-131).                                *)
CloseDrains ==
  closing = "done" => \A s \in Sockets : conn[s].state \in {"new", "closed"}

(* A paused socket reads again or is closed, until close() is called: no   *)
(* 'drain' is missed (echo-server.ts:64-67).  After it: see CloseCompletes.*)
Closing == closing # "no"
Resumes ==
  \A s \in Sockets : conn[s].paused ~> ~conn[s].paused \/ ~Open(s) \/ Closing

(* A client that sends its FIN gets the server's, with all its bytes       *)
(* before it (EchoedWhole), and its socket is forgotten: the server relies *)
(* on allowHalfOpen, its 'end' handler only logs (echo-server.ts:76-78).   *)
FinCloses == \A s \in Sockets : conn[s].fin ~> conn[s].state = "closed" \/ Closing

(* echo-server.ts:22, translated: close() "refuses new connections and     *)
(* waits until all active connections are over": it returns.               *)
CloseCompletes == closing = "waiting" ~> closing = "done"

(* The inductive invariant behind QueueBounded, EchoedWhole, CloseDrains.  *)
Accounted(c) ==
  /\ c.queued < HighWater + MaxChunk
  /\ c.state \in {"new", "open"} =>
       /\ c.read = c.queued + c.received
       /\ ~c.paused => c.queued < HighWater
       /\ c.shut => c.ending /\ c.queued = 0
  /\ c.ended => c.fin /\ c.read = c.sent /\ c.ending
  /\ c.state \in {"destroyed", "closed"} /\ c.fault = "none" => c.received = c.sent
EchoInv ==
  /\ TypeOK
  /\ \A s \in Sockets : Accounted(conn[s])
  /\ closing \in {"drained", "done"} => \A s \in Sockets : ~Open(s)
  /\ CloseDrains
=============================================================================
