----------------------------- MODULE AppServer -----------------------------
(***************************************************************************)
(* The life of a server of the framework: listen() of                      *)
(* src/src/framework/app.ts, the set activeSockets its socket handlers     *)
(* keep, the idle timeout, and close() of the AppHandle, which may be      *)
(* called more than once.                                                  *)
(*                                                                         *)
(* What happens on one connection is HttpConnection's; here a connection   *)
(* is what the server and the kernel see of it: a handler runs or not,     *)
(* bytes wait for the client or not, each half is open or ended.  A polite *)
(* client reads, and ends its half after the server has ended the other,   *)
(* as a net.Socket does; a rude one may never do either.                   *)
(***************************************************************************)
EXTENDS Naturals, FiniteSets

CONSTANTS
  Clients,      \* connections a server may get, each once
  Rude,         \* those of clients that owe nothing
  MaxRequests,  \* bound: requests on one connection
  MaxCalls      \* bound: calls of close()

ASSUME ClientAssumption == IsFiniteSet(Clients) /\ Rude \subseteq Clients
ASSUME BoundAssumption == MaxRequests \in Nat /\ MaxCalls \in Nat

VARIABLES
  server,         \* "new", "opening", "listening", "failed" or "closed"
  socket,         \* "none", "open", "destroyed", then "closed" when it said so
  activeSockets,  \* the set
  ended,          \* the server has ended its half
  fin,            \* the client has ended its half
  busy,           \* a handler is running
  pending,        \* response bytes the client has not taken
  requests,       \* environment: requests that have come
  calls,          \* the promise of each call of close()
  closing         \* the server's "close" event is due

halves == <<ended, fin>>
work == <<busy, pending, requests>>
vars == <<server, socket, activeSockets, ended, fin, busy, pending, requests,
          calls, closing>>

Call == 1..MaxCalls
CallState == {"none",      \* not called
              "waiting",   \* for the server's "close" event
              "refused",   \* the server was not running: the event rejects it
              "draining",  \* for activeSockets to become empty
              "resolved", "rejected"}

TypeOK ==
  /\ server \in {"new", "opening", "listening", "failed", "closed"}
  /\ socket \in [Clients -> {"none", "open", "destroyed", "closed"}]
  /\ activeSockets \subseteq Clients
  /\ ended \in [Clients -> BOOLEAN] /\ fin \in [Clients -> BOOLEAN]
  /\ busy \in [Clients -> BOOLEAN] /\ pending \in [Clients -> BOOLEAN]
  /\ requests \in [Clients -> 0..MaxRequests]
  /\ calls \in [Call -> CallState]
  /\ closing \in BOOLEAN

Open(c) == socket[c] = "open"
Connected == {c \in Clients : Open(c)}
-----------------------------------------------------------------------------
Init ==
  /\ server = "new"
  /\ socket = [c \in Clients |-> "none"]
  /\ activeSockets = {}
  /\ ended = [c \in Clients |-> FALSE] /\ fin = [c \in Clients |-> FALSE]
  /\ busy = [c \in Clients |-> FALSE] /\ pending = [c \in Clients |-> FALSE]
  /\ requests = [c \in Clients |-> 0]
  /\ calls = [i \in Call |-> "none"]
  /\ closing = FALSE

(* listen(): the promise resolves with a handle, or rejects, the port      *)
(* being taken.                                                            *)
Listen ==
  /\ server = "new"
  /\ server' = "opening"
  /\ UNCHANGED <<socket, activeSockets, halves, work, calls, closing>>

Opened ==
  /\ server = "opening"
  /\ server' \in {"listening", "failed"}
  /\ UNCHANGED <<socket, activeSockets, halves, work, calls, closing>>

(* The listener of createServer().                                         *)
Accept(c) ==
  /\ server = "listening"
  /\ socket[c] = "none"
  /\ socket' = [socket EXCEPT ![c] = "open"]
  /\ activeSockets' = activeSockets \cup {c}
  /\ UNCHANGED <<server, halves, work, calls, closing>>

(* A request comes, also on a half the server has ended.                   *)
Request(c) ==
  /\ Open(c) /\ ~fin[c] /\ ~busy[c]
  /\ requests[c] < MaxRequests
  /\ requests' = [requests EXCEPT ![c] = @ + 1]
  /\ busy' = [busy EXCEPT ![c] = TRUE]
  /\ UNCHANGED <<server, socket, activeSockets, halves, pending, calls, closing>>

(* Mutant of Destroy: the last connection does not tell the server.        *)
DestroySilently(c) ==
  /\ socket' = [socket EXCEPT ![c] = "destroyed"]
  /\ pending' = [pending EXCEPT ![c] = FALSE]
  /\ UNCHANGED closing

(* Node destroys a socket: the server has a connection less, and its       *)
(* "close" event is due when it was the last.                              *)
Destroy(c) ==
  /\ socket' = [socket EXCEPT ![c] = "destroyed"]
  /\ pending' = [pending EXCEPT ![c] = FALSE]
  /\ closing' = (closing \/ (server = "closed" /\ Connected \subseteq {c}))

(* The handler is done: its response is written, and the connection ended  *)
(* unless it is kept alive.  A write after the end destroys the socket, on *)
(* a destroyed one it does nothing.                                        *)
Respond(c, keepAlive) ==
  /\ busy[c]
  /\ busy' = [busy EXCEPT ![c] = FALSE]
  /\ \/ /\ Open(c) /\ ~ended[c]
        /\ pending' = [pending EXCEPT ![c] = TRUE]
        /\ ended' = [ended EXCEPT ![c] = ~keepAlive]
        /\ UNCHANGED <<socket, closing>>
     \/ Open(c) /\ ended[c] /\ Destroy(c) /\ UNCHANGED ended
     \/ ~Open(c) /\ UNCHANGED <<socket, pending, ended, closing>>
  /\ UNCHANGED <<server, activeSockets, fin, requests, calls>>

(* Mutant of Timeout: the timer runs until the first request only.         *)
TimeoutUnused(c) ==
  /\ Open(c) /\ ~ended[c] /\ requests[c] = 0
  /\ ended' = [ended EXCEPT ![c] = TRUE]
  /\ UNCHANGED <<server, socket, activeSockets, fin, work, calls, closing>>

(* socket.on("timeout"): nothing has passed for keepAliveTimeoutMs, though *)
(* a handler may be running.                                               *)
Timeout(c) ==
  /\ Open(c) /\ ~ended[c]
  /\ ended' = [ended EXCEPT ![c] = TRUE]
  /\ UNCHANGED <<server, socket, activeSockets, fin, work, calls, closing>>

(* The client takes what was written.                                      *)
Read(c) ==
  /\ Open(c) /\ pending[c]
  /\ pending' = [pending EXCEPT ![c] = FALSE]
  /\ UNCHANGED <<server, socket, activeSockets, halves, busy, requests, calls, closing>>

(* The client ends its half; Node then ends the other (allowHalfOpen is    *)
(* false).                                                                 *)
ClientFin(c) ==
  /\ Open(c) /\ ~fin[c]
  /\ fin' = [fin EXCEPT ![c] = TRUE]
  /\ ended' = [ended EXCEPT ![c] = TRUE]
  /\ UNCHANGED <<server, socket, activeSockets, work, calls, closing>>

(* Both halves are over and everything is written, or the client resets    *)
(* the connection.                                                         *)
Finished(c) == Open(c) /\ ended[c] /\ fin[c] /\ ~pending[c]

Finish(c) ==
  /\ Finished(c)
  /\ Destroy(c)
  /\ UNCHANGED <<server, activeSockets, halves, busy, requests, calls>>

ClientReset(c) ==
  /\ Open(c)
  /\ Destroy(c)
  /\ UNCHANGED <<server, activeSockets, halves, busy, requests, calls>>

(* socket.on("close")                                                      *)
SocketClosed(c) ==
  /\ socket[c] = "destroyed"
  /\ socket' = [socket EXCEPT ![c] = "closed"]
  /\ activeSockets' = activeSockets \ {c}
  /\ UNCHANGED <<server, halves, work, calls, closing>>
-----------------------------------------------------------------------------
(* Mutant of Close: a second call waits like the first.                    *)
CloseAgain(i) ==
  /\ server \in {"listening", "closed"}
  /\ calls[i] = "none" /\ \A j \in Call : j < i => calls[j] # "none"
  /\ server' = "closed"
  /\ calls' = [calls EXCEPT ![i] = "waiting"]
  /\ closing' = (closing \/ Connected = {})
  /\ ended' = [c \in Clients |-> ended[c] \/ c \in activeSockets]
  /\ UNCHANGED <<socket, activeSockets, fin, work>>

(* close() of the handle, up to its first await: server.close() stops the  *)
(* server, or refuses as it is not running; every active socket is ended.  *)
Close(i) ==
  /\ server \in {"listening", "closed"}
  /\ calls[i] = "none" /\ \A j \in Call : j < i => calls[j] # "none"
  /\ server' = "closed"
  /\ calls' = [calls EXCEPT ![i] = IF server = "listening" THEN "waiting" ELSE "refused"]
  /\ closing' = (closing \/ Connected = {})
  /\ ended' = [c \in Clients |-> ended[c] \/ c \in activeSockets]
  /\ UNCHANGED <<socket, activeSockets, fin, work>>

(* Mutant of ServerClosed: the sockets are not waited for.                 *)
ServerClosedAll ==
  /\ closing
  /\ closing' = FALSE
  /\ calls' = [i \in Call |-> IF calls[i] = "waiting" THEN "resolved"
                              ELSE IF calls[i] = "refused" THEN "rejected" ELSE calls[i]]
  /\ UNCHANGED <<server, socket, activeSockets, halves, work>>

(* The server's "close" event, to which every call so far has a listener.  *)
ServerClosed ==
  /\ closing
  /\ closing' = FALSE
  /\ calls' = [i \in Call |-> IF calls[i] = "waiting" THEN "draining"
                              ELSE IF calls[i] = "refused" THEN "rejected" ELSE calls[i]]
  /\ UNCHANGED <<server, socket, activeSockets, halves, work>>

(* while (activeSockets.size > 0) await setImmediate                       *)
Drained(i) ==
  /\ calls[i] = "draining" /\ activeSockets = {}
  /\ calls' = [calls EXCEPT ![i] = "resolved"]
  /\ UNCHANGED <<server, socket, activeSockets, halves, work, closing>>
-----------------------------------------------------------------------------
Next ==
  \/ Listen \/ Opened
  \/ \E c \in Clients :
       \/ Accept(c) \/ Request(c) \/ \E keepAlive \in BOOLEAN : Respond(c, keepAlive)
       \/ Timeout(c) \/ Read(c) \/ ClientFin(c) \/ Finish(c) \/ ClientReset(c)
       \/ SocketClosed(c)
  \/ \E i \in Call : Close(i) \/ Drained(i)
  \/ ServerClosed

(* Events are delivered and handlers come back.  The timer of a socket on  *)
(* which nothing happens fires; a polite client reads, and answers the     *)
(* server's FIN with its own.  Nobody has to listen, connect, send or      *)
(* close.                                                                  *)
Idle(c) == ~busy[c] /\ ~pending[c]
FinSeen(c) == ended[c] /\ ~pending[c]

Fairness ==
  /\ WF_vars(Opened) /\ WF_vars(ServerClosed)
  /\ \A i \in Call : WF_vars(Drained(i))
  /\ \A c \in Clients :
       /\ WF_vars(\E keepAlive \in BOOLEAN : Respond(c, keepAlive))
       /\ WF_vars(Idle(c) /\ Timeout(c))
       /\ WF_vars(Finish(c)) /\ WF_vars(SocketClosed(c))
  /\ \A c \in Clients \ Rude : WF_vars(Read(c)) /\ WF_vars(FinSeen(c) /\ ClientFin(c))

Spec == Init /\ [][Next]_vars /\ Fairness
-----------------------------------------------------------------------------
(* The inductive invariant.  activeSockets are the sockets that have not   *)
(* said they are closed; the server's "close" event and all that follows   *)
(* it find no connection, and only the first call found the server running. *)
ServerInv ==
  /\ TypeOK
  /\ activeSockets = {c \in Clients : socket[c] \in {"open", "destroyed"}}
  /\ closing => server = "closed" /\ Connected = {}
  /\ \A i \in Call :
       /\ calls[i] # "none" => server = "closed"
       /\ calls[i] \in {"waiting", "draining", "resolved"} => i = 1
       /\ calls[i] \in {"refused", "rejected"} => i > 1
       /\ calls[i] \in {"draining", "resolved", "rejected"} => Connected = {}
       /\ calls[i] = "resolved" => activeSockets = {}
  /\ server = "closed" /\ MaxCalls > 0 => calls[1] # "none"

(* When close() has resolved nothing of the server is left: it does not    *)
(* listen and every socket it ever had has been closed and forgotten,      *)
(* whichever of the server's and the sockets' "close" events came first    *)
(* (app.ts:217-224).                                                       *)
Gone == server = "closed" /\ activeSockets = {} /\ Connected = {}
CloseComplete == \A i \in Call : calls[i] = "resolved" => Gone

(* Only the first call resolves and none but it: a later one is rejected,  *)
(* even though the server does what it asks for, and neither settles       *)
(* before the last connection is gone.                                     *)
FirstCallResolves ==
  \A i \in Call :
    /\ calls[i] \in {"resolved", "draining"} => i = 1 /\ Connected = {}
    /\ calls[i] = "rejected" => i > 1 /\ Connected = {}

(* Every call settles, unless the half a rude client leaves open keeps a   *)
(* socket for ever: end() does not destroy (app.ts:220-224).               *)
Unsettled == {i \in Call : calls[i] \in {"waiting", "refused", "draining"}}
CallsSettle == []<>(Unsettled = {} \/ Rude \cap activeSockets # {})

(* No connection of a polite client stays, used or not, whether or not the *)
(* server is closed: the idle timeout ends it (app.ts:110-112).            *)
NothingLeaks == \A c \in Clients \ Rude : c \in activeSockets ~> c \notin activeSockets
=============================================================================
