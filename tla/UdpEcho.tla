------------------------------- MODULE UdpEcho -------------------------------
(***************************************************************************)
(* The UDP echo server of src/src/udp/echo-server.ts and its clients,      *)
(* src/src/udp/echo-client.ts, over a network that loses, duplicates and   *)
(* reorders datagrams.  A client arms a timer for every message it sends,  *)
(* to say that no answer has come, and a listener, once("message"), that   *)
(* clears it.                                                              *)
(***************************************************************************)
EXTENDS Naturals

CONSTANTS
  Clients,
  Leaving,        \* bound: clients that may exit
  MaxSends,       \* bound: messages of one client
  MaxDuplicates   \* bound: datagrams the network repeats

ASSUME BoundAssumption == Leaving \subseteq Clients /\ MaxSends \in Nat /\ MaxDuplicates \in Nat

Message == [by : Clients, number : 1..MaxSends]
Datagram == [dir : {"request", "reply"}, peer : Clients, msg : Message]

VARIABLES
  network,       \* datagrams on their way
  duplicates,    \* datagrams the network has repeated
  open,          \* the server's socket has not been closed
  messageCount,  \* the server's counter
  shuttingDown,  \* runUdpServer() has had its first signal
  sends,         \* messages each client has sent
  timer,         \* the timer of each message
  listeners,     \* messages whose listener is still installed
  quit,          \* clients whose process has exited
  answered       \* history: the echoes each client has got

server == <<open, messageCount, shuttingDown>>
client == <<sends, timer, listeners, quit, answered>>
vars == <<network, duplicates, server, client>>

TypeOK ==
  /\ network \subseteq Datagram /\ duplicates \in 0..MaxDuplicates
  /\ open \in BOOLEAN /\ shuttingDown \in BOOLEAN
  /\ messageCount \in Nat
  /\ sends \in [Clients -> 0..MaxSends]
  /\ timer \in [Message -> {"none", "armed", "reported", "cleared"}]
  /\ listeners \subseteq Message /\ quit \subseteq Clients
  /\ answered \in [Clients -> SUBSET Message]
-----------------------------------------------------------------------------
Init ==
  /\ network = {} /\ duplicates = 0
  /\ open = TRUE /\ messageCount = 0 /\ shuttingDown = FALSE
  /\ sends = [c \in Clients |-> 0]
  /\ timer = [m \in Message |-> "none"]
  /\ listeners = {} /\ quit = {} /\ answered = [c \in Clients |-> {}]

(* A datagram arrives, its place taken by those sent in answer; the        *)
(* network may keep a copy of it.                                          *)
Arrive(d, sent) ==
  \/ /\ network' = (network \ {d}) \cup sent
     /\ UNCHANGED duplicates
  \/ /\ duplicates < MaxDuplicates
     /\ duplicates' = duplicates + 1
     /\ network' = network \cup sent

Lose(d) ==
  /\ d \in network
  /\ network' = network \ {d}
  /\ UNCHANGED <<duplicates, server, client>>

To(c, d) == [dir |-> "reply", peer |-> c, msg |-> d.msg]

(* Mutant of ServerMessage: the reply goes to everyone the server has      *)
(* heard of.                                                               *)
ServerBroadcast(d) ==
  /\ open /\ d.dir = "request"
  /\ Arrive(d, {To(c, d) : c \in {x \in Clients : sends[x] > 0}})
  /\ messageCount' = messageCount + 1
  /\ UNCHANGED <<open, shuttingDown, client>>

(* socket.on("message") of the server: the datagram is counted and sent    *)
(* back to the address it came from.                                       *)
ServerMessage(d) ==
  /\ open /\ d.dir = "request"
  /\ Arrive(d, {To(d.peer, d)})
  /\ messageCount' = messageCount + 1
  /\ UNCHANGED <<open, shuttingDown, client>>

(* onSignal(): the first signal closes the socket; after it the server     *)
(* hears nothing, and a second one, which exits, changes nothing here.     *)
Signal ==
  /\ ~shuttingDown
  /\ shuttingDown' = TRUE
  /\ open' = FALSE
  /\ UNCHANGED <<network, duplicates, messageCount, client>>

(* Mutant of ClientSend: one timer for all messages.                       *)
ClientSendRearming(c) ==
  LET m == [by |-> c, number |-> sends[c] + 1]
  IN  /\ sends[c] < MaxSends /\ c \notin quit
      /\ sends' = [sends EXCEPT ![c] = @ + 1]
      /\ network' = network \cup {[dir |-> "request", peer |-> c, msg |-> m]}
      /\ timer' = [x \in Message |-> IF x = m THEN "armed"
                                     ELSE IF x.by = c /\ timer[x] = "armed" THEN "none"
                                     ELSE timer[x]]
      /\ listeners' = listeners \cup {m}
      /\ UNCHANGED <<duplicates, server, quit, answered>>

(* process.stdin.on("data"): send, arm a timer, install its listener.      *)
ClientSend(c) ==
  LET m == [by |-> c, number |-> sends[c] + 1]
  IN  /\ sends[c] < MaxSends /\ c \notin quit
      /\ sends' = [sends EXCEPT ![c] = @ + 1]
      /\ network' = network \cup {[dir |-> "request", peer |-> c, msg |-> m]}
      /\ timer' = [timer EXCEPT ![m] = "armed"]
      /\ listeners' = listeners \cup {m}
      /\ UNCHANGED <<duplicates, server, quit, answered>>

Waiting(c) == {m \in listeners : m.by = c}

(* Mutant of ClientMessage: one variable for all timers, so that only the  *)
(* newest is cleared.                                                      *)
ClientMessageNewest(d) ==
  LET newest == [by |-> d.peer, number |-> sends[d.peer]]
  IN  /\ d.dir = "reply" /\ d.peer \notin quit /\ Arrive(d, {})
      /\ timer' = [timer EXCEPT ![newest] = IF @ = "armed" THEN "cleared" ELSE @]
      /\ listeners' = listeners \ Waiting(d.peer)
      /\ answered' = [answered EXCEPT ![d.peer] = @ \cup {d.msg}]
      /\ UNCHANGED <<sends, quit, server>>

(* A datagram reaches the client: every listener installed runs once, and  *)
(* clears its timer.                                                       *)
ClientMessage(d) ==
  /\ d.dir = "reply" /\ d.peer \notin quit /\ Arrive(d, {})
  /\ timer' = [m \in Message |-> IF m \in Waiting(d.peer) /\ timer[m] = "armed"
                                 THEN "cleared" ELSE timer[m]]
  /\ listeners' = listeners \ Waiting(d.peer)
  /\ answered' = [answered EXCEPT ![d.peer] = @ \cup {d.msg}]
  /\ UNCHANGED <<sends, quit, server>>

(* The timer fires: "no response yet".                                     *)
TimerFires(m) ==
  /\ timer[m] = "armed" /\ m.by \notin quit
  /\ timer' = [timer EXCEPT ![m] = "reported"]
  /\ UNCHANGED <<network, duplicates, server, sends, listeners, quit, answered>>

(* process.stdin.on("end"): the socket is closed and the process exits,    *)
(* timers and all.  What comes for it now is lost.                         *)
Quit(c) ==
  /\ c \in Leaving \ quit
  /\ quit' = quit \cup {c}
  /\ UNCHANGED <<network, duplicates, server, sends, timer, listeners, answered>>

Next ==
  \/ \E d \in network : ServerMessage(d) \/ ClientMessage(d) \/ Lose(d)
  \/ \E c \in Clients : ClientSend(c) \/ Quit(c)
  \/ \E m \in Message : TimerFires(m)
  \/ Signal

(* Timers fire; of the network and the server nothing is promised.         *)
Spec == Init /\ [][Next]_vars /\ \A m \in Message : WF_vars(TimerFires(m))
-----------------------------------------------------------------------------
(* A client gets back what it sent and nothing of the others, with one     *)
(* socket serving them all (the rinfo of echo-server.ts:43-56).            *)
EchoesOwn ==
  \A c \in Clients : \A m \in answered[c] : m.by = c /\ m.number <= sends[c]

(* A message whose echo has come is not reported as unanswered later, in   *)
(* whatever order echoes come (echo-client.ts:35-40).                      *)
EchoedNotReported ==
  \A c \in Clients : \A m \in answered[c] : m.by = c => timer[m] # "armed"

(* A client to whom nothing at all comes back, and that stays, is told so  *)
(* for each message (echo-client.ts:35-43).  Any datagram that comes       *)
(* silences the timers of all messages sent before it (line 39), so once   *)
(* one has come nothing more can be said.                                  *)
SilenceTold ==
  \A m \in Message :
    timer[m] = "armed" ~> timer[m] = "reported" \/ answered[m.by] # {} \/ m.by \in quit
=============================================================================
