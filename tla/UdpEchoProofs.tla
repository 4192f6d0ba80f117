--------------------------- MODULE UdpEchoProofs ---------------------------
(***************************************************************************)
(* Theorems about UdpEcho for any number of clients, any number of         *)
(* datagrams sent and repeated, and every order in which they come.        *)
(***************************************************************************)
EXTENDS UdpEcho, TLAPS

(* Every datagram on its way belongs to a message its peer has sent.       *)
OwnDatagrams ==
  \A d \in network : d.msg.by = d.peer /\ d.msg.number <= sends[d.peer]

(* A timer runs only while the listener that clears it is installed, and   *)
(* of a message not yet sent there is neither.                             *)
TimersHeard == \A m \in Message : timer[m] = "armed" => m \in listeners
Unsent == \A m \in Message : m.number > sends[m.by] => timer[m] = "none"

(* The inductive invariant.                                                *)
UdpInv == TypeOK /\ OwnDatagrams /\ TimersHeard /\ Unsent /\ EchoesOwn /\ EchoedNotReported

(* Nothing has been sent.                                                  *)
LEMMA InitInv == Init => UdpInv
<1> SUFFICES ASSUME Init PROVE UdpInv
  OBVIOUS
<1>1. TypeOK
  <2>1. 0 \in 0..MaxSends /\ 0 \in 0..MaxDuplicates
    BY BoundAssumption
  <2>2. sends \in [Clients -> 0..MaxSends]
    BY <2>1 DEF Init
  <2>3. timer \in [Message -> {"none", "armed", "reported", "cleared"}]
    BY DEF Init
  <2>4. answered \in [Clients -> SUBSET Message]
    BY DEF Init
  <2> QED
    BY <2>1, <2>2, <2>3, <2>4 DEF Init, TypeOK
<1>2. OwnDatagrams /\ EchoesOwn /\ EchoedNotReported
  BY DEF Init, OwnDatagrams, EchoesOwn, EchoedNotReported
<1>3. TimersHeard /\ Unsent
  BY DEF Init, TimersHeard, Unsent
<1> QED
  BY <1>1, <1>2, <1>3 DEF UdpInv

(* What the network does with a datagram that arrives keeps the types.     *)
LEMMA Arrival ==
  ASSUME UdpInv, NEW d, NEW sent \in SUBSET Datagram, Arrive(d, sent)
  PROVE  /\ network' \subseteq network \cup sent
         /\ network' \subseteq Datagram /\ duplicates' \in 0..MaxDuplicates
BY BoundAssumption DEF Arrive, UdpInv, TypeOK

(* An echo belongs to the message it answers (echo-server.ts:53).          *)
LEMMA ServerKeeps ==
  ASSUME UdpInv, NEW d \in network, ServerMessage(d)
  PROVE  UdpInv'
<1>1. To(d.peer, d) \in Datagram /\ d.peer \in Clients
  BY DEF UdpInv, TypeOK, Datagram, To
<1>2. /\ network' \subseteq network \cup {To(d.peer, d)}
      /\ network' \subseteq Datagram /\ duplicates' \in 0..MaxDuplicates
  BY <1>1, Arrival DEF ServerMessage
<1>3. UNCHANGED <<open, shuttingDown, client>> /\ messageCount' = messageCount + 1
  BY DEF ServerMessage
<1>4. TypeOK'
  BY <1>2, <1>3 DEF UdpInv, TypeOK, client
<1>5. OwnDatagrams'
  BY <1>2, <1>3 DEF UdpInv, OwnDatagrams, To, client
<1> QED
  BY <1>3, <1>4, <1>5 DEF UdpInv, TimersHeard, Unsent, EchoesOwn, EchoedNotReported, client

(* A message that is sent has its timer and its listener                   *)
(* (echo-client.ts:31-40).                                                 *)
LEMMA SendKeeps ==
  ASSUME UdpInv, NEW c \in Clients, ClientSend(c)
  PROVE  UdpInv'
<1> DEFINE m == [by |-> c, number |-> sends[c] + 1]
           d == [dir |-> "request", peer |-> c, msg |-> m]
<1>1. /\ sends[c] < MaxSends /\ sends' = [sends EXCEPT ![c] = @ + 1]
      /\ network' = network \cup {d} /\ timer' = [timer EXCEPT ![m] = "armed"]
      /\ listeners' = listeners \cup {m} /\ UNCHANGED <<duplicates, server, quit, answered>>
  BY DEF ClientSend
<1>2. sends \in [Clients -> 0..MaxSends] /\ network \subseteq Datagram
  BY DEF UdpInv, TypeOK
<1>3. sends[c] \in Nat /\ sends[c] + 1 \in 1..MaxSends
  BY <1>1, <1>2, BoundAssumption
<1>4. m \in Message /\ d \in Datagram
  BY <1>3 DEF Message, Datagram
<1>5. /\ \A x \in Clients : sends'[x] = IF x = c THEN sends[x] + 1 ELSE sends[x]
      /\ \A x \in Clients : sends[x] \in Nat /\ sends[x] <= sends'[x]
  BY <1>1, <1>2, BoundAssumption
<1>6. TypeOK'
  <2>1. sends' \in [Clients -> 0..MaxSends]
    BY <1>1, <1>2, <1>3
  <2>2. timer' \in [Message -> {"none", "armed", "reported", "cleared"}]
    BY <1>1, <1>4 DEF UdpInv, TypeOK
  <2> QED
    BY <1>1, <1>4, <2>1, <2>2 DEF UdpInv, TypeOK, server
<1>7. OwnDatagrams'
  <2>1. ASSUME NEW x \in network PROVE x.msg.by = x.peer /\ x.msg.number <= sends'[x.peer]
    <3>1. x.peer \in Clients /\ x.msg.number \in Nat
      BY <1>2 DEF Datagram, Message
    <3> QED
      BY <3>1, <1>5 DEF UdpInv, OwnDatagrams
  <2>2. d.msg.by = d.peer /\ d.msg.number <= sends'[d.peer]
    BY <1>3, <1>5
  <2> QED
    BY <1>1, <2>1, <2>2 DEF OwnDatagrams
<1>8. TimersHeard'
  BY <1>1, <1>4 DEF UdpInv, TypeOK, TimersHeard
<1>9. Unsent'
  <2> SUFFICES ASSUME NEW x \in Message, x.number > sends'[x.by] PROVE timer'[x] = "none"
    BY DEF Unsent
  <2>1. x.by \in Clients /\ x.number \in Nat
    BY DEF Message
  <2>2. x.number > sends[x.by] /\ x # m
    BY <2>1, <1>3, <1>5
  <2> QED
    BY <2>2, <1>1 DEF UdpInv, TypeOK, Unsent
<1>10. EchoesOwn'
  <2> SUFFICES ASSUME NEW x \in Clients, NEW y \in answered[x]
      PROVE  y.by = x /\ y.number <= sends'[x]
    BY <1>1 DEF EchoesOwn
  <2>1. y.number \in Nat
    BY DEF UdpInv, TypeOK, Message
  <2> QED
    BY <2>1, <1>5 DEF UdpInv, EchoesOwn
<1>11. EchoedNotReported'
  <2> SUFFICES ASSUME NEW x \in Clients, NEW y \in answered[x], y.by = x
      PROVE  timer'[y] # "armed"
    BY <1>1 DEF EchoedNotReported
  <2>1. y # m
    BY <1>3 DEF UdpInv, EchoesOwn
  <2>2. y \in Message
    BY DEF UdpInv, TypeOK
  <2> QED
    BY <2>1, <2>2, <1>1 DEF UdpInv, TypeOK, EchoedNotReported
<1> QED
  BY <1>6, <1>7, <1>8, <1>9, <1>10, <1>11 DEF UdpInv

(* A datagram that comes clears the timers that have a listener            *)
(* (echo-client.ts:39).                                                    *)
LEMMA ReceiveKeeps ==
  ASSUME UdpInv, NEW d \in network, ClientMessage(d)
  PROVE  UdpInv'
<1>1. d.peer \in Clients /\ d.msg \in Message /\ d.msg.by = d.peer
      /\ d.msg.number <= sends[d.peer]
  BY DEF UdpInv, TypeOK, Datagram, OwnDatagrams
<1>2. network' \subseteq network /\ network' \subseteq Datagram /\ duplicates' \in 0..MaxDuplicates
  BY Arrival DEF ClientMessage
<1>3. /\ timer' = [m \in Message |-> IF m \in Waiting(d.peer) /\ timer[m] = "armed"
                                     THEN "cleared" ELSE timer[m]]
      /\ listeners' = listeners \ Waiting(d.peer)
      /\ answered' = [answered EXCEPT ![d.peer] = @ \cup {d.msg}]
      /\ UNCHANGED <<sends, quit, server>>
  BY DEF ClientMessage
<1>4. TypeOK'
  BY <1>1, <1>2, <1>3 DEF UdpInv, TypeOK, server
<1>5. OwnDatagrams'
  BY <1>2, <1>3 DEF UdpInv, OwnDatagrams
<1>6. TimersHeard' /\ Unsent'
  BY <1>3 DEF UdpInv, TypeOK, TimersHeard, Unsent
<1>7. \A x \in Clients : answered'[x] \subseteq answered[x] \cup IF x = d.peer THEN {d.msg} ELSE {}
  BY <1>3 DEF UdpInv, TypeOK
<1>8. EchoesOwn'
  BY <1>1, <1>3, <1>7 DEF UdpInv, EchoesOwn
<1>9. \A m \in Message : m.by = d.peer => timer'[m] # "armed"
  BY <1>3 DEF UdpInv, TimersHeard, Waiting
<1>10. EchoedNotReported'
  <2> SUFFICES ASSUME NEW x \in Clients, NEW y \in answered'[x], y.by = x
      PROVE  timer'[y] # "armed"
    BY DEF EchoedNotReported
  <2>1. y \in Message
    BY <1>4 DEF TypeOK
  <2>2. CASE x = d.peer
    BY <2>1, <2>2, <1>9
  <2>3. CASE x # d.peer
    BY <2>1, <2>3, <1>3, <1>7 DEF UdpInv, EchoedNotReported
  <2> QED
    BY <2>2, <2>3
<1> QED
  BY <1>4, <1>5, <1>6, <1>8, <1>10 DEF UdpInv

(* Every step keeps the invariant.                                         *)
LEMMA NextInv == UdpInv /\ [Next]_vars => UdpInv'
<1> SUFFICES ASSUME UdpInv, [Next]_vars PROVE UdpInv'
  OBVIOUS
<1> USE DEF UdpInv, TypeOK, OwnDatagrams, TimersHeard, Unsent, EchoesOwn, EchoedNotReported
<1>1. CASE UNCHANGED vars
  BY <1>1 DEF vars, server, client
<1>2. ASSUME NEW d \in network, ServerMessage(d) PROVE UdpInv'
  BY <1>2, ServerKeeps
<1>3. ASSUME NEW d \in network, ClientMessage(d) PROVE UdpInv'
  BY <1>3, ReceiveKeeps
<1>4. ASSUME NEW d \in network, Lose(d) PROVE UdpInv'
  BY <1>4 DEF Lose, server, client
<1>5. ASSUME NEW c \in Clients, ClientSend(c) PROVE UdpInv'
  BY <1>5, SendKeeps
<1>6. ASSUME NEW m \in Message, TimerFires(m) PROVE UdpInv'
  BY <1>6 DEF TimerFires, server
<1>7. ASSUME NEW c \in Clients, Quit(c) PROVE UdpInv'
  BY <1>7 DEF Quit, server
<1>8. CASE Signal
  BY <1>8 DEF Signal, client
<1> QED
  BY <1>1, <1>2, <1>3, <1>4, <1>5, <1>6, <1>7, <1>8 DEF Next

(* Server, clients and network never leave their inductive invariant.      *)
THEOREM Invariance == Spec => []UdpInv
BY InitInv, NextInv, PTL DEF Spec

(* Every variable keeps its type.                                          *)
THEOREM TypeCorrect == Spec => []TypeOK
<1>1. UdpInv => TypeOK
  BY DEF UdpInv
<1> QED
  BY Invariance, <1>1, PTL

(* A client gets back nothing but what it has sent itself.                 *)
THEOREM OwnEchoes == Spec => []EchoesOwn
<1>1. UdpInv => EchoesOwn
  BY DEF UdpInv
<1> QED
  BY Invariance, <1>1, PTL

(* A message whose echo has come is never reported as unanswered.          *)
THEOREM NoFalseReport == Spec => []EchoedNotReported
<1>1. UdpInv => EchoedNotReported
  BY DEF UdpInv
<1> QED
  BY Invariance, <1>1, PTL
=============================================================================
