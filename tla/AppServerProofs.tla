-------------------------- MODULE AppServerProofs --------------------------
(***************************************************************************)
(* Theorems about AppServer for every number of connections, requests and  *)
(* calls of close(), polite or rude.                                       *)
(***************************************************************************)
EXTENDS AppServer, TLAPS

(* A server that has not been told to listen satisfies the invariant.      *)
LEMMA InitInv == Init => ServerInv
<1>1. SUFFICES ASSUME Init PROVE ServerInv
  OBVIOUS
<1>2. 0 \in 0..MaxRequests
  BY BoundAssumption
<1>3. TypeOK
  BY <1>1, <1>2 DEF Init, TypeOK, CallState
<1>4. Connected = {}
  BY <1>1 DEF Init, Connected, Open
<1> QED
  BY <1>1, <1>3, <1>4 DEF Init, ServerInv

(* What the invariant says of one call.                                    *)
CallOK(i) ==
  /\ calls[i] # "none" => server = "closed"
  /\ calls[i] \in {"waiting", "draining", "resolved"} => i = 1
  /\ calls[i] \in {"refused", "rejected"} => i > 1
  /\ calls[i] \in {"draining", "resolved", "rejected"} => Connected = {}
  /\ calls[i] = "resolved" => activeSockets = {}

(* Events of a connection: a server that is closed gets none, loses some,  *)
(* and when the last is destroyed its "close" event is due.                *)
LEMMA ConnectionInv ==
  ASSUME ServerInv, NEW c \in Clients,
         \/ Accept(c) \/ Request(c) \/ \E keepAlive \in BOOLEAN : Respond(c, keepAlive)
         \/ Timeout(c) \/ Read(c) \/ ClientFin(c) \/ Finish(c) \/ ClientReset(c)
         \/ SocketClosed(c)
  PROVE  ServerInv'
<1> USE DEF ServerInv, TypeOK, halves, work, Connected, Open
<1>1. CASE Accept(c)
  <2>1. \A i \in Call : calls[i] = "none"
    BY <1>1 DEF Accept, CallState
  <2> QED
    BY <1>1, <2>1 DEF Accept, CallState
<1>2. CASE Request(c)
  <2>1. requests' \in [Clients -> 0..MaxRequests]
    BY <1>2, BoundAssumption DEF Request
  <2> QED
    BY <1>2, <2>1 DEF Request
<1>3. ASSUME Destroy(c), Open(c), UNCHANGED <<server, activeSockets, calls>>
      PROVE  /\ socket' \in [Clients -> {"none", "open", "destroyed", "closed"}]
             /\ pending' \in [Clients -> BOOLEAN] /\ closing' \in BOOLEAN
             /\ Connected' = Connected \ {c}
             /\ activeSockets' = {d \in Clients : socket'[d] \in {"open", "destroyed"}}
             /\ (closing' => server = "closed" /\ Connected' = {})
  <2>1. /\ socket' = [socket EXCEPT ![c] = "destroyed"]
        /\ pending' = [pending EXCEPT ![c] = FALSE]
        /\ closing' = (closing \/ (server = "closed" /\ Connected \subseteq {c}))
    BY <1>3 DEF Destroy
  <2>2. Connected' = Connected \ {c}
    BY <2>1
  <2>3. closing' => server = "closed" /\ Connected' = {}
    BY <2>1, <2>2
  <2>4. closing' \in BOOLEAN
    BY <2>1
  <2> QED
    BY <1>3, <2>1, <2>2, <2>3, <2>4
<1>4. ASSUME NEW keepAlive \in BOOLEAN, Respond(c, keepAlive)
      PROVE  ServerInv'
  <2>1. busy' \in [Clients -> BOOLEAN] /\ UNCHANGED <<server, activeSockets, fin, requests, calls>>
    BY <1>4 DEF Respond
  <2>2. CASE Open(c) /\ ended[c] /\ Destroy(c) /\ UNCHANGED ended
    BY <1>3, <2>1, <2>2
  <2>3. CASE UNCHANGED <<socket, closing>> /\ ended' \in [Clients -> BOOLEAN]
             /\ pending' \in [Clients -> BOOLEAN]
    BY <2>1, <2>3
  <2> QED
    BY <1>4, <2>2, <2>3 DEF Respond
<1>5. CASE Timeout(c) \/ Read(c) \/ ClientFin(c)
  <2>1. /\ UNCHANGED <<server, socket, activeSockets, busy, requests, calls, closing>>
        /\ ended' \in [Clients -> BOOLEAN] /\ fin' \in [Clients -> BOOLEAN]
        /\ pending' \in [Clients -> BOOLEAN]
    BY <1>5 DEF Timeout, Read, ClientFin
  <2> QED
    BY <2>1
<1>6. CASE Finish(c) \/ ClientReset(c)
  <2>1. /\ Destroy(c) /\ Open(c)
        /\ UNCHANGED <<server, activeSockets, ended, fin, busy, requests, calls>>
    BY <1>6 DEF Finish, ClientReset, Finished
  <2> QED
    BY <1>3, <2>1
<1>7. CASE SocketClosed(c)
  BY <1>7 DEF SocketClosed
<1> QED
  BY <1>1, <1>2, <1>4, <1>5, <1>6, <1>7

(* Calls of close(), and the server's own events.                          *)
LEMMA ServerEventInv ==
  ASSUME ServerInv,
         Listen \/ Opened \/ ServerClosed \/ \E i \in Call : Close(i) \/ Drained(i)
  PROVE  ServerInv'
<1> USE DEF ServerInv, TypeOK, halves, work, Connected, Open
<1>1. CASE Listen \/ Opened
  <2>1. server # "closed"
    BY <1>1 DEF Listen, Opened
  <2>2. \A i \in Call : calls[i] = "none"
    BY <2>1 DEF CallState
  <2> QED
    BY <1>1, <2>1, <2>2 DEF Listen, Opened
<1>2. CASE ServerClosed
  <2>1. Connected = {} /\ server = "closed"
    BY <1>2 DEF ServerClosed
  <2>2. calls' \in [Call -> CallState]
    BY <1>2 DEF ServerClosed, CallState
  <2>3. \A i \in Call : CallOK(i)'
    BY <1>2, <2>1 DEF ServerClosed, CallState, CallOK
  <2>4. MaxCalls > 0 => 1 \in Call
    BY BoundAssumption DEF Call
  <2> QED
    BY <1>2, <2>1, <2>2, <2>3, <2>4 DEF ServerClosed, CallOK
<1>3. ASSUME NEW i \in Call, Close(i)
      PROVE  ServerInv'
  <2>1. calls' \in [Call -> CallState] /\ ended' \in [Clients -> BOOLEAN]
        /\ closing' \in BOOLEAN /\ server' = "closed"
    BY <1>3 DEF Close, CallState
  <2>2. server = "listening" => i = 1
    BY <1>3, BoundAssumption DEF Close, CallState, Call
  <2>3. server = "closed" => i > 1
    BY <1>3, BoundAssumption DEF Close, CallState, Call
  <2>4. \A j \in Call : CallOK(j)'
    BY <1>3, <2>1, <2>2, <2>3 DEF Close, CallState, CallOK
  <2>5. MaxCalls > 0 => calls'[1] # "none"
    BY <1>3, <2>2, BoundAssumption DEF Close, CallState, Call
  <2> QED
    BY <1>3, <2>1, <2>4, <2>5 DEF Close, CallOK
<1>4. ASSUME NEW i \in Call, Drained(i)
      PROVE  ServerInv'
  <2>1. calls' \in [Call -> CallState]
    BY <1>4 DEF Drained, CallState
  <2>2. \A j \in Call : CallOK(j)'
    BY <1>4 DEF Drained, CallState, CallOK
  <2>3. MaxCalls > 0 => 1 \in Call
    BY BoundAssumption DEF Call
  <2> QED
    BY <1>4, <2>1, <2>2, <2>3 DEF Drained, CallOK
<1> QED
  BY <1>1, <1>2, <1>3, <1>4

(* Every step preserves the invariant.                                     *)
LEMMA NextInv == ServerInv /\ [Next]_vars => ServerInv'
<1>1. SUFFICES ASSUME ServerInv, [Next]_vars PROVE ServerInv'
  OBVIOUS
<1>2. CASE UNCHANGED vars
  BY <1>1, <1>2 DEF vars, ServerInv, TypeOK, Connected, Open
<1>3. CASE Next
  BY <1>1, <1>3, ConnectionInv, ServerEventInv DEF Next
<1> QED
  BY <1>1, <1>2, <1>3

(* The server never leaves its inductive invariant.                        *)
THEOREM Invariance == Spec => []ServerInv
BY InitInv, NextInv, PTL DEF Spec

(* Every variable keeps its type.                                          *)
THEOREM TypeCorrect == Spec => []TypeOK
<1>1. ServerInv => TypeOK
  BY DEF ServerInv
<1> QED
  BY Invariance, <1>1, PTL

(* A close() that has resolved leaves nothing: no listener, no connection, *)
(* no socket in activeSockets (app.ts:216-225).                            *)
THEOREM CloseLeavesNothing == Spec => []CloseComplete
<1>1. ServerInv => CloseComplete
  BY DEF ServerInv, CloseComplete, Gone
<1> QED
  BY Invariance, <1>1, PTL

(* Only the first call of close() resolves, and no call settles before the *)
(* last connection is gone.                                                *)
THEOREM OnlyFirstResolves == Spec => []FirstCallResolves
<1>1. ServerInv => FirstCallResolves
  BY DEF ServerInv, FirstCallResolves
<1> QED
  BY Invariance, <1>1, PTL
=============================================================================
