--------------------------- MODULE HttpConnection ---------------------------
(***************************************************************************)
(* One TCP connection of the framework: the socket handlers that listen()  *)
(* installs in src/src/framework/app.ts, the promise chain "processing",   *)
(* drainAndHandle() and handleOne(), and the response builder of           *)
(* src/src/framework/response.ts.                                          *)
(*                                                                         *)
(* The client's bytes are a sequence of requests, in which one may be      *)
(* malformed; a chunk is some number of them.  A request is known by its   *)
(* position.  The steps of a promise chain (microtasks) run before any     *)
(* other event of the process: see Quiescent.                              *)
(***************************************************************************)
EXTENDS Naturals, Sequences, SequencesExt, FiniteSets

CONSTANTS
  Scenarios,    \* what a client sends and what it meets
  MaxRequests   \* bound: the requests a client sends

(* What the handler of a request does:                                     *)
(*   reply     sends a response and returns                                *)
(*   slow      awaits something, then sends a response                     *)
(*   silent    returns without a response                                  *)
(*   throws    throws before it has sent one                               *)
(*   late      returns, and sends from a callback afterwards               *)
(*   again     sends a response, then sets its status: that throws         *)
(*   bad...    sets a header that serializeResponse() refuses, then        *)
(*             sends, throws or returns                                    *)
(*   malformed no request: bytes the parser refuses                        *)
HandlerKind == {"reply", "slow", "silent", "throws", "late", "again",
                "badReply", "badThrows", "badSilent", "malformed"}
Request == [kind : HandlerKind, version : {"1.0", "1.1"},
            connection : {"keep-alive", "close", "other"}]

(* The error handler of the app: the default one, or the one given to      *)
(* onError(), which may send nothing, throw, or await before it sends.  One *)
(* that sends at once acts as the default one does.                        *)
ErrorHandlerKind == {"default", "silent", "throws", "awaits"}

(* A scenario: the requests, what may happen at any moment, and the error  *)
(* handler.                                                                *)
Scenario == [plan : Seq(Request), disturbances : SUBSET {"fin", "timeout", "close"},
             onError : ErrorHandlerKind]

ASSUME ScenarioAssumption ==
  Scenarios \subseteq Scenario /\ \A c \in Scenarios : Len(c.plan) <= MaxRequests

VARIABLES
  scenario,   \* the scenario of this client
  arrived,    \* how many of them have reached the parser
  ready,      \* the parser's finished messages
  failed,     \* the parser is in its error state
  tasks,      \* the callbacks chained on "processing", in order
  sent,       \* requests whose builder has its sent flag set
  ended,      \* socket.end() has been called, or the socket ended itself
  destroyed,  \* the socket has been destroyed by a write after end
  fin,        \* the client's FIN has arrived
  outbox,     \* responses written to the socket, not yet on the wire
  received,   \* responses the client has
  crashed,    \* the process died of an uncaught exception or rejection
  handled,    \* history: requests given to a handler, in order
  due         \* history: requests the connection owes a response

parser == <<ready, failed>>
socket == <<ended, destroyed, outbox>>
vars == <<scenario, arrived, ready, failed, tasks, sent, ended, destroyed, fin,
          outbox, received, crashed, handled, due>>

plan == scenario.plan
Meets(event) == event \in scenario.disturbances
Ids == 1..Len(plan)
ErrorId == 0                        \* the response to bytes that are no request
Response == [id : Nat, status : {200, 400, 404, 500}]
Task == [kind : {"drain", "error", "end"}, msg : Nat,
         at : {"waiting", "top", "handler", "awaiting", "error",
               "errorAwaiting", "after", "done"}]

TypeOK ==
  /\ scenario \in Scenarios
  /\ arrived \in 0..Len(plan)
  /\ ready \in Seq(Ids)
  /\ failed \in BOOLEAN
  /\ tasks \in Seq(Task)
  /\ sent \subseteq Ids
  /\ {ended, destroyed, fin, crashed} \subseteq BOOLEAN
  /\ outbox \in Seq(Response) /\ received \in Seq(Response)
  /\ handled \in Seq(Ids)
  /\ due \subseteq Ids
-----------------------------------------------------------------------------
Init ==
  /\ scenario \in Scenarios
  /\ arrived = 0 /\ ready = <<>> /\ failed = FALSE
  /\ tasks = <<>> /\ sent = {}
  /\ ended = FALSE /\ destroyed = FALSE /\ fin = FALSE
  /\ outbox = <<>> /\ received = <<>>
  /\ crashed = FALSE
  /\ handled = <<>> /\ due = {}

(* decideKeepAlive()                                                       *)
KeepAlive(m) ==
  IF plan[m].version = "1.0" THEN plan[m].connection = "keep-alive"
                             ELSE plan[m].connection # "close"

(* Mutant of MayStart: the callback runs at once, not when the one before  *)
(* it is done.                                                             *)
MayStartUnchained(k) == tasks[k].at = "waiting"

(* processing.then(...): the task runs when the one before it is done.     *)
Chained(kind) == Append(tasks, [kind |-> kind, at |-> "waiting", msg |-> 0])
MayStart(k) == tasks[k].at = "waiting" /\ (k > 1 => tasks[k - 1].at = "done")

(* The process is between two events: no promise callback is left to run.  *)
Runnable(k) == MayStart(k) \/ tasks[k].at \in {"top", "handler", "error", "after"}
Quiescent == ~crashed /\ \A k \in 1..Len(tasks) : ~Runnable(k)

At(k, where) == tasks[k].at = where
Move(k, where) == tasks' = [tasks EXCEPT ![k].at = where]

(* socket.write() and socket.end(): a write after end destroys the socket, *)
(* and with it what had not left.                                          *)
Write(response) ==
  \/ /\ ended \/ destroyed
     /\ destroyed' = TRUE
     /\ outbox' = <<>>
  \/ /\ ~ended /\ ~destroyed
     /\ outbox' = Append(outbox, response)
     /\ UNCHANGED destroyed

NoWrite == UNCHANGED <<destroyed, outbox>>

(* HttpResponseBuilder.flush(): the sent flag is set first, serializing    *)
(* may then throw.                                                         *)
Poisoned(m) == plan[m].kind \in {"badReply", "badThrows", "badSilent"}
FlushWrites(m, status) ==
  m \notin sent /\ ~Poisoned(m) /\ sent' = sent \cup {m} /\ Write([id |-> m, status |-> status])
FlushThrows(m) ==
  m \notin sent /\ Poisoned(m) /\ sent' = sent \cup {m} /\ NoWrite
-----------------------------------------------------------------------------
(* What feed() makes of the requests up to n: those up to last, which are  *)
(* whole; a malformed one stops it, and a failed parser drops all it is    *)
(* fed.                                                                    *)
Finishes(last, n) ==
  /\ \A i \in (arrived + 1)..last : plan[i].kind # "malformed"
  /\ failed => last = arrived
  /\ last < n => failed \/ plan[last + 1].kind = "malformed"

Owed(i) == \A j \in 1..(i - 1) : KeepAlive(j)

(* socket.on("data"): feed() finishes the requests up to a malformed one,  *)
(* if the chunk holds one, and throws there.                               *)
Data(n) ==
  /\ Quiescent /\ ~destroyed /\ ~fin
  /\ arrived < n
  /\ arrived' = n
  /\ \E last \in arrived..n :
       LET bad == failed \/ last < n
       IN  /\ Finishes(last, n)
           /\ ready' = ready \o [i \in 1..(last - arrived) |-> arrived + i]
           /\ failed' = bad
           /\ tasks' = Chained(IF bad THEN "error" ELSE "drain")
           /\ due' = IF ended \/ bad THEN due
                     ELSE due \cup {i \in (arrived + 1)..last : Owed(i)}
  /\ UNCHANGED <<scenario, sent, socket, fin, received, crashed, handled>>

(* socket.on("end"), after which Node ends the other half by itself        *)
(* (allowHalfOpen is false).                                               *)
ServerFinSeen == ended /\ outbox = <<>>

ClientFin ==
  /\ Quiescent /\ ~destroyed /\ ~fin
  /\ Meets("fin") \/ ServerFinSeen
  /\ fin' = TRUE
  /\ ended' = TRUE
  /\ tasks' = Chained("end")
  /\ UNCHANGED <<scenario, arrived, parser, sent, destroyed, outbox, received,
                 crashed, handled, due>>

(* socket.on("timeout"): without the disturbance, only on a connection     *)
(* with nothing to do.                                                     *)
Idle == (\A k \in 1..Len(tasks) : At(k, "done")) /\ outbox = <<>>

End ==
  /\ Quiescent /\ ~ended /\ ~destroyed
  /\ ended' = TRUE
  /\ UNCHANGED <<scenario, arrived, parser, tasks, sent, destroyed, fin, outbox,
                 received, crashed, handled, due>>

Timeout == (Meets("timeout") \/ Idle) /\ End

(* close() of the AppHandle: for (const s of activeSockets) s.end().       *)
AppClose == Meets("close") /\ End
-----------------------------------------------------------------------------
Rest == UNCHANGED <<scenario, arrived, failed, fin, received, due>>

(* drainAndHandle(): parser.next(), until there is no message.             *)
StartDrain(k) ==
  /\ MayStart(k) /\ tasks[k].kind = "drain"
  /\ Move(k, "top")
  /\ UNCHANGED <<ready, sent, socket, crashed, handled>> /\ Rest

(* Mutants of NextMessage: one message for each chunk; the newest message   *)
(* first.                                                                  *)
NextMessageOnce(k) ==
  /\ At(k, "top")
  /\ UNCHANGED <<sent, socket, crashed>> /\ Rest
  /\ \/ /\ ready = <<>> \/ tasks[k].msg # 0
        /\ Move(k, "done")
        /\ UNCHANGED <<ready, handled>>
     \/ /\ ready # <<>> /\ tasks[k].msg = 0
        /\ tasks' = [tasks EXCEPT ![k].at = "handler", ![k].msg = Head(ready)]
        /\ ready' = Tail(ready)
        /\ handled' = Append(handled, Head(ready))
NextMessageNewest(k) ==
  /\ At(k, "top")
  /\ UNCHANGED <<sent, socket, crashed>> /\ Rest
  /\ \/ /\ ready = <<>>
        /\ Move(k, "done")
        /\ UNCHANGED <<ready, handled>>
     \/ /\ ready # <<>>
        /\ tasks' = [tasks EXCEPT ![k].at = "handler", ![k].msg = Last(ready)]
        /\ ready' = Front(ready)
        /\ handled' = Append(handled, Last(ready))

NextMessage(k) ==
  /\ At(k, "top")
  /\ UNCHANGED <<sent, socket, crashed>> /\ Rest
  /\ \/ /\ ready = <<>>
        /\ Move(k, "done")
        /\ UNCHANGED <<ready, handled>>
     \/ /\ ready # <<>>
        /\ tasks' = [tasks EXCEPT ![k].at = "handler", ![k].msg = Head(ready)]
        /\ ready' = Tail(ready)
        /\ handled' = Append(handled, Head(ready))

(* runChain(): the handler runs to its end or to its first await.          *)
CallHandler(k) ==
  /\ At(k, "handler")
  /\ UNCHANGED <<ready, ended, crashed, handled>> /\ Rest
  /\ LET m == tasks[k].msg
         does(kinds) == plan[m].kind \in kinds
     IN  \/ does({"reply"}) /\ FlushWrites(m, 200) /\ Move(k, "after")
         \/ does({"again"}) /\ FlushWrites(m, 200) /\ Move(k, "error")
         \/ does({"badReply"}) /\ FlushThrows(m) /\ Move(k, "error")
         \/ does({"throws", "badThrows"}) /\ Move(k, "error") /\ UNCHANGED sent /\ NoWrite
         \/ does({"silent", "late", "badSilent"}) /\ Move(k, "after") /\ UNCHANGED sent /\ NoWrite
         \/ does({"slow"}) /\ Move(k, "awaiting") /\ UNCHANGED sent /\ NoWrite

(* The default error handler: nothing once the headers are sent, else a    *)
(* 500, or the status the error carries.                                   *)
DefaultErrorHandler(m) ==
  \/ m \in sent /\ UNCHANGED sent /\ NoWrite
  \/ FlushWrites(m, 500)
  \/ FlushThrows(m)

(* An error handler that has thrown is followed by a 500, unless the       *)
(* headers are marked sent.                                                *)
Rescue(m) ==
  \/ m \in sent /\ UNCHANGED sent /\ NoWrite
  \/ FlushWrites(m, 500)

(* safeError(): the error handler runs, to its end or its first await; its *)
(* own throw is caught.  A throw of the 500 after that is not.             *)
SafeError(k) ==
  /\ At(k, "error")
  /\ UNCHANGED <<ready, ended, handled>> /\ Rest
  /\ LET m == tasks[k].msg
         does(kind) == scenario.onError = kind
     IN  \/ /\ \/ does("default") /\ DefaultErrorHandler(m)
               \/ does("silent") /\ UNCHANGED sent /\ NoWrite
               \/ does("throws") /\ Rescue(m)
            /\ Move(k, "after")
            /\ UNCHANGED crashed
         \/ /\ does("awaits") /\ UNCHANGED sent /\ NoWrite
            /\ Move(k, "errorAwaiting")
            /\ UNCHANGED crashed
         \/ /\ does("throws") /\ FlushThrows(m)
            /\ crashed' = TRUE
            /\ UNCHANGED tasks

(* Mutants of FinishRequest: the connection is never ended; a 404 whether  *)
(* or not a response was sent, as if send() let it, and as send() throws.  *)
FinishRequestAgain(k) ==
  /\ At(k, "after")
  /\ UNCHANGED <<ready, handled>> /\ Rest
  /\ LET m == tasks[k].msg
     IN  \/ /\ m \in sent \/ Poisoned(m)
            /\ sent' = sent \cup {m} /\ NoWrite
            /\ crashed' = TRUE
            /\ UNCHANGED <<tasks, ended>>
         \/ /\ FlushWrites(m, 404)
            /\ ended' = (ended \/ ~KeepAlive(m))
            /\ Move(k, "top")
            /\ UNCHANGED crashed
FinishRequestOpen(k) ==
  /\ At(k, "after")
  /\ UNCHANGED <<ready, ended, handled>> /\ Rest
  /\ LET m == tasks[k].msg
     IN  \/ FlushThrows(m) /\ crashed' = TRUE /\ UNCHANGED tasks
         \/ /\ \/ m \in sent /\ UNCHANGED sent /\ NoWrite
               \/ FlushWrites(m, 404)
            /\ Move(k, "top")
            /\ UNCHANGED crashed
FinishRequestTwice(k) ==
  /\ At(k, "after")
  /\ UNCHANGED <<ready, crashed, handled>> /\ Rest
  /\ LET m == tasks[k].msg
     IN  /\ sent' = sent \cup {m}
         /\ Write([id |-> m, status |-> 404])
         /\ ended' = (ended \/ ~KeepAlive(m))
         /\ Move(k, "top")

(* The rest of handleOne(): a 404 when nothing was sent, then the end of   *)
(* the connection unless it is kept alive.  A throw here rejects           *)
(* "processing", and nobody handles that.                                  *)
FinishRequest(k) ==
  /\ At(k, "after")
  /\ UNCHANGED <<ready, handled>> /\ Rest
  /\ LET m == tasks[k].msg
     IN  \/ /\ FlushThrows(m)
            /\ crashed' = TRUE
            /\ UNCHANGED <<tasks, ended>>
         \/ /\ \/ m \in sent /\ UNCHANGED sent /\ NoWrite
               \/ FlushWrites(m, 404)
            /\ ended' = (ended \/ ~KeepAlive(m))
            /\ Move(k, "top")
            /\ UNCHANGED crashed

(* writeParseError(): write, then end.                                     *)
WriteParseError(k) ==
  /\ MayStart(k) /\ tasks[k].kind = "error"
  /\ Write([id |-> ErrorId, status |-> 400])
  /\ ended' = TRUE
  /\ Move(k, "done")
  /\ UNCHANGED <<ready, sent, crashed, handled>> /\ Rest

(* processing.finally(() => socket.end())                                  *)
EndAfterFin(k) ==
  /\ MayStart(k) /\ tasks[k].kind = "end"
  /\ ended' = TRUE
  /\ Move(k, "done")
  /\ NoWrite
  /\ UNCHANGED <<ready, sent, crashed, handled>> /\ Rest

Microtask(k) ==
  /\ ~crashed
  /\ \/ StartDrain(k) \/ NextMessage(k) \/ CallHandler(k) \/ SafeError(k)
     \/ FinishRequest(k) \/ WriteParseError(k) \/ EndAfterFin(k)
-----------------------------------------------------------------------------
(* What a slow handler awaits arrives; it responds.                        *)
HandlerResumes(k) ==
  /\ Quiescent
  /\ At(k, "awaiting")
  /\ FlushWrites(tasks[k].msg, 200)
  /\ Move(k, "after")
  /\ UNCHANGED <<ready, ended, crashed, handled>> /\ Rest

(* So does what an error handler awaits: it sends, as the default one.     *)
ErrorHandlerResumes(k) ==
  /\ Quiescent
  /\ At(k, "errorAwaiting")
  /\ DefaultErrorHandler(tasks[k].msg)
  /\ Move(k, "after")
  /\ UNCHANGED <<ready, ended, crashed, handled>> /\ Rest

Resumption(k) == HandlerResumes(k) \/ ErrorHandlerResumes(k)

(* The callback of a handler that has returned sends its response: the     *)
(* 404 has gone before it, so send() throws where nobody catches.          *)
LateSend(m) ==
  /\ Quiescent
  /\ plan[m].kind = "late" /\ m \in sent
  /\ crashed' = TRUE
  /\ UNCHANGED <<scenario, arrived, parser, tasks, sent, socket, fin, received, handled, due>>

(* The oldest response leaves the socket's buffer for the client.          *)
Flush ==
  /\ ~crashed /\ ~destroyed
  /\ outbox # <<>>
  /\ received' = Append(received, Head(outbox))
  /\ outbox' = Tail(outbox)
  /\ UNCHANGED <<scenario, arrived, parser, tasks, sent, ended, destroyed, fin,
                 crashed, handled, due>>

Next ==
  \/ \E n \in Ids : Data(n)
  \/ ClientFin
  \/ Timeout
  \/ AppClose
  \/ \E k \in 1..Len(tasks) : Microtask(k) \/ Resumption(k)
  \/ \E m \in Ids : LateSend(m)
  \/ Flush

(* The process runs its callbacks, a handler gets what it awaits and       *)
(* the client reads; nobody owes a request, a FIN or a timeout.            *)
Fairness ==
  /\ WF_vars(\E k \in 1..Len(tasks) : Microtask(k))
  /\ WF_vars(\E k \in 1..Len(tasks) : Resumption(k))
  /\ WF_vars(Flush)

Spec == Init /\ [][Next]_vars /\ Fairness
-----------------------------------------------------------------------------
Wire == received \o outbox

(* The k-th response on the wire answers the k-th request, not counting     *)
(* those whose response cannot be serialized: a pipelining client has       *)
(* nothing else to tell them apart.  However the requests are cut into      *)
(* chunks, whatever their handlers and the error handler do and take, and   *)
(* whenever a FIN, a timeout or close() comes between, none is answered     *)
(* twice, skipped or overtaken, and an error response is the last.          *)
Serializable(n) == {i \in 1..n : ~Poisoned(i)}
ResponsesPaired ==
  \A k \in 1..Len(Wire) :
    LET m == Wire[k].id
    IN  IF m = ErrorId THEN k = Len(Wire)
                       ELSE ~Poisoned(m) /\ Cardinality(Serializable(m)) = k

(* Requests are handled one after the other: a handler starts when the one *)
(* before it has come back, the drains chained on "processing" together    *)
(* taking each message once.                                               *)
HandledSerially ==
  /\ \A i \in 1..Len(handled) : handled[i] = i
  /\ {k \in 1..Len(tasks) : tasks[k].at \in {"handler", "awaiting", "error", "errorAwaiting", "after"}} \subseteq
       {k \in 1..Len(tasks) : tasks[k].msg = Len(handled)}

(* A response that closes the connection is the last one on it.            *)
ClosingResponseLast ==
  \A k \in 1..Len(Wire) :
    Wire[k].id = ErrorId \/ ~KeepAlive(Wire[k].id) => k = Len(Wire)

(* Handlers fail and send in the wrong order in many ways, and the process *)
(* survives them all but two: a handler that sends after it has returned   *)
(* and the 404 has gone, and a builder no response can be made of, when    *)
(* neither the handler nor the error handler has tried to send it          *)
(* (safeError() and the 404 of handleOne(), app.ts:155-163, :191-200).     *)
NeverTried(i) ==
  \/ plan[i].kind = "badSilent"
  \/ plan[i].kind = "badThrows" /\ scenario.onError \in {"silent", "throws"}
CrashExplained ==
  crashed => \E k \in 1..Len(handled) :
               plan[handled[k]].kind = "late" \/ NeverTried(handled[k])

Received(m) == \E k \in 1..Len(received) : received[k].id = m

(* Nothing disturbs the connection, handlers send what can be serialized   *)
(* and before they are done, and what closes the connection comes last.    *)
Polite ==
  /\ scenario.disturbances = {}
  /\ \A i \in Ids : ~Poisoned(i) /\ plan[i].kind # "late"
  /\ \A i \in Ids : ~KeepAlive(i) \/ plan[i].kind = "malformed" => i = Len(plan)

(* Every request that arrives on an open connection, with no request to    *)
(* close before it, is answered, its response reaches the client, and the  *)
(* server then ends the connection unless it is kept alive; bytes that are *)
(* no request are answered with an error, and end it too (drainAndHandle,  *)
(* app.ts:134-140: one drain may handle messages of several chunks;        *)
(* :165-168; writeParseError, :358-368).                                   *)
DueAnswered ==
  /\ \A i \in 1..MaxRequests :
       Polite /\ i \in due ~> Received(i) /\ (ended \/ KeepAlive(i))
  /\ Polite /\ failed /\ ~ended ~> Received(ErrorId) /\ ended

(* The connection uses its parser as a MessageSource, which HttpParser     *)
(* implements: what it hands to handlers is what the parser finished, in   *)
(* order, each message once, with nothing after an error (app.ts:119-139). *)
Source == INSTANCE MessageSource
            WITH queue <- ready, given <- handled, failed <- failed
UsesSource == Source!Spec
-----------------------------------------------------------------------------
(* Why the safety properties hold: what is true after every step.          *)
Busy == {"handler", "awaiting", "error", "errorAwaiting", "after"}
Free == \A k \in 1..Len(tasks) : tasks[k].at \notin Busy

(* One callback of the chain runs at a time, none of those behind it has   *)
(* begun, and the request it is busy with is the last that was handled.    *)
Chain ==
  \A k \in 1..Len(tasks) :
    /\ tasks[k].at # "waiting" => \A j \in 1..(k - 1) : tasks[j].at = "done"
    /\ tasks[k].kind # "drain" => tasks[k].at \in {"waiting", "done"}
    /\ tasks[k].at \in Busy => tasks[k].msg = Len(handled) /\ Len(handled) > 0

(* What was handled and what waits in the parser are the requests that     *)
(* arrived, in order, all of them unless the parser has failed.            *)
InOrder ==
  /\ \A i \in 1..Len(handled) : handled[i] = i
  /\ \A i \in 1..Len(ready) : ready[i] = Len(handled) + i
  /\ Len(handled) + Len(ready) <= arrived
  /\ ~failed => Len(handled) + Len(ready) = arrived

(* Once its callback is done with a request, it has been answered if it    *)
(* can be, and the connection it closes has been ended.                    *)
Settled(i) == (i \in sent \/ Poisoned(i)) /\ (ended \/ KeepAlive(i))
Answering ==
  /\ \A i \in sent : i <= Len(handled)
  /\ \A i \in 1..Len(handled) : i < Len(handled) \/ Free => Settled(i)

(* While the connection is open, every response that was sent is on the    *)
(* wire, and none that closes it.                                          *)
OnWire ==
  /\ \A k \in 1..Len(Wire) : Wire[k].id \in sent \/ (Wire[k].id = ErrorId /\ ended)
  /\ ~ended => Len(Wire) = Cardinality({i \in sent : ~Poisoned(i)})
  /\ destroyed => ended

(* What brings a callback where it is with a response that cannot be       *)
(* serialized and was not tried: the handler threw before it sent, or the  *)
(* error handler did not send either.                                      *)
Cause(k) ==
  LET m == tasks[k].msg
      untried == Poisoned(m) /\ m \notin sent
  IN  /\ At(k, "error") /\ untried => plan[m].kind = "badThrows"
      /\ At(k, "after") /\ untried => NeverTried(m)
Causes == \A k \in 1..Len(tasks) : Cause(k)

ConnectionInv ==
  /\ TypeOK /\ Chain /\ InOrder /\ Answering /\ OnWire /\ Causes
  /\ ResponsesPaired /\ ClosingResponseLast /\ CrashExplained
-----------------------------------------------------------------------------
(* Requests answered as far as their builder knows, whose response is gone. *)
Delivered(m) == \E k \in 1..Len(Wire) : Wire[k].id = m
Lost == {m \in due \cap sent : ~Delivered(m)}

(* app.ts:129, translated: "once the client has sent FIN there are no more *)
(* requests; close when the response in progress is done".  The response   *)
(* to a request the connection has taken is not lost.                      *)
ResponseKept == Lost = {}
=============================================================================
