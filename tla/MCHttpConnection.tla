-------------------------- MODULE MCHttpConnection --------------------------
(* Instances of HttpConnection for TLC: what a client may send and meet.   *)
EXTENDS HttpConnection

(* Requests that keep the connection alive, and that do not.               *)
Keep(kinds)  == [kind : kinds, version : {"1.1"}, connection : {"other"}]
Close(kinds) == [kind : kinds, version : {"1.1"}, connection : {"close"}]
Old(kinds)   == [kind : kinds, version : {"1.0"}, connection : {"keep-alive", "other"}]
Upto(n, S) == UNION {[1..m -> S] : m \in 1..n}
Then(plans, lasts) == {Append(p, last) : p \in plans, last \in lasts}
Met(plans, disturbances, handlers) ==
  [plan : plans, disturbances : {disturbances}, onError : handlers]

Ordinary == Keep({"reply", "slow", "silent", "throws"})
Closing  == Close({"reply", "slow", "silent", "throws"}) \cup Old({"slow"})
Malformed == Keep({"malformed"})

(* Keep-alive requests, of which the last may close or be malformed.       *)
PolitePlans ==
  Upto(3, Ordinary) \cup Then({<<>>} \cup Upto(2, Ordinary), Closing \cup Malformed)

(* Anything in any order, with every kind of handler.                      *)
AnyPlans == Upto(2, Keep(HandlerKind) \cup Close(HandlerKind) \cup Old({"slow"}))
            \cup Upto(3, Keep({"slow", "badReply", "malformed"}) \cup Close({"slow"}))

(* Errors before and after a response, one that no response can follow.    *)
FailingPlans == Upto(2, Keep({"throws", "again", "badThrows", "slow"})
                        \cup Close({"throws"}))

AllScenarios ==
  Met(PolitePlans, {}, {"default"})
    \cup Met(AnyPlans, {"fin", "timeout", "close"}, {"default"})
    \cup Met(FailingPlans, {}, ErrorHandlerKind)
    \cup Met(FailingPlans, {"fin", "close"}, {"throws", "awaits"})

SlowScenarios == Met({<<r>> : r \in Keep({"slow"})}, {"fin"}, {"default"})
=============================================================================
