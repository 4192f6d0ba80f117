-------------------------- MODULE MiddlewareChain --------------------------
(***************************************************************************)
(* runMiddlewareChain() of src/src/framework/app.ts:245-307, for a chain   *)
(* of N handlers and every way a handler may use its next().               *)
(*                                                                         *)
(* dispatch(i) calls handler i; next() calls dispatch(i + 1) before it     *)
(* returns, so the calls nest and the running handler with the highest     *)
(* index is the one on top of the stack.  A handler may call next() as     *)
(* often as it likes, with or without an error, while it runs or later     *)
(* from a callback; it returns nothing, returns a promise, or throws.      *)
(***************************************************************************)
EXTENDS Naturals

CONSTANT N   \* chain.length; handler i is chain[i - 1]

ASSUME LengthAssumption == N \in Nat

Handler == 1..N

VARIABLES
  mode,        \* what handler i is doing
  settled,     \* the settled flag of dispatch(i)
  calledNext,  \* its calledNext flag
  started,     \* the highest index dispatched
  outcome,     \* of the promise runMiddlewareChain() returned
  settlements  \* history: calls of resolve() and reject()

vars == <<mode, settled, calledNext, started, outcome, settlements>>

TypeOK ==
  /\ mode \in [Handler -> {"idle", "running", "awaiting", "finished"}]
  /\ settled \in [Handler -> BOOLEAN]
  /\ calledNext \in [Handler -> BOOLEAN]
  /\ started \in 0..N
  /\ outcome \in {"pending", "resolved", "rejected"}
  /\ settlements \in Nat

OnTop(i) == mode[i] = "running" /\ \A j \in Handler : mode[j] = "running" => j <= i
StackEmpty == \A i \in Handler : mode[i] # "running"
-----------------------------------------------------------------------------
Init ==
  /\ mode = [i \in Handler |-> "idle"]
  /\ settled = [i \in Handler |-> FALSE]
  /\ calledNext = [i \in Handler |-> FALSE]
  /\ started = 0
  /\ outcome = "pending"
  /\ settlements = 0

(* resolve() and reject(): a promise keeps its first outcome.              *)
Complete(result) ==
  /\ outcome' = IF outcome = "pending" THEN result ELSE outcome
  /\ settlements' = settlements + 1

NoCompletion == UNCHANGED <<outcome, settlements>>

(* dispatch(i): the handler is called, or the chain ends.                  *)
Dispatch(i) ==
  \/ /\ i \in Handler
     /\ mode' = [mode EXCEPT ![i] = "running"]
     /\ started' = i
     /\ NoCompletion
  \/ /\ i \notin Handler
     /\ Complete("resolved")
     /\ UNCHANGED <<mode, started>>

(* dispatch(0)                                                             *)
Begin ==
  /\ started = 0
  /\ outcome = "pending"
  /\ Dispatch(1)
  /\ UNCHANGED <<settled, calledNext>>

(* Mutant of CallNext: a second call counts.                               *)
CallNextAgain(i) ==
  /\ settled' = [settled EXCEPT ![i] = TRUE]
  /\ calledNext' = [calledNext EXCEPT ![i] = TRUE]
  /\ Dispatch(i + 1)

(* next(), next(err) of handler i: only its first call counts.             *)
CallNext(i) ==
  /\ ~settled[i]
  /\ settled' = [settled EXCEPT ![i] = TRUE]
  /\ calledNext' = [calledNext EXCEPT ![i] = TRUE]
  /\ Dispatch(i + 1)

CallNextError(i) ==
  /\ ~settled[i]
  /\ settled' = [settled EXCEPT ![i] = TRUE]
  /\ Complete("rejected")
  /\ UNCHANGED <<mode, calledNext, started>>

(* From the handler itself, or from one of its callbacks or continuations. *)
MayCall(i) == OnTop(i) \/ (StackEmpty /\ mode[i] \in {"awaiting", "finished"})

UseNext(i) == MayCall(i) /\ (CallNext(i) \/ CallNextError(i))

(* Mutants of Finish: the flags are not looked at; settled is not set.     *)
FinishUnguarded(i, result) ==
  /\ mode' = [mode EXCEPT ![i] = "finished"]
  /\ settled' = [settled EXCEPT ![i] = TRUE]
  /\ Complete(result)
  /\ UNCHANGED <<calledNext, started>>
FinishUnmarked(i, result) ==
  /\ mode' = [mode EXCEPT ![i] = "finished"]
  /\ IF settled[i] THEN NoCompletion ELSE Complete(result)
  /\ UNCHANGED <<settled, calledNext, started>>

(* The end of handler i, on a path that settles the promise unless its     *)
(* next() has.                                                             *)
Finish(i, result) ==
  /\ mode' = [mode EXCEPT ![i] = "finished"]
  /\ UNCHANGED <<calledNext, started>>
  /\ \/ /\ ~settled[i]
        /\ settled' = [settled EXCEPT ![i] = TRUE]
        /\ Complete(result)
     \/ /\ settled[i]
        /\ UNCHANGED settled
        /\ NoCompletion

ReturnSync(i) == OnTop(i) /\ Finish(i, "resolved")

Throw(i) == OnTop(i) /\ Finish(i, "rejected")

ReturnPromise(i) ==
  /\ OnTop(i)
  /\ mode' = [mode EXCEPT ![i] = "awaiting"]
  /\ UNCHANGED <<settled, calledNext, started, outcome, settlements>>

(* Mutant of PromiseResolves: the promise is not reacted to.               *)
PromiseIgnored(i) ==
  /\ StackEmpty /\ mode[i] = "awaiting"
  /\ mode' = [mode EXCEPT ![i] = "finished"]
  /\ UNCHANGED <<settled, calledNext, started, outcome, settlements>>

(* The reactions to the promise, run with an empty stack.                  *)
PromiseResolves(i) == StackEmpty /\ mode[i] = "awaiting" /\ Finish(i, "resolved")

PromiseRejects(i) == StackEmpty /\ mode[i] = "awaiting" /\ Finish(i, "rejected")

Return(i) == ReturnSync(i) \/ Throw(i) \/ ReturnPromise(i)
PromiseSettles(i) == PromiseResolves(i) \/ PromiseRejects(i)

Next ==
  \/ Begin
  \/ \E i \in Handler : UseNext(i) \/ Return(i) \/ PromiseSettles(i)

(* A handler comes back, and a promise it returned settles: the rest is    *)
(* the chain's own doing.                                                  *)
Fairness ==
  /\ WF_vars(Begin)
  /\ \A i \in Handler : WF_vars(Return(i)) /\ WF_vars(PromiseSettles(i))

Spec == Init /\ [][Next]_vars /\ Fairness
-----------------------------------------------------------------------------
(* Of all the calls handlers make, in any order and however often, exactly *)
(* one settles the promise: no resolve() follows a reject() or another     *)
(* resolve(), so what the chain has come to is not changed by a later call *)
(* (the settled and calledNext flags, app.ts:261-269 and :285-302).  An    *)
(* error thrown after next() does not count at all (app.ts:275-279).       *)
SettledOnce == settlements = IF outcome = "pending" THEN 0 ELSE 1

(* As long as the promise is pending exactly one handler can move the      *)
(* chain, the last one started; once it is settled none can.               *)
OneDriver ==
  {i \in Handler : i <= started /\ ~settled[i]} =
    IF outcome = "pending" /\ started > 0 THEN {started} ELSE {}

(* The inductive invariant: the flags of a handler tell where the chain    *)
(* stands.                                                                 *)
ChainInv ==
  /\ TypeOK
  /\ SettledOnce
  /\ OneDriver
  /\ \A i \in Handler :
       /\ mode[i] = "idle" <=> i > started
       /\ i > started => ~settled[i]
       /\ calledNext[i] => settled[i]
       /\ i < started => calledNext[i]

(* The promise settles when every handler comes back.                      *)
ChainSettles == <>(outcome # "pending")

(* The chain starts its handlers in order, each once, and settles once.    *)
Promised == INSTANCE SequentialChain
              WITH length <- N, started <- started, outcome <- outcome
Sequential == Promised!Spec
=============================================================================
