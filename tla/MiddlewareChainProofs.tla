----------------------- MODULE MiddlewareChainProofs -----------------------
(***************************************************************************)
(* Theorems about runMiddlewareChain() for a chain of any length.          *)
(***************************************************************************)
EXTENDS MiddlewareChain, TLAPS

(* Without OneDriver's set notation: while the promise is pending the last *)
(* handler started, and no other, has not settled.                         *)
LEMMA Driver ==
  ASSUME ChainInv, NEW i \in Handler, i <= started, ~settled[i]
  PROVE  outcome = "pending" /\ i = started /\ settlements = 0
<1>1. i \in {j \in Handler : j <= started /\ ~settled[j]}
  OBVIOUS
<1> QED
  BY <1>1 DEF ChainInv, OneDriver, SettledOnce

(* The invariant holds when runChain() is called (app.ts:256-262).         *)
LEMMA InitInv == Init => ChainInv
<1> SUFFICES ASSUME Init PROVE ChainInv
  OBVIOUS
<1>1. TypeOK
  BY LengthAssumption DEF Init, TypeOK, Handler
<1>2. SettledOnce
  BY DEF Init, SettledOnce
<1>3. OneDriver
  BY DEF Init, OneDriver, Handler
<1>4. \A i \in Handler : i > started /\ ~(i < started)
  BY DEF Init, Handler
<1>5. \A i \in Handler : mode[i] = "idle" /\ ~settled[i] /\ ~calledNext[i]
  BY DEF Init
<1> QED
  BY <1>1, <1>2, <1>3, <1>4, <1>5 DEF ChainInv

(* The first dispatch preserves the invariant (app.ts:305).                *)
LEMMA BeginInv ==
  ASSUME ChainInv, Begin
  PROVE  ChainInv'
<1>0. /\ TypeOK /\ SettledOnce /\ started = 0 /\ outcome = "pending" /\ settlements = 0
      /\ \A i \in Handler : mode[i] = "idle" /\ ~settled[i] /\ ~calledNext[i] /\ i >= 1
  BY DEF Begin, ChainInv, SettledOnce, Handler, TypeOK
<1>1. CASE 1 \in Handler
  <2>1. /\ mode' = [mode EXCEPT ![1] = "running"] /\ started' = 1
        /\ UNCHANGED <<outcome, settlements, settled, calledNext>>
    BY <1>1 DEF Begin, Dispatch, NoCompletion
  <2>2. TypeOK'
    BY <1>0, <1>1, <2>1 DEF TypeOK, Handler
  <2>3. SettledOnce'
    BY <1>0, <2>1 DEF SettledOnce
  <2>4. OneDriver'
    BY <1>0, <1>1, <2>1 DEF OneDriver, Handler
  <2>5. \A i \in Handler : mode'[i] = "idle" <=> i > started'
    BY <1>0, <1>1, <2>1 DEF TypeOK, Handler
  <2> QED
    BY <1>0, <2>1, <2>2, <2>3, <2>4, <2>5 DEF ChainInv, Handler
<1>2. CASE 1 \notin Handler
  <2>1. Handler = {}
    BY <1>2, LengthAssumption DEF Handler
  <2>2. /\ UNCHANGED <<mode, started, settled, calledNext>>
        /\ outcome' = "resolved" /\ settlements' = 1
    BY <1>0, <1>2 DEF Begin, Dispatch, Complete
  <2> QED
    BY <1>0, <2>1, <2>2 DEF ChainInv, TypeOK, SettledOnce, OneDriver
<1> QED
  BY <1>1, <1>2

(* A handler on whose behalf the chain may move: it has been started.      *)
LEMMA Started ==
  ASSUME ChainInv, NEW i \in Handler, mode[i] # "idle"
  PROVE  i <= started /\ started \in Nat /\ started <= N /\ i \in Nat /\ 1 <= i
BY LengthAssumption DEF ChainInv, TypeOK, Handler

(* The one live handler settles, and the promise with it.                  *)
LEMMA SettleInv ==
  ASSUME ChainInv, NEW i \in Handler, mode[i] # "idle", ~settled[i],
         NEW result \in {"resolved", "rejected"}, Complete(result),
         settled' = [settled EXCEPT ![i] = TRUE],
         UNCHANGED started,
         \/ UNCHANGED <<mode, calledNext>>
         \/ mode' = [mode EXCEPT ![i] = "finished"] /\ UNCHANGED calledNext
         \/ UNCHANGED mode /\ i = N /\ calledNext' = [calledNext EXCEPT ![i] = TRUE]
  PROVE  ChainInv'
<1>1. i <= started /\ started \in Nat
  BY Started
<1>2. outcome = "pending" /\ i = started /\ settlements = 0
  BY <1>1, Driver
<1>3. outcome' = result /\ settlements' = 1
  BY <1>2 DEF Complete
<1>4. TypeOK'
  BY <1>3 DEF ChainInv, TypeOK
<1>5. SettledOnce'
  BY <1>3 DEF SettledOnce
<1>6. \A j \in Handler : j <= started' => settled'[j]
  <2>1. SUFFICES ASSUME NEW j \in Handler, j <= started', ~settled'[j]
                 PROVE  FALSE
    OBVIOUS
  <2>2. j # i /\ ~settled[j] /\ j <= started
    BY <2>1 DEF ChainInv, TypeOK
  <2> QED
    BY <1>2, <2>2, Driver
<1>7. OneDriver'
  BY <1>3, <1>6 DEF OneDriver
<1>8. \A j \in Handler :
        /\ mode'[j] = "idle" <=> j > started'
        /\ j > started' => ~settled'[j]
        /\ calledNext'[j] => settled'[j]
        /\ j < started' => calledNext'[j]
  BY <1>1, <1>2 DEF ChainInv, TypeOK, Handler
<1> QED
  BY <1>4, <1>5, <1>7, <1>8 DEF ChainInv

(* next() of the live handler starts the next one.                         *)
LEMMA AdvanceInv ==
  ASSUME ChainInv, NEW i \in Handler, mode[i] # "idle", ~settled[i],
         i + 1 \in Handler,
         settled' = [settled EXCEPT ![i] = TRUE],
         calledNext' = [calledNext EXCEPT ![i] = TRUE],
         mode' = [mode EXCEPT ![i + 1] = "running"],
         started' = i + 1,
         NoCompletion
  PROVE  ChainInv'
<1>1. i <= started /\ started \in Nat /\ i \in Nat
  BY Started
<1>2. outcome = "pending" /\ i = started /\ settlements = 0
  BY <1>1, Driver
<1>3. UNCHANGED <<outcome, settlements>>
  BY DEF NoCompletion
<1>4. TypeOK'
  BY <1>3, LengthAssumption DEF ChainInv, TypeOK, Handler
<1>5. SettledOnce'
  BY <1>3 DEF ChainInv, SettledOnce
<1>6. ASSUME NEW j \in Handler, j <= started'
      PROVE  settled'[j] <=> j # i + 1
  <2>1. CASE j = i + 1
    BY <1>1, <1>2, <2>1 DEF ChainInv, TypeOK, Handler
  <2>2. CASE j = i
    BY <1>1, <2>2 DEF ChainInv, TypeOK
  <2>3. CASE j # i + 1 /\ j # i
    <3>1. j <= started /\ j # started
      BY <1>1, <1>2, <1>6, <2>3 DEF Handler
    <3>2. settled[j]
      BY <1>2, <3>1, Driver
    <3> QED
      BY <2>3, <3>2 DEF ChainInv, TypeOK
  <2> QED
    BY <2>1, <2>2, <2>3
<1>7. OneDriver'
  BY <1>1, <1>2, <1>3, <1>6 DEF OneDriver, Handler
<1>8. ASSUME NEW j \in Handler
      PROVE  /\ mode'[j] = "idle" <=> j > started'
             /\ j > started' => ~settled'[j]
             /\ calledNext'[j] => settled'[j]
             /\ j < started' => calledNext'[j]
  BY <1>1, <1>2 DEF ChainInv, TypeOK, Handler
<1> QED
  BY <1>4, <1>5, <1>7, <1>8 DEF ChainInv

(* A handler comes back without moving the chain.                          *)
LEMMA ComeBackInv ==
  ASSUME ChainInv, NEW i \in Handler, mode[i] # "idle",
         NEW m \in {"awaiting", "finished"}, mode' = [mode EXCEPT ![i] = m],
         UNCHANGED <<settled, calledNext, started, outcome, settlements>>
  PROVE  ChainInv'
<1>1. TypeOK'
  BY DEF ChainInv, TypeOK
<1>2. SettledOnce' /\ OneDriver'
  BY DEF ChainInv, SettledOnce, OneDriver
<1>3. \A j \in Handler : mode'[j] = "idle" <=> mode[j] = "idle"
  BY DEF ChainInv, TypeOK
<1> QED
  BY <1>1, <1>2, <1>3 DEF ChainInv

(* A call of next() preserves the invariant (app.ts:263-269).              *)
LEMMA UseNextInv ==
  ASSUME ChainInv, NEW i \in Handler, UseNext(i)
  PROVE  ChainInv'
<1>1. mode[i] # "idle" /\ ~settled[i] /\ settled' = [settled EXCEPT ![i] = TRUE]
  BY DEF UseNext, MayCall, OnTop, CallNext, CallNextError
<1>2. CASE CallNextError(i)
  BY <1>1, <1>2, SettleInv DEF CallNextError
<1>3. CASE CallNext(i) /\ i + 1 \in Handler
  BY <1>1, <1>3, AdvanceInv DEF CallNext, Dispatch
<1>4. CASE CallNext(i) /\ i + 1 \notin Handler
  <2>1. i = N
    BY <1>4, LengthAssumption DEF Handler
  <2> QED
    BY <1>1, <1>4, <2>1, SettleInv DEF CallNext, Dispatch
<1> QED
  BY <1>2, <1>3, <1>4 DEF UseNext

(* A handler that returns or throws preserves the invariant                *)
(* (app.ts:274-302).                                                       *)
LEMMA FinishInv ==
  ASSUME ChainInv, NEW i \in Handler, mode[i] # "idle",
         NEW result \in {"resolved", "rejected"}, Finish(i, result)
  PROVE  ChainInv'
<1>1. CASE ~settled[i]
  BY <1>1, SettleInv DEF Finish
<1>2. CASE settled[i]
  BY <1>2, ComeBackInv DEF Finish, NoCompletion
<1> QED
  BY <1>1, <1>2

(* Every step of the chain preserves the invariant.                        *)
LEMMA NextInv == ChainInv /\ [Next]_vars => ChainInv'
<1>1. SUFFICES ASSUME ChainInv, [Next]_vars PROVE ChainInv'
  OBVIOUS
<1>2. CASE Begin
  BY <1>1, <1>2, BeginInv
<1>3. ASSUME NEW i \in Handler, UseNext(i) \/ Return(i) \/ PromiseSettles(i)
      PROVE  ChainInv'
  <2>1. CASE UseNext(i)
    BY <1>1, <2>1, UseNextInv
  <2>2. CASE ReturnSync(i) \/ Throw(i) \/ PromiseResolves(i) \/ PromiseRejects(i)
    BY <1>1, <2>2, FinishInv
       DEF ReturnSync, Throw, PromiseResolves, PromiseRejects, OnTop
  <2>3. CASE ReturnPromise(i)
    BY <1>1, <2>3, ComeBackInv DEF ReturnPromise, OnTop
  <2> QED
    BY <1>3, <2>1, <2>2, <2>3 DEF Return, PromiseSettles
<1>4. CASE UNCHANGED vars
  BY <1>1, <1>4 DEF vars, ChainInv, TypeOK, SettledOnce, OneDriver
<1> QED
  BY <1>1, <1>2, <1>3, <1>4 DEF Next

(* The chain never leaves its inductive invariant.                         *)
THEOREM Invariance == Spec => []ChainInv
BY InitInv, NextInv, PTL DEF Spec

(* Exactly one of all the calls of resolve() and reject() settles the      *)
(* promise, whatever the handlers do and however many there are.           *)
THEOREM SettlesOnce == Spec => []SettledOnce
<1>1. ChainInv => SettledOnce
  BY DEF ChainInv
<1> QED
  BY Invariance, <1>1, PTL

(* Only the last handler started can move a pending chain.                 *)
THEOREM OneHandlerDrives == Spec => []OneDriver
<1>1. ChainInv => OneDriver
  BY DEF ChainInv
<1> QED
  BY Invariance, <1>1, PTL

(* A step of the chain is a step of its promise: it starts the next        *)
(* handler, settles, or does neither.                                      *)
LEMMA StepRefines ==
  ASSUME ChainInv, [Next]_vars
  PROVE  [Promised!Next]_<<N, started, outcome>>
<1> USE DEF Promised!Next, Promised!StartNext, Promised!Settle
<1>1. CASE UNCHANGED vars
  BY <1>1 DEF vars
<1>2. CASE Begin
  BY <1>2, LengthAssumption DEF Begin, Dispatch, Complete, NoCompletion, Handler
<1>3. ASSUME NEW i \in Handler, UseNext(i)
      PROVE  [Promised!Next]_<<N, started, outcome>>
  <2>1. mode[i] # "idle" /\ ~settled[i]
    BY <1>3 DEF UseNext, MayCall, OnTop, CallNext, CallNextError
  <2>2. outcome = "pending" /\ i = started /\ started \in Nat
    BY <2>1, Started, Driver
  <2> QED
    BY <1>3, <2>2, LengthAssumption
       DEF UseNext, CallNext, CallNextError, Dispatch, Complete, NoCompletion, Handler
<1>4. ASSUME NEW i \in Handler, NEW result \in {"resolved", "rejected"}, Finish(i, result)
      PROVE  [Promised!Next]_<<N, started, outcome>>
  BY <1>4 DEF Finish, Complete, NoCompletion
<1>5. ASSUME NEW i \in Handler, ReturnPromise(i)
      PROVE  [Promised!Next]_<<N, started, outcome>>
  BY <1>5 DEF ReturnPromise
<1> QED
  BY <1>1, <1>2, <1>3, <1>4, <1>5
     DEF Next, Return, PromiseSettles, ReturnSync, Throw, PromiseResolves, PromiseRejects

(* The chain implements SequentialChain: handlers start in order, each     *)
(* once, none after the promise has settled.                               *)
THEOREM Refinement == Spec => Sequential
<1>1. Init => Promised!Init
  BY LengthAssumption DEF Init, Promised!Init
<1>2. ChainInv /\ [Next]_vars => [Promised!Next]_<<N, started, outcome>>
  BY StepRefines
<1> QED
  BY <1>1, <1>2, Invariance, PTL DEF Spec, Sequential, Promised!Spec, Promised!chain
=============================================================================
