-------------------------- MODULE SequentialChain --------------------------
(***************************************************************************)
(* What runMiddlewareChain() of src/src/framework/app.ts promises: the     *)
(* handlers of a chain start one after the other, in order, each once, and *)
(* the promise it returns settles once; nothing starts after that.         *)
(***************************************************************************)
EXTENDS Naturals

VARIABLES length,   \* handlers in the chain, any number
          started,  \* handlers started so far
          outcome   \* of the promise: "pending", "resolved" or "rejected"

chain == <<length, started, outcome>>

Init == started = 0 /\ outcome = "pending"

StartNext ==
  /\ outcome = "pending"
  /\ started < length
  /\ started' = started + 1
  /\ UNCHANGED <<length, outcome>>

Settle ==
  /\ outcome = "pending"
  /\ outcome' \in {"resolved", "rejected"}
  /\ UNCHANGED <<length, started>>

Next == StartNext \/ Settle

Spec == Init /\ [][Next]_chain
=============================================================================
