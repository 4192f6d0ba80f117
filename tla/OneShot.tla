------------------------------ MODULE OneShot ------------------------------
(***************************************************************************)
(* parseRequest(buf) and parseResponse(buf) of src/src/http/parser.ts: a   *)
(* new parser, the whole buffer in one feed(), and two calls of next().    *)
(***************************************************************************)
EXTENDS HttpReference

VARIABLE outcome   \* "pending", then "message" (returned) or "throws"

oneShotVars == <<vars, outcome>>

OneShotInit == Init /\ outcome = "pending"

(* p.feed(buf)                                                             *)
FeedAll ==
  /\ offered = <<>> /\ unsent # <<>>
  /\ Feed(Len(unsent))
  /\ UNCHANGED outcome

Returned == call = "idle" /\ unsent = <<>> /\ outcome = "pending"

(* feed() has thrown.                                                      *)
FeedFailed ==
  /\ Returned
  /\ stateName = "ERROR"
  /\ outcome' = "throws"
  /\ UNCHANGED vars

(* msg = p.next(): null is "incomplete request".                           *)
FirstNext ==
  /\ Returned
  /\ stateName # "ERROR" /\ taken = <<>>
  /\ \/ ready # <<>> /\ TakeNext /\ UNCHANGED outcome
     \/ ready = <<>> /\ outcome' = "throws" /\ UNCHANGED vars

(* Mutant of SecondNext: a second message is not looked for.               *)
SecondNextUnchecked ==
  /\ Returned
  /\ stateName # "ERROR" /\ taken # <<>>
  /\ outcome' = "message"
  /\ UNCHANGED vars

(* p.next() again: a second message is "trailing data after request".      *)
SecondNext ==
  /\ Returned
  /\ stateName # "ERROR" /\ taken # <<>>
  /\ outcome' = IF ready = <<>> THEN "message" ELSE "throws"
  /\ IF ready = <<>> THEN UNCHANGED vars ELSE TakeNext

OneShotNext ==
  \/ FeedAll
  \/ Advance /\ UNCHANGED outcome
  \/ FeedFailed
  \/ FirstNext
  \/ SecondNext

OneShotSpec == OneShotInit /\ [][OneShotNext]_oneShotVars
-----------------------------------------------------------------------------
(* A buffer that is one message, to its last byte; and one in which the    *)
(* bytes behind a message are no message yet: line breaks, or the front of *)
(* another.                                                                *)
Exactly(b) == ReadMessage(b).kind = "ok" /\ ReadMessage(b).at = <<>>
RestUnseen(b) ==
  /\ ReadMessage(b).kind = "ok" /\ ReadMessage(b).at # <<>>
  /\ Meaning(b).status = 0 /\ Len(Meaning(b).messages) = 1

(* A buffer that is exactly one message is never refused, and the message  *)
(* returned is the one it holds; a buffer that holds none, more than one,  *)
(* or an error before or behind the first is never answered:               *)
(* parser.ts:396-407.  Leftover bytes are to be refused (:395), but those  *)
(* of RestUnseen the second next() does not see: whether such a buffer is  *)
(* answered the property leaves open.                                      *)
OneShotOutcome ==
  /\ outcome = "message" => /\ Exactly(offered) \/ RestUnseen(offered)
                            /\ taken = Meaning(offered).messages
  /\ outcome = "throws"  => ~Exactly(offered)
=============================================================================
