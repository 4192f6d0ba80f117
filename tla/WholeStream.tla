---------------------------- MODULE WholeStream ----------------------------
(***************************************************************************)
(* The parser that is handed a stream in pieces, seen as the same parser   *)
(* that was handed all of it in its first feed().  feed() "must give the   *)
(* same result at any byte boundary" (parser.ts:20, comment, translated):  *)
(* every step of the one is a step of the other, or none.                  *)
(***************************************************************************)
EXTENDS HttpParser

(* A body is read as it comes, so bytes of a body or of a chunk may have   *)
(* left the buffer before the other parser could have touched them.        *)
AbsorbedIn(state, p) ==
  IF state = "BODY_LENGTH" THEN p.body
  ELSE IF state = "BODY_CHUNK_DATA" THEN Drop(p.body, Len(p.body) - p.chunkRead)
  ELSE <<>>
UnreadIn(state, p) ==
  [p EXCEPT !.body = Take(@, Len(@) - Len(AbsorbedIn(state, p))),
            !.chunkRead = IF state = "BODY_CHUNK_DATA" THEN 0 ELSE @]

(* What the other parser holds, all that is fed and all that is still to   *)
(* be fed, and where it stands in its message.                             *)
Absorbed == AbsorbedIn(stateName, current)
Whole == (Absorbed \o buffer) \o unsent
Before == UnreadIn(stateName, current)
Finished == taken \o ready

(* It stops when it is out of bytes, or on an error.                       *)
Running == stateName # "ERROR" /\ (stateName = "START" => Whole # <<>>)

OneFeed ==
  INSTANCE HttpParser
    WITH buffer <- Whole, current <- Before, ready <- Finished,
         call <- IF Running THEN "advance" ELSE "idle",
         unsent <- <<>>, offered <- <<>>, taken <- <<>>

view == <<Whole, stateName, Before, Finished, lastError, peeked>>
-----------------------------------------------------------------------------
(* The line breaks in front of a message may go before its start line has  *)
(* come, and a line over the limit is refused before its end has.          *)
Skipping ==
  \/ Whole' = Whole
  \/ /\ stateName = "START"
     /\ \E n \in 1..Len(Whole) : /\ \A i \in 1..n : Whole[i] \in {CR, LF}
                                 /\ Whole' = Drop(Whole, n)

SkipBreaks ==
  /\ Skipping
  /\ UNCHANGED <<stateName, Before, Finished, lastError, peeked>>

RefuseLong ==
  /\ stateName \in LineStates
  /\ Skipping
  /\ Len(Whole') > MaxLineBytes
  /\ \A i \in 1..(MaxLineBytes + 1) : Whole'[i] # CR
  /\ stateName' = "ERROR" /\ lastError' = 431
  /\ UNCHANGED <<Before, Finished, peeked>>

(* After an error the bytes that come are dropped; reset() starts again on *)
(* those not fed yet.                                                      *)
Discard ==
  /\ stateName = "ERROR"
  /\ UNCHANGED <<stateName, Before, Finished, lastError, peeked>>

Restart ==
  /\ stateName' = "START" /\ Before' = EmptyProgress
  /\ Finished' = <<>> /\ lastError' = 0
  /\ \E n \in 0..Len(Whole) : Whole' = Drop(Whole, n)
  /\ resets' = resets + 1
  /\ UNCHANGED peeked

WholeInit ==
  /\ Whole \in Streams /\ stateName = "START" /\ Before = EmptyProgress
  /\ Finished = <<>> /\ lastError = 0 /\ peeked = <<>>

WholeNext ==
  OneFeed!Advance \/ SkipBreaks \/ RefuseLong \/ Discard \/ Restart

(* In whatever pieces a stream comes, the parser goes through the steps of *)
(* one that has it all: same lines, same states, same messages, same error *)
(* (advance(), parser.ts:92-216).  A line over the limit aside, which is   *)
(* refused as soon as it is too long (:304-307).                           *)
ReadsAsWhole == WholeInit /\ [][WholeNext]_view

(* And it goes as far: when a call returns, the other parser could do      *)
(* nothing either with the bytes that have been fed.                       *)
Fed == Absorbed \o buffer
StuckOn(b) ==
  /\ stateName \in LineStates => LineIncomplete(b)
  /\ stateName = "BODY_LENGTH" => Len(b) < current.expected
  /\ stateName = "BODY_CHUNK_DATA" => Len(b) < current.chunkSize + 2
  /\ stateName # "DONE"
ReadsAllFed == call = "idle" /\ stateName # "ERROR" => StuckOn(Fed)

(* A caller that does not reset() a parser with a line in its cache: one   *)
(* that a header line over the limit has stopped.                          *)
TidyResets == [][Reset => peeked = <<>>]_vars

(* What is absorbed is in the body, and a cached line goes with an error.  *)
Tidy ==
  /\ stateName = "BODY_CHUNK_DATA" => current.chunkRead <= Len(current.body)
  /\ peeked # <<>> => stateName = "ERROR"
=============================================================================
