---------------------------- MODULE MCSerializer ----------------------------
(***************************************************************************)
(* Messages to serialize: those of the streams of MCHttpParser, and a few  *)
(* written by hand.                                                        *)
(***************************************************************************)
EXTENDS Serializer, MCHttpParser

SZText == MCText \cup {"l", "1", "h", "H", "I", "x"}

(* "h" stands for a byte over 0x7f in the target, "H" "I" for the two      *)
(* bytes UTF-8 makes of it, "x" for a status line with the code 600.       *)
SZStartLines ==
  MCStartLines @@ <<"h">> :> 200 @@ <<"H", "I">> :> 200 @@ <<"x">> :> 200
SZSoundStarts == {<<"g">>, <<"h">>, <<"H", "I">>}
SZFieldLines == MCFieldLines @@ <<"l">> :> F("content-length", TRUE, 1, "")
SZSizeLines == MCSizeLines @@ <<"1">> :> 1
SZUtf8 == [c \in SZText |-> IF c = "h" THEN <<"H", "I">> ELSE <<c>>]

SZLengthField == [n \in 0..2 |-> F("content-length", TRUE, n, "")]
SZSizeLine == [n \in 0..2 |-> CASE n = 0 -> <<"0">> [] n = 1 -> <<"1">> [] n = 2 -> <<"2">>]

Other == F("other", TRUE, 0, "")
BadName == F("other", FALSE, 0, "")
SZHandMade ==
  {[startLine |-> s, headers |-> h, body |-> b, trailers |-> <<>>] :
     s \in {<<"g">>, <<"x">>},
     h \in {<<>>, <<Other>>, <<Other, BadName>>, <<Other, Chunking>>}
           \cup {<<f>> : f \in {SZLengthField[n] : n \in 0..2}},
     b \in {<<>>, <<"g">>, <<CR, LF>>}}

NotHandMade == {}
SZStreams == AllStreams \cup {<<"h", CR, LF, CR, LF>>}
NoResets == [s \in SZStreams |-> 0]
NoFramingResets == [s \in FramingStreams |-> 0]
=============================================================================
