---------------------------- MODULE MCHttpParser ----------------------------
(***************************************************************************)
(* Instances of HttpParser for TLC: an alphabet of one-byte start, header  *)
(* and chunk-size lines, and the streams a peer may send.                  *)
(***************************************************************************)
EXTENDS HttpReference, WholeStream, TLC

MCText == {"g", "v", "c", "z", "i", "t", "u", "e", "o", "0", "2"}

(* "g" is a request line, "v" one of another HTTP version, every other     *)
(* start line is malformed.                                                *)
MCStartLines == <<"g">> :> 200 @@ <<"v">> :> 505

F(name, valid, length, coding) ==
  [name |-> name, valid |-> valid, length |-> length, coding |-> coding]

(* "c", "z", "i": Content-Length of 2, of 0 and of no number; "t", "u",    *)
(* "e": Transfer-Encoding chunked, another one, an empty one; "o": any     *)
(* other field.  "g", "v", "0" and "2" have no colon.                      *)
MCFieldLines ==
  <<"c">> :> F("content-length", TRUE, 2, "")
  @@ <<"z">> :> F("content-length", TRUE, 0, "")
  @@ <<"i">> :> F("content-length", FALSE, 0, "")
  @@ <<"t">> :> F("transfer-encoding", TRUE, 0, "chunked")
  @@ <<"u">> :> F("transfer-encoding", TRUE, 0, "other")
  @@ <<"e">> :> F("transfer-encoding", TRUE, 0, "")
  @@ <<"o">> :> F("other", TRUE, 0, "")
  @@ <<"o", "o">> :> F("other", TRUE, 0, "")

MCSizeLines == <<"0">> :> 0 @@ <<"2">> :> 2

NL == <<CR, LF>>
L(c) == <<c>> \o NL
Request(fields, rest) == L("g") \o fields \o NL \o rest

(* Header sections: every framing decideBodyMode() tells apart.            *)
Sections == {<<>>, L("o"), L("c"), L("z"), L("i"), L("t"), L("u"), L("e"),
             L("c") \o L("t"), L("o") \o L("c"), L("u") \o L("t"),
             L("t") \o L("u"), L("t") \o L("e"), L("z") \o L("c"), L("g")}

(* What follows a header section: bodies whose bytes look like line ends   *)
(* and lines, chunked bodies with and without trailers, cut or malformed   *)
(* ones.                                                                   *)
Data == {<<>>, NL, <<"g", CR>>,
         L("2") \o NL \o NL \o L("0") \o NL,
         L("2") \o <<"g", LF>> \o NL \o L("2") \o <<"0", "0">> \o NL
           \o L("0") \o L("o") \o NL,
         L("2") \o <<"g", "g", CR, "g">>,
         L("2") \o <<"g", "g", "g", LF>>,
         L("0") \o L("g") \o NL,
         L("0") \o L("o") \o L("o") \o L("o") \o NL,
         NL \o L("g"), L("i")}

Followers == {<<>>, Request(L("c"), <<"o", "o">>), NL \o Request(<<>>, <<>>)}

FramingStreams == {Request(s, d \o f) : s \in Sections, d \in Data, f \in Followers}

(* Starts of streams, and lines at, over and far over MaxLineBytes = 2.    *)
Long == <<"o", "o", "o", "o">>
StartStreams ==
  {NL \o <<CR>> \o Request(<<>>, <<>>), L("v") \o NL, L("o") \o NL,
   <<CR, "g", LF>>, <<"g", LF, CR, LF>>, <<"g", CR, CR, LF>>,
   <<LF, LF>> \o Request(L("o"), <<>>)}
LineStreams ==
  {Request(<<"o", "o">> \o NL, <<>>),
   Request(<<"o", LF>> \o NL, <<>>),
   Request(<<"o", "o", "o">> \o NL, <<>>),
   Request(Long \o NL, <<>>),
   Request(Long \o <<CR, "o">>, <<>>),
   Request(<<"o", CR, "o">> \o NL, <<>>),
   Long \o NL, Long \o <<CR, CR>>,
   Request(L("t"), Long \o NL),
   Request(L("t"), L("0") \o Long \o NL),
   Request(L("t"), L("0") \o Long \o <<CR, "g">>)}

(* Header sections and trailers at and over a MaxHeaderBytes of 7.         *)
SectionStreams ==
  {Request(L("o") \o L("c"), <<"g", "g">> \o Request(L("o") \o L("o") \o L("o"), <<>>)),
   Request(<<"o", "o">> \o NL \o L("o"), Request(<<"o", "o">> \o NL \o <<"o", "o">> \o NL, <<>>)),
   Request(L("t"), L("0") \o L("o") \o L("o") \o NL) \o L("g"),
   Request(L("t"), L("0") \o L("o") \o L("o") \o L("o") \o NL) \o L("g"),
   Request(L("t"), L("0") \o L("o") \o L("g") \o L("o") \o NL),
   Request(L("t"), L("0") \o L("o") \o L("g") \o NL)}

AllStreams == FramingStreams \cup StartStreams \cup LineStreams \cup SectionStreams

(* Streams short enough to be cut by reset() at every point.               *)
ResetStreams ==
  {Request(L("c"), NL \o Request(L("z"), <<>>)),
   Request(L("t"), L("2") \o NL \o NL \o L("0") \o NL) \o Request(<<>>, <<>>),
   Request(L("i"), Request(<<>>, <<>>)),
   L("v") \o Request(L("o"), Request(<<>>, <<>>)),
   Request(Long \o NL, Request(<<>>, <<>>))}

AllOrResetStreams == AllStreams \cup ResetStreams
UptoTwoResets == [s \in AllOrResetStreams |-> IF s \in ResetStreams THEN 2 ELSE 0]
OneReset == [s \in SectionStreams |-> 1]
=============================================================================
