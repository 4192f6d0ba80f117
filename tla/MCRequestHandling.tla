------------------------- MODULE MCRequestHandling -------------------------
(* Scenarios for RequestHandling: lines of up to seven symbols, paths,     *)
(* queries and forms of up to four, chains of two middlewares and a route, *)
(* and files that change while they are served.                            *)
EXTENDS RequestHandling

MCTChar == {"GET", "HEAD", "POST", "get", "a", "b", "x", "1", "+", "&", ".", "..", "%", "%26",
            "__proto__", "content-type", "Content-Type"}
MCUpper == [c \in MCTChar |-> IF c = "get" THEN "GET" ELSE c]
MCLower == [c \in MCTChar |-> IF c = "Content-Type" THEN "content-type" ELSE c]
MCEscape == "%26" :> "&"
MCRoot == << <<"x">> >>
FileA == << <<"x">>, <<"a">> >>
MCFileNames == {FileA, << <<"a">> >>}
MCContents == {<<>>, <<"1", "1">>}
MCDocuments == {<<"a">>, <<"a", "a", "a">>}

H(kind) == [kind |-> kind, limit |-> 2, prefix |-> <<"/">>]
Static(prefix) == [H("static") EXCEPT !.prefix = prefix]
M(path, handler) == [path |-> path, handler |-> handler]
R(method, pattern) == [method |-> method, pattern |-> pattern, handler |-> H("echo")]
NoFiles == [f \in MCFileNames |-> Bare("absent")]
Scene(middlewares, routes, line, fields, text) ==
  [middlewares |-> middlewares, routes |-> routes, line |-> line, fields |-> fields,
   body |-> text, files |-> NoFiles]
RequestFor(method, where) == <<method, " ">> \o where \o <<" ", "HTTP/1.1">>

Words(S, n) == UNION {[1..k -> S] : k \in 0..n}

(* Any line up to three symbols, and more that may be field or start lines. *)
AnyLine ==
  {Scene(<<>>, <<R(<<"GET">>, <<":", "x">>)>>, line, <<>>, <<>>) :
     line \in Words({" ", "HTAB", ":", "GET", "1", "HTTP/1.1", "HTTP/2.0", "NUL", "BEL", "DEL"}, 3)
              \cup [1..4 -> {" ", "HTAB", ":", "GET", "NUL", "BEL", "DEL"}]
              \cup [1..5 -> {" ", "GET", "1", "HTTP/1.1", "HTTP/2.0", "NUL"}]
              \cup {<<"GET", " ", "a", " ", v, d>> : v \in {"HTTP/1.1", "HTTP/2.0"}, d \in {"1", "a"}}
              \cup {<<"HTTP/1.1", " ", "1", "1", "1", c, d>> : c \in {" ", "a"},
                       d \in {"a", " ", "HTAB", "NUL", "BEL", "DEL"}}}

(* Paths against patterns and mount paths of all shapes.                   *)
AllPatterns ==
  << <<"/">>, <<"/", "a">>, <<"/", ":", "x">>, <<"/", ":", "x", "/", ":", "x">>,
     <<"/", "a", "/", ":", "b">>, <<"/", ":", "__proto__", "/", "a">>, <<"/", ":", "a", "/">>,
     <<"a", ":", "x">>, <<"/", "a", "/", "b">>, <<>> >>
AllMounts ==
  << <<"/">>, <<"/", "a">>, <<"/", "a", "/">>, <<"/", "a", "/", "b">>, <<>>, <<"a">> >>
AnyPath ==
  {Scene([i \in 1..Len(AllMounts) |-> M(AllMounts[i], H("pass"))],
         [i \in 1..Len(AllPatterns) |-> R(<<"GET">>, AllPatterns[i])],
         RequestFor("get", path), <<>>, <<>>) :
     path \in Words({"/", "a", "b", "."}, 4) \ {<<>>}}

(* The same pairs as a query and as a form.                                *)
AnyPairs ==
  {Scene(<<M(<<"/">>, H("urlencoded"))>>, <<R(<<"POST">>, <<"/">>)>>,
         RequestFor("POST", <<"/", "?">> \o pairs),
         <<<<"Content-Type", ":", FORM>>>>, pairs) :
     pairs \in Words({"a", "b", "=", "&", "+", "%26", "%"}, 4)
               \cup {<<"__proto__", "=", "a">>, <<"a", "=", "b", "=", "a", "&", "a", "=", "b">>}}

(* Middlewares of every kind before a route, bodies of every kind.         *)
Middlewares ==
  {M(<<"/">>, H(kind)) : kind \in {"json", "urlencoded", "typed", "throws", "silent", "replyNext"}}
    \cup {M(<<"/", "a">>, H("deny"))}
AnyChain ==
  {Scene(ms, <<R(<<"POST">>, <<"/", "b">>), R(<<"POST">>, <<"/", ":", "x">>)>>,
         RequestFor("POST", path), <<field>>, text) :
     ms \in Words(Middlewares, 2), path \in {<<"/", "a">>, <<"/", "b">>, <<"/", "a", "/", "b">>},
     field \in {<<"Content-Type", ":", JSON>>, <<"content-type", ":", " ", JSON, "HTAB">>,
                <<"content-type", ":", JSON, "x">>, <<"content-type", ":", FORM, " ", "x">>,
                <<"content-type", " ", ":", FORM>>},
     text \in {<<>>, <<"a">>, <<"%">>, <<"a", "a", "a">>}}

(* Files, at every prefix, changing.                                       *)
StaticPaths ==
  {<<"/", "a">>, <<"/", "/", "a">>, <<"/", "b", "/", "..", "/", "a">>, <<"/", "b", "/", ".", "/", "a">>,
   <<"/", "..", "/", "a">>, <<"/">>, <<"/", "b", "a">>, <<"/", "b">>}
AnyFile ==
  {[Scene(before \o <<M(<<"/">>, Static(prefix))>>, <<R(<<"GET">>, <<"/", ":", "x">>)>>,
          RequestFor(method, path), <<>>, <<>>)
      EXCEPT !.files = [f \in MCFileNames |-> entry]] :
     before \in {<<>>, <<M(<<"/">>, H("replyNext"))>>, <<M(<<"/">>, H("typed"))>>},
     prefix \in {<<"/">>, <<"/", "b">>}, method \in {"GET", "HEAD", "POST"},
     path \in StaticPaths, entry \in Entry}

AllScenarios == AnyLine \cup AnyPath \cup AnyPairs \cup AnyChain \cup AnyFile
=============================================================================
