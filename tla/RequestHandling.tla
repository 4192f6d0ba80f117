-------------------------- MODULE RequestHandling --------------------------
(***************************************************************************)
(* One request on its way through the framework: its lines are read        *)
(* (parse-request-line.ts, parse-headers.ts), runChain() of app.ts picks   *)
(* the middlewares and the route, the handlers of body-parsers.ts and      *)
(* static.ts and those of an application run one after the other, and      *)
(* handleOne() sees to it that there is a response (response.ts).          *)
(*                                                                         *)
(* staticFiles() waits for the file system twice, and files may change at  *)
(* any moment.  How next() and promises settle a chain is MiddlewareChain, *)
(* how requests share a connection is HttpConnection.                      *)
(***************************************************************************)
EXTENDS Routing

CONSTANTS
  Scenarios,   \* applications, each with a request
  Upper,       \* toUpperCase() of a method, by symbol
  Lower,       \* toLowerCase() of a field name, by symbol
  WordChar,    \* what \w matches, in a content type
  Documents,   \* the bodies that are JSON
  FileNames,   \* the files there may be: absolute paths, as segments
  Contents,    \* what a file may contain
  MaxChanges   \* bound: changes of files

JSON == "application/json"
FORM == "application/x-www-form-urlencoded"
CONTENT_TYPE == "content-type"

(* Handlers: those the framework makes,                                    *)
(*   json, urlencoded (limit)   static (prefix)                            *)
(* and those of an application:                                            *)
(*   echo      responds with the params, the query and the body            *)
(*   pass      calls next()                                                *)
(*   typed     sets a Content-Type and calls next()                        *)
(*   deny      responds 403                                                *)
(*   silent    returns                                                     *)
(*   throws    throws                                                      *)
(*   replyNext responds and calls next()                                   *)
HandlerKind == {"json", "urlencoded", "static", "echo", "pass", "typed",
                "deny", "silent", "throws", "replyNext"}

(* What may be at a path; a denied file can be looked at but not read, and *)
(* of an obscured one not even that (its directory is closed, say).        *)
Bare(kind) == [kind |-> kind, content |-> <<>>]
File(content) == [kind |-> "file", content |-> content]
Entry == {Bare("absent"), Bare("dir"), Bare("denied"), Bare("obscured")}
           \cup {File(c) : c \in Contents}

(* What a scenario is.  Only a route ends in echo, which shows what a route *)
(* handler gets to see.                                                    *)
Handler(kinds) == [kind : kinds, limit : Nat, prefix : Word]
Middleware == [path : Word, handler : Handler(HandlerKind \ {"echo"})]
Route == [method : Word, pattern : Word, handler : Handler(HandlerKind)]
Scenario ==
  [middlewares : Seq(Middleware), routes : Seq(Route), line : Word, fields : Seq(Word),
   body : Word, files : [FileNames -> Entry]]

ASSUME HandlingAssumption ==
  /\ Scenarios \subseteq Scenario
  /\ FileNames \subseteq Seq(Word) /\ Contents \subseteq Word
  /\ Upper \in [TChar -> TChar] /\ Lower \in [TChar -> TChar]
  /\ <<>> \in Contents /\ Root \notin FileNames
  /\ MaxChanges \in Nat

VARIABLES
  scenario,   \* the application (middlewares, routes) and the request
              \* (line, fields, body)
  files,      \* the file system
  had,        \* history: all that each file has been
  changes,    \* environment: changes made so far
  req,        \* what the framework reads in the request, and
  route,      \* the route it picks, or 0,
  params,     \* its parameters,
  chain,      \* and the handlers: settled by the scenario alone
  turn,       \* what comes next: "receive", "dispatch", "call", "stat",
              \* "read", "settled", "done"
  started,    \* handlers started
  outcome,    \* of the chain
  error,      \* the status its error carries, or 0
  target,     \* the path staticFiles() is serving
  body,       \* req.body
  res,        \* the response builder
  responses,  \* what was written to the socket
  shown       \* history: what a route handler has seen

store == <<files, had, changes>>
request == <<scenario, req, route, params, chain>>
chainState == <<turn, started, outcome, error>>
vars == <<scenario, files, had, changes, req, route, params, chain, turn, started, outcome, error,
          target, body, res, responses, shown>>

(* toFwRequest(): what handlers see of the request, but for its body.      *)
Line == RequestLine(scenario.line)
Fields == [i \in DOMAIN scenario.fields |-> FieldLine(scenario.fields[i])]

(* The status with which the parser refuses the lines, or 200.             *)
Refused ==
  IF Line.status # 200 THEN Line.status
  ELSE IF \E i \in DOMAIN Fields : ~Fields[i].valid THEN 400 ELSE 200

(* getHeader()                                                             *)
Lowered(name) == [i \in DOMAIN name |-> Lower[name[i]]]
GetHeader(name) ==
  LET found == {i \in DOMAIN Fields : Lowered(Fields[i].name) = name}
  IN  IF found = {} THEN <<>> ELSE Fields[CHOOSE i \in found : \A j \in found : i <= j].value

(* /^application\/json\b/.test(ct), and the same for forms.                *)
HasType(type) ==
  /\ req.type # <<>> /\ req.type[1] = type
  /\ Len(req.type) > 1 => req.type[2] \notin WordChar

ReadRequest ==
  [status |-> Refused, method |-> Line.method, path |-> Path(Line.target),
   query |-> ParseQuery(Query(Line.target)), type |-> GetHeader(<<CONTENT_TYPE>>)]

(* runChain(): the middlewares mounted on the path, then the first route   *)
(* of the method that matches it, which gives the params.                  *)
ToUpper(word) == [i \in DOMAIN word |-> Upper[word[i]]]
OnPath == {i \in DOMAIN scenario.middlewares : PathMatches(scenario.middlewares[i].path, req.path)}
Mounted ==
  LET on == OnPath
  IN  [k \in 1..Cardinality(on) |-> scenario.middlewares[Ranked(on, k - 1)]]
FindRoute ==
  SelectInSeq(scenario.routes,
              LAMBDA r : r.method = ToUpper(req.method) /\ Matches(r.pattern, req.path))

PickChain ==
  [i \in DOMAIN Mounted |-> Mounted[i].handler] \o
  IF route = 0 THEN <<>> ELSE <<scenario.routes[route].handler>>

RouteParams ==
  IF route = 0 THEN NoEntries ELSE Params(scenario.routes[route].pattern, req.path)

RawBody == [as |-> "raw", text |-> scenario.body, fields |-> NoEntries]
NothingShown == [route |-> 0, params |-> NoEntries, query |-> NoEntries, body |-> RawBody]

TypeOK ==
  /\ files \in [FileNames -> Entry] /\ had \in [FileNames -> SUBSET Entry]
  /\ changes \in 0..MaxChanges
  /\ turn \in {"receive", "dispatch", "call", "stat", "read", "settled", "done"}
  /\ started \in 0..Len(chain)
  /\ outcome \in {"pending", "resolved", "rejected"}
  /\ error \in {0, 400, 413}
  /\ body.as \in {"raw", "json", "form", "undefined"}
  /\ res.status \in {200, 400, 403, 404, 413, 500, 505}
  /\ res.length \in {-1} \cup {Len(c) : c \in Contents}
  /\ res.sent \in BOOLEAN
-----------------------------------------------------------------------------
Init ==
  /\ scenario \in Scenarios
  /\ files = [f \in FileNames |-> scenario.files[f]]
  /\ had = [f \in FileNames |-> {files[f]}]
  /\ changes = 0
  /\ req = ReadRequest
  /\ route = IF req.status = 200 THEN FindRoute ELSE 0
  /\ params = RouteParams
  /\ chain = IF req.status = 200 THEN PickChain ELSE <<>>
  /\ turn = "receive" /\ started = 0 /\ outcome = "pending" /\ error = 0
  /\ target = Root /\ body = RawBody
  /\ res = [status |-> 200, types |-> <<>>, length |-> -1, sent |-> FALSE]
  /\ responses = <<>>
  /\ shown = NothingShown

(* A response, by whom, and its body; length is that of the Content-Length *)
(* field, which is the body's own unless one was set.                      *)
Written(by, builder, content) ==
  [by |-> by, status |-> builder.status, types |-> builder.types, content |-> content,
   length |-> IF builder.length >= 0 THEN builder.length ELSE Len(content)]

(* ensureContentType() and flush(): json(), text() and send() with the     *)
(* type each falls back to.  flush() refuses a second response.            *)
Ensured(builder, type) ==
  IF builder.types = <<>> THEN [builder EXCEPT !.types = <<type>>] ELSE builder
Flush(by, builder, content) ==
  /\ ~res.sent
  /\ res' = [builder EXCEPT !.sent = TRUE]
  /\ responses' = Append(responses, Written(by, builder, content))
NoFlush == UNCHANGED <<res, responses>>
WithStatus(status) == [res EXCEPT !.status = status]
WithType(type) == [res EXCEPT !.types = Append(@, type)]

(* Mutant of Reject: the chain goes on.                                    *)
RejectGoingOn(status) ==
  turn' = "dispatch" /\ outcome' = "rejected" /\ error' = status /\ UNCHANGED started

(* How a handler leaves its place in the chain: next(), next(err) or a     *)
(* throw, or a return without next().                                      *)
CallNext == turn' = "dispatch" /\ UNCHANGED <<started, outcome, error>>
Reject(status) ==
  turn' = "settled" /\ outcome' = "rejected" /\ error' = status /\ UNCHANGED started
Stop == turn' = "settled" /\ outcome' = "resolved" /\ UNCHANGED <<started, error>>

(* Calls of the builder after the response has gone throw, an error that   *)
(* carries no status.                                                      *)
TooLate == res.sent /\ NoFlush /\ Reject(0)
-----------------------------------------------------------------------------
(* The parser has the whole request, or refuses a line of it and           *)
(* writeParseError() responds.                                             *)
Receive ==
  /\ turn = "receive"
  /\ \/ /\ req.status = 200
        /\ turn' = "dispatch"
        /\ NoFlush
     \/ /\ req.status # 200
        /\ turn' = "done"
        /\ Flush("parser", Ensured(WithStatus(req.status), "json"), <<"error">>)
  /\ UNCHANGED <<request, store, started, outcome, error, target, body, shown>>

(* dispatch(): the next handler is called, or the chain is over.           *)
Dispatch ==
  /\ turn = "dispatch"
  /\ \/ /\ started < Len(chain)
        /\ started' = started + 1
        /\ turn' = "call"
        /\ UNCHANGED <<outcome, error>>
     \/ /\ started = Len(chain)
        /\ Stop
  /\ UNCHANGED <<request, store, target, body, res, responses, shown>>

(* Mutants of ParseBody: the length is not looked at.                      *)
ParseBodyUnlimited(h, type, parsed, valid) ==
  /\ \/ ~HasType(type) /\ CallNext /\ UNCHANGED body
     \/ HasType(type) /\ scenario.body # <<>> /\ ~valid /\ Reject(400) /\ UNCHANGED body
     \/ HasType(type) /\ (valid \/ scenario.body = <<>>) /\ CallNext /\ body' = parsed
  /\ NoFlush /\ UNCHANGED <<target, shown>>

(* json() and urlencoded(): a body of the type is decoded, unless it is too *)
(* long or is none.                                                        *)
ParseBody(h, type, parsed, valid) ==
  /\ \/ ~HasType(type) /\ CallNext /\ UNCHANGED body
     \/ HasType(type) /\ Len(scenario.body) > h.limit /\ Reject(413) /\ UNCHANGED body
     \/ /\ HasType(type) /\ Len(scenario.body) <= h.limit
        /\ \/ scenario.body # <<>> /\ ~valid /\ Reject(400) /\ UNCHANGED body
           \/ (valid \/ scenario.body = <<>>) /\ CallNext /\ body' = parsed
  /\ NoFlush /\ UNCHANGED <<target, shown>>

Decoded(as) ==
  [as |-> as, text |-> <<>>,
   fields |-> IF as = "form" THEN ParseForm(scenario.body) ELSE NoEntries]

Json(h) ==
  /\ h.kind = "json"
  /\ ParseBody(h, JSON,
               IF scenario.body = <<>> THEN Decoded("undefined")
               ELSE [Decoded("json") EXCEPT !.text = scenario.body],
               scenario.body \in Documents)

Urlencoded(h) ==
  /\ h.kind = "urlencoded"
  /\ ParseBody(h, FORM, Decoded("form"), ValidForm(scenario.body))

(* staticFiles(), up to its first await.                                   *)
Serves(h) == ToUpper(req.method) \in {<<"GET">>, <<"HEAD">>} /\ IsPrefix(h.prefix, req.path)

StaticFiles(h) ==
  /\ h.kind = "static"
  /\ \/ ~Serves(h) /\ CallNext /\ UNCHANGED target
     \/ /\ Serves(h)
        /\ target' = Resolve(h.prefix, req.path)
        /\ \/ ~Inside(target') /\ Reject(400)
           \/ Inside(target') /\ turn' = "stat" /\ UNCHANGED <<started, outcome, error>>
  /\ NoFlush /\ UNCHANGED <<body, shown>>

(* The handlers of an application.                                         *)
Own(h) ==
  /\ \/ h.kind \in {"pass"} /\ NoFlush /\ CallNext
     \/ h.kind \in {"silent"} /\ NoFlush /\ Stop
     \/ h.kind \in {"throws"} /\ NoFlush /\ Reject(0)
     \/ h.kind \in {"typed"} /\ ~res.sent /\ res' = WithType("own") /\ UNCHANGED responses /\ CallNext
     \/ h.kind \in {"deny"} /\ Flush("handler", Ensured(WithStatus(403), "json"), <<"no">>) /\ Stop
     \/ h.kind \in {"replyNext"} /\ Flush("handler", Ensured(res, "text"), <<"hello">>) /\ CallNext
     \/ h.kind \in {"echo"} /\ Flush("handler", Ensured(res, "json"), <<"echo">>) /\ Stop
     \/ h.kind \in {"typed", "deny", "replyNext", "echo"} /\ TooLate
  /\ shown' = IF h.kind # "echo" THEN shown
              ELSE [route |-> route, params |-> params,
                    query |-> req.query, body |-> body]
  /\ UNCHANGED <<target, body>>

Call ==
  /\ turn = "call"
  /\ LET h == chain[started]
     IN  Json(h) \/ Urlencoded(h) \/ StaticFiles(h) \/ Own(h)
  /\ UNCHANGED <<request, store>>
-----------------------------------------------------------------------------
(* What is at a path: the root is a directory, and there is nothing but    *)
(* the files named.                                                        *)
Found ==
  IF target \in FileNames THEN files[target]
  ELSE IF target = Root THEN Bare("dir") ELSE Bare("absent")

(* fs.stat() answers, or fails with an error other than ENOENT or ENOTDIR. *)
Stat ==
  /\ turn = "stat"
  /\ \/ Found.kind \in {"absent", "dir"} /\ CallNext
     \/ Found.kind = "obscured" /\ Reject(0)
     \/ Found.kind \in {"file", "denied"} /\ turn' = "read" /\ UNCHANGED <<started, outcome, error>>
  /\ UNCHANGED <<request, store, target, body, res, responses, shown>>

(* fs.readFile() answers, with the file as it is now.                      *)
SendFile(content) ==
  \/ ToUpper(req.method) = <<"HEAD">> /\ Flush("file", [WithType("mime") EXCEPT !.length = Len(content)], <<>>)
  \/ ToUpper(req.method) # <<"HEAD">> /\ Flush("file", WithType("mime"), content)

ReadFile ==
  /\ turn = "read"
  /\ \/ Found.kind = "absent" /\ NoFlush /\ CallNext
     \/ Found.kind \in {"dir", "denied", "obscured"} /\ NoFlush /\ Reject(0)
     \/ Found.kind = "file" /\ SendFile(Found.content) /\ Stop
     \/ Found.kind = "file" /\ TooLate
  /\ UNCHANGED <<request, store, target, body, shown>>

(* Another process writes, removes or locks a file, or puts a directory in *)
(* its place, while the chain is on its way.                               *)
ChangeFile(f, e) ==
  /\ turn \in {"stat", "read"} /\ changes < MaxChanges
  /\ e # files[f]
  /\ files' = [files EXCEPT ![f] = e]
  /\ had' = [had EXCEPT ![f] = @ \cup {e}]
  /\ changes' = changes + 1
  /\ UNCHANGED <<request, chainState, target, body, res, responses, shown>>

(* defaultErrorHandler(): the status of the error, or 500.                 *)
ErrorStatus == IF error = 0 THEN 500 ELSE error
Report(status) == Flush("error", Ensured(WithStatus(status), "json"), <<"error">>)

(* Mutants of HandleOutcome: an error is always reported; nothing is sent  *)
(* when the chain resolves.                                                *)
HandleOutcomeAlways ==
  \/ outcome = "resolved" /\ res.sent /\ NoFlush
  \/ outcome = "rejected" /\ res' = [WithStatus(ErrorStatus) EXCEPT !.sent = TRUE]
       /\ responses' = Append(responses, Written("error", WithStatus(ErrorStatus), <<"error">>))
  \/ outcome = "resolved" /\ Report(404)
HandleOutcomeQuietly ==
  \/ (res.sent \/ outcome = "resolved") /\ NoFlush
  \/ outcome = "rejected" /\ Report(ErrorStatus)

(* safeError() with the default error handler, and the 404 of handleOne(). *)
HandleOutcome ==
  \/ res.sent /\ NoFlush
  \/ outcome = "rejected" /\ Report(ErrorStatus)
  \/ outcome = "resolved" /\ Report(404)

Finish ==
  /\ turn = "settled"
  /\ turn' = "done"
  /\ HandleOutcome
  /\ UNCHANGED <<request, store, started, outcome, error, target, body, shown>>

Step == Receive \/ Dispatch \/ Call \/ Stat \/ ReadFile \/ Finish

Next == Step \/ \E f \in FileNames, e \in Entry : ChangeFile(f, e)

(* The process runs its callbacks, and the file system answers.            *)
Spec == Init /\ [][Next]_vars /\ WF_vars(Step)
-----------------------------------------------------------------------------
(* Every line that comes is taken apart as the grammar of RFC 9112 says,   *)
(* and refused when it does not follow it; the same line read as a status  *)
(* line or a field line (parse-request-line.ts:19-71,                      *)
(* parse-status-line.ts:17-55, parse-headers.ts:35-68).  The two kinds of  *)
(* control characters that the code takes against its own comments are     *)
(* HasLooseReason and HasLooseValue.                                       *)
LinesAsGrammar ==
  turn = "receive" =>
    /\ RequestLineGrammar(scenario.line)
    /\ StatusLineGrammar(scenario.line)
    /\ FieldLineGrammar(scenario.line)
    /\ \A i \in DOMAIN scenario.fields : FieldLineGrammar(scenario.fields[i])

(* The compiled patterns and the mount paths decide by segments, whatever  *)
(* the path looks like (compilePath() and pathMatches(), app.ts:334-356).  *)
RoutesBySegments ==
  turn = "dispatch" /\ started = 0 =>
    /\ \A i \in DOMAIN scenario.routes : MatchesBySegments(scenario.routes[i].pattern, req.path)
    /\ \A i \in DOMAIN scenario.middlewares : MountedBySegments(scenario.middlewares[i].path, req.path)

(* A query and a form say the same in the same words, the last pair of a   *)
(* name counts, and only what cannot be decoded divides them (url.ts:21-37, *)
(* body-parsers.ts:56-66).                                                 *)
FormsAgree ==
  turn = "receive" => ReadAsPairs(scenario.body) /\ ReadAsPairs(Query(Line.target))

(* Whatever the handlers send, in whatever order they fail, and whatever   *)
(* becomes of the files, a request gets one response and no second one; an *)
(* error after it is not reported, and one before it is                    *)
(* (app.ts:160-163, :191-200, :234-243, response.ts:81-83).                *)
OneAnswer ==
  /\ Len(responses) = IF res.sent THEN 1 ELSE 0
  /\ turn = "done" =>
       /\ res.sent
       /\ responses[1].by = "error" =>
            responses[1].status = IF outcome = "resolved" THEN 404 ELSE ErrorStatus

(* A route handler runs only when every middleware mounted above the path  *)
(* has let the request pass, and what it sees as decoded is no longer than *)
(* each of their limits (runChain(), app.ts:171-189; body-parsers.ts).     *)
Above(m) ==
  m.path \in {<<SLASH>>, <<>>} \/ IsPrefix(Split(m.path, SLASH), Split(req.path, SLASH))
HandlersGuarded ==
  shown.route # 0 =>
    \A i \in DOMAIN scenario.middlewares :
      LET m == scenario.middlewares[i]
      IN  Above(m) =>
            /\ m.handler.kind \notin {"deny", "silent", "throws"}
            /\ shown.body.as \in {"json", "undefined"} => HasType(JSON)
            /\ m.handler.kind = "json" /\ HasType(JSON) =>
                 shown.body.as # "raw" /\ Len(scenario.body) <= m.handler.limit
            /\ m.handler.kind = "urlencoded" /\ HasType(FORM) =>
                 shown.body.as # "raw" /\ Len(scenario.body) <= m.handler.limit

(* A file that is served lies under the root and comes as it has been at   *)
(* one moment since the request arrived, its length with it, though stat() *)
(* and readFile() may have seen two different things (static.ts:40-69).    *)
(* Which file a path leads to is Resolve; no property is about that.       *)
FileServed ==
  \A k \in DOMAIN responses : responses[k].by = "file" =>
    /\ target \in FileNames /\ Len(target) > Len(Root)
    /\ \A i \in DOMAIN Root : target[i] = Root[i]
    /\ \E e \in had[target] :
         /\ e.kind = "file" /\ responses[k].length = Len(e.content)
         /\ responses[k].content = IF ToUpper(req.method) = <<"HEAD">> THEN <<>> ELSE e.content

(* Why these hold, step by step: what the scenario settles stays; a file   *)
(* is looked for and read under the root only, in one of the states it has *)
(* had, and its response ends the chain; every handler before the one      *)
(* whose turn it is has let the request pass.                              *)
Settled ==
  /\ scenario \in Scenarios /\ req = ReadRequest
  /\ route = IF req.status = 200 THEN FindRoute ELSE 0
  /\ params = RouteParams
  /\ chain = IF req.status = 200 THEN PickChain ELSE <<>>

Serving ==
  /\ ~res.sent => res.length = -1
  /\ turn \in {"stat", "read"} => Inside(target)
  /\ \A f \in FileNames : files[f] \in had[f]
  /\ \A k \in DOMAIN responses : responses[k].by = "file" => turn \in {"settled", "done"}

Cleared(h) ==
  /\ h.kind \notin {"deny", "silent", "throws"}
  /\ h.kind = "json" /\ HasType(JSON) => body.as # "raw" /\ Len(scenario.body) <= h.limit
  /\ h.kind = "urlencoded" /\ HasType(FORM) => body.as # "raw" /\ Len(scenario.body) <= h.limit
Guarding ==
  /\ body.as \in {"json", "undefined"} => HasType(JSON)
  /\ turn = "receive" => started = 0
  /\ turn = "dispatch" => \A k \in 1..started : Cleared(chain[k])
  /\ turn \in {"call", "stat", "read"} =>
       started >= 1 /\ \A k \in 1..(started - 1) : Cleared(chain[k])
  /\ turn \in {"stat", "read"} => chain[started].kind = "static"

(* The handlers picked for a request start in their order, each once, and  *)
(* none after one has failed or ended the chain (runMiddlewareChain()).    *)
Promised == INSTANCE SequentialChain
              WITH length <- Len(chain), started <- started, outcome <- outcome
InOrder == Promised!Spec

(* Every request is answered at last.                                      *)
Answered == <>(turn = "done" /\ responses # <<>>)
=============================================================================
