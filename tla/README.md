# A TLA+ model of my-http

`my-http` is a small TypeScript system in three layers: echo servers over TCP
and UDP, an incremental HTTP/1.1 parser with a serializer, and a web framework
that puts the parser on TCP sockets. This directory holds TLA+ modules that
model its core, TLC configurations that check them on small instances, and
TLAPS proofs of theorems that hold for every instance. Paths below are relative
to the repository (`src/...` is the implementation, `spec/...` its documents).

## 1. The system

| Component | Source | State | Operations | Module |
|---|---|---|---|---|
| HTTP message parser | `http/parser.ts`, `parse-headers.ts`, `types.ts` | buffer, state, message in progress, finished messages, last error, cached line | `feed`, `next`, `reset` | `HttpParser`; what it promises: `MessageSource`, `WholeStream` |
| Start lines and grammar | `http/parse-request-line.ts`, `parse-status-line.ts`, `parse-headers.ts`, `grammar.ts` | none | line validation | `Lines`; tables in `HttpParser` |
| One-shot parsing | `http/parser.ts:395-420` | none | `parseRequest`, `parseResponse` | `OneShot` |
| Serializer | `http/serializer.ts` | none | `serializeRequest`, `serializeResponse` | `Serializer` |
| Middleware chain | `framework/app.ts:245-307` | two flags per handler, a promise | `dispatch`, `next` | `MiddlewareChain`; what it promises: `SequentialChain` |
| HTTP connection | `framework/app.ts:101-200, 309-368`, `response.ts` | parser, promise chain `processing`, sent flag, socket | data, end, timeout, close events; handlers, error handlers | `HttpConnection` |
| App lifecycle | `framework/app.ts:101-113, 202-228` | active sockets of a server, promises of `close()` | `listen`, `close` | `AppServer` |
| Router | `framework/app.ts:66-99, 171-189, 334-356` | routes, middlewares | `use`, `get`..., matching | `Routing`, `RequestHandling` |
| Body parsers, static files, request target | `framework/body-parsers.ts`, `static.ts`, `url.ts` | `req.body`, the file system | handlers | `Routing`, `RequestHandling` |
| TCP echo server | `tcp/echo-server.ts` | active sockets, write queues | data, drain, end, close events; `close()` | `TcpEcho` |
| UDP echo server and client | `udp/*.ts` | counter, timers, listeners | message, stdin, timer and signal events | `UdpEcho` |
| Backpressure demo | `tcp/backpressure-demo.ts` | written bytes | a writer that waits for drain | not modelled |
| TCP client, command line, demos, log | `tcp/echo-client.ts`, `main.ts`, ... | none | input and output | not modelled |

How they interact. A socket's `data` event feeds the connection's parser
synchronously; finished messages are taken later, by a drain appended to the
promise chain `processing`. The drain runs one middleware chain per message:
the middlewares mounted above its path, then the first route that matches. The
handlers write through a response builder, which serializes and writes to the
socket once. Errors of the parser are appended to the same chain. `end`,
`timeout` and `AppHandle.close()` act on the socket directly, beside the chain.
The echo servers share nothing with the HTTP layers.

What is hard in it, and where it is stated (the full list is `hazards` in
`PROJECT.json`):

- the parser must mean the same however its bytes are cut, with a cache of the
  line it looked at last (`BoundaryIndependent`, `ReadsAsWhole`, `ReadsAllFed`,
  `ResetRecovers`);
- the body framing decides where the next message starts (`MessagesFramed`);
- handlers call `next()` late, twice, or after a throw (`SettledOnce`,
  `OneDriver`, refinement of `SequentialChain`);
- drains, parse errors, FIN, timeout and close interleave with handlers that
  wait (`ResponsesPaired`, `HandledSerially`, `ClosingResponseLast`,
  `DueAnswered`), and handlers and error handlers fail in their turn
  (`CrashExplained`);
- a request must get one response whatever its handlers do, and reach a route
  only past the middlewares that guard it (`OneAnswer`, `HandlersGuarded`);
- files change between `stat()` and `readFile()` (`FileServed`);
- `close()` of the framework waits for sockets it has only ended, and may be
  called twice (`CloseComplete`, `CallsSettle`);
- flow control must neither grow a queue nor stop for ever (`QueueBounded`,
  `Resumes`), and `close()` must wait for both the server and its sockets
  (`CloseDrains`);
- datagrams get lost, repeated and reordered while timers run
  (`EchoedNotReported`, `SilenceTold`).

## 2. The modules

**`HttpParser`** is the class `HttpMessageParser`. `feed()` runs the loop of
`advance()` to its end, so a call is atomic to its caller. The model takes the
loop one iteration at a time: `Feed` appends the chunk and sets `call` to
`"advance"`, in which only `Advance` is enabled; its disjuncts are the cases of
the switch (`ParseStartLine`, `ParseHeaderLine` and `EndHeaders`, `ReadBody`,
`ParseChunkSize`, `ReadChunkData`, `ParseTrailerLine` and `EndTrailers`,
`StartOver`), each with its early returns and errors. So the loop needs no
recursion, and the module can be proved about. A byte is CR, LF or a member of
`Text`; what a line says is given by tables (`StartLines`, `FieldLines`,
`SizeLines`), since `parse-request-line.ts`, `parse-status-line.ts` and the
grammar look at one line at a time and keep nothing. A line outside a table is
refused with 400. Both parser classes are the same machine with other tables.
`buffer`, `stateName`, `current`, `ready`, `lastError` are the fields of the
class, `peeked` stands for `peekedLine` and `peekedEnd`; `unsent` and `resets`
are the caller, `offered` and `taken` history.

**`HttpReference`** reads a byte string as a whole, with recursive functions and
none of the machine's state: `Meaning(b)` is the messages in `b` and the error
that stops them. `BoundaryIndependent` compares the two. The framing is stated
apart from `decideBodyMode()` too, after RFC 9112 and `spec/03` (`AnnouncesChunks`,
`AnnouncedLengths`), for the reference and for `MessagesFramed` alike.

**`WholeStream`** says the same without a reference: the parser that is handed a
stream in pieces is the parser that was handed all of it in its first `feed()`,
seen through a refinement mapping. The other parser's buffer is all that is fed
and not parsed and all that is still to be fed (`Whole`); the bytes of a body that
this one has taken as they came are still in it (`Absorbed`, `Before`).
`ReadsAsWhole` lets a step of the one be a step of the other (`OneFeed!Advance`)
or none; four kinds are named apart: line breaks in front of a message, which may
go early (`SkipBreaks`), a line over the limit, which is refused before its end
has come (`RefuseLong`), what comes after an error (`Discard`), and `reset()`
(`Restart`). `ReadsAllFed` says that it gets as far.

**`MessageSource`** is what the parser promises whoever holds one: finished
messages wait in a queue, leave it in order and once each, and an error ends
them for good without taking away those that wait. `HttpParser` implements it
(`SourceOfMessages`), `HttpConnection` is a user of it (`UsesSource`), which is
how the two are composed.

**`OneShot`** composes the parser with `parseRequest()`. **`Serializer`**
composes that with `serializeRequest()`/`serializeResponse()`: a message, parsed
or written by hand, is serialized and read again by a new parser.

**`MiddlewareChain`** is `runMiddlewareChain()`. Since `next()` calls the next
handler before it returns, the running handler with the highest index is on top
of the stack (`OnTop`); a handler that has returned calls `next()` from a
callback, on an empty stack (`MayCall`). **`SequentialChain`** is what the
function promises, and `MiddlewareChain` is shown to implement it.

**`HttpConnection`** is one socket of the framework. The client's bytes are a
sequence of requests, of which a chunk holds some number; what a handler does is
its kind, what the app's error handler does is another. A scenario is a plan of
requests, what may happen at any moment, and the error handler. Each reaction
chained on `processing` is an entry of `tasks`, whose `at` is where its async
function stands; between two `await`s the code is one action. `Quiescent` says
that Node takes no event while a microtask can run. `Write` is the socket's: a
write after `end()` destroys it. A connection is between two events when the
parser is called, so the parser is here the queue of its finished messages and
its error flag. The middleware chain is here one handler that settles once, which
`MiddlewareChain` justifies; how it comes to its response is `RequestHandling`.

**`AppServer`** is a server with all its connections: `listen()`, `activeSockets`,
the idle timer, and every call of `AppHandle.close()`. A connection is reduced to
what the server and the kernel see: a handler runs or not, bytes wait for the
client or not, each half is open or ended. The server's own "close" event
(`closing`, `ServerClosed`) is apart from that of the sockets (`SocketClosed`).

**`Lines`** is what the parser does with one line: `RequestLine`, `StatusLine`,
`FieldLine`, each following the early returns of its function, beside the
grammar of RFC 9112 their comments quote (`IsRequestLine`, `IsStatusLine`,
`IsFieldLine`). Two kinds of line that the code takes against that grammar are
named apart (`HasLooseReason`, `HasLooseValue`), and no others. A symbol is a character, or a string
that only counts as a whole (a method, a version, a type). **`Routing`** adds
the request target, queries and forms, `compilePath()` with the matching of its
regular expression, `pathMatches()`, and the path of a static file. Neither has
state. The regular expression is read part by part as it is built, a group or an
escaped literal behind each slash; `Readings` is every way to read a path that
far, so a match that would need backtracking is found (`Captures`). A part of a
word, and a middleware of a chain, is found by its rank among the cuts of the
word or the middlewares that match (`Ranked`); the loops that assign one pair or
parameter after the other are one recursive function (`AssignAll`). Beside them
stands what each means: segments (`MatchesBySegments`, `MountedBySegments`) and
pairs of which the last one counts (`ReadAsPairs`).

**`RequestHandling`** composes them: one request on its way from its lines to
its response. What the scenario alone decides (the decoded request, the chain
picked, the parameters) is set in `Init` and kept, as the code computes it once;
then `Receive`, `Dispatch`, `Call`, `Stat`, `ReadFile` and `Finish` follow
`handleOne()`, with `ChangeFile` between the two waits of `staticFiles()`. A path
may be absent, a directory, a file, a file that cannot be read, or one of which
`stat()` fails too (`Entry`).
Handlers are those the framework makes and seven an application may write.

**`TcpEcho`** is the echo server with its sockets and the handle's `close()`.
Bytes are counted, since a socket keeps their order. `Data` writes and pauses,
`Flush` is the kernel taking what was written, with `drain` when the queue is
empty and the socket is not ending.

**`UdpEcho`** is the server, its clients with one timer and one `once("message")`
listener per message, and a network that loses, repeats and reorders. A client
may exit at the end of its input, the server's socket closes at a signal.

Modules with the prefix `MC` give the constants values for TLC; the cfg files of
`MiddlewareChain`, `AppServer` and `UdpEcho` need none. Operators introduced as "Mutant of ..." are
plausible mistakes in the definition they follow; each property is violated by
the one `PROJECT.json` pairs it with, so none holds by the shape of the model.

## 3. What the runs check

| Run | Question | Bounds |
|---|---|---|
| `parser_feed` | Do chunks matter, is the framing right, is the buffer bounded, does a parser fed in pieces go through the steps of one that is fed everything, and as far, is the parser a source of messages, does `feed()` return? | about 450 streams of up to 3 messages: every framing `decideBodyMode()` tells apart, bodies that look like line ends, malformed and cut chunks, lines and sections at and over limits of 2 and 7 bytes; every chunking; five of them stopped by up to 2 resets at any point |
| `parser_reset_stale` | Recovery after a header limit: **violated** | streams over the header limit, 1 reset |
| `messages` | Is a buffer that is exactly one message answered with it, and none that holds no message, two or an error? Does a serialized message come back? | the streams of `parser_feed`, and messages written by hand with every framing field and option |
| `messages_chunked` | Does every parsed message come back: **violated** | the framing streams |
| `chain` | One settlement, one driver, handlers in order, settlement at last | 6 handlers, any use of `next()` |
| `connection` | Are responses in order and paired, are all requests that are due answered, what can stop the process? | up to 3 requests of the ordinary kinds, the last closing or malformed, undisturbed; up to 2 of any kind and 3 of the slow, failing and closing ones with FIN, timeout and close at any event; up to 2 failing ones with each of 4 error handlers; all chunkings |
| `connection_fin` | Does a request in progress get its response after a FIN: **violated** | 1 request |
| `app` | Is `close()` complete, which call resolves, do all settle, does a connection leak? | 2 connections, one of a client that owes nothing; 2 requests on each, 2 calls of `close()` |
| `requests` | Do lines follow their grammar (but for two named exceptions) and patterns their segments, do forms and queries agree, one answer, guarded handlers, whole files? | about 18,700 scenarios: all lines up to 3 symbols, control characters of both kinds and DEL among them, and those of 4, 5 and more that come near a field or start line; all paths up to 4 symbols against 10 patterns and 6 mount paths; all forms up to 4 symbols; chains of 2 middlewares of 7 kinds; files with 2 changes |
| `tcp_echo` | Bounded queue, whole echo, no missed drain, `close()` complete | 2 sockets, 4 and 2 bytes, high-water mark 2, chunks of 2; reset and close at any moment |
| `tcp_close_hangs` | Does `close()` return: **violated** | 1 socket, 4 bytes |
| `udp_echo` | Own echoes, no report of an echoed message, a report to whom nothing comes back | 2 clients, one of which may leave, 2 messages each, 1 repeated datagram |

Why the bounds are enough. The parser's behaviour depends on where a chunk ends
relative to the line ends and on comparisons with limits; the streams hold each
construct, two of them in a row and something after them, and are cut at every
byte. Limits are small numbers so that lines go below, to and over them. In the
chain, only neighbours interact; six handlers give a run of inner ones. Three
requests give a first, a middle and a last one, with a drain that overtakes the
chunks after it. In `AppServer` connections meet only in `activeSockets` and the
server's counter, so one socket is the last or is not; a second call of `close()`
is what a third would be. A pattern is read part by part, and four symbols of
path hold an empty segment, a trailing slash and two parameters; a pair of a
query needs three symbols, and the two longer queries repeat a name. In `TcpEcho`
a queue reaches its mark, drains in parts and fills again. Deadlock is not
checked anywhere: all of these systems stop when their environment has nothing
more to send.

Fairness. `feed()` is a loop the process runs to its end: weak fairness of
`Advance`. In the chain, a handler comes back and its promise settles; nobody
has to call `next()`. In a connection the process runs its microtasks, what a
slow handler waits for arrives, and the socket's queue is sent; no client owes a
request and nothing forces a FIN, a timeout or a close. In `AppServer` handlers
come back, the idle timer of a socket with nothing to do fires, events are
delivered, and a polite client reads and answers the server's FIN with its own,
as a `net.Socket` does; a rude one owes nothing, and `CallsSettle` says what that
costs. In `RequestHandling` the process runs its callbacks and the file system
answers. In `TcpEcho` the server's events are delivered, the client reads, and a
client that has got the server's FIN sends its own. In `UdpEcho` only timers are
fair. `Resumes` and `FinCloses` hold until `close()` is called, since after it
the run `tcp_close_hangs` applies.

## 4. Where the code and its documents disagree

Four runs expect a violation; the findings in `PROJECT.json` quote the lines.

1. `reset()` keeps the cached line (`parser.ts:68`), so a parser stopped by the
   header limit misreads the next message. `spec/03:117`: reset recovers.
2. A parsed chunked message is serialized with its `Transfer-Encoding` header
   and a body that is not chunked (`serializer.ts:65`). `spec/03:141`: round trip.
3. After a client's FIN the socket is ended by Node at once (no
   `allowHalfOpen`), and the response in progress is lost. `app.ts:129`. The same
   happens on timeout (`app.ts:111`) and `close()` (`app.ts:220`): give
   `SlowScenarios` the disturbance `"timeout"` or `"close"` instead.
4. `close()` of the echo server hangs on a paused socket: `end()` suppresses the
   `drain` that would resume it (`echo-server.ts:124`, against line 22).

Others were met on the way and are modelled as the code has them, the properties
being stated so as to leave them out:

- the status of a line over the limit depends on the chunks: 431 before its CR
  has come, 400 when a bare CR has (`parser.ts:304-318`, `spec/03:138`); the
  second disjunct of `BoundaryIndependent`;
- `parseRequest()` accepts a message with an unfinished rest behind it, line
  breaks or the front of a second message (`parser.ts:403`; its comment, line
  395, and `spec/03:33` say that bytes left over throw). `OneShotOutcome` leaves
  open what becomes of such a buffer (`RestUnseen`): it demands neither answer;
- a field value may hold any control character but NUL, CR and LF, and DEL
  (`parse-headers.ts:62`, its line 59 says "no CTL"): `HasLooseValue`;
- a reason-phrase may hold DEL (`parse-status-line.ts:49`, its line 46 says VCHAR,
  SP and HTAB, no CTL): `HasLooseReason`;
- of several `Content-Length` fields the first counts, and the others are not
  looked at (`parser.ts:224`, `getHeader()`); RFC 9112 wants a message with
  different ones refused, the documents do not say. `AnnouncedLengths` follows
  the code in this one point;
- start lines are read as latin1 and written as UTF-8 (`serializer.ts:91`);
  the precondition `Ascii` of `RoundTrips`;
- an error thrown after `next()` reaches nobody (`app.ts:275-279`, `spec/04:90`):
  `SettledOnce` says only that it does not settle the chain again;
- the sent flag is set before serializing may throw (`response.ts:83`); then no
  response is sent;
- requests behind one that closes are still handled, and the response of the
  first may be destroyed with the socket (`app.ts:134-168`);
- whole requests in front of malformed bytes in the same chunk are answered only
  if a drain was already running (`app.ts:119-125`): see `due` in `Data`;
- any datagram silences the timers of all messages sent before it
  (`udp/echo-client.ts:39`, its line 35 promises one for each), so a message lost
  after another's echo has come is not reported: `SilenceTold` is about a client
  to whom nothing came back, `EchoedNotReported` about messages that were echoed;
- all middlewares run before any route, in whatever order they were registered,
  so a static file wins over a route of its path, against a test's title
  (`static.test.ts`, "registered routes come first", whose assertion does not
  tell the two apart);
- `spec/04:95` wants 400 for paths with `..`; one that stays inside the root is
  served (`static.ts:45-51`): `Inside` is about where the path leads;
- a HEAD request is answered with a body when no file answers it: the 404 of
  `handleOne()` is sent whole;
- a type set by a middleware stays beside the one `staticFiles()` sets
  (`response.ts` keeps repeated fields): two `Content-Type` fields in `types`;
- the prefix of `staticFiles()` is a prefix of the string, not of the segments:
  `/b` also serves `/ba`;
- `/^application\/json\b/` takes `application/json-patch` for JSON (`HasType`);
- a parameter or a name `__proto__` is dropped (`Assign`);
- `AppHandle.close()` does not wait for handlers that run, is hung by a client
  that keeps its half open, and a second call is rejected though the server
  does what it asks for (`FirstCallResolves`, `CallsSettle`).

## 5. What is proved

The theorems hold for every value of the constants under the named assumptions
of the modules (sizes are natural numbers, tables map lines to what the types
say, CR and LF are different bytes outside `Text`, the classes of symbols are
disjoint where the characters are, a scenario is an application and a request).
One assumption is a convention of the model: only a route ends in `echo`, the
handler that records what a route handler sees. Each invariant is proved by
Init, one lemma per action and PTL; the theorems about lines and mount paths
are about operators, for every word.

**`HttpParserProofs`**: `TypeCorrect`, `Framing` (`MessagesFramed`), `Bounded`
(`BufferBounded`), `ErrorStays` (`ErrorLatched`), `ImplementsSource`,
`PiecesAsWhole` (`ReadsAsWhole`) and `NothingHeldBack` (`ReadsAllFed`).
`MessagesFramed` speaks of finished messages only and is not inductive: that a body has the announced length when it
is finished follows from what the machine knows in the middle of it. `Progressing` says so: in
`BODY_LENGTH` the body is shorter than the announced length, in the chunk states
the fields announce chunks, before that the body is empty, no chunk is overread,
and in `ERROR` no call is running. The invariant is
`TypeOK /\ Progressing /\ MessagesFramed`. The proof goes by the outcomes an
iteration has (wait, fail, go on, finish), proved once, then by states.
`ImplementsSource` (`SourceOfMessages`) shows that every step of the parser is a
step of `MessageSource` or a stutter: only the last iteration of a message
appends to the queue, and only on its way out of a state that is no error.
`BufferBounded` holds between two calls only, so `BufferInv` says what the buffer
may hold during one: an unfinished line and a fed chunk, or a finished line with
less than a chunk behind it (`BufferHeld`). A peeked line could break it if it
outlived the bytes it was read from; it does only after `reset()`, and then all
that it can meet is a fed chunk (`PeekedHeld`).
`PiecesAsWhole` is that it does not matter how a stream is cut, for streams and
chunks of any length, step by step. Nine lemmas (`ParseStartLineWhole`, ..., one for each
case of `Advance`) show that an iteration on the buffer maps to the same iteration
on `Whole`, or to nothing where it waits. They rest on two facts about bytes: a
line that has come is the same whatever stands behind it (`PeekBehind`), and what
is taken out of a body in two parts is what is taken at once (`TakeAcross`). They
need `Tidy`: what is absorbed is at the end of the body, and a cached line goes
with an error. `reset()` breaks the second part when a header line over the limit
has stopped the parser; that is the first finding, and the two theorems have the
hypothesis that no caller does so (`TidyResets`, which the streams of `parser_feed`
keep: any other parser may be reset at any point). `NothingHeldBack` is `StopsStuck`: an iteration returns only where `StuckOn` holds.
However a stream is cut, then, the parser goes through the same steps and stops
after the same one, a line over the limit aside. What these steps amount to is
the next module's.

**`HttpReferenceProofs`** closes the gap between the machine and what bytes mean:
`SameResult` (`BoundaryIndependent`), `OneShotAnswers` (`OneShotOutcome`) and `SerializerMirrors` (`RoundTrips`). The invariant (`KeepsReading`) is `ReaderInv`,
which is `ParserInv` with `ReadsAllFed` and `MeaningInv`. Its heart is `AsRead`: whatever
bytes `c` might still come, what has been fed with `c` behind it means the messages
finished so far, followed by what is left to read from the state the machine is in
(`RestOf`: the rest of the header section, of a chunk, of the trailers). Each
disjunct of `Advance` has a lemma that it reads one unit of that (`ParseStartLineReading`,
..., `StartOverReading`): the line in front is the same whatever comes behind it,
and where the machine fails, the rest is refused with the same status, unless it
is a line over the limit whose end has not come (`InLongLine`). The functions of
the reference recurse on a string that gets shorter. That such a definition has
the value it says is not given to the prover: `RecursionOnSize` proves it for any
step that looks only at smaller arguments, as a set of finite computations of
which the smallest that differ are led to a contradiction (`LeastElement`), and each
function is an instance (`ReadSectionIs`, `ReadChunksIs`, `ReadMessagesIs`). `SameResult`
has the hypothesis `TidyResets` for the reason above: without it the
first finding is a counterexample. `SameResultUntilReset` needs none. That
`decideBodyMode()` decides what the fields announce is `FramingIs`.
`OneShotAnswers` is about `parseRequest()` and `parseResponse()` alone (`OneShotSpec`):
a buffer that is exactly one message (`Exactly`) is answered with it, and none that
holds no message, more than one or an error is answered.
`SerializerMirrors` is about the second parser, which `Serializer` starts on what it has
written. The functions of the reference read back what the loops of the serializer
concatenate: a line that is written is the next one read (`LineWritten`), a header section,
however long, is read field by field and no further (`SectionWritten`), a body of one
chunk is read with its last chunk (`ChunksWritten`), and the header added is the
framing by which the body is read (`FramingWritten`); `MeaningWritten` puts these
together, and `OneShotInv`, which a new parser has whatever went before
(`NewOneShot`), says that `parseRequest()` answers with that meaning. The theorem has the
hypothesis `Readable`: the parser accepts the start line and the framing, every
line and the header section are within its limits, and a header line is still one
of its field once encoded. A message without one of these is refused or read otherwise by
the code too: the limits bind the parser and not the serializer, and a
header read as latin1 is written as UTF-8, as the start line is (`Ascii`). In
`messages` every message that comes back plain and with an ASCII start line is
`Readable`, so that the hypothesis takes nothing away from what the run checks.

**`MiddlewareChainProofs`**: `SettlesOnce`, `OneHandlerDrives` and `Refinement`.
The invariant `ChainInv` adds that the handlers below the last started have
called `next()`, that those above are idle, and that a call of `next()` sets
`settled`. `Refinement` shows that every step is a step of `SequentialChain` or a
stutter; the chain's number of handlers is arbitrary.

**`HttpConnectionProofs`**: `Types` (`TypeOK`), `Paired` (`ResponsesPaired`),
`ClosingLast` (`ClosingResponseLast`), `Serially` (`HandledSerially`), `Crashes`
(`CrashExplained`) and `UsesItsSource` (`UsesSource`), for every scenario:
requests of every kind in any number, cut in any way, with FIN, timeout and
`close()` at any event and any error handler. None of them is inductive, for the
wire says nothing of the callbacks that will write on it. `ConnectionInv` says
what a callback may rely on: one runs at a time, those before it are done and
those behind have not begun (`Chain`); what was handled and what waits are the
requests that arrived, in order (`InOrder`); a request a callback is done with is
answered, and the connection it closes is ended (`Answering`); while the
connection is open the wire has one response for each that was sent and can be
serialized, and none that closes (`OnWire`); and a response that nobody tried to
send has one of two causes (`Causes`). That two drains never run at once, though
each chunk chains one, is the lemma `OneRuns`.

**`AppServerProofs`**: `TypeCorrect`, `CloseLeavesNothing` (`CloseComplete`) and
`OnlyFirstResolves` (`FirstCallResolves`). `ServerInv` ties the three things that
count connections together: `activeSockets` are the sockets that have not said
they are closed, the server's "close" event is due only when none is open, and a
call past that event is the first one. Without the tie nothing says that a
call that drains finds no new connection.

**`RequestHandlingProofs`**, in three parts. `AnswersOnce` (`OneAnswer`) and
`HandlersInOrder` (`InOrder`, the refinement of `SequentialChain`): `HandlingInv`
adds that the builder is marked sent exactly when one response has gone, that
the chain is pending as long as a handler is due, and that an error is only ever
the last to respond. Nothing about lines or patterns is needed, so these hold for
whatever chain is picked.

The operators, for every word. `RequestLinesAsGrammar`, `StatusLinesAsGrammar`
and `FieldLinesAsGrammar`, from where `indexOf()` stops (`IndexOfIs`,
`IndexOfOnly`) and what `trimOWS()` keeps (`TrimmedIs`, `TrimmedExists`), and so
`LinesTakenApart` (`LinesAsGrammar`) of the lines that come. A line is taken
exactly when the grammar has it, or when the one thing that speaks against it is
named in `HasLooseReason` or `HasLooseValue`.
`MountsBySegments`: `pathMatches()` compares strings, yet decides by segments. A
path that has the string of a mount path and a slash first has its slashes in
the same places up to there (`SameCuts`), and one that has its segments first has
its symbols first (`SameSegments`). `PatternsBySegments`: a compiled pattern matches by
segments and in one way only. A part can end in many places of a path, but only
where it ends before the next slash can the reading go on (`PartRead`, `ReadEnds`,
`SlashEnds`), so after `k` parts there is at most one reading, whose groups are the
segments of the parameters among them (`GroupsUpTo`, `ReadingsAre`, `CapturesAre`). With
the mount paths that is `RoutesDecided` (`RoutesBySegments`). `PairsLastCount` and
`FormsAsQueries` (`FormsAgree`): `parseQuery()` and `urlencoded()` read the same pairs. What a
symbol set leaves out of a text it leaves out of every part of it, and the other
way round (`SplitWithout`, `CutWithout`), so a text can be decoded exactly when each of
its pairs can. The loops (`AssignAll`, `Readings`) are given a closed form
(`LastAssigned`, `ReadUpTo`), which satisfies the same recursion; the least place where the
two would differ leads to a contradiction (`AssignAllIs`, `ReadingsAre`). At the head of the
module stand the lemmas about numbers these rest on: a set of natural
numbers has a least element and a bounded one a greatest, and the members of a
finite set have ranks `0..n-1`, in their order. Each takes the place of an
induction: a scan that stops at its first match, a word cut into its parts.

The request, for every application and file system: `Types` (`TypeOK`),
`FilesUnderRoot` (`FileServed`) and `HandlersSeeCleared` (`HandlersGuarded`). `Settled`
keeps what the scenario decides, which is what makes `started` an index of
handlers. `FileServed` needs `Serving`: between `stat()` and `readFile()` the
target stays under the root, no length is set before a file's, a file's content
is one of its history, and its response ends the chain, so no later handler
moves `target` under it. `HandlersGuarded` speaks of the moment a route handler
runs; `Guarding` says for every moment before that each handler in front of the
one whose turn it is has let the request pass, and that a body once decoded is
never raw again. That a middleware above the path is in front of the route is
`MountsBySegments` with the order of ranks.

**`TcpEchoProofs`**: `Bounded`, `Whole` and `Drained`. The invariant `EchoInv`
accounts for every byte of an open socket: read is queued plus received, a socket
that is not paused is below the mark, one whose FIN has left has nothing queued.

**`UdpEchoProofs`**: `TypeCorrect`, `OwnEchoes` (`EchoesOwn`) and `NoFalseReport`
(`EchoedNotReported`). `UdpInv` adds that every datagram on its way belongs to a
message its peer has sent, that a running timer has its listener, and that a
message not yet sent has no timer: together they keep an echo from coming before
the timer it has to clear.

`TypeOK` of every component is part of these invariants and proved, so no run
repeats it. The strengthenings (`Tidy`, `Progressing`, `BufferInv`, `ConnectionInv`, `Settled`, `Serving`,
`Guarding` and the others) held as invariants of the same runs before they were
proved; they are not among the runs' properties, being what those rest on.
`AsRead` alone was only proved: it speaks of every continuation of the bytes.

Only model-checked: liveness under fairness (`AdvanceReturns`, `ChainSettles`,
`DueAnswered`, `CallsSettle`, `NothingLeaks`, `Answered`, `Resumes`, `FinCloses`,
`SilenceTold`), which is beyond this prover. Every invariant of the passing runs is
stated by a theorem.

## 6. What is left out, and why

- The characters of start lines, names and paths are symbols of small classes;
  in `HttpParser` tables stand for whole lines.
- Symbolic links: `stat()` and `readFile()` follow them, and one under the root
  may lead out of it. In the model a path names what is at it, and `FileServed` is
  about the path. Which file a request's path leads to is `Resolve`, translated
  and used, but no property ties `target` to `req.path` otherwise.
- Contents of responses, log lines, addresses, the table of MIME types: no
  property is about them.
- What JSON is: a set of bodies that are.
- Numbers over 2^53 in `Content-Length` and chunk sizes.
- In `HttpConnection` the kernel's behaviour after a destroyed socket (the
  client may see a reset) is the loss of what had not left.
- The framework's request in `RequestHandling` has one wait for each of `stat()`
  and `readFile()`; handlers that wait for something else are in `HttpConnection`
  and `MiddlewareChain`.
- The statistics and the signals of the TCP server (the first signal is a call
  of `close()`, the second exits), the exit of a process on a second signal.
- The backpressure demo: a writer that waits for `drain`, or does not, with a
  slow reader in the same process. It is the flow control of `TcpEcho` without
  the reading half.
- The TCP client, the command line, the demos and the log: input and output.

## 7. Plan

Done: every component of the first table but the last two.

Next: the drain loop of the backpressure demo beside `TcpEcho`, and the statistics
of the TCP server.
