# WebSocket++ in TLA+

This directory holds TLA+ models of the WebSocket++ library in
`src/websocketpp` (version 0.8.2, with the market data feeder of this repository
as one of its users), the TLC configurations that check them, and TLAPS proofs
of the main results. `PROJECT.json` maps every definition to the lines that it
models and lists runs, mutants, hazards and findings. File and line numbers
below are relative to `src/websocketpp` unless they say otherwise; `CI` is
`impl/connection_impl.hpp`.

## 1. The system

WebSocket++ is a header-only library for WebSocket servers and clients. A
program composes an *endpoint* from policy classes: a role (server, client), a
transport (asio, iostream), a concurrency policy, message buffers, loggers.

| component | state | operations | interacts with |
|---|---|---|---|
| `connection` (connection.hpp, CI) | `m_state`, `m_internal_state`, `m_http_state`, the write queue, `m_write_flag`, handshake timer, close codes, `m_read_flag` | start, send, ping, pong, close, pause/resume_reading, defer/send_http_response, terminate and the completion handlers | transport (async calls and their callbacks), processor, application handlers |
| hybi13 processor (processors/hybi13.hpp) and frame codec (frame.hpp) | the state of the incremental parser, current data and control messages, prepared key | consume, prepare_data_frame, prepare_ping/pong/close, handshake functions | connection calls it on every read and every send |
| UTF-8 validator (utf8_validator.hpp) | state, code point | consume, decode, complete, reset | processor (text payloads), close.hpp (reasons) |
| HTTP parser (http/) | buffer, headers, counters, body bytes needed | request::consume, response::consume | connection during the opening handshake, asio proxy exchange |
| asio transport (transport/asio/) | socket, strand, timers, proxy data, endpoint state, acceptor, shared resolver | listen, async_accept, async_connect, init, async_read_at_least, async_write, set_timer, dispatch, async_shutdown | OS, other threads of the io_service |
| iostream, debug, stub transports | cursor into a user's stream or nothing | read_some, fatal_error, eof | the application feeds bytes |
| endpoints (endpoint.hpp, roles/) | handlers, settings; the asio part: state, acceptor, io_service, perpetual work | listen and the accept loop, stop_listening, connect, create_connection, run, stop | create connections and give them to the transport |
| permessage-deflate (extensions/) | settings, negotiated window bits, one zlib stream each way | negotiate, generate_offer, validate_offer, init, compress, decompress | processor |
| older drafts (processors/hybi00, 07, 08) | as hybi13 | as hybi13 | connection |
| uri, base64, sha1, md5, random, loggers, concurrency, config | none to speak of | pure functions and policies | everything |
| feeder (`examples/print_client_tls`) | acknowledgement count and counter, bounded queue of prices, `ready` and a condition variable, arrays of last values | ask for data, acknowledge, parse prices, publish by zmq | uses a TLS client endpoint; three threads |

**What is hard.** One connection is used by application threads (send, close,
ping, pause_reading, send_http_response may be called by any thread) and by its
strand, on which the callbacks of the transport run. Two mutexes protect parts
of the state, some members are written outside of them. Every asynchronous
operation races a timer, and whichever loses must stay silent. Bytes arrive in
arbitrary pieces. Remote endpoints go mute, misbehave or vanish at any step.
Handlers promise the application an order of events.

**What makes each part correct**

* connection: one write at a time, messages in order, no message stranded,
  nothing after a terminal close frame; each handler the promised number of
  times; every closing or opening handshake ends; reads of the one buffer go on
  exactly as pause and resume say.
* processor: the delivered messages do not depend on how the bytes were cut;
  limits hold; what one end prepares, the other accepts.
* closing handshake: both ends end, agree on codes, and send only valid ones.
* transport: each callback once, a timer behind every wait, no leftovers.
* HTTP parser and UTF-8 validator: verdict independent of cuts, at the right
  byte; limits hold. Lists, addresses and base64 are read back as written.
* endpoint: one accept loop, which goes on while the endpoint listens and ends
  afterwards; no connection is created and forgotten.
* handshake and permessage-deflate: both ends come to the same parameters; the
  two zlib streams of a direction go through the same data.
* ping timer: a pong timeout only for a ping that was not answered.
* iostream transport: every byte taken reaches a read; nobody is left waiting.
* feeder: prices in order, acknowledgements on time, no price asleep in the queue
  while ticks come, binary messages read as they were made.

## 2. Modules

| module | models | checked by | proofs |
|---|---|---|---|
| `EstablishedConnection` | a connection between open and its end, threads beside the strand | `established`, `closing`, `close_twice` | `EstablishedConnection_proofs` |
| `OpenHandshake` | a connection from start() to its end, both roles, plain HTTP | `opening` | `OpenHandshake_proofs` |
| `ConnectionContract` | abstract: which handlers the application may see | as `KeepsContract` | refinement proved |
| `Negotiation` | requests, processor choice, verdicts, extensions, subprotocols | `opening`, `declined_offer`, `subprotocol_known` | `OpenHandshake_proofs` |
| `PermessageDeflate` | the settings of an extension and what offers do to them | through `Negotiation` | `OpenHandshake_proofs` |
| `Frame` | operators of frame.hpp: sizes, headers, masking | through `Hybi13` | `Hybi13_proofs` |
| `Hybi13` | consume() and what it calls, prepare_data_frame, prepare_control | `parse`, `cut_text` | `Hybi13_proofs`, `Parsing_proofs` |
| `MessageStream` | abstract: what whole frames amount to | as `ParsesFrames` | refinement proved |
| `Compression` | send() with threads, compress, decompress and the contexts of zlib | `parse` | `Parsing_proofs` |
| `Utf8Validator` | the table and the validator | `parse` | `Parsing_proofs` |
| `HttpParser` | request::consume, response::consume | `parse` | `Parsing_proofs` |
| `Hybi00` | the frames of draft 00 | `parse` | `Parsing_proofs` |
| `HttpText`, `Uri`, `Base64` | header lists, addresses, base64: pure functions | `parse` | |
| `CloseHandshake` | two connections of the library over TCP, closing | `closing` | `CloseHandshake_proofs` |
| `AsioTransport` | resolve, connect, proxy, TLS, shutdown and their timers | `transport`, `init_twice` | `Transport_proofs` |
| `ReadFlow` | pause_reading, resume_reading and the read loop | `transport`, `resume_reads` | `Transport_proofs` |
| `IostreamTransport` | read_some, read_all, operator>>, eof, async_read_at_least, async_write | `transport` | `Transport_proofs` |
| `Endpoint` | listen, the accept loop, connect, run and stop | `transport` | `Transport_proofs` |
| `PingTimer` | ping(), its timer, pongs | `transport` | `Transport_proofs` |
| `Feeder` | the threads of the market data feeder | `feeder` | `Feeder_proofs` |
| `FeederCodec` | its binary messages | `feeder` | |
| `Counting` | lemmas: how many entries of a sequence lie in a set, the least number of a set, induction on a set of naturals | | itself |

`MC*.tla` and the `.cfg` files give the constants their values. `Hybi13`
extends `Frame` and implements `MessageStream`; `OpenHandshake` implements
`ConnectionContract`; `Negotiation` extends `PermessageDeflate`.
`Transport_proofs` is about the composition `MCTransport`, `OpenHandshake_proofs`
about `MCOpening`, `Parsing_proofs` about `MCParsing`, so that their theorems state
the very properties of the runs. `MCReading` adds to `MCParsing` the inputs of
`MCText` as one more part; it is a module of its own because the functions over
texts are RECURSIVE operators, which TLAPS cannot reason about.

`MCOpening`, `MCParsing`, `MCClosing`, `MCTransport` and `MCFeeder` put machines that share no
state side by side. Their variable `part` is chosen at the start and says which
of them runs; the variables of the others stay as they were, or are `"unused"`.
A behaviour of such a module is a behaviour of one of its parts, so that a
property of a part holds in the composition exactly if it holds in the part; a
composite property such as `SetupClean` or `HttpRead` is the conjunction of what
the module of that part promises. `Tried` instances lend these modules the
inputs that are listed beside a component (`MCNegotiation`, `MCHybi00`,
`MCFeederCodec`).

Definitions whose comment begins with "Mutant:" are plausible mistakes in the
code; no specification uses them, and `PROJECT.json` says which property each
one violates when it takes the place of the definition that follows it.

### EstablishedConnection

One action per critical section or unlocked write. `send()` is `CallSend`
(state tested under `m_connection_state_lock`), `Push` (under `m_write_lock`)
and `Dispatch` (posting `write_frame`). `close()` is `CallClose`,
`CloseSetState`, `CloseSetTimer`, `Push`, `Dispatch`, and holds the state lock to its end.
On the strand: `WriteFrame`, `HandleWriteFrame`, `HandleWriteError`, the five
`Recv` actions of `handle_read_frame`/`process_control_frame`,
`HandleCloseTimeout`, `HandleTerminate`. `terminate()` takes no lock, as in the
code. A handler that calls `close()` or acknowledges a close frame does it with
the same steps as an application thread, under the name `Strand`; no other
handler runs until it is done. Timers that lost their pointer because
`m_handshake_timer` was overwritten are counted in `stray`. Payloads and codes
are left out (`CloseHandshake` has the codes).

### OpenHandshake and ConnectionContract

Every action is a handler on the strand, except `SendHttpResponse` and
`SendHttpResponseWrite`, which an application thread takes with a deferred
response. `Verdict` is the common beginning of the handshake handlers (CI
804-840, 1351-1381, 1493-1530, 1546-1583). What a request or a response says
is one of the outcomes that the code tells apart: incomplete, refused, plain
HTTP (answered, deferred or taken over), accepted. `ext_refused` says whether
the client's extension negotiation fails; see the observations for what
happens then, and `Promised` for how the contract leaves this case out.

### ReadFlow

`queue` holds handlers that wait for the strand. With one thread they run in
order; with several, any of them may come next, since
`io_service.post(strand.wrap(f))` orders nothing between two posts. The
application pauses and resumes whenever it likes: nothing tells it whether reading
has stopped, and `handle_resume_reading` does not ask either, so that there may be
several reads (`resume_reads`). The history variable `allowed` counts down the
reads that may still be started after a pause: those that were outstanding, queued or
with `handle_read_frame` when it was called, and the resumes that had not run.

### Frame, Hybi13, MessageStream

Bytes of headers and payloads are symbols. `Radix` and `BasicLimit` replace 256
and 125, so that all three encodings of the payload size and their minimality
rule occur with frames of a few bytes (a payload of up to 2 bytes
has its size in the basic header, of 3 bytes in the 16 bit field, from 4 bytes on in the
64 bit field). The masking key is a sequence of four symbols that is rotated as in
`byte_mask_circ`; a byte masked with the wrong symbol is garbage. UTF-8 has a
one-byte character `a` and a two-byte character `h t`. `consume()` is one
action per state of the parser; `MessageStream` takes whole frames instead.
`IsFrame` says what may be on the wire: fields of the widths that the header
has, anything in the payload. `FromProcessor` are the frames that the code itself
makes, `prepare_data_frame` for data and `prepare_ping`, `prepare_pong` and
`prepare_close` for control frames (processors/hybi13.hpp:605, :689, :693, :729).

### CloseHandshake

Client and server are two instances of the same actions over two sequences
that TCP delivers in order, ended by eof or cut by a reset. Close codes are the
real numbers. A reason is short, long, or long and cut inside a character by
the truncation to 123 bytes.

### AsioTransport

A stage is an operation and a timer. `todo` holds the calls that the running
handler has still to make, so that the clock and other threads come between
them. `timer[s] = "queued"` is a timer handler that can no longer be cancelled.
A plain socket completes post_init and shutdown within the call, so these have
no stage. `OtherResolveTimeout` is the DNS timeout of another connection that
shares `m_resolver`. The network (`OpCompletes`) may do anything, or nothing.

### HttpParser

A message is a sequence of lines with a kind and a size; the parser's buffer,
its counter and what its calls return are numbers of bytes. Only the arithmetic of
`m_header_bytes`, of the buffer and of `bytes_processed` and the order of the
checks remain, which is where cuts could matter. `Bytes[n]` are the bytes of the first
`n` lines.

### Utf8Validator

The table is written as ranges of bytes and as pairs of state and type. The
reference (`Viable`, `Bits`) is the definition of UTF-8 by code points.

### Negotiation and PermessageDeflate

One step for each of: a client of this library makes its request, another client
makes one, the server answers (choice of the processor, `validate_handshake`,
extension offers, `validate` handler, `process_handshake`), the client judges
the answer. `OpenHandshake` has the steps and errors around these and takes their
verdicts as choices. An extension is the record of its settings;
`negotiate` goes through the attributes in the order of the map that holds them
and changes the settings as it goes, as the code does (`Consider` is one
attribute). `Judges` is what the client makes of the answer. Whether zlib can be
initialised is a choice of each end (`Zlib`). The digest of a key is the key.
`SettingsAssumption` says what applications configure: servers any window from
8 to 15 bits, any mode and any flag; clients the same but for the restriction that
follows.

*ServerWindow.* `CompressionAgreed` is checked for clients that leave the
server's window alone and whose mode is not "decline". `generate_offer` names only
`client_no_context_takeover` and `client_max_window_bits`, both without a value, so
that what a client set with `set_server_max_window_bits`, or its wish to decline, never
reaches the server; with such settings one end may deflate with a larger window than
the other inflates with (extensions/permessage_deflate/enabled.hpp:277, :483).

### Compression

Two threads in `connection::send`: `compress()` and `write_push()` under one
critical section, because what a message compresses to depends on the messages
before it. zlib is external: a window of the last `Window` bytes, a flush that
ends with `00 00 ff ff`, and a decompressor that understands a byte only if its
own window is the compressor's. Chunks of the two fixed buffers, a message
that is refused after it was compressed, empty messages and uncompressed
messages in between are what the checks are about.

### Hybi00, HttpText, Uri, Base64

`Hybi00` is the loop of `handle_read_frame` over the processor of draft 00, over
streams of header, footer and text bytes. The other three are functions over
short texts. Characters stand for their classes; an iterator is a
position. A base64 character is its position in the alphabet.

### IostreamTransport

Bytes are counted. `call` is the call that holds the lock, with the bytes it has
left; `handler` is the read handler that runs inside of it and may start the
next read. One action for each round of the loop of read_all or operator>>.

### Endpoint

`con[s]` is what became of a connection: created, waiting for an accept,
accepted, cancelled, refused, connecting, started. `pc` keeps the connection
between `create_connection` and `async_accept`, since start_accept tests
`is_listening()` and async_accept does so again, and the application may close the
acceptor between. `Patient` says that the application listens again only after
the loop has ended.

### PingTimer

`timer[i]` belongs to the i-th ping; `m_ping_timer` is the stored one. The three
steps of ping() are its cancelling the old timer, setting the new one and
writing. A cancelled timer whose handler is queued already ("due") runs all the
same, with success, as in asio. `excused` are the pings that were answered or
overtaken while their timer was armed.

### Feeder and FeederCodec

`Feeder` has main, the handler thread (`on_message`, `onMessage`) and the
publisher: the flag `ready`, the condition variable, the lock that only the
publisher takes, and the queue, whose `push` fails when it is full.
Prices other than two marked ones are all alike, so that the model is finite without
a bound on time. `FeederCodec` has `Radix` values of a byte in place of 256 and
the arithmetic of `int` and `u_long`, with the sign of the fourth byte. Prices of
zero length and values past an array's end are included.

## 3. Runs

Every run says `CHECK_DEADLOCK FALSE`, because connections, messages and
bounded histories end, and so does every behaviour of a part. Where a standstill
would be a fault (an attempt that is never settled, a queue that is never
drained, a transport that never answers) a liveness property says that it does
not happen.

| run | bounds | distinct states | what it shows |
|---|---|---|---|
| `established` | 2 application threads and the strand, 1 call each, 2 frames received | 849 474 | write path, one end, no step back of `m_state`; `close()` from handlers only |
| `opening` | both roles, 2 incomplete reads; servers and clients of every compression setting, requests with up to 2 offers, 2 subprotocols | 620 341 | contract, one response, quiet after the end, every attempt is settled; both ends agree on the compression, nobody is upgraded without a valid handshake |
| `parse` | up to 3 frames of 18 kinds, reads of up to 6 bytes, both roles; 29 boundary bytes in any sequence; 13 HTTP heads, 3 bytes behind them; streams of draft 00; 2 threads that send 2 compressed messages each; lists of texts and addresses | 300 661 | refinement of `MessageStream`, promptness, limits, what one end writes the other reads |
| `closing` | two ends: 1 close() each, 1 message, 1 fault, with and without timers; one end: 1 application thread and the strand, 1 call each, 1 frame | 262 014 | one close frame, valid codes, agreement, both ends end; of one end closing ends, the close handler runs, the queue drains |
| `transport` | 13 configurations of role, TLS, proxy, threads; 5 pauses and 6 reads; 3 supplies of up to 5 bytes, reads of up to 3; 2 connections of an endpoint that listens twice; 3 pings, 2 unasked pongs | 458 586 | callbacks at most once and no leftovers with one thread; always answered; reading follows the calls of pause and resume, whenever they come; bytes accounted for; one accept loop; justified pong timeouts |
| `feeder` | a queue of 2, 2 ticks, acknowledgement counts 0 to 3; numbers, requests and data messages at the edges of their lengths | 102 519 | order, acknowledgements, no price asleep while ticks come, messages read as made |
| `close_twice` | violation | | close() on a thread races terminate(): close handler called twice |
| `cut_text` | violation | | fragmented text that ends inside a character is delivered |
| `resume_reads` | violation | | resume_reading() starts a second read into the one buffer |
| `init_twice` | violation | | TLS client with a refused host name: the init handler runs more than once |
| `declined_offer` | violation | | a declined offer leaves attributes behind that the next one is answered with |
| `subprotocol_known` | violation | | a client never learns which subprotocol was chosen |

**Why the bounds are enough to be interesting.** Two sending threads and a
strand that also sends meet every pair of critical sections; three queued
messages and a close frame exercise batches that stop at a terminal message.
Two received frames allow a close frame after a protocol error and a second
close frame while closing. Three frames are a first fragment, a control frame
and a last fragment, or a message after an interrupted one. In the closing
handshake one call per application already gives simultaneous closes. The setup
of the transport needs no bound: each stage happens once or twice. The UTF-8
validator has a finite state space for its bytes, which are the ones at each
boundary. Two offers are what a declined offer needs to leave something to the
next one. Compressed messages are longer and shorter than the window and than
the buffer of 7 bytes, and end at its edge. Supplies of 0, 1, 2, 3 and 5 bytes against reads
of 1 to 3 in 2 buffers end before, at and after the minimum of a read, and start a second and a
third read from inside. An endpoint that listens twice meets its old loop, with a
connection it makes itself in between. Three pings are one that times out, one that is answered
and one that replaces another. The feeder's queue of two overflows at the third
price; its bytes have 32 values, so that the fourth byte of a number has a sign and
each carry occurs. Symmetry is used for the application threads in `established`
only, which has no liveness property.

**Fairness.** `io_service::run` executes queued handlers, threads inside a
library call go on, and timers expire; nothing is assumed of reads, of writes
(TCP flow control may stop them) or of the remote end. In detail:

* `EstablishedConnection` has weak fairness for the steps of a call, for
  `WriteFrame`, the timeout and terminate handlers and the timer; only
  `QueueDrains` also assumes that writes complete, in its own premise.
* `OpenHandshake` has it for `Start` and the failure of an accept, `TransportInit`,
  the open timer, its handler and `HandleTerminate`. That the transport answers
  init and shutdown is what `SetupAnswered` shows of `AsioTransport`.
* `CloseHandshake` has one weak fairness condition for each end: it goes on running
  handlers while it has any, and TCP delivers to it what is not reset. Nothing is
  assumed about timers, so `HandshakeEnds` holds without them.
* `AsioTransport` has one weak fairness condition for clock, io_service and strand
  together, and none for the network; `Endpoint` has one for its handlers and for calls
  that have begun, and none for the application or for peers.
* `IostreamTransport` needs no fairness for `ReadsAll`, which is an action property.
* `Feeder` has it for the handler that runs and for the publisher. Nothing is
  assumed of the server, the network or the main thread; `SentWhileTicksCome`
  has its ticks in the premise.

## 4. Proofs

Every theorem holds for all values of the constants that the named assumptions
of the module allow (`ThreadsAssumption`, `BoundsAssumption`, `CloseAssumption`
and so on, all evaluated by TLC in the runs). Each proof has one case per action and
the same three facts: the invariant holds at the start, every step keeps it, and it
implies the property.

| theorem | inductive invariant, and why it is needed |
|---|---|
| `EstablishedConnection_proofs!TypeCorrect` | the type invariant itself |
| `WritePath`, `OneWriteAlways`, `NoLostWakeupAlways`, `InOrderAlways`, `NothingAfterTerminalAlways` | `WriteInv`: the four properties with `TypeOK` and `TerminalHalts`. Without the latter the next `WriteFrame` after a terminal message would break `NothingAfterTerminal`: the write flag stays set then, and this is carried along. `InOrder` carries the same for a failed write. |
| `CloseOnce`, `StateForwardAlways` | `CloseInv`: if only handlers call close() (`Closers \subseteq {Strand}`), a close frame under way belongs to the strand, and the connection is not closed meanwhile (`StrandCloses`). Without the premise both are false: `close_twice`. |
| `OpenHandshake_proofs!ContractKept` | `HandlerInv`: a connection that is not closed has no shutdown to wait for; a closed one has exactly one shutdown or termination handler, of the kind that agrees with whether it opened. Each action is first shown to be aside, a termination, an opening, or handle_terminate (`StepCases`): the refinement of `ConnectionContract`. |
| `RespondsOnceAlways`, `QuietAfterEndAlways` | `ResponseInv`: while a response is deferred or being sent none was written, the two exclude each other, and none of this happens before the request was read; a connection in init has no other operation and no timer. |
| `SpeaksToItselfAlways` | `UnderstoodInv`: a request that this library made is the one `client_handshake_request` makes of its subprotocols, and what was answered to it is a complete handshake or the refusal of the application. |
| `CompressionAgreedAlways` | `SettledInv`: with `UnderstoodInv`, the client's settings stay those of the application until it judges the answer, and what the server has settled is what its one reply says (`AnswerSettled`), with windows of 9 to 15 bits. The proof follows `negotiate` attribute by attribute for any offer of a client of `ClientConfigurations`. |
| `CloseHandshake_proofs!WireCodesValidAlways` | `WireInv`: every frame in a queue, on the way or recorded as sent has a code that may be sent, and the code an end has noted for the other is one of sixteen bits, so that its acknowledgement is sendable. |
| `WireSoundAlways` | `CountInv`: the close frames an end has queued and written, and the bad ones on the way to it, are at most one more than the bad ones that the other end wrote; of the bad ones an end makes at most one. A bad frame on the way counts as the answer that it will cause. `Counting` has the sums. |
| `AgreementAlways` | `AgreementInv`: `WireInv`, `CountInv` and, while nothing has disturbed the handshake, `Knows`: each end keeps the code of its own close frame, and one that was closed cleanly has the other's (`EndKnows`); only the server ends the connection, when it has answered or was answered (`ServerEnds`); until the client knows, the server's close frame reaches it before the end of the connection does (`ClientTold`). `BaseInv` is what holds of a disturbed one too: only a terminal frame completes the connection, and what arrives was written. |
| `Transport_proofs!GuardedAlways` | `GuardInv`: the calls that the running handler has still to make are calls that the code makes, a timer handler is queued only after its time, and a completion that came in time still has its timer and nothing behind it on the strand. No premise: it holds for any number of threads. |
| `CalledOnceAlways`, `NoLeftoversAlways` | `OrderlyInv`, for one thread: one thing is under way at a time, a call on the strand or a stage with its timer (`OneAtATime`); it holds the one handler that was asked for and not yet called (`Balance`, `Counters`); a stage begins, and a call succeeds, when the stages before have left nothing behind (`Tidy`). |
| `NeverStallsAlways` | `FlowInv`: the property is inductive with the types; whoever ends a read starts the next one unless reading is paused. |
| `LastCallWinsAlways` | `LastCommand`: with one thread the last handler in the queue carries the last call, and with an empty queue the flag does. |
| `PauseTakesEffectAlways` | `Allowance`, with `LastCommand` and one thread: the read with `handle_read_frame` and the handlers ahead of the last queued pause (`Ahead`) are no more than the reads that are still allowed. Each read that is started uses one of them up: a handler that could start one while the last call was a pause still has that pause behind it (`PauseWaits`), so it was ahead of it. |
| `TimeoutsJustified` | `TimerInv`: with one pinging thread (`OnePinger`) only the stored timer is armed, a ping that is excused has no timer left that could report it, and none is armed while ping() is about to set one. |
| `LoopLivesAlways` | `LoopInv`: where a connection under construction is kept in each step of start_accept, with the property. |
| `OneLoopAlways` | `OneLoopInv`: an accept and a thread that starts one are a single token; an endpoint that listens without a loop leaves it to the application's start_accept. The premise is `Patient`. |
| `BytesAccountedAlways`, `ReadsAllAlways` | `ReadInv`: the accounting, and that a call that does not go round again has used all its bytes or has no read to give them to. |
| `SetupCleanAlways`, `ReadingFollowsCallsAlways`, `TransportBytesAccounted`, `TransportReadsAll`, `AcceptsOnceAlways`, `PongTimeoutJustifiedAlways` | the properties of the run `transport`, of the composition: each step of `MCTransport` is a step of one part and leaves the others alone (`StepOfParts`), so that the invariants above carry over. |
| `Hybi13_proofs!ParserInvariant`, `PeerUnderstoodAlways` | `HInv`: types, and while there is no error `Live`: the bytes that are still to come are those of the frames not yet dealt with, and the headers, the counters, the rotated masking key, the validator and the message are what was read of the first of them, in each state of the parser (`BasicRead`, `ExtendedRead`, `PayloadRead`, `FrameReady`). `PeerUnderstood` is not inductive without it: that a header is accepted depends on its bytes being those of one frame, which depends on all earlier frames having been consumed exactly. |
| `ParsesFramesAlways` | the same. The refinement mapping is `Committed`, what the parser has before the frame it is in the middle of. A step of consume() either stays within a frame, which `MessageStream` does not see, or ends one: with its last byte (`DispatchStep`), or early because its header or its text is refused (`BasicStep`, `ExtendedStep`, `PayloadStep`), and then the whole frame is refused for the same reason (`MalformedBetween`). |
| `Parsing_proofs!FramesBoundedAlways` | the same: `HInv` carries the type invariant, the maximum size and promptness, and a step of the composition is a step of `Hybi13` or leaves it alone (`FramesPart`). |
| `HttpReadAlways` | `HttpInv`: the bytes consumed are those of the lines taken (`Bytes`) and of the one begun, `m_header_bytes` is between that and three more for each pause, and what has been decided is what the whole message deserves. The counter is needed for its own limit, the sum for where the body begins. |
| `Utf8AgreesAlways` | `Utf8Inv`: what each state of the table says of the bytes of the character that has begun: how many are missing and which second bytes are allowed. That the definition of UTF-8 by code points allows exactly those is `Viable` by the length of a character, case by case. |
| `Hybi00MessagesAlways` | `Hybi00Inv`: `MessagesOf` the bytes consumed are the messages delivered and the one in `m_msg_ptr`, whichever state the loop is in. |
| `StreamsAgreeAlways` | `StreamsInvariant`: there is a history `h` of the messages that were accepted, each with its bytes and the windows of the compressor before and after it. The frames in the queue and in the hands of the threads are those of the messages of `h` that were not delivered (`Follow`); the receiver is between two messages, in a message cut in two or in its last frame (`Phase`), and its own window ends as the compressor's did where the byte it has come to was made (`Ends`). The windows are not equal: after a full flush the compressor's is empty, and an end that agrees is all that a byte needs. The history is quantified in the invariant and no variable of the model. A call of inflate is followed byte by byte, by induction. |
| `Feeder_proofs!AcksOnTimeAlways` | `AckInv`: the counter is the number of messages that were not acknowledged, is zero until the server has named its count, and below the count then. |
| `OrderKeptAlways` | `OrderInv`: the prices that wait, in the queue and in the handler's hand, are sorted, and a marked one waits exactly once between its making and its end, whatever the capacity of the queue and the number of prices in a message. |

The premises are the ones the runs are under, and the code's own limits:
`Closers \subseteq {Strand}` (`close_twice` shows what happens otherwise),
`Patient` and `OnePinger` (what the application has to observe, see
section 5), one thread and an accepted host name in `Orderly` (`init_twice`), and
`SettingsAssumption` (*ServerWindow* above).

Only model-checked:

* Liveness (`ClosingEnds`, `CloseHandlerRuns`, `QueueDrains`, `Settles`,
  `HandshakeEnds`, `SetupAnswered`, `AcceptingEnds`, `SentWhileTicksCome`), which
  the prover does not support.
* `TextReadBack`, `AddressesReadBack` and `MessagesRead`: pure functions over texts,
  written with RECURSIVE operators, which the prover cannot take in.

Recursive functions it can take in. The library's induction theorems have an operator as a
parameter, but induction on a *set* of naturals does not need one: `Counting!Induction`
derives it from the fact that a set of naturals has a least element
(`LeastNumber`), and with it `Bytes`, `Bits`, `Number`, `Validate`, `MessagesOf` and the run of inflate in
`decompress` are shown to exist and to have their step.

`NoSizeWraps` is a premise of `ParsesFramesAlways` and `FramesBoundedAlways`: the maximum message
size and the size that any frame claims, added, are a `size_t`. Where it does not hold the
code has the overflow of section 5 (processors/hybi13.hpp:457), and the theorems would be
false. The run's frames meet it. Of the frames nothing else is assumed than
the widths of their fields (`FramesAssumption`).

What the proofs changed in the models. `FromProcessor` let the
processor of a peer prepare control frames with data opcodes, which no caller of
`prepare_control` does; TLC's frames never showed it. Two definitions (`TakeData`, the error of
`ProcessPayload`) had a CASE whose arms overlap: TLC takes the first, TLA+ leaves the choice
open, and with the wrong choice the refinement is false. They are IF chains in the order of
the code now. `decompress` is a recursive function instead of a fold, and `CompressionAssumption` says
what was tacit: the messages are texts, binaries and control frames, and `NoThread` is
no thread, without which the lock would be nobody's.

## 5. Findings and observations

The six violation runs are findings, described in `PROJECT.json`. Modelling
also showed the following. These have no run of their own; where a property
had to be restricted because of one, its definition says so.

Connection:

* send() and close() on two threads: a message may be queued after the close
  frame (CI:105; connection.hpp:784 says that no message may follow).
* A client that refuses the server's extensions calls terminate() and then
  opens the connection: open and fail are both called (CI:1629;
  connection.hpp:54). `KeepsContract` leaves such clients out.
* A plain HTTP request whose response cannot be written calls the fail handler
  although the http handler ran (CI:1379; connection.hpp:55).
* A timed out attempt may report the error of its aborted read instead of the
  timeout, because terminate() assigns `m_ec` before it looks at `m_state`
  (CI:1711; connection.hpp:488).
* With several threads a pause_reading() may be undone by an earlier
  resume_reading() (transport/asio/connection.hpp:1024; connection.hpp:710).
* After a close handshake timeout the local close code is one that was never
  sent (CI:1712; connection.hpp:1215).
* A reason truncated inside a character is refused by the other end (CI:312;
  connection.hpp:794). `OneCloseFrame` allows for the second close frame.
* The special codes omit_handshake and force_tcp_drop are refused as invalid
  (CI:2070; src/docs/faq.dox:151).
* A server that is closing takes the client's own close frame for its
  acknowledgement and drops messages that are still queued (CI:2043;
  connection.hpp:785).
* Any pong, whatever its payload, cancels the timer of the newest ping (CI:1974);
  terminate() does not cancel `m_ping_timer`; two threads in ping() may leave a timer that
  nobody can cancel (CI:183).

Processors and compression:

* The sum of the size so far and a 64 bit fragment size may wrap around
  (processors/hybi13.hpp:457; connection.hpp:565).
* Neither the size nor, for the bytes of the trailer, the UTF-8 of a decompressed message is
  checked (processors/hybi13.hpp:816). Each fragment of an outgoing compressed message is compressed and
  stripped by itself, with the bit set on each, which no receiver can read; the result of
  compress() is ignored.
* A prepared message that is sent on several connections would carry the
  compression context of the one that prepared it.
* A window size of 265 is accepted as 9: the value is cast to eight bits before its
  range is tested (extensions/permessage_deflate/enabled.hpp:704, :760). A failure of
  zlib's init leaves the extension enabled. A server limits the client's window even
  if the client did not offer it.
* Draft 00: text is not validated, there is no size limit, and a close frame
  `FF 00` of a client is reported as a protocol violation.

HTTP and text:

* `m_header_bytes` keeps 3 for each call of consume() that ends inside the
  head, so that a head well below `max_header_size` is refused if it arrives in
  many small pieces (http/impl/request.hpp:70, :83; http/constants.hpp:65).
  `SizeLimit` states what holds.
* A quoted string that ends in a backslash is read past its end quote. IPv6
  hosts lose their brackets in `str()` and in the Host header; `ws://host?query` takes
  the query into the host; ports may have anything behind their digits (uri.hpp:330).

Transports and endpoint:

* With several threads a timer may expire between a handler's look at it and its
  cancel(), and both call back (transport/asio/connection.hpp:1104);
  `CalledOnce` and `NoLeftovers` are therefore stated for one thread.
* The DNS timeout of one connection cancels the queries of the others
  (transport/asio/endpoint.hpp:963), whose handlers keep silent; they are
  answered by their own timer, as a timeout.
* A second call of init_asio() marks the io_service as the endpoint's own even if it
  fails (transport/asio/endpoint.hpp:239).
* stop_listening(), listen() and start_accept() before the handler of the
  cancelled accept has run leave two accept loops (`Endpoint` with `Patient`
  FALSE). The loop ends for good if a connection cannot be created
  (roles/server_endpoint.hpp:130). create_connection() copies the handlers without
  `m_mutex`.
* iostream: `m_read_mutex` is held while handlers run, so that a handler that
  supplies bytes itself waits for ever; `m_reading` is written without it
  (transport/iostream/connection.hpp:106).

Feeder (src/examples/print_client_tls):

* `ready` is a plain bool that two threads use, and cv is notified, without
  `m_mutex`: a notification may be lost, and the price waits for the next one
  (ByteBuffer.hpp:221); the publisher holds `m_mutex` while it sends; the result of
  `push` is ignored.
* The counter is compared with the count for equality only (print_client_tls.cpp:80),
  which is sound because of the order of its steps (`AcksOnTime`) and because the server
  is taken to answer the connection request once and before any data; main does not
  enforce that. A second answer with a smaller count could take the counter past it, and nothing would
  be acknowledged any more.
* getLong() extends the sign of a byte; reads beyond the message leave values
  uninitialized; getString() ends in no terminator; arrays of a message are not initialized
  and are indexed from the end; names shorter than three are cut at `len-3`.
* The size fields of requests count different bytes: those behind the field in the
  connection request, all of them in the others; the length of a scrip is one byte.
* main() waits by the clock: a connection that is not open within a second loses its request,
  and the error is not looked at. The destructors of the futures wait for
  threads that never end.
* Certificates are not verified (`verify_none`), and of several alternative names only
  the last one counts.

## 6. Not modelled

* Message buffers (a message is a record; pools are stubs in this version), the
  debug and stub transports (test doubles), digests (taken for the value that
  they are of), random numbers, loggers, concurrency and configuration policies: no
  behaviour that the models would miss.
* The handshake of draft 00; drafts 07 and 08 differ from hybi13 in their version number
  and in two header names.
* In modelled components: consume(istream) and raw() of HTTP, interrupt() and the
  handler allocators of asio, the forms of listen() that only find an address, the
  setters of handlers and options. In read_some(), the branch for a stream that turns bad
  (transport/iostream/connection.hpp:622), which completes the read with an error and goes
  on to the next test. A request line without a method, after which request::consume
  takes the next line for a request line again (http/impl/request.hpp:120).
* The feeder's files (the list of scrips, the appended prices) and its TLS
  options; the other examples, which demonstrate the API; the vendored
  rapidjson and cppzmq, which are third-party code.
* zlib, OpenSSL and the network are external and modelled by what the code may
  see of them.
* Data races proper: a race on `m_handshake_timer`, on `m_resolver` or on
  the feeder's `ready` would need a memory model. The models show the logical
  races around them.

About one line in eight of the tree's C++ files is mapped. Most of the others are vendored
libraries, examples, tests, documentation comments, digests, and platform
and logging code.

## 7. Plan

Done: the modules of section 2, in the order connection, processor, closing handshake,
transport, parsers, negotiation, compression, endpoint, feeder; and the proofs of
section 4.

What is left: the functions of `HttpText`, `Uri`, `Base64` and `FeederCodec` as recursive
functions, for the properties that read back what was written. Then the handshake of
draft 00; an endpoint composed with the connections it accepts; the feeder's request
handling with the JSON it reads.
