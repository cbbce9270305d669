# A TLA+ model of greengrass-ipc

`greengrass-ipc` is a client of the AWS IoT Greengrass IPC service. It opens a
Unix domain socket to the Greengrass *nucleus*, authenticates with a token, and
then multiplexes any number of operations over that one socket: each operation
runs on a *stream*, named by an integer that the client allocates. A background
task, the *read loop*, decodes what arrives and routes it to the call whose
stream it belongs to.

The crate is small and its code is sequential almost line by line. What is hard
is what runs between its lines: every `await` and every release of the
registry's mutex is a point where the read loop, another call, a timer, a
dropped future or the nucleus gets its turn. The modules here model those
turns, TLC explores them on small instances, and TLAPS proves the main safety
properties for every instance.

## Parts of the system

| Part | Code | State | Operations |
|---|---|---|---|
| Connection | `src/connection.rs` 66-269 | `registry` (stream id to sink), `next_stream_id`, `write_half`, `closed`, the handle of the read task | `request`, `subscribe`, `close_stream`, `closed`, `write_message`, `alloc_stream_id`, `connect`, `Drop` |
| Read loop | `src/connection.rs` 276-401 | its position; shares `registry`, `write_half`, `closed` | `read_loop`, `handle_protocol_message`, `dispatch`, `fail_all` |
| FramedReader | `src/connection.rs` 19-56 | a buffer, the decoder, the read half | `next_frame` |
| Client, EventStream | `src/client.rs` | the reference count of the connection; the stream id and the channel of a subscription | one method per Greengrass operation, each a `request` or a `subscribe`; `closed`; `poll_next` and `Drop` of an EventStream |
| RpcMessage | `src/eventstream/` | none | `parse`, `activate`, `terminate`, `connect`, `ping_response`; tests of flags |
| IpcEnv | `src/env.rs` | the socket path and the token read from the environment | `from_env` |
| Error | `src/error.rs` | none | the values a call returns |
| Shapes | `src/model/` | none | `serde` derivations and a base64 codec |
| Nucleus, socket | not in the crate; `tests/support/mod.rs` has a mock | what it has read and sent on each stream | reads, answers, pushes events, reports errors, closes |

How they interact:

* A call puts a *sink* (the sending end of a `oneshot` or an unbounded `mpsc`
  channel) in the registry under a fresh stream id, writes the activation of
  its stream under the lock of the write half, and awaits its channel.
* The read loop removes the sink for each frame it dispatches, sends the frame
  to it, and puts it back only if it is a subscription's and the stream goes
  on.
* When the read loop ends (end of file, a decoding error, a connection-level
  error) it drains the registry, sends every sink an error, flips the `closed`
  watch and exits.
* A write that fails shuts the write half down. The nucleus then sees the end
  of file, closes its end, and the read loop ends in its turn: the only path
  from a failed write to the other calls leads through the nucleus.
* Dropping an `EventStream` drops its receiver at once and spawns a task that
  removes the sink and writes a TERMINATE_STREAM.
* The read loop writes too: it answers a Ping before it reads on, with the same
  lock and the same socket buffer as the calls.

Hard behaviours, each with its line in `PROJECT.json` under `hazards`: the end
of the read loop against calls at every one of their awaits; the timer of a
request against the answer being delivered; events that follow the
acknowledgement before `subscribe` has returned; the spawned close task against
events still in flight; a full socket that blocks the read loop and the calls
together; a failed write, a torn frame, a dropped future; ids that wrap.

What makes each part correct:

* Connection and read loop: no call waits on a channel nobody will write to; a
  sink is always that of the call that owns the stream id; what reaches a
  caller is its own stream, in order, without gap or repetition, and nothing
  after the end; a termination never overtakes the activation of its stream;
  the loss of the socket reaches every waiting call and `closed()`; a request
  always returns; a slow subscriber never holds up another call.
* FramedReader: the frames it yields are those the nucleus wrote, however the
  bytes are cut up, and one that is cut short by the end of file or damaged is
  not yielded.
* Write half: a frame follows only a whole one, but for two known cases, a
  dropped future and a failed PingResponse, which leave a fragment that the
  next frame comes behind.
* IpcEnv and the handshake: `connect` ends whatever the nucleus does but keep
  silent; a connection belongs to the process that holds the current token.
* Client: the connection lives as long as a client, a stream or a close task
  needs it, and no longer.
* RpcMessage: what it builds parses back to itself; a flag is never taken for
  another; a malformed header never becomes the id of somebody else's stream.
* Stream ids: no live call loses its sink to another while they are fresh.
* Shapes: an error is an error whatever its payload; a response may be empty; a
  nucleus may add members that the crate does not know.

## The modules

Four models look at the same connection, each at the granularity its questions
need. They are not composed: each takes from the others what they show.

| Model | Modules | Follows | Takes for granted |
|---|---|---|---|
| Connection | `Nucleus`, `Connection`, `IpcCalls`, `ConnectionClaims` | all calls, tasks and channels, with whole frames | a socket that carries whole frames in order (Transport), fresh ids (Exchange), an established connection (Session) |
| Transport | `WriteHalf`, `FramedReader`, `Transport`, `FrameQueue`, `TransportClaims` | parts of frames written, bytes read, the lock, the reader's buffer | nothing of what frames mean |
| Session | `Session` | tokens, the handshake, holders of a connection, its end | what happens on an open connection |
| Exchange | `RpcMessage`, `Shapes`, `Exchange` | one call down to headers, ids and payload shapes | queues and tasks between the steps (Connection) |

### Nucleus

The environment: the socket as one bounded FIFO of whole frames in each
direction, and a nucleus that reads activations and terminations, answers open
streams, sends signals on stream 0, and may close the socket at any moment. It
is not code of the crate and is modelled from how `connection.rs` uses it. The
rank `n` of a frame within its stream stands for its content: two frames of one
stream are never the same frame, so losses, repetitions and reorderings show.

The kinds of frame are those the client tells apart: `message`, `garbled` (a
message whose payload does not decode to the expected type) and `error` on
operation streams, each with or without the TERMINATE_STREAM flag; on stream 0
`ping`, `ignored` (any other message type), `fatal` (ProtocolError or
InternalError). `unparsable` is a frame that `RpcMessage::parse` rejects and
the read loop skips; `undecodable` is one the frame decoder rejects and that
ends it.

### Connection

The core. An element of `Op` is one call of an operation of the API, and each
of its actions is what the code does between two points where another task can
run. In the order of the code:

| Actions | Code | Suspended at |
|---|---|---|
| `Begin` | `alloc_stream_id`, then the insertion under the registry's lock | the lock of the write half, or the socket |
| `WriteActivate`, `ActivateFails`, `EncodeFails` | `write_message` | the channel; or the registry's lock on the error path |
| `Unwind` | `registry.remove`, `return Err` | returned |
| `Reply`, `Expire`, `GiveUp` | `timeout(.., rx)`, and the removal once it has elapsed | returned |
| `Acknowledged`, `Refused` | `event_rx.recv()` in `subscribe` | returned |
| `Cancel` | the caller drops the future at an `await` | never again |
| `NextEvent`, `EndOfStream` | `EventStream::poll_next` | |
| `DropStream`, `CloseStream`, `WriteTerminate` | `Drop`, then the spawned `close_stream` | |
| `Dispatch`, `AnswerPing`, `Ignore`, `ReadError`, `ReadEof` | one turn of `read_loop` | the socket |
| `FailAll`, `SignalClosed` | the end of `read_loop` | exited |

Variables follow the fields of `Connection` and the locals of the calls:
`registry` maps a stream id to the call whose sink it holds, `chan[o]` is the
channel of call `o`, `streamId[o]` its local, `outcome[o]` what it returned.
`last` and `final` record what the caller has been handed and exist for the
properties only. A call's channel is emptied when its receiver is dropped.

Choices worth knowing:

* `Begin` merges the allocation of the id with the insertion of the sink. In
  between, nobody knows the id: no frame can carry it and no other call can get
  it. What another task does there commutes with the insertion, except
  `fail_all`, and then the insertion is one after it.
* The sender of a channel lives exactly as long as the registry entry, so "the
  sender is gone" is "not registered", and `Polled` reads it as `Lost`:
  `request` and `subscribe` map both to `ConnectionClosed`.
* `Expire` fires only when the channel is not ready because `tokio`'s `Timeout`
  polls the future before the clock. Between `Expire` and `GiveUp` the receiver
  is gone and the sink is still there, as in the code, where the future is
  consumed before the removal takes the lock.
* `Cancel` leaves the sink in the registry: `request` and `subscribe` have no
  guard object. Its points are the two awaits of a call.
* `WriteErrors` says whether a write may fail while the nucleus is still there.
  A write on a socket whose other end is closed, or whose write half has been
  shut down, fails in any case. A PingResponse that fails is only logged.
* A frame is written whole or not at all. The lock is held over `write_all`, so
  this is wrong only for a future dropped in the middle of `write_all`, and for
  a PingResponse that fails: Transport says exactly when, and TransportClaims
  shows what follows.
* The `?` after `serde_json::to_vec` (lines 170 and 211) would leave the sink
  registered; the crate's request types all serialize, so no call takes it.
* `Connection` starts where `connect` returns; what comes before is in Session.

### IpcCalls

The abstract specification: what the API promises each caller, with no
registry, no channel and no read loop. A call resolves once. If it resolves
with what the nucleus said, the nucleus said it, on this stream. A subscription
then hands over the events of its stream one by one in order, and ends after
the item that ends it and never before. `Connection` implements it under the
mapping `Calls` (its property `ImplementsCalls`): the phase of a call is read
off its location, what was sent off the nucleus' counter for its stream id, and
what was seen off `last`.

### ConnectionClaims, TransportClaims

Statements of the repository's comments and documents that the code does not
keep, five of Connection and one of Transport, each with a run in which TLC
finds the counterexample.

### WriteHalf

The write half and its lock. A writer is one frame to be written by one call of
`write_message` or, for a PingResponse, of `write_frame`. `Lock` draws a turn
(tokio's mutex is fair), `Put` is one turn of `write_all`, `Fail` its error
with the shutdown that only `write_message` does, `Drop` the future dropped at
the lock or while it writes. `out` is all the parts the socket has taken,
`taken` how many the nucleus has read; `Room` is what the socket holds.

### FramedReader

`next_frame`, byte by byte. A byte is its position in what the nucleus writes,
so that one lost, repeated or out of place shows. `DecodeFrame`,
`DecodeIncomplete` and `DecodeError` are the outcomes of `decode_frame`;
`ReadBuf` appends any number of the bytes there are; `EndOfFile` returns
`None`, with or without bytes in the buffer; `NextFrame` is the next call, on
the same buffer: those of the handshake go on to the read loop. A `read_buf`
that fails with an I/O error is not told apart from the end of file: either is
the last thing a socket reports, and ends the read loop alike.

The decoder is that of `aws-smithy-eventstream` and not in the repository. What
is assumed of it: it takes the length of a frame from the prelude before it
looks at any CRC, and returns `Incomplete` until the buffer has that many
bytes; then it fails if anything in them is damaged, and takes them off the
buffer if nothing is. `announced[f]` is the length in the prelude of frame `f`
as it arrives, which damage may set to any of `Lengths`. A length damaged
upwards therefore swallows the frames behind it, until there are bytes enough
to fail, or for good; at the end of file `next_frame` then returns `None`, and
says nothing of what is left in the buffer.

### FrameQueue

What `next_frame` promises the read loop, without bytes, buffer or decoder: a
queue of frames, each of which is whole or not, damaged or not, and made to
announce too much or not. A call returns the next whole and undamaged frame; an
error only if the next one is damaged; and `None` only when the nucleus has
closed its end and no whole frame is left, or the next one announces too much.
Under the mapping `Queue` of FramedReader, Transport implements it (its
property `ImplementsQueue`): what is whole, damaged or too long is read off the
bytes sent, and what was returned off `yielded`.

### Transport

The two composed by the read loop: it reads on only when the PingResponse to
the frame in hand is written or has failed, behind the writers that came to the
lock before it. `HangUp` closes the socket in the middle of anything. Frame 1
is the ConnectAck.

### Session

The connections of one process of a component, and the nucleus that starts it.

| Actions | Code |
|---|---|
| `FromEnv` | `IpcEnv::from_env` (`env.rs`) |
| `ConnectSocket`, `SendConnect`, `ReadAck`, `ConnectFails`, `CancelConnect` | the steps of `Connection::connect` between its awaits |
| `CloneClient`, `DropClient`, `DropStream` | who holds the `Arc<Connection>` (`client.rs`) |
| `Acknowledge`, `OpenStream`, `CancelSubscribe` | `subscribe` from its acknowledgement on |
| `CloseStream`, `CloseFails` | the close task, which holds a clone of the `Arc` until its write is through |
| `OtherWrite` | the other writes, which may fill the socket or fail |
| `LastDrop` in each of those, `TaskAborted` | `Connection`'s `Drop`, and the runtime that carries out the abort |
| `ReadLoopEnds` | the read task returns |
| `Answer`, `Read`, `HangUp`, `Crash`, `Boot`, `StartComponent` | the nucleus (external): a new token at each start, no other honoured; the environment of a live process stays as it was |

`reply` has the five answers that `connect` tells apart. The `NearOpen`
operator is when the file descriptor is open at our end: until both halves are
dropped.

`full` is whether the socket has room for a frame, and `shut` whether a failed
write has shut the write half down. A close task can write only when there is
room, and may fail at any time; `close_stream` ignores the failure, so that
`shut` is all that remains of it. `OpenStream` needs nothing but the
acknowledgement in the channel: the read loop may have ended and the nucleus
may be gone by then, and the stream holds the connection all the same.

`StartComponent` is a fresh process in place of the old one (`Restart`), or one
beside it (`Orphaned`): a nucleus that does not know the old process, because
it was restarted since, leaves it alone (`README.md:98` tells of one). The
module goes on to follow the old one then, which keeps its environment.

### RpcMessage

`parse` on a sequence of headers (name, kind of the wire, integer), the tests
of flags as bits of a signed word, and the headers the crate builds. `Half` is
half the range of an `i32`, so that 8 stands for 2^31. `Parses` is whether
`parse` returns `Ok`, `Parse` what it then returns: the last header of a name
counts, a bad one is an error wherever it is, integers of every signed width
are taken if they fit.

### Shapes

What `serde` accepts for each response and event of `src/model/`: JSON values
by their kind, structs by their members (required, an `Option` with a default,
with a default only; unknown members ignored), base64 blobs, and which shape
each method of `Client` decodes to.

### Exchange

One call among any number of others. `Begin` is `request` or `subscribe` up to
the write, `OtherCall` any other call that draws an id, `OtherRemoves` an older
call or stream that had our id a circle ago and removes what is under it
(`request`'s timeout, `subscribe`'s error path, `close_stream`), `Expire` the
timeout, `EndOfStream` and `DropStream` those of the EventStream. A frame that
arrives is handled by one action per branch of `read_loop`,
`handle_protocol_message` and `dispatch`, on what `Parse` makes of its headers;
the outcome is what `decode_payload`, `decode_event` and `service_error_from`
make of its payload. A channel holds nothing between steps here: queues are
Connection's matter. `next` wraps as `fetch_add` does, `drawn` is the set of
the ids drawn so far, and `heir` whether ours was among them when we drew it.

### The modules of proofs and of the runs

`ConnectionProofs`, `DeliveryProofs`, `TerminationProofs` and
`RefinementProofs` build on one another; `TransportProofs`, `SessionProofs` and
`ExchangeProofs` are about the module they are named for, and `PayloadProofs`
goes on from the last to `Shapes` and to what `RpcMessage` builds. The `MC`
modules only give constants their values; no definition is replaced.

## What is checked

Safety, `MCSafety.cfg`: one request and one subscription, both cancellable,
with answers and errors, write failures, decoding errors and a nucleus that may
close at any time. About 874 000 distinct states.

* `TypeOK`
* `WaiterIsReachable`: a call that awaits its first message has its sink
  registered or the message in its channel, through every order of `dispatch`,
  `fail_all`, timer and cancellation.
* `NoStaleSink`: a sink is under its own call's id, and a call that has
  returned has none. Calls whose future was dropped are the exception: their
  sinks stay until an answer or the end of the connection.
* `InOrderDelivery`: a channel holds the next frames of its call's stream.
* `NothingAfterTheEnd`: a terminating frame, an error or the notice that the
  connection is lost is the last item of its channel, and nothing is delivered
  after it.
* `TerminateAfterActivate`: a TERMINATE_STREAM never reaches the nucleus before
  the activation of its stream, although a task of its own writes it.
* `ImplementsCalls`: refinement of `IpcCalls`.

Loss, `MCLoss.cfg`, under `ClientSpec`: the nucleus owes nothing, may stop
reading, and may go at any time; writes fail only when there is nothing left to
write to, so that a full socket blocks calls and read loop for good. About
58 000 states.

* `LossReachesEveryone`: the step of the read loop that drains the registry
  comes before the one that flips `closed`, and leaves every call in flight
  with something to resolve with, and every subscription that has not been
  handed the item that ends it with that item last in its channel. Two calls
  under one id, of which one sink replaces the other, would break it.
* `LossIsNoticed`: `closed()` resolves, even with nothing in flight, though the
  read loop may be waiting for room to answer a Ping when the socket is lost.
* `InFlightCallsFail`: a call that is waiting when the read loop still runs is
  resolved by it, subscriptions too.

Progress, `MCProgress.cfg`, under `WellBehavedSpec`: `RequestsReturn`,
`AnswersAreDispatched` (an answer on the wire is dispatched even if nobody
polls the event streams), `WriteFailureCloses` (a failed write brings the
connection down) and `DroppedStreamsTerminate` (the nucleus learns of a dropped
stream, or the socket is over). Writes may fail here with the nucleus still
there, but no property may count on it: fairness covers such a failure only
once the socket is over. Replies may be unparsable, and their requests return
by the timeout. About 96 000 states.

Transport, `MCTransport.cfg`: two calls, one of which may be dropped at any
moment, and the answer to a ping, each written in two parts into a socket with
room for one; three frames to read, the last of two bytes, with damage to bytes
and to lengths. About 354 000 states.

* `FramesDoNotMix`: what follows a part on the socket is the next part of its
  frame, or the start of another after a whole frame, after what a dropped
  future left or after a failed PingResponse. So the two known ways to a torn
  frame are the only ones; that they are ways is the run `claim_one_frame`.
* `YieldsWhatWasSent`: frames come out in order and without a gap however their
  bytes are cut up, and an error means damage in the very frame that was due.
* `NoneMeansAll`: `None` loses only a frame cut short, or the frames from one
  on whose length was damaged upwards.
* `WritesEnd`: whoever waits for the lock gets through it, whatever is dropped
  or fails in front of it, if the nucleus reads.
* `FramesArrive`: a whole frame, with no damage in it or before it, is yielded
  without one byte more from the nucleus, though it may lie in the buffer
  behind a ping whose answer waits for the lock. Behind damage nothing is
  promised: the reader may fail, wait, or say `None`.
* `ImplementsQueue`: refinement of `FrameQueue`. It adds to `YieldsWhatWasSent`
  and `NoneMeansAll` that no damaged frame is ever returned, and that damage is
  never taken for an end of file, but for that of a length.

Session, `MCSession.cfg`: two calls of `connect` of a process that is started
up to twice, with two clones and one stream each. About 153 000 states.

* `LiveMeansCurrent`: a connection open at both ends has the token that the
  nucleus honours. A process that the nucleus did not start, an orphan beside
  its replacement among them, never has one again once the nucleus has died.
* `AbortedMeansUnheld`: the read task is aborted only with no client, no stream
  and no close task left; streams that are opened after the read loop has ended
  count too.
* `ToldBeforeClosed`: our end closes, with a nucleus there and no write failed,
  only when it has had the termination of every stream.
* `SocketIsReleased`: once there is no client and no stream, the socket closes
  if the nucleus reads on, or goes. With one that stays and does not read, a
  close task waits for room, and keeps the socket open, for ever.
* `ConnectReturns`: `connect` returns if the nucleus answers or dies.

Exchange, `MCExchange.cfg`: a request, an event with nested structs and one
with a blob, on ids of four bits. About 352 000 states.

* `ClosedMeansLost`: on a live connection no call is told `ConnectionClosed`
  before the ids have come full circle. After that it may be: its id goes to
  another call, or an older holder removes its sink.
* `BuildersParse`: what the crate writes parses to what it meant, with the flag
  of termination on a termination and on nothing else, for wrapped ids too.
* `OnlyOwnFrames`: a frame with any integer header that is no `i32` changes
  nothing, and one that changes something is addressed, by the last of its
  stream ids, to our call or to the connection.
* `EmptyPayload`, `ErrorsAreErrors`, `MembersMayBeAdded`: no payload is fine
  for a response and an error for an event; an ApplicationError is a `Service`
  error whatever its payload; an unknown member, at any depth of the payload,
  changes nothing.

Every property of these runs has a mutant of the code, under `mutants` in
`PROJECT.json`, that breaks it.

### Bounds, and why they are enough

* `MaxId` is the number of calls, since each allocates one id. That the `i32`
  of the code wraps is out of reach there, and in Exchange.
* `Op` has two calls. Calls share only the registry, the wire and the write
  half; two are what a mix-up, an overtaking or a blockage needs.
* `MaxFrames` bounds what the nucleus sends on a subscription: 3 is the
  acknowledgement and two events, so that an event can be in the channel, one
  on the wire and one handed over. The liveness runs use 2.
* `WireCap` is the capacity of the socket in frames: 2 lets frames of two
  streams, or an activation and a termination, lie behind one another; 1 makes
  writers block at once, which is what the liveness runs are about.
* The channels are unbounded in the code. Here `MaxFrames` and the one notice
  of `fail_all` bound them.
* `Payloads` and `Signals` of a run are the kinds its question needs. The read
  loop treats `garbled` like `message` and `unparsable` like `ignored`;
  `garbled` differs in what `Client::request` returns. They occur in
  `MCLoss.cfg`, `unparsable` in `MCProgress.cfg` too.
* Transport: `Parts` of 2 and `Room` of 1, so that every write is suspended
  within its frame until the nucleus has read; a frame of two bytes, so that it
  can be cut, follows two of one byte in the same buffer. `Lengths` of 1 and 3
  make the first frame swallow the others, and the last announce more than
  there is or less. Calls behave alike: one that may be dropped and one that
  may not are enough to mix.
* Session: `MaxStarts` of 2 has an old token and a new one, and an orphan
  beside its replacement; two connections share the token and the nucleus only;
  two clones and a stream have each of them dropped last, and the close task
  after all of them.
* Exchange: `Half` of 8 is the least that has room for the message types, and
  `MaxCalls` is 17, one more than there are ids: the last call gets the id of
  the first, and has an older holder. Frames are a canonical one with one thing
  changed: a type, a flag word, a stream id of another width, out of range or
  repeated, a header missing or of another kind, a member missing, null, of
  another kind or unknown, at each depth. The first call meets them all, later
  ones those that the id matters to.

`CHECK_DEADLOCK` is off in every run because the system may really stop: once
all calls have returned and the nucleus is silent, or while a call waits for a
nucleus that neither reads nor answers. That waiting calls do not wait for ever
where the code promises it is what the liveness properties say.

### Fairness, and why the code justifies it

`ClientFairness` is strong fairness of the steps a call takes by itself
(`CallStep`) and of the read loop (`ReadLoopStep`). A `tokio` task that is
ready is polled again, a timer elapses, and the registry's mutex is held for a
few statements with no `await` in them, so weak fairness holds of each. Strong
fairness is needed, and justified, for the writers: room in the socket comes
and goes as others write, and the asynchronous mutex of the write half is
granted in the order of arrival, so that a writer is not overtaken for ever.
A write that fails although nothing is wrong with the socket is owed by nobody:
`CallGoesOn` and `ReadLoopGoesOn` leave such steps out, so that a blocked write
is relieved by the nucleus or not at all. Nothing is assumed of the caller: it
may never poll, drop or cancel.

Nothing is assumed of the nucleus either in `ClientSpec`. `ReadingSpec` adds
one that goes on reading; `WellBehavedSpec` adds that it closes its end once it
has reported a connection-level error or read to the end of file.
`RequestsReturn` needs the first: the request timeout does not cover the write.
`WriteFailureCloses` needs the second, since the client shuts its own half down
and waits for the nucleus to do the rest.

In Transport the tasks that write and the read loop are polled, and the nucleus
goes on reading; it owes no byte and may hang up. Weak fairness is enough,
because the lock is granted in the order of arrival in the model itself. Here
too a failure is owed only once the socket is over (`WriteGoesOn`).

In Session a `connect` that was begun is polled, and an aborted task is dropped
by the runtime. A close task has strong fairness: the lock is granted in the
order of arrival, and who has it is the only one to fill the socket again. The
nucleus answers a Connect, reads on, and closes its end of a socket that is
closed at ours. Two of these are real assumptions, for the code bounds neither
wait with a timeout: a nucleus that accepts and stays silent blocks `connect`
for ever, and one that stays and does not read blocks the close task, and with
it the release of the socket. Nobody owes a call, a drop, a failure, a crash or
a boot. Exchange states no fairness and checks no liveness.

## What the code does that its comments and documents do not say

Each is a run that TLC refutes (`findings` in `PROJECT.json`):

| Statement | What the code does |
|---|---|
| `client.rs:33`: "only the initial subscribe handshake is bounded by this" | `subscribe` awaits the acknowledgement with no timeout (`connection.rs:219`) |
| `client.rs:31`: the timeout is how long a request "waits before failing" | the timer starts after the write, which may wait for the socket without bound (`connection.rs:172`) |
| `connection.rs:71`: the read loop has the write half "to shut the socket down" on a connection-level error | it only ends; the socket stays open and usable (`connection.rs:344`) |
| `error.rs:54`: on `Timeout` "the connection is still believed to be alive" | a request begun after the read loop has ended is written, and times out (`connection.rs:185`) |
| `error.rs:65`, `connection.rs:274`: whatever ends the loop "fails every in-flight operation" | a subscription that registers its sink after `fail_all` has drained the registry waits for ever (`connection.rs:209`) |
| `docs/WIRE_PROTOCOL.md:19`: "Each message on the wire is a single EventStream frame" | a future dropped inside `write_all` leaves a part of its frame, and the next message is written behind it (`connection.rs:251`); so may a PingResponse that fails (`connection.rs:328`) |

## What is proved

Of Connection, for every set of calls, number of ids, socket capacity, bound on
frames and choice of payloads and signals, from `ConnectionAssumption` and
`NucleusAssumption` alone:

* `TypeCorrect`: `Spec => []TypeOK`. The strengthening is `TypeInv`, which adds
  `Allocated`: a call has an id exactly when it has begun. Without it the frame
  that a call writes might carry id 0.
* `WaitersAreReachable`: `Spec => []WaiterIsReachable`, and `NoSinkIsStale`:
  `Spec => []NoStaleSink`. The invariant is `SinkInv`. An entry names the call
  that has the id, which holds because ids are allocated once and are below
  `next_stream_id` (`UniqueIds`); only calls at certain locations have one
  (`SinksTracked`); the entry of a request is gone once its channel has been
  used (`OneReply`), without which a second frame might follow the answer.
* `NothingFollowsTheEnd`: `Spec => []NothingAfterTheEnd`. `EndInv` adds to
  `SinkInv` that a call whose channel ends with such an item, or has handed it
  over, is not registered: `dispatch` and `fail_all` write only to registered
  sinks.
* `FramesAreInOrder`: `Spec => []InOrderDelivery`. `OrderInv` adds to `EndInv`
  that the frames of a stream are on the wire by increasing rank
  (`WireOrdered`), that ids not yet allocated are unknown to the nucleus
  (`FreshIds`), and, for each registered call that still receives, that all
  frames sent on its stream and not yet in its channel are on the wire and have
  larger ranks than those given (`NextDue`). So the first of them there is the
  next one due: were it not, the one due would be behind it, against
  `WireOrdered`.
* `TerminationsFollow`: `Spec => []TerminateAfterActivate`. `KnownInv` follows
  the stream from the nucleus back to it: the nucleus knows a stream whose
  frames are on the wire, so also one whose frames are in a channel, so also
  one with an EventStream, and only the close task of an EventStream writes a
  termination. It shows more than the property: the nucleus has read the
  activation before the termination is written.
* `ConnectionImplementsCalls`: `Spec => ImplementsCalls`, the refinement of
  `IpcCalls`. `CallsInv` adds to `OrderInv` that nothing was handed over before
  the first answer (`FirstPending`), that a channel holds only what was sent
  (`SentBound`), and that the channel of a subscription without a sink ends
  with the item that ends its stream, if the caller does not have it already
  (`StreamEnds`): without the last, a stream could yield `None` with no reason
  given. Every step of a call is then a step of `IpcCalls` or invisible to it,
  `Send` is `Emit`, and the rest is invisible.
* `NobodyIsLeftBehind`: `Spec => LossReachesEveryone`, from `CallsInv` after
  the step. Nobody is registered then, so that a call in flight has something
  in its channel (`WaitersReachable`), and a subscription the end of its stream
  (`StreamEnds`). That `fail_all` keeps `CallsInv` is where it matters that no
  two calls share an entry; that `closed` has not flipped is `FlipsLast`.

Of Transport, for every number of writers, parts, frames and bytes:

* `FramesNeverMix`: `Spec => []FramesDoNotMix`. `WriteInv` adds that no two
  tasks have the same turn (`Turns`), so that one has the lock; that a task
  which has put a part has the lock and its part is the last one out
  (`UnderWay`); and that the last part out ends a frame, or is left of a future
  or a PingResponse, or is that of the task with the lock, or the write half is
  shut (`LastPart`). Without it a failed write could be followed by another
  frame.
* `FramesAreThoseSent`: `Spec => []YieldsWhatWasSent`, and `NoneLosesNoFrame`:
  `Spec => []NoneMeansAll`. `ReadInv`: what was yielded, the buffer and the
  wire are end to end what was sent (`InOrder`), an undamaged prelude announces
  the size of its frame (`Announced`), the buffer is too short for what the
  frame due announces when the reader reads (`NoFrameLeft`), and a failure is
  due to a damaged byte of the frame that is due (`DamageFound`).
* `ReaderImplementsQueue`: `Spec => ImplementsQueue`, the refinement of
  `FrameQueue`. `ReadInv` and the states of the reader (`ReadModes`) suffice. A
  byte from the nucleus writes on at the frame it belongs to and may damage
  it; that a frame `decode_frame` takes has no damaged byte is `InOrder`, since
  the bytes at the front of the buffer are then those of the frame that is due;
  lock, writers, buffer and socket are invisible.
* `TransportTyped`: `Spec => []TypeOK`. It needs `ReadInv` for the bounds of
  what is read, and of the writers `Unfinished`: one at the lock has a part
  left to put.
* `NothingStandsStill`: the safety core of `WritesEnd` and `FramesArrive`.
  `LockAlwaysMoves`: while a task waits for the lock, one task has it, and it
  can put a part, or is told that the socket is over, or the nucleus has parts
  to read that make room. So no drop and no failure loses the lock, which is
  the task with the least turn (`LockIsHeld`, by well-founded minimality).
  `FramesAlwaysMove`: while a whole frame with no damage in it or before it is
  not yielded, the reader can take a step, or waits to answer a ping behind a
  lock that moves. Fairness turns the first into `WritesEnd`, and the second
  into `FramesArrive`; a deadlock of the two is excluded for every instance.

Of Session, for any number of connections, starts, clones and streams:

* `LiveIsCurrent`, `AbortNeedsNoHolder` and `CloseIsAnnounced`:
  `LiveMeansCurrent`, `AbortedMeansUnheld` and `ToldBeforeClosed` are
  invariants. `SessionInv` has `Tokens` (whoever connects has the token of the
  environment, and a connection that is up or accepted, with the nucleus there,
  the one that is honoured, so that an orphan, beside which another token is,
  has none) and `Counted` (streams opened are open, being closed or told, while
  the nucleus is there and no write has failed; a `subscribe` that has its
  acknowledgement borrows a client, so that no stream is opened once the read
  task is aborted; no holders before the connection is up).
* `SessionTyped`: `Spec => []TypeOK`, which is inductive as it stands. That no
  count of clones, streams or close tasks leaves its bounds is its main part.
* `NothingIsLeaked`: the safety core of `SocketIsReleased` and
  `ConnectReturns`. A connection that is up and held by nobody has its end
  closed or its read task aborted (`UnheldIsReleased`), so no order of drops,
  closes and crashes forgets the `Drop`; and a `connect` that waits for the
  ConnectAck has an answer, or an error or end of file to return, or a nucleus
  that is there and has not answered (`ConnectCanReturn`). `HeldInv` adds to
  `TypeOK` that a running read task has a holder.

Of Exchange, for every width of the ids, set of operations and frames:

* `LossIsReal`: `Spec => []ClosedMeansLost`. `IdInv` orders the ids as they are
  drawn (`Rank`): until the circle closes the next one ranks above all drawn,
  so that it is none of them and has no older holder.
* `FramesAreOwn`: `Spec => OnlyOwnFrames`, for every sequence of headers. Its
  lemma `LastPlace` shows that `Max` of the places of a header exists, by
  well-founded minimality, and `ParsedIntegers` that `parse` lets only an `i32`
  through.
* `ExchangeTyped`: `Spec => []TypeOK`. `TypeInv` adds to it that a frame is in
  hand only on a live connection, with a sequence of headers.
* `WhatIsBuiltParses`: `Spec => []BuildersParse`. `WrittenInv` has the message
  written last, and that after a termination the call is over and has no sink;
  a lemma for each builder shows what `parse` makes of it, for any stream id.
* `ResponsesMayBeEmpty`, `ErrorsReachTheCaller` and `UnknownMembersAreIgnored`:
  `EmptyPayload`, `ErrorsAreErrors` and `MembersMayBeAdded`, for every set of
  the crate's operations and every payload, of any members. `Decodes` unfolds a
  payload a level at a time; the proofs read it from the top (`Takes3`, equal
  to it by `DecodesFromTheTop`), where an unknown member drops out level by
  level (`Pruning1` to `Pruning`). The shapes are those of `Shapes`, and that
  the operations are its own is in `ExchangeAssumption`.

Before its proof each invariant was checked by TLC on an instance like that of
its run. The proofs that it is inductive have one step per action.

Only model-checked: the liveness properties of Connection (`LossIsNoticed`,
`InFlightCallsFail`, `AnswersAreDispatched`, `RequestsReturn`,
`WriteFailureCloses`, `DroppedStreamsTerminate`), of Transport (`WritesEnd`,
`FramesArrive`) and of Session (`SocketIsReleased`, `ConnectReturns`), since
liveness under fairness is out of the prover's reach. `NobodyIsLeftBehind`,
`NothingStandsStill` and `NothingIsLeaked` prove what `InFlightCallsFail` and
the four of Transport and Session rest on: that there is a step to take, or
nothing to wait for. Every invariant and every other
action property of the passing runs is a theorem.

## Not modelled, and why

* The shapes of requests (`Serialize` in `src/model/`): they omit what is
  absent and have no other branch. A timestamp that is no number becomes `null`
  there.
* Of `serde`: an array in place of a struct, which it takes too, and a member
  given twice, which it rejects.
* Texts of errors, logging, the bodies of payloads: the properties do not tell
  them apart. Of `src/error.rs` only the variants are modelled.
* `src/lib.rs`, `examples/`, `scripts/`, `.github/`: re-exports, demonstrations
  and builds.
* What a client should make of a protocol message on an operation stream: the
  code takes it for a success, the model with it, and nothing says otherwise.
* The panic of `tokio::spawn` when an EventStream is dropped outside a runtime.
* What a woken `closed()` waiter sees of other calls: their channels are served
  by then (`LossReachesEveryone`), but when each is polled is up to the
  runtime.
* The four models are not composed into one: its states would be out of TLC's
  reach. What one takes from another is in the table above.

## What is left

* Connection could take the wrap of Exchange's ids, and the fragments of
  Transport, as faults of the FIFO, to see what becomes of other calls'
  promises once they happen.
* The read half implements a queue of frames. That the write half does, when no
  write is abandoned, would be the other half of the FIFO of Nucleus;
  `FramesNeverMix` shows its main part.
* The safety cores of Connection's progress properties, like those proved of
  Transport and Session.
