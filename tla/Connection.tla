----------------------------- MODULE Connection -----------------------------
(***************************************************************************)
(* An established IPC connection (src/connection.rs, with the parts of     *)
(* src/client.rs that wrap it): the registry of stream sinks, the callers  *)
(* of request and subscribe, the EventStreams they get, and the background *)
(* read loop, running concurrently with one another and with the nucleus.  *)
(*                                                                         *)
(* An element of Op is one call of an API operation.  Each step of a call  *)
(* is what its code does between two points where another task can run: an *)
(* await, or the release of the registry's mutex.  The write half is       *)
(* locked for the whole of a frame, so frames are written atomically here. *)
(***************************************************************************)
EXTENDS Nucleus

CONSTANTS
  Op,             \* calls of an operation of the API
  Subscriptions,  \* those that subscribe; the others are requests
  Cancellable,    \* those whose future the caller may drop before it resolves
  WriteErrors,    \* may a write fail although the nucleus is still there?
  NoOp            \* "no sink" in the registry

Requests == Op \ Subscriptions

ASSUME ConnectionAssumption ==
  /\ Subscriptions \subseteq Op
  /\ Cancellable \subseteq Op
  /\ WriteErrors \in BOOLEAN
  /\ NoOp \notin Op

VARIABLES
  nextStreamId,  \* Connection.next_stream_id
  registry,      \* the operation whose sink is registered under each stream id
  pc,            \* where the code of each call is
  streamId,      \* its local stream_id; 0 before it is allocated
  chan,          \* its oneshot or mpsc channel, from the read loop to the call
  outcome,       \* what request or subscribe returned
  last,          \* rank of the last frame handed to the caller
  final,         \* has the caller been handed the item that ends its stream?
  readLoop,      \* where the read loop is
  closed         \* the watch behind Connection::closed

callVars == <<pc, streamId, chan, outcome, last, final>>
vars == <<nucleusVars, nextStreamId, registry, callVars, readLoop, closed>>

(* The Err(ConnectionClosed) item fail_all sends to every sink.            *)
Lost == [sid |-> 0, kind |-> "closed", term |-> FALSE, n |-> 0]

Item == [sid : Sid, kind : AllPayloads, term : BOOLEAN, n : Nat \ {0}] \cup {Lost}

Outcomes == {"none", "ok", "payload", "service", "closed", "timeout", "io",
             "frame", "cancelled"}

Locations == {"idle", "writing", "waiting", "unwinding", "expired", "done",
              "streaming", "ended", "dropped", "terminating", "cancelled"}

TypeOK ==
  /\ NucleusTypeOK
  /\ nextStreamId \in 1 .. MaxId + 1
  /\ registry \in [Sid -> Op \cup {NoOp}]
  /\ pc \in [Op -> Locations]
  /\ streamId \in [Op -> 0 .. MaxId]
  /\ chan \in [Op -> Seq(Item)]
  /\ outcome \in [Op -> Outcomes]
  /\ last \in [Op -> Nat]
  /\ final \in [Op -> BOOLEAN]
  /\ readLoop \in {"reading", "failing", "signalling", "exited"}
  /\ closed \in BOOLEAN

(* Stream ids start at 1: id 0 is the connection's own.                    *)
FirstStreamId_Zero == 0
FirstStreamId == 1

Init ==
  /\ NucleusInit
  /\ nextStreamId = FirstStreamId
  /\ registry = [s \in Sid |-> NoOp]
  /\ pc = [o \in Op |-> "idle"]
  /\ streamId = [o \in Op |-> 0]
  /\ chan = [o \in Op |-> <<>>]
  /\ outcome = [o \in Op |-> "none"]
  /\ last = [o \in Op |-> 0]
  /\ final = [o \in Op |-> FALSE]
  /\ readLoop = "reading"
  /\ closed = FALSE

-----------------------------------------------------------------------------
(* Vocabulary of the actions.                                              *)

Goto(o, location) == pc' = [pc EXCEPT ![o] = location]

Registered(o) == streamId[o] # 0 /\ registry[streamId[o]] = o

(* registry.lock().unwrap().remove(&stream_id), whatever is there.         *)
Deregister_Not(o) == UNCHANGED registry
Deregister(o) == registry' = [registry EXCEPT ![streamId[o]] = NoOp]

(* A frame can be written while both ends of that half are there and the   *)
(* socket has room; a write fails when one is gone, if not for another     *)
(* reason, and waits otherwise.                                            *)
Writable      == peer # "closed" /\ ~writeShut
WriteSucceeds == Writable /\ Len(toNucleus) < WireCap
WriteFails    == ~Writable \/ WriteErrors

(* The call still holds the receiving end of its channel.                  *)
Receiving_OnceWritten(o) == pc[o] \in {"waiting", "unwinding", "streaming", "ended"}
Receiving_OneSlot(o) ==
  /\ pc[o] \in {"writing", "waiting", "unwinding", "streaming", "ended"}
  /\ chan[o] = <<>>
Receiving(o) == pc[o] \in {"writing", "waiting", "unwinding", "streaming", "ended"}

(* Polling the channel does not return Pending: there is an item, or the   *)
(* sender is gone with the registry entry.                                 *)
Ready(o) == chan[o] # <<>> \/ ~Registered(o)

(* What polling a ready channel gives; an absent sender reads as Lost.     *)
Polled(o) == IF chan[o] = <<>> THEN Lost ELSE Head(chan[o])

EndsStream(item) == item.term \/ item.kind \in {"error", "closed"}

(* The caller takes the polled item.                                       *)
Take(o) ==
  /\ chan' = [chan EXCEPT ![o] = IF @ = <<>> THEN @ ELSE Tail(@)]
  /\ last' = [last EXCEPT ![o] = IF Polled(o) = Lost THEN @ ELSE Polled(o).n]
  /\ final' = [final EXCEPT ![o] = @ \/ EndsStream(Polled(o))]

(* write_message and write_frame, for a frame that goes out.               *)
Write(frame) ==
  /\ WriteSucceeds
  /\ toNucleus' = Append(toNucleus, frame)
  /\ UNCHANGED <<toClient, peer, writeShut, stream, sent>>

(* write_message, for a write that fails: the write half is shut down      *)
(* before the error is returned.                                           *)
WriteBroken_NoShutdown == WriteFails /\ UNCHANGED nucleusVars
WriteBroken ==
  /\ WriteFails
  /\ writeShut' = TRUE
  /\ UNCHANGED <<toNucleus, toClient, peer, stream, sent>>

-----------------------------------------------------------------------------
(* Connection::request and Connection::subscribe.                          *)

(* alloc_stream_id.  The i32 holds 2^31 - 1 positive ids; MaxId stands for *)
(* that bound.                                                             *)
FetchAdd_Load == nextStreamId \in Sid /\ UNCHANGED nextStreamId
FetchAdd == nextStreamId \in Sid /\ nextStreamId' = nextStreamId + 1

(* The call allocates a stream id and registers its sink under it.  Nothing*)
(* can tell the moment between the two, so they are one step, and ids are  *)
(* in the order of registration.                                           *)
Begin(o) ==
  /\ pc[o] = "idle"
  /\ FetchAdd
  /\ streamId' = [streamId EXCEPT ![o] = nextStreamId]
  /\ registry' = [registry EXCEPT ![nextStreamId] = o]
  /\ Goto(o, "writing")
  /\ UNCHANGED <<nucleusVars, chan, outcome, last, final, readLoop, closed>>

(* The activation of the stream is written.                                *)
WriteActivate(o) ==
  /\ pc[o] = "writing"
  /\ Write([sid |-> streamId[o],
            kind |-> IF o \in Subscriptions THEN "subscription" ELSE "request"])
  /\ Goto(o, "waiting")
  /\ UNCHANGED <<nextStreamId, registry, streamId, chan, outcome, last, final,
                 readLoop, closed>>

(* The write fails: Error::Io, and the connection is shut down.            *)
ActivateFails(o) ==
  /\ pc[o] = "writing"
  /\ WriteBroken
  /\ outcome' = [outcome EXCEPT ![o] = "io"]
  /\ Goto(o, "unwinding")
  /\ UNCHANGED <<nextStreamId, registry, streamId, chan, last, final, readLoop,
                 closed>>

(* The message does not fit a frame: Error::Frame, and nothing is written. *)
EncodeFails(o) ==
  /\ pc[o] = "writing"
  /\ outcome' = [outcome EXCEPT ![o] = "frame"]
  /\ Goto(o, "unwinding")
  /\ UNCHANGED <<nucleusVars, nextStreamId, registry, streamId, chan, last,
                 final, readLoop, closed>>

(* An error path of request or subscribe removes its sink and returns.     *)
Unwind(o) ==
  /\ pc[o] = "unwinding"
  /\ Deregister(o)
  /\ chan' = [chan EXCEPT ![o] = <<>>]
  /\ Goto(o, "done")
  /\ UNCHANGED <<nucleusVars, nextStreamId, streamId, outcome, last, final,
                 readLoop, closed>>

(* The answer to a request arrives; Client::request decodes its payload.   *)
Reply(o) ==
  /\ pc[o] = "waiting" /\ o \in Requests
  /\ Ready(o)
  /\ Take(o)
  /\ outcome' = [outcome EXCEPT ![o] =
                   CASE Polled(o).kind = "message" -> "ok"
                     [] Polled(o).kind = "garbled" -> "payload"
                     [] Polled(o).kind = "error"   -> "service"
                     [] Polled(o).kind = "closed"  -> "closed"]
  /\ Goto(o, "done")
  /\ UNCHANGED <<nucleusVars, nextStreamId, registry, streamId, readLoop, closed>>

(* The timeout elapses.  It polls the channel before the clock, so it does *)
(* not elapse over an answer that is there.                                *)
Expire_Never(o) == FALSE
Expire(o) ==
  /\ pc[o] = "waiting" /\ o \in Requests
  /\ ~Ready(o)
  /\ Goto(o, "expired")
  /\ UNCHANGED <<nucleusVars, nextStreamId, registry, streamId, chan, outcome,
                 last, final, readLoop, closed>>

(* ... and then the call stops tracking its stream.                        *)
GiveUp(o) ==
  /\ pc[o] = "expired"
  /\ Deregister(o)
  /\ outcome' = [outcome EXCEPT ![o] = "timeout"]
  /\ Goto(o, "done")
  /\ UNCHANGED <<nucleusVars, nextStreamId, streamId, chan, last, final,
                 readLoop, closed>>

(* The first message of a subscription is its acknowledgement: subscribe   *)
(* returns an EventStream, whatever the payload.                           *)
Acknowledged(o) ==
  /\ pc[o] = "waiting" /\ o \in Subscriptions
  /\ Ready(o)
  /\ Polled(o).kind \in {"message", "garbled"}
  /\ Take(o)
  /\ outcome' = [outcome EXCEPT ![o] = "ok"]
  /\ Goto(o, "streaming")
  /\ UNCHANGED <<nucleusVars, nextStreamId, registry, streamId, readLoop, closed>>

(* ... or an error, or nothing at all: the sink is removed.                *)
Refused(o) ==
  /\ pc[o] = "waiting" /\ o \in Subscriptions
  /\ Ready(o)
  /\ Polled(o).kind \in {"error", "closed"}
  /\ Take(o)
  /\ outcome' = [outcome EXCEPT ![o] =
                   IF Polled(o).kind = "error" THEN "service" ELSE "closed"]
  /\ Goto(o, "unwinding")
  /\ UNCHANGED <<nucleusVars, nextStreamId, registry, streamId, readLoop, closed>>

(* The caller drops the future of a call at one of its awaits.  Neither    *)
(* function has a guard object, so the registry keeps the entry.           *)
Cancel_Terminates(o) ==
  /\ o \in Cancellable
  /\ pc[o] \in {"writing", "waiting"}
  /\ chan' = [chan EXCEPT ![o] = <<>>]
  /\ outcome' = [outcome EXCEPT ![o] = "cancelled"]
  /\ Goto(o, "dropped")
  /\ UNCHANGED <<nucleusVars, nextStreamId, registry, streamId, last, final,
                 readLoop, closed>>

Cancel(o) ==
  /\ o \in Cancellable
  /\ pc[o] \in {"writing", "waiting"}
  /\ chan' = [chan EXCEPT ![o] = <<>>]
  /\ outcome' = [outcome EXCEPT ![o] = "cancelled"]
  /\ Goto(o, "cancelled")
  /\ UNCHANGED <<nucleusVars, nextStreamId, registry, streamId, last, final,
                 readLoop, closed>>

-----------------------------------------------------------------------------
(* EventStream: poll_next and Drop, with Connection::close_stream.         *)

(* poll_next yields an event or an error.                                  *)
NextEvent(o) ==
  /\ pc[o] = "streaming"
  /\ chan[o] # <<>>
  /\ Take(o)
  /\ UNCHANGED <<nucleusVars, nextStreamId, registry, pc, streamId, outcome,
                 readLoop, closed>>

(* poll_next yields None.                                                  *)
EndOfStream(o) ==
  /\ pc[o] = "streaming"
  /\ chan[o] = <<>> /\ ~Registered(o)
  /\ Goto(o, "ended")
  /\ UNCHANGED <<nucleusVars, nextStreamId, registry, streamId, chan, outcome,
                 last, final, readLoop, closed>>

(* The EventStream is dropped: its receiver goes, and a task is spawned to *)
(* close the stream.                                                       *)
DropStream(o) ==
  /\ pc[o] \in {"streaming", "ended"}
  /\ chan' = [chan EXCEPT ![o] = <<>>]
  /\ Goto(o, "dropped")
  /\ UNCHANGED <<nucleusVars, nextStreamId, registry, streamId, outcome, last,
                 final, readLoop, closed>>

(* That task removes the sink,                                             *)
CloseStream_Silent(o) ==
  /\ pc[o] = "dropped"
  /\ Deregister(o)
  /\ Goto(o, "done")
  /\ UNCHANGED <<nucleusVars, nextStreamId, streamId, chan, outcome, last,
                 final, readLoop, closed>>

CloseStream(o) ==
  /\ pc[o] = "dropped"
  /\ Deregister(o)
  /\ Goto(o, "terminating")
  /\ UNCHANGED <<nucleusVars, nextStreamId, streamId, chan, outcome, last,
                 final, readLoop, closed>>

(* and writes a TERMINATE_STREAM, ignoring a failure.                      *)
WriteTerminate(o) ==
  /\ pc[o] = "terminating"
  /\ \/ Write([sid |-> streamId[o], kind |-> "terminate"])
     \/ WriteBroken
  /\ Goto(o, "done")
  /\ UNCHANGED <<nextStreamId, registry, streamId, chan, outcome, last, final,
                 readLoop, closed>>

-----------------------------------------------------------------------------
(* The read loop.                                                          *)

(* The next frame read is of one of these kinds.                           *)
Incoming_WithRoom(kinds) ==
  /\ readLoop = "reading"
  /\ toClient # <<>>
  /\ Head(toClient).kind \in kinds
  /\ \A o \in Subscriptions : chan[o] = <<>>

Incoming(kinds) ==
  /\ readLoop = "reading"
  /\ toClient # <<>>
  /\ Head(toClient).kind \in kinds

(* dispatch: the sink registered under the frame's stream id gets it, and  *)
(* stays registered only if it is a subscription and the frame does not    *)
(* end its stream.  A frame for an unknown stream is ignored.              *)
StaysRegistered_DespiteError(o, frame) == o \in Subscriptions /\ ~frame.term
StaysRegistered(o, frame) == o \in Subscriptions /\ ~EndsStream(frame)

Dispatch ==
  /\ Incoming(AllPayloads)
  /\ toClient' = Tail(toClient)
  /\ LET frame == Head(toClient)
         o     == registry[frame.sid]
     IN  /\ registry' = IF StaysRegistered(o, frame) THEN registry
                        ELSE [registry EXCEPT ![frame.sid] = NoOp]
         /\ chan' = IF o # NoOp /\ Receiving(o)
                    THEN [chan EXCEPT ![o] = Append(@, frame)] ELSE chan
  /\ UNCHANGED <<toNucleus, peer, writeShut, stream, sent, nextStreamId, pc,
                 streamId, outcome, last, final, readLoop, closed>>

(* A Ping is answered before the next frame is read: the read loop waits   *)
(* for room in the socket.  A failed write is only logged.                 *)
AnswerPing ==
  /\ Incoming({"ping"})
  /\ \/ /\ WriteSucceeds
        /\ toNucleus' = Append(toNucleus, [sid |-> 0, kind |-> "pingResponse"])
     \/ /\ WriteFails
        /\ UNCHANGED toNucleus
  /\ toClient' = Tail(toClient)
  /\ UNCHANGED <<peer, writeShut, stream, sent, nextStreamId, registry,
                 callVars, readLoop, closed>>

(* A PingResponse, any other message of stream 0, and a frame that does    *)
(* not parse as an RPC message, change nothing.                            *)
Ignore ==
  /\ Incoming({"ignored", "unparsable"})
  /\ toClient' = Tail(toClient)
  /\ UNCHANGED <<toNucleus, peer, writeShut, stream, sent, nextStreamId,
                 registry, callVars, readLoop, closed>>

(* A ProtocolError, an InternalError or bytes the decoder rejects end it,  *)
ReadError ==
  /\ Incoming({"fatal", "undecodable"})
  /\ toClient' = Tail(toClient)
  /\ readLoop' = "failing"
  /\ UNCHANGED <<toNucleus, peer, writeShut, stream, sent, nextStreamId,
                 registry, callVars, closed>>

(* and so does the end of file, once every frame has been read.            *)
ReadEof_Spins ==
  /\ readLoop = "reading"
  /\ toClient = <<>>
  /\ peer = "closed"
  /\ UNCHANGED vars

ReadEof ==
  /\ readLoop = "reading"
  /\ toClient = <<>>
  /\ peer = "closed"
  /\ readLoop' = "failing"
  /\ UNCHANGED <<nucleusVars, nextStreamId, registry, callVars, closed>>

(* fail_all: every sink is drained and sent Err(ConnectionClosed).         *)
FailAll_Clears ==
  /\ readLoop = "failing"
  /\ registry' = [s \in Sid |-> NoOp]
  /\ readLoop' = "signalling"
  /\ UNCHANGED <<nucleusVars, nextStreamId, callVars, closed>>

FailAll ==
  /\ readLoop = "failing"
  /\ chan' = [o \in Op |-> IF Registered(o) /\ Receiving(o)
                           THEN Append(chan[o], Lost) ELSE chan[o]]
  /\ registry' = [s \in Sid |-> NoOp]
  /\ readLoop' = "signalling"
  /\ UNCHANGED <<nucleusVars, nextStreamId, pc, streamId, outcome, last, final,
                 closed>>

(* closed.send(true), and the task ends.                                   *)
SignalClosed ==
  /\ readLoop = "signalling"
  /\ closed' = TRUE
  /\ readLoop' = "exited"
  /\ UNCHANGED <<nucleusVars, nextStreamId, registry, callVars>>

-----------------------------------------------------------------------------
(* What a call does by itself once begun, as opposed to what its caller    *)
(* decides: to begin, cancel, poll the EventStream or drop it.             *)
CallStep(o) ==
  \/ WriteActivate(o) \/ ActivateFails(o) \/ Unwind(o)
  \/ Reply(o) \/ Expire(o) \/ GiveUp(o)
  \/ Acknowledged(o) \/ Refused(o)
  \/ CloseStream(o) \/ WriteTerminate(o)

CallerStep(o) ==
  Begin(o) \/ EncodeFails(o) \/ Cancel(o) \/ NextEvent(o) \/ EndOfStream(o)
    \/ DropStream(o)

ReadLoopStep ==
  Dispatch \/ AnswerPing \/ Ignore \/ ReadError \/ ReadEof \/ FailAll
    \/ SignalClosed

Environment == NucleusNext /\ UNCHANGED <<nextStreamId, registry, callVars,
                                          readLoop, closed>>

Next ==
  \/ \E o \in Op : CallStep(o) \/ CallerStep(o)
  \/ ReadLoopStep
  \/ Environment

Spec == Init /\ [][Next]_vars

(***************************************************************************)
(* Fairness.  The runtime polls every ready task and its timers elapse.    *)
(* The write half's lock is fair to its waiters, so a writer that finds    *)
(* room again and again writes: strong fairness.  A write that fails       *)
(* although both ends are there may happen and is owed by nobody: a writer *)
(* that is blocked is not to be relieved by it.  The caller owes nothing,  *)
(* in particular not to poll or to drop an EventStream.                    *)
(***************************************************************************)
CallGoesOn(o) == CallStep(o) /\ (Writable => ~writeShut')

ReadLoopGoesOn ==
  ReadLoopStep /\ (Incoming({"ping"}) /\ Writable => toNucleus' # toNucleus)

ClientFairness ==
  /\ \A o \in Op : SF_vars(CallGoesOn(o))
  /\ SF_vars(ReadLoopGoesOn)

ClientSpec == Spec /\ ClientFairness

(* A nucleus that goes on reading what it is sent.                         *)
ReadingSpec == ClientSpec /\ WF_vars(Receive /\ Environment)

(* The socket is over for the nucleus: it has reported a connection-level  *)
(* error, or has read to the end of what the client will ever write.       *)
MustClose == peer = "failing" \/ (writeShut /\ toNucleus = <<>>)

(* One that also closes the socket when it must.                           *)
WellBehavedSpec ==
  ReadingSpec /\ WF_vars(MustClose /\ CloseSocket /\ Environment)

-----------------------------------------------------------------------------
(* Safety.                                                                 *)

(* No call waits for a channel nobody will ever write to: while request or *)
(* subscribe awaits its first message, either its sink is registered or    *)
(* the message is already in the channel.  Every path that takes a sink    *)
(* out of the registry (dispatch, fail_all, the callers themselves) must   *)
(* have left something in its channel.                                     *)
WaiterIsReachable ==
  \A o \in Op : pc[o] = "waiting" => Registered(o) \/ chan[o] # <<>>

(* A sink is under the stream id of its own call, and no call that has     *)
(* returned has one, except one whose future was dropped half-way.         *)
NoStaleSink ==
  \A s \in Sid : registry[s] # NoOp =>
    /\ streamId[registry[s]] = s
    /\ pc[registry[s]] \notin {"idle", "ended", "terminating", "done"}

(* What is in a channel are the frames of that call's own stream, in the   *)
(* order the nucleus sent them, none lost or repeated since the last one   *)
(* the caller has been handed; dispatch routes by stream id alone.         *)
InOrderDelivery ==
  \A o \in Op : \A i \in DOMAIN chan[o] :
    chan[o][i] # Lost => /\ chan[o][i].sid = streamId[o]
                         /\ chan[o][i].n = last[o] + i

(* Nothing follows the item that ends a stream.                            *)
NothingAfterTheEnd ==
  \A o \in Op : /\ final[o] => chan[o] = <<>>
                /\ \A i \in DOMAIN chan[o] :
                     i < Len(chan[o]) => ~EndsStream(chan[o][i])

(* A TERMINATE_STREAM follows the activation of the stream it closes: the  *)
(* nucleus never gets one for a stream it has not been told of.            *)
TerminateAfterActivate ==
  \A i \in DOMAIN toNucleus :
    toNucleus[i].kind = "terminate" =>
      \/ stream[toNucleus[i].sid] # "unknown"
      \/ \E j \in 1 .. i - 1 : toNucleus[j] = [sid |-> toNucleus[i].sid,
                                               kind |-> "subscription"]

(* When the read loop has drained the registry, and before it flips the    *)
(* watch that Client::closed waits for, nobody is left behind who was there*)
(* before it: a call in flight has something to resolve with, and the item *)
(* that ends it is the last one in the channel of a subscription, in flight*)
(* or streaming, unless its caller has been handed that item already.      *)
(* (connection.rs:274: the end of the loop "fails every in-flight          *)
(* operation and flips the `closed` watch".)                               *)
LossReachesEveryone ==
  [][readLoop = "failing" /\ readLoop' # "failing" =>
       /\ ~closed'
       /\ \A o \in Op :
            /\ pc[o] \in {"writing", "waiting"} => chan'[o] # <<>>
            /\ o \in Subscriptions /\ pc[o] \in {"writing", "waiting", "streaming"} =>
                 final[o] \/ (chan'[o] # <<>> /\ EndsStream(chan'[o][Len(chan'[o])]))]_vars

-----------------------------------------------------------------------------
(* Refinement: the connection keeps the promises of IpcCalls.              *)

Phase(o) == CASE pc[o] = "idle"                              -> "idle"
              [] pc[o] \in {"writing", "waiting", "expired"} -> "inflight"
              [] pc[o] = "streaming"                         -> "open"
              [] pc[o] = "ended"                             -> "ended"
              [] OTHER                                       -> "over"

SentTo(o) == IF streamId[o] = 0 THEN 0 ELSE sent[streamId[o]]

Calls == INSTANCE IpcCalls WITH
           phase  <- [o \in Op |-> Phase(o)],
           result <- outcome,
           sent   <- [o \in Op |-> SentTo(o)],
           seen   <- last

(* Every behaviour of the connection is one of IpcCalls.                   *)
ImplementsCalls == Calls!CallsSpec

-----------------------------------------------------------------------------
(* Liveness.                                                               *)

(* An answer on the wire is dispatched, or the read loop ends, whether the *)
(* caller polls its EventStreams or not: events pile up in the unbounded   *)
(* channel of a subscription and never hold the read loop up, nor does a   *)
(* Ping that it answers.  (README.md:28: calls are safe from inside a      *)
(* subscription's event loop.)                                             *)
OnTheWire(o) == \E i \in DOMAIN toClient : toClient[i].sid = streamId[o]

AnswersAreDispatched ==
  \A o \in Requests :
    streamId[o] # 0 /\ OnTheWire(o) ~> ~OnTheWire(o) \/ readLoop # "reading"

(* A request returns, whatever the nucleus answers.                        *)
RequestsReturn ==
  \A o \in Requests : pc[o] = "writing" ~> pc[o] \in {"done", "cancelled"}

(* Client::closed resolves once the nucleus has closed the socket, even    *)
(* with nothing in flight and whatever is still to be read.                *)
LossIsNoticed == peer = "closed" ~> closed

(* A failed write brings the whole connection down, not the one call: the  *)
(* write half is shut down, the nucleus sees the end of file and closes,   *)
(* and the read loop ends in turn.                                         *)
WriteFailureCloses == \A o \in Op : outcome[o] = "io" ~> closed

(* A call that waits when the connection is lost resolves, a subscription  *)
(* too, although it has no timeout: provided that it has registered its    *)
(* sink before fail_all drains the registry.                               *)
InFlightCallsFail ==
  \A o \in Op :
    /\ peer = "closed"
    /\ readLoop \in {"reading", "failing"}
    /\ pc[o] = "waiting"
    ~> pc[o] # "waiting"

(* The nucleus learns that an EventStream was dropped, or the socket is    *)
(* over.                                                                   *)
DroppedStreamsTerminate ==
  \A o \in Subscriptions :
    pc[o] = "dropped" ~> \/ \E s \in Sid : s = streamId[o] /\ stream[s] = "closed"
                         \/ peer # "open" \/ writeShut

=============================================================================
