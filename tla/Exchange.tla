------------------------------ MODULE Exchange -------------------------------
(***************************************************************************)
(* One call of the API among many others of its connection, down to the    *)
(* headers and the payload of each frame: the stream id it draws from a    *)
(* counter that wraps around (connection.rs, alloc_stream_id), what the    *)
(* read loop makes of a frame (RpcMessage::parse, handle_protocol_message, *)
(* dispatch), and the typed result or event the caller is handed           *)
(* (client.rs, decode_payload and decode_event).                           *)
(*                                                                         *)
(* Module Connection has the queues and the tasks between these steps; here*)
(* an item of a channel is polled as soon as it is sent.                   *)
(***************************************************************************)
EXTENDS RpcMessage, Shapes

CONSTANTS
  Ops,           \* the operations called
  MaxCalls,      \* bound on the calls made on the connection
  Frames(_, _)   \* frames that may arrive for an operation with a stream id

ASSUME ExchangeAssumption ==
  /\ MaxCalls \in Nat
  /\ Ops \subseteq DOMAIN Response \cup DOMAIN Event
  /\ \A o \in Ops, i \in I32 : \A f \in Frames(o, i) : f.headers \in Seq(Header)

Subscribes(o) == o \in DOMAIN Event

VARIABLES
  next,        \* Connection.next_stream_id
  calls,       \* how many ids have been drawn, ours included,
  drawn,       \* and which
  op,          \* our operation,
  id,          \* its stream id,
  phase,       \* "idle" (no call), "waiting" or, with an EventStream, "open"
  registered,  \* is the sink under the id in the registry ours?
  heir,        \* may an earlier call still hold the id we have drawn?
  inbound,     \* the frame in the hand of the read loop: at most one
  written,     \* headers of the last frame written for us, or a PingResponse
  result,      \* what was last handed to our caller
  alive        \* does the read loop run?

idVars == <<next, calls, drawn>>
callVars == <<op, id, phase, registered, heir>>
vars == <<idVars, callVars, inbound, written, result, alive>>

Outcome(kind) == [kind |-> kind, model |-> FALSE, message |-> FALSE]
Nothing == Outcome("nothing")

TypeOK ==
  /\ next \in I32 /\ id \in I32 /\ drawn \subseteq I32
  /\ calls \in 0 .. MaxCalls
  /\ op \in Ops
  /\ phase \in {"idle", "waiting", "open"}
  /\ {registered, heir, alive} \subseteq BOOLEAN
  /\ Len(inbound) <= 1
  /\ phase = "waiting" => registered
  /\ result.kind \in {"nothing", "ok", "end", "Payload", "Service", "Timeout",
                      "ConnectionClosed"}

Init ==
  /\ next = 1 /\ calls = 0 /\ drawn = {}
  /\ op \in Ops /\ id = 0 /\ phase = "idle"
  /\ registered = FALSE /\ heir = FALSE
  /\ inbound = <<>> /\ written = Connect /\ result = Nothing
  /\ alive = TRUE

-----------------------------------------------------------------------------
(* What the caller is handed.                                              *)

NoPayload == Scalar("none")
ServiceErrorPayload == Struct([message |-> Optional(Text)])

(* decode_payload and decode_event; the payload of an event has no default.*)
DecodePayload_NoDefault(t, p) == Decodes(t, p)
DecodePayload(t, p) ==
  Decodes(t, IF p = NoPayload THEN Object([f \in {} |-> p]) ELSE p)

DecodeEvent(t, p) == Decodes(t, p)

Decoded(ok) == Outcome(IF ok THEN "ok" ELSE "Payload")

(* service_error_from: does the error carry the model and the message of   *)
(* the frame, or the defaults for them?                                    *)
HasMessage(p) ==
  /\ Decodes(ServiceErrorPayload, p)
  /\ "message" \in DOMAIN p.members
  /\ p.members["message"].kind # "null"

ServiceError_Strict(m, p) ==
  IF Decodes(ServiceErrorPayload, p)
  THEN [kind |-> "Service", model |-> m.named, message |-> HasMessage(p)]
  ELSE Outcome("Payload")
ServiceError(m, p) ==
  [kind |-> "Service", model |-> m.named, message |-> HasMessage(p)]

-----------------------------------------------------------------------------
(* Stream ids.  fetch_add wraps around.                                    *)
NextId_Unbounded(n) == n + 1
NextId_Positive(n) == IF n = Half - 1 THEN 1 ELSE n + 1
NextId(n) == IF n = Half - 1 THEN -Half ELSE n + 1

Draw ==
  /\ alive /\ calls < MaxCalls
  /\ calls' = calls + 1
  /\ drawn' = drawn \cup {next}
  /\ next' = NextId(next)

(* request and subscribe, up to the write of the activation.               *)
Begin(o) ==
  /\ phase = "idle" /\ Draw
  /\ op' = o /\ id' = next /\ phase' = "waiting"
  /\ registered' = TRUE
  /\ heir' = (next \in drawn)
  /\ written' = Activate(next)
  /\ result' = Nothing
  /\ UNCHANGED <<inbound, alive>>

(* Our sink is dropped with its sender: a call that waits has lost the     *)
(* connection as far as it can tell, and an EventStream has ended.         *)
Displaced ==
  /\ registered' = FALSE
  /\ IF phase = "waiting"
     THEN phase' = "idle" /\ result' = Outcome("ConnectionClosed")
     ELSE phase' = phase /\ result' = Nothing
  /\ UNCHANGED <<op, id, heir>>

(* Another call draws an id; if it is ours, its sink replaces ours.        *)
OtherCall ==
  /\ Draw
  /\ IF registered /\ next = id THEN Displaced
     ELSE UNCHANGED callVars /\ result' = Nothing
  /\ UNCHANGED <<inbound, written, alive>>

(* A subscription that had our id before us finds its channel closed, or   *)
(* its EventStream is dropped: it removes whatever is under the id.        *)
OtherRemoves ==
  /\ heir /\ registered /\ Displaced
  /\ UNCHANGED <<idVars, inbound, written, alive>>

(* Only a request has a timeout.                                           *)
Expire ==
  /\ phase = "waiting" /\ ~Subscribes(op)
  /\ phase' = "idle" /\ registered' = FALSE
  /\ result' = Outcome("Timeout")
  /\ UNCHANGED <<idVars, op, id, heir, inbound, written, alive>>

EndOfStream ==
  /\ phase = "open" /\ ~registered
  /\ result' = Outcome("end")
  /\ UNCHANGED <<idVars, callVars, inbound, written, alive>>

(* The drop of an EventStream, with its close_stream.                      *)
DropStream ==
  /\ phase = "open"
  /\ phase' = "idle" /\ registered' = FALSE
  /\ written' = Terminate(id)
  /\ result' = Nothing
  /\ UNCHANGED <<idVars, op, id, heir, inbound, alive>>

-----------------------------------------------------------------------------
(* The read loop.                                                          *)

(* The nucleus sends a frame while the call is under way.                  *)
Arrive(f) ==
  /\ alive /\ inbound = <<>>
  /\ inbound' = <<f>>
  /\ result' = Nothing
  /\ UNCHANGED <<idVars, callVars, written, alive>>

(* The frame in hand is done with.                                         *)
Headers == inbound[1].headers
Payload == inbound[1].payload
Message == Parse(Headers)

Handle ==
  /\ inbound # <<>>
  /\ inbound' = <<>>
  /\ UNCHANGED <<idVars, op, id, heir>>

(* A frame that does not parse is logged.                                  *)
SkipMalformed ==
  /\ Handle /\ ~Parses(Headers)
  /\ UNCHANGED <<phase, registered, written, result, alive>>

ProtocolMessage(types) ==
  Handle /\ Parses(Headers) /\ Message.stream = 0 /\ Message.type \in types

AnswerPing ==
  /\ ProtocolMessage({"Ping"})
  /\ written' = PingResponse
  /\ UNCHANGED <<phase, registered, result, alive>>

IgnoreProtocol ==
  /\ ProtocolMessage(Range(MessageType) \ {"Ping", "ProtocolError", "InternalError"})
  /\ UNCHANGED <<phase, registered, written, result, alive>>

(* A connection-level error ends the loop, and fail_all our call.          *)
BreakConnection ==
  /\ ProtocolMessage({"ProtocolError", "InternalError"})
  /\ alive' = FALSE
  /\ registered' = FALSE
  /\ phase' = IF phase = "open" THEN "open" ELSE "idle"
  /\ result' = IF registered THEN Outcome("ConnectionClosed") ELSE Nothing
  /\ UNCHANGED written

(* dispatch                                                                *)
OperationMessage ==
  Handle /\ Parses(Headers) /\ Message.stream # 0 /\ UNCHANGED <<written, alive>>

DispatchUnknown ==
  /\ OperationMessage
  /\ ~(registered /\ Message.stream = id)
  /\ UNCHANGED <<phase, registered, result>>

OwnMessage == OperationMessage /\ registered /\ Message.stream = id

DispatchError ==
  /\ OwnMessage /\ Message.type = "ApplicationError"
  /\ registered' = FALSE
  /\ phase' = IF phase = "open" THEN "open" ELSE "idle"
  /\ result' = ServiceError(Message, Payload)

(* Any other message is a success.                                         *)
Succeeds == OwnMessage /\ Message.type # "ApplicationError"

DispatchResponse ==
  /\ Succeeds /\ ~Subscribes(op)
  /\ registered' = FALSE /\ phase' = "idle"
  /\ result' = Decoded(DecodePayload(Response[op], Payload))

(* The acknowledgement of a subscription is not decoded.                   *)
DispatchEvent ==
  /\ Succeeds /\ Subscribes(op)
  /\ registered' = ~TerminatesStream(Message)
  /\ phase' = "open"
  /\ result' = Decoded(phase = "waiting" \/ DecodeEvent(Event[op], Payload))

ReadLoop ==
  \/ SkipMalformed
  \/ AnswerPing
  \/ IgnoreProtocol
  \/ BreakConnection
  \/ DispatchUnknown
  \/ DispatchError
  \/ DispatchResponse
  \/ DispatchEvent

Next ==
  \/ \E o \in Ops : Begin(o)
  \/ OtherCall
  \/ OtherRemoves
  \/ Expire
  \/ EndOfStream
  \/ DropStream
  \/ phase # "idle" /\ \E f \in Frames(op, id) : Arrive(f)
  \/ ReadLoop

Spec == Init /\ [][Next]_vars

-----------------------------------------------------------------------------
(* A live connection tells a caller that it is closed only once the i32 of *)
(* the stream ids has come full circle: before, no call takes the id, or   *)
(* removes the sink, of another (alloc_stream_id, the inserts and removes  *)
(* of request, subscribe and close_stream).                                *)
ClosedMeansLost ==
  (result.kind = "ConnectionClosed" /\ alive) => calls > 2 * Half

(* What RpcMessage builds RpcMessage::parse takes for what was meant: an   *)
(* activation or the end of the stream of our own call, and the end only   *)
(* when the caller has dropped it; anything else on stream 0.              *)
BuildersParse ==
  /\ Parses(written)
  /\ LET m == Parse(written) IN
       /\ IF m.type = "ApplicationMessage"
          THEN m.stream = id /\ (TerminatesStream(m) <=> ~m.named)
          ELSE m.type \in {"Connect", "PingResponse"} /\ m.stream = 0
       /\ phase # "idle" => ~TerminatesStream(m)

(* The integers a header may carry, as the wire has them.                  *)
Exact(h, n) == h.kind # "String" /\ h.n = n

(* No frame with an integer header that is no i32, anywhere among its      *)
(* headers, has any effect; and one that has, is addressed, by the last of *)
(* its stream ids, to our stream or to the connection (parse, header_i32,  *)
(* the branches of read_loop and dispatch).                                *)
OnlyOwnFrames ==
  [][Handle /\ <<phase, registered, alive, result>>' # <<phase, registered, alive, result>>
     => /\ \A i \in DOMAIN Headers :
             Headers[i].name \in IntHeaders => \E n \in I32 : Exact(Headers[i], n)
        /\ \/ /\ Places(Headers, StreamHeader) = {}
              /\ ~alive'
           \/ \E i \in Places(Headers, StreamHeader) :
                /\ \A j \in Places(Headers, StreamHeader) : j <= i
                /\ IF alive' THEN Exact(Headers[i], id) ELSE Exact(Headers[i], 0)]_vars

(* A response without a payload is never a payload error, and an event     *)
(* without one always is (decode_payload, decode_event).                   *)
EmptyPayload ==
  [][Succeeds /\ Payload = NoPayload =>
       (result'.kind = "ok" <=> (Subscribes(op) => phase = "waiting"))]_vars

(* An ApplicationError is a Service error whatever its payload and its     *)
(* flags, and ends the call or the stream; it has a message of its own if  *)
(* its payload has a text for it (dispatch, service_error_from).           *)
ErrorsAreErrors ==
  [][OwnMessage /\ Message.type = "ApplicationError" =>
       /\ result'.kind = "Service" /\ ~registered'
       /\ Payload.kind = "object" =>
            (result'.message <=> \E f \in DOMAIN Payload.members :
                f = "message" /\ Payload.members[f].kind \in {"text", "base64"})]_vars

(* A member the crate does not know, which a later nucleus may send at any *)
(* depth of a payload, does not change what the caller is handed (the      *)
(* structs of src/model/ take unknown members).                            *)
Known(j) == DOMAIN j.members \ {"unknown"}

Pruned1(j) ==
  IF j.kind # "object" THEN j ELSE Object([f \in Known(j) |-> j.members[f]])
Pruned2(j) ==
  IF j.kind # "object" THEN j ELSE Object([f \in Known(j) |-> Pruned1(j.members[f])])
Pruned(j) ==
  IF j.kind # "object" THEN j ELSE Object([f \in Known(j) |-> Pruned2(j.members[f])])

MembersMayBeAdded ==
  [][Succeeds /\ Payload.kind = "object" =>
       result' = Decoded(\/ Subscribes(op) /\ phase = "waiting"
                         \/ Subscribes(op) /\ Decodes(Event[op], Pruned(Payload))
                         \/ ~Subscribes(op) /\ Decodes(Response[op], Pruned(Payload)))]_vars

=============================================================================
