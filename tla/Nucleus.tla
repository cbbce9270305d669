------------------------------- MODULE Nucleus -------------------------------
(***************************************************************************)
(* The environment of the client: the Unix domain socket to the Greengrass *)
(* nucleus and the nucleus itself.  Neither is code of this repository;    *)
(* both are modelled from how src/connection.rs uses them and from what    *)
(* the mock nucleus of the integration tests does.                         *)
(*                                                                         *)
(* The socket is one FIFO of whole frames in each direction.  A full FIFO  *)
(* blocks its writer, as a full socket buffer does.                        *)
(***************************************************************************)
EXTENDS Integers, Sequences

CONSTANTS
  MaxId,       \* largest stream id in use; stream ids are 1 .. MaxId
  MaxFrames,   \* bound on the frames the nucleus sends on one subscription
  WireCap,     \* frames a direction of the socket holds before it blocks
  Payloads,    \* what a frame on an operation stream may carry
  Signals      \* what the nucleus may say on stream 0

Sid == 1 .. MaxId

AllPayloads == {"message", "garbled", "error"}
AllSignals  == {"ping", "ignored", "unparsable", "undecodable", "fatal"}

ASSUME NucleusAssumption ==
  /\ MaxId \in Nat
  /\ MaxFrames \in Nat
  /\ WireCap \in Nat \ {0}
  /\ Payloads \subseteq AllPayloads
  /\ Signals \subseteq AllSignals

VARIABLES
  toNucleus,   \* frames written by the client and not yet read
  toClient,    \* frames written by the nucleus and not yet read
  peer,        \* the nucleus' end of the socket: open, failing or closed
  writeShut,   \* has the client shut its write half down?
  stream,      \* what the nucleus knows of each stream id
  sent         \* how many frames it has sent on each stream

nucleusVars == <<toNucleus, toClient, peer, writeShut, stream, sent>>

(***************************************************************************)
(* A frame to the client.  n is its rank among the frames of its stream;   *)
(* it stands for the content, so that loss, duplication and reordering can *)
(* be told.  "garbled" is an application message whose JSON does not       *)
(* decode to the expected type.                                            *)
(***************************************************************************)
Frame == [sid : Sid, kind : AllPayloads, term : BOOLEAN, n : Nat \ {0}]
           \cup [sid : {0}, kind : AllSignals, term : {FALSE}, n : {0}]

(* A frame to the nucleus: an activation of a stream by either kind of     *)
(* operation, a TERMINATE_STREAM, or the answer to a ping.                 *)
ClientFrame == [sid : Sid, kind : {"request", "subscription", "terminate"}]
                 \cup [sid : {0}, kind : {"pingResponse"}]

StreamState == {"unknown", "request", "subscription", "closed"}

NucleusTypeOK ==
  /\ toNucleus \in Seq(ClientFrame)
  /\ toClient \in Seq(Frame)
  /\ peer \in {"open", "failing", "closed"}
  /\ writeShut \in BOOLEAN
  /\ stream \in [Sid -> StreamState]
  /\ sent \in [Sid -> Nat]

NucleusInit ==
  /\ toNucleus = <<>>
  /\ toClient = <<>>
  /\ peer = "open"
  /\ writeShut = FALSE
  /\ stream = [s \in Sid |-> "unknown"]
  /\ sent = [s \in Sid |-> 0]

-----------------------------------------------------------------------------
(* The nucleus reads a frame: an activation opens its stream, a            *)
(* termination closes it.                                                  *)
Receive ==
  /\ peer = "open"
  /\ toNucleus # <<>>
  /\ toNucleus' = Tail(toNucleus)
  /\ LET f == Head(toNucleus) IN
       stream' = IF f.sid = 0 THEN stream
                 ELSE [stream EXCEPT ![f.sid] =
                         IF f.kind = "terminate" THEN "closed" ELSE f.kind]
  /\ UNCHANGED <<toClient, peer, writeShut, sent>>

(* How many frames the nucleus may send on a stream: a request has one     *)
(* response, a subscription an acknowledgement and then events.            *)
Quota(s) == CASE stream[s] = "request"      -> 1
              [] stream[s] = "subscription" -> MaxFrames
              [] OTHER                      -> 0

(* The nucleus answers on an open stream, or sends an event; t is the      *)
(* TERMINATE_STREAM flag, after which it sends nothing more there.         *)
Send(s, k, t) ==
  /\ peer = "open"
  /\ Len(toClient) < WireCap
  /\ sent[s] < Quota(s)
  /\ toClient' = Append(toClient,
                        [sid |-> s, kind |-> k, term |-> t, n |-> sent[s] + 1])
  /\ sent' = [sent EXCEPT ![s] = @ + 1]
  /\ stream' = IF t THEN [stream EXCEPT ![s] = "closed"] ELSE stream
  /\ UNCHANGED <<toNucleus, peer, writeShut>>

(* A frame on stream 0, or one the client cannot make sense of.  After a   *)
(* ProtocolError or an InternalError the nucleus only closes the socket.   *)
Signal(k) ==
  /\ peer = "open"
  /\ Len(toClient) < WireCap
  /\ toClient' = Append(toClient,
                        [sid |-> 0, kind |-> k, term |-> FALSE, n |-> 0])
  /\ peer' = IF k = "fatal" THEN "failing" ELSE peer
  /\ UNCHANGED <<toNucleus, writeShut, stream, sent>>

(* The nucleus closes the socket or dies, at any moment.  What it has not  *)
(* read is lost; what it has written can still be read by the client.      *)
CloseSocket ==
  /\ peer # "closed"
  /\ peer' = "closed"
  /\ toNucleus' = <<>>
  /\ UNCHANGED <<toClient, writeShut, stream, sent>>

NucleusNext ==
  \/ Receive
  \/ \E s \in Sid, k \in Payloads, t \in BOOLEAN : Send(s, k, t)
  \/ \E k \in Signals : Signal(k)
  \/ CloseSocket

=============================================================================
