----------------------------- MODULE RpcMessage ------------------------------
(***************************************************************************)
(* The messages of EventStream RPC: what RpcMessage::parse makes of the    *)
(* headers of a frame, and the headers of the messages the crate builds    *)
(* (src/eventstream/).  A header is a name and a value of one of the kinds *)
(* of the wire; texts are not told apart, so a string has the value 0.     *)
(***************************************************************************)
EXTENDS Integers, Sequences, FiniteSetsExt, Functions

CONSTANT Half   \* an i32 is in -Half .. Half - 1

(* The message types 0 .. 7 and the flags are i32s.                        *)
ASSUME WidthAssumption == Half \in Nat /\ Half >= 8

I32 == -Half .. Half - 1

MessageType ==
  <<"ApplicationMessage", "ApplicationError", "Ping", "PingResponse",
    "Connect", "ConnectAck", "ProtocolError", "InternalError">>

TypeHeader == ":message-type"
FlagsHeader == ":message-flags"
StreamHeader == ":stream-id"
ModelHeader == "service-model-type"

IntHeaders == {TypeHeader, FlagsHeader, StreamHeader}

(* Only an Int64 can hold more than an i32.                                *)
Header ==
  {h \in [name : STRING, kind : STRING, n : Int] : h.kind # "Int64" => h.n \in I32}

Int32(name, n) == [name |-> name, kind |-> "Int32", n |-> n]
String(name) == [name |-> name, kind |-> "String", n |-> 0]

(* header_i32: every signed width is taken, and an Int64 if it fits.       *)
HeaderI32_Truncated(h) ==
  [ok |-> h.kind \in {"Int32", "Int16", "Byte", "Int64"},
   n |-> ((h.n + Half) % (2 * Half)) - Half]

HeaderI32(h) ==
  [ok |-> \/ h.kind \in {"Int32", "Int16", "Byte"}
          \/ h.kind = "Int64" /\ h.n \in I32,
   n |-> h.n]

(* parse goes through the headers: the last of a name counts, but a bad one*)
(* is an error wherever it is; and it is one to have no type, or a type    *)
(* that does not exist.                                                    *)
Places(hs, name) == {i \in DOMAIN hs : hs[i].name = name}

LastInt(hs, name, default) ==
  IF Places(hs, name) = {} THEN default ELSE HeaderI32(hs[Max(Places(hs, name))]).n

Parses(hs) ==
  /\ \A i \in DOMAIN hs : hs[i].name \in IntHeaders => HeaderI32(hs[i]).ok
  /\ LastInt(hs, TypeHeader, -1) + 1 \in DOMAIN MessageType

Parse(hs) ==
  [type |-> MessageType[LastInt(hs, TypeHeader, -1) + 1],
   flags |-> LastInt(hs, FlagsHeader, 0),
   stream |-> LastInt(hs, StreamHeader, 0),
   named |-> \E i \in Places(hs, ModelHeader) : hs[i].kind = "String"]

(* The flags are bits of an i32 in two's complement.                       *)
TerminatesStream(m) == (m.flags \div 2) % 2 = 1

(* What the crate builds.                                                  *)
Connect ==
  <<Int32(TypeHeader, 4), Int32(FlagsHeader, 0), Int32(StreamHeader, 0),
    String(":version"), String(":content-type")>>

Activate(id) ==
  <<Int32(TypeHeader, 0), Int32(FlagsHeader, 0), Int32(StreamHeader, id),
    String(":content-type"), String("operation"), String(ModelHeader)>>

Terminate_NoFlag(id) ==
  <<Int32(TypeHeader, 0), Int32(FlagsHeader, 0), Int32(StreamHeader, id)>>

Terminate(id) ==
  <<Int32(TypeHeader, 0), Int32(FlagsHeader, 2), Int32(StreamHeader, id)>>

PingResponse ==
  <<Int32(TypeHeader, 3), Int32(FlagsHeader, 0), Int32(StreamHeader, 0)>>

=============================================================================
