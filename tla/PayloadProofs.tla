---------------------------- MODULE PayloadProofs ----------------------------
(***************************************************************************)
(* Theorems about what the caller of an operation is handed for a payload, *)
(* whatever the payload, and about what the crate writes.                  *)
(***************************************************************************)
EXTENDS ExchangeProofs

(***************************************************************************)
(* Decodes unfolds a value level by level; read from the top it is a       *)
(* recursion, three structs deep.                                          *)
(***************************************************************************)
Takes1(t, j) ==
  IF IsStruct(t, j) THEN \A f \in Present(t, j) : Takes(t.fields[f].of, j.members[f])
  ELSE Takes(t, j)
Takes2(t, j) ==
  IF IsStruct(t, j) THEN \A f \in Present(t, j) : Takes1(t.fields[f].of, j.members[f])
  ELSE Takes(t, j)
Takes3(t, j) ==
  IF IsStruct(t, j) THEN \A f \in Present(t, j) : Takes2(t.fields[f].of, j.members[f])
  ELSE Takes(t, j)

(* What a pair comes down to in one step.                                  *)
Within(p) ==
  IF IsStruct(p[1], p[2])
  THEN {<<p[1].fields[f].of, p[2].members[f]>> : f \in Present(p[1], p[2])}
  ELSE {p}

LEMMA InnerWithin ==
  ASSUME NEW pairs, NEW q
  PROVE  q \in Inner(pairs) <=> \E p \in pairs : q \in Within(p)
BY DEF Inner, Within

LEMMA WithinStruct ==
  ASSUME NEW p, IsStruct(p[1], p[2])
  PROVE  /\ \A f \in Present(p[1], p[2]) : \E q \in Within(p) :
              q[1] = p[1].fields[f].of /\ q[2] = p[2].members[f]
         /\ \A q \in Within(p) : \E f \in Present(p[1], p[2]) :
              q[1] = p[1].fields[f].of /\ q[2] = p[2].members[f]
<1>1. Within(p) = {<<p[1].fields[f].of, p[2].members[f]>> : f \in Present(p[1], p[2])}
  BY DEF Within
<1>2. ASSUME NEW f \in Present(p[1], p[2])
      PROVE  \E q \in Within(p) : q[1] = p[1].fields[f].of /\ q[2] = p[2].members[f]
  <2> DEFINE q == <<p[1].fields[f].of, p[2].members[f]>>
  <2>1. q \in Within(p) /\ q[1] = p[1].fields[f].of /\ q[2] = p[2].members[f]
    BY <1>1
  <2> QED
    BY <2>1
<1> QED
  BY <1>1, <1>2

LEMMA Unfold1 ==
  ASSUME NEW pairs
  PROVE  (\A q \in Inner(pairs) : Takes(q[1], q[2])) <=> \A p \in pairs : Takes1(p[1], p[2])
<1>1. ASSUME NEW p \in pairs
      PROVE  Takes1(p[1], p[2]) <=> \A q \in Within(p) : Takes(q[1], q[2])
  <2>1. CASE IsStruct(p[1], p[2])
    BY <2>1, WithinStruct DEF Takes1
  <2>2. CASE ~IsStruct(p[1], p[2])
    BY <2>2 DEF Within, Takes1
  <2> QED
    BY <2>1, <2>2
<1> QED
  BY <1>1, InnerWithin

LEMMA Unfold2 ==
  ASSUME NEW pairs
  PROVE  (\A q \in Inner(pairs) : Takes1(q[1], q[2])) <=> \A p \in pairs : Takes2(p[1], p[2])
<1>1. ASSUME NEW p \in pairs
      PROVE  Takes2(p[1], p[2]) <=> \A q \in Within(p) : Takes1(q[1], q[2])
  <2>1. CASE IsStruct(p[1], p[2])
    BY <2>1, WithinStruct DEF Takes2
  <2>2. CASE ~IsStruct(p[1], p[2])
    BY <2>2 DEF Within, Takes2, Takes1
  <2> QED
    BY <2>1, <2>2
<1> QED
  BY <1>1, InnerWithin

LEMMA Unfold3 ==
  ASSUME NEW pairs
  PROVE  (\A q \in Inner(pairs) : Takes2(q[1], q[2])) <=> \A p \in pairs : Takes3(p[1], p[2])
<1>1. ASSUME NEW p \in pairs
      PROVE  Takes3(p[1], p[2]) <=> \A q \in Within(p) : Takes2(q[1], q[2])
  <2>1. CASE IsStruct(p[1], p[2])
    BY <2>1, WithinStruct DEF Takes3
  <2>2. CASE ~IsStruct(p[1], p[2])
    BY <2>2 DEF Within, Takes3, Takes2
  <2> QED
    BY <2>1, <2>2
<1> QED
  BY <1>1, InnerWithin

LEMMA DecodesFromTheTop ==
  ASSUME NEW t, NEW j
  PROVE  Decodes(t, j) <=> Takes3(t, j)
<1> DEFINE whole == {<<t, j>>}
<1>1. Decodes(t, j) <=> \A p \in Inner(Inner(whole)) : Takes1(p[1], p[2])
  BY Unfold1 DEF Decodes
<1>2. (\A p \in Inner(Inner(whole)) : Takes1(p[1], p[2])) <=>
        \A p \in Inner(whole) : Takes2(p[1], p[2])
  BY Unfold2
<1>3. (\A p \in Inner(whole) : Takes2(p[1], p[2])) <=>
        \A p \in whole : Takes3(p[1], p[2])
  BY Unfold3
<1> QED
  BY <1>1, <1>2, <1>3

-----------------------------------------------------------------------------
(***************************************************************************)
(* Members that no shape knows.                                            *)
(***************************************************************************)

(* No struct in t has a field of that name, at the top or below.           *)
Plain1(t) == t.type = "Struct" => "unknown" \notin DOMAIN t.fields
Plain2(t) == Plain1(t) /\ (t.type = "Struct" => \A f \in DOMAIN t.fields : Plain1(t.fields[f].of))
Plain3(t) == Plain1(t) /\ (t.type = "Struct" => \A f \in DOMAIN t.fields : Plain2(t.fields[f].of))

(* Two values are alike at the top if they differ in unknown members only, *)
(* and in what is inside of the others.                                    *)
Alike(j, k) ==
  /\ k.kind = j.kind
  /\ j.kind = "object" =>
       /\ DOMAIN k.members = DOMAIN j.members \ {"unknown"}
       /\ \A f \in DOMAIN k.members : k.members[f].kind = j.members[f].kind

LEMMA AlikeStructs ==
  ASSUME NEW t, NEW j, NEW k, Plain1(t), Alike(j, k)
  PROVE  /\ IsStruct(t, k) <=> IsStruct(t, j)
         /\ Takes(t, k) <=> Takes(t, j)
         /\ IsStruct(t, j) => Present(t, k) = Present(t, j)
<1>1. IsStruct(t, k) <=> IsStruct(t, j)
  BY DEF Plain1, Alike, IsStruct
<1>2. Takes(t, k) <=> Takes(t, j)
  BY DEF Alike, Takes
<1>3. ASSUME IsStruct(t, j) PROVE Present(t, k) = Present(t, j)
  BY <1>3 DEF Plain1, Alike, IsStruct, Present
<1> QED
  BY <1>1, <1>2, <1>3

LEMMA PrunedAlike ==
  ASSUME NEW j
  PROVE  /\ Alike(j, Pruned1(j)) /\ Alike(j, Pruned2(j)) /\ Alike(j, Pruned(j))
         /\ j.kind = "object" => \A f \in DOMAIN j.members \ {"unknown"} :
              /\ Pruned1(j).members[f] = j.members[f]
              /\ Pruned2(j).members[f] = Pruned1(j.members[f])
              /\ Pruned(j).members[f] = Pruned2(j.members[f])
<1>1. ASSUME NEW i PROVE Pruned1(i).kind = i.kind /\ Pruned2(i).kind = i.kind
  BY DEF Pruned1, Pruned2, Object
<1>2. CASE j.kind # "object"
  BY <1>2 DEF Pruned1, Pruned2, Pruned, Alike
<1>3. CASE j.kind = "object"
  BY <1>1, <1>3 DEF Pruned1, Pruned2, Pruned, Alike, Object, Known
<1> QED
  BY <1>2, <1>3

LEMMA Pruning1 ==
  ASSUME NEW t, NEW j, Plain1(t)
  PROVE  Takes1(t, Pruned1(j)) <=> Takes1(t, j)
BY PrunedAlike, AlikeStructs DEF Takes1, Present, IsStruct, Plain1

LEMMA Pruning2 ==
  ASSUME NEW t, NEW j, Plain2(t)
  PROVE  Takes2(t, Pruned2(j)) <=> Takes2(t, j)
BY PrunedAlike, AlikeStructs, Pruning1 DEF Takes2, Present, IsStruct, Plain1, Plain2

LEMMA Pruning ==
  ASSUME NEW t, NEW j, Plain3(t)
  PROVE  Decodes(t, Pruned(j)) <=> Decodes(t, j)
<1>1. Takes3(t, Pruned(j)) <=> Takes3(t, j)
  BY PrunedAlike, AlikeStructs, Pruning2 DEF Takes3, Present, IsStruct, Plain1, Plain3
<1> QED
  BY <1>1, DecodesFromTheTop

-----------------------------------------------------------------------------
(***************************************************************************)
(* The shapes of src/model/.                                               *)
(***************************************************************************)

(* A response has no required field.                                       *)
LEMMA Responses ==
  ASSUME NEW o \in DOMAIN Response
  PROVE  /\ Response[o].type = "Struct"
         /\ \A f \in DOMAIN Response[o].fields : Response[o].fields[f].need = "optional"
         /\ Plain3(Response[o])
<1>1. Response[o] \in {Empty, RestartComponentResponse, GetConfigurationResponse}
  BY DEF Response
<1>2. CASE Response[o] = Empty
  BY <1>2 DEF Empty, Struct, Plain1, Plain2, Plain3
<1>3. CASE Response[o] = RestartComponentResponse
  BY <1>3 DEF RestartComponentResponse, Struct, Optional, Text, Plain1, Plain2, Plain3
<1>4. CASE Response[o] = GetConfigurationResponse
  BY <1>4 DEF GetConfigurationResponse, Struct, Optional, Text, Value, Plain1, Plain2, Plain3
<1> QED
  BY <1>1, <1>2, <1>3, <1>4

LEMMA Events ==
  ASSUME NEW o \in DOMAIN Event
  PROVE  Event[o].type = "Struct" /\ Plain3(Event[o])
<1> USE DEF Struct, Required, Optional, Defaulted
<1>1. Event[o] \in {ComponentUpdatePolicyEvents, ConfigurationUpdateEvents,
                    SubscriptionResponseMessage, IoTCoreMessage}
  BY DEF Event
<1>2. Plain3(ComponentUpdatePolicyEvents)
  <2>1. Plain2(PreComponentUpdateEvent) /\ Plain2(PostComponentUpdateEvent)
    BY DEF PreComponentUpdateEvent, PostComponentUpdateEvent, Text, Bool, Plain1, Plain2
  <2> QED
    BY <2>1 DEF ComponentUpdatePolicyEvents, Plain1, Plain3
<1>3. Plain3(ConfigurationUpdateEvents)
  <2>1. Plain2(ConfigurationUpdateEvent)
    BY DEF ConfigurationUpdateEvent, Text, Texts, Plain1, Plain2
  <2> QED
    BY <2>1 DEF ConfigurationUpdateEvents, Plain1, Plain3
<1>4. Plain3(SubscriptionResponseMessage)
  <2>1. Plain1(MessageContext) /\ Plain1(Value) /\ Plain1(Blob)
    BY DEF MessageContext, Value, Blob, Text, Plain1
  <2>2. Plain2(JsonMessage) /\ Plain2(BinaryMessageIn)
    BY <2>1 DEF JsonMessage, BinaryMessageIn, Plain1, Plain2
  <2> QED
    BY <2>2 DEF SubscriptionResponseMessage, Plain1, Plain3
<1>5. Plain3(IoTCoreMessage)
  <2>1. Plain2(MqttMessage)
    BY DEF MqttMessage, Text, Blob, Plain1, Plain2
  <2> QED
    BY <2>1 DEF IoTCoreMessage, Plain1, Plain3
<1>6. Event[o].type = "Struct"
  BY <1>1 DEF ComponentUpdatePolicyEvents, ConfigurationUpdateEvents,
     SubscriptionResponseMessage, IoTCoreMessage
<1> QED
  BY <1>1, <1>2, <1>3, <1>4, <1>5, <1>6

-----------------------------------------------------------------------------
(***************************************************************************)
(* The outcomes of the read loop's steps.                                  *)
(***************************************************************************)

LEMMA OwnStep ==
  ASSUME [Next]_vars, OwnMessage
  PROVE  IF Message.type = "ApplicationError" THEN DispatchError
         ELSE IF Subscribes(op) THEN DispatchEvent ELSE DispatchResponse
<1> USE DEF OwnMessage, OperationMessage, Handle
<1>1. inbound # <<>> /\ inbound' = <<>> /\ Parses(Headers) /\ Message.stream # 0
      /\ registered /\ Message.stream = id
  OBVIOUS
<1>2. ReadLoop
  BY <1>1 DEF Next, vars, Begin, OtherCall, OtherRemoves, Expire, EndOfStream, DropStream, Arrive
<1>3. DispatchError \/ DispatchResponse \/ DispatchEvent
  BY <1>1, <1>2
  DEF ReadLoop, SkipMalformed, AnswerPing, IgnoreProtocol, BreakConnection, ProtocolMessage,
      DispatchUnknown
<1> QED
  BY <1>3 DEF DispatchError, DispatchResponse, DispatchEvent, Succeeds

(* What is handed over for a message that is no error.                     *)
LEMMA SuccessStep ==
  ASSUME [Next]_vars, Succeeds, op \in Ops
  PROVE  /\ Subscribes(op) =>
              /\ op \in DOMAIN Event
              /\ result' = Decoded(phase = "waiting" \/ DecodeEvent(Event[op], Payload))
         /\ ~Subscribes(op) =>
              /\ op \in DOMAIN Response
              /\ result' = Decoded(DecodePayload(Response[op], Payload))
<1>1. OwnMessage /\ Message.type # "ApplicationError"
  BY DEF Succeeds
<1>2. CASE Subscribes(op)
  BY <1>1, <1>2, OwnStep DEF DispatchEvent, Subscribes
<1>3. CASE ~Subscribes(op)
  BY <1>1, <1>3, OwnStep, ExchangeAssumption DEF DispatchResponse, Subscribes
<1> QED
  BY <1>2, <1>3

(* A response without a payload decodes, and an event without one does not.*)
LEMMA NothingDecodes ==
  /\ \A o \in DOMAIN Response : DecodePayload(Response[o], NoPayload)
  /\ \A o \in DOMAIN Event : ~DecodeEvent(Event[o], NoPayload)
<1>1. ASSUME NEW o \in DOMAIN Response PROVE DecodePayload(Response[o], NoPayload)
  <2> DEFINE t == Response[o]
             nothing == Object([f \in {} |-> NoPayload])
  <2>1. nothing.kind = "object" /\ DOMAIN nothing.members = {}
    BY DEF Object
  <2>2. IsStruct(t, nothing) /\ Present(t, nothing) = {}
    BY <2>1, Responses DEF IsStruct, Present
  <2>3. Takes3(t, nothing)
    BY <2>2 DEF Takes3
  <2> QED
    BY <2>3, DecodesFromTheTop DEF DecodePayload
<1>2. ASSUME NEW o \in DOMAIN Event PROVE ~DecodeEvent(Event[o], NoPayload)
  <2>1. Event[o].type = "Struct" /\ NoPayload.kind = "none"
    BY Events DEF NoPayload, Scalar
  <2>2. ~IsStruct(Event[o], NoPayload) /\ ~Takes(Event[o], NoPayload)
    BY <2>1 DEF IsStruct, Takes
  <2>3. ~Takes3(Event[o], NoPayload)
    BY <2>2 DEF Takes3
  <2> QED
    BY <2>3, DecodesFromTheTop DEF DecodeEvent
<1> QED
  BY <1>1, <1>2

(* A response may come without a payload, and an event may not.            *)
THEOREM ResponsesMayBeEmpty == Spec => EmptyPayload
<1>1. InHandInv /\ [Next]_vars => InHandInv'
  BY InHandStep
<1>2. ASSUME InHandInv, [Next]_vars, Succeeds, Payload = NoPayload
      PROVE  result'.kind = "ok" <=> (Subscribes(op) => phase = "waiting")
  <2>1. op \in Ops
    BY <1>2 DEF InHandInv
  <2>2. CASE Subscribes(op)
    <3>1. op \in DOMAIN Event /\ result' = Decoded(phase = "waiting" \/ DecodeEvent(Event[op], NoPayload))
      BY <1>2, <2>1, <2>2, SuccessStep
    <3>2. ~DecodeEvent(Event[op], NoPayload)
      BY <3>1, NothingDecodes
    <3> QED
      BY <2>2, <3>1, <3>2 DEF Decoded, Outcome
  <2>3. CASE ~Subscribes(op)
    <3>1. op \in DOMAIN Response /\ result' = Decoded(DecodePayload(Response[op], NoPayload))
      BY <1>2, <2>1, <2>3, SuccessStep
    <3>2. DecodePayload(Response[op], NoPayload)
      BY <3>1, NothingDecodes
    <3> QED
      BY <2>3, <3>1, <3>2 DEF Decoded, Outcome
  <2> QED
    BY <2>2, <2>3
<1>3. InHandInv /\ [Next]_vars =>
        [Succeeds /\ Payload = NoPayload =>
           (result'.kind = "ok" <=> (Subscribes(op) => phase = "waiting"))]_vars
  BY <1>2
<1> QED
  BY <1>1, <1>3, InHandInit, PTL DEF Spec, EmptyPayload

(* Unknown members, at any depth of a payload, change nothing.             *)
THEOREM UnknownMembersAreIgnored == Spec => MembersMayBeAdded
<1>1. InHandInv /\ [Next]_vars => InHandInv'
  BY InHandStep
<1>2. ASSUME InHandInv, [Next]_vars, Succeeds, Payload.kind = "object"
      PROVE  result' = Decoded(\/ Subscribes(op) /\ phase = "waiting"
                               \/ Subscribes(op) /\ Decodes(Event[op], Pruned(Payload))
                               \/ ~Subscribes(op) /\ Decodes(Response[op], Pruned(Payload)))
  <2>1. op \in Ops
    BY <1>2 DEF InHandInv
  <2>2. CASE Subscribes(op)
    <3>1. /\ op \in DOMAIN Event
          /\ result' = Decoded(phase = "waiting" \/ DecodeEvent(Event[op], Payload))
      BY <1>2, <2>1, <2>2, SuccessStep
    <3>2. DecodeEvent(Event[op], Payload) <=> Decodes(Event[op], Pruned(Payload))
      BY <3>1, Events, Pruning DEF DecodeEvent
    <3> QED
      BY <2>2, <3>1, <3>2 DEF Decoded, Outcome
  <2>3. CASE ~Subscribes(op)
    <3>1. /\ op \in DOMAIN Response
          /\ result' = Decoded(DecodePayload(Response[op], Payload))
      BY <1>2, <2>1, <2>3, SuccessStep
    <3>2. DecodePayload(Response[op], Payload) <=> Decodes(Response[op], Payload)
      BY <1>2 DEF DecodePayload, NoPayload, Scalar
    <3>3. Decodes(Response[op], Payload) <=> Decodes(Response[op], Pruned(Payload))
      BY <3>1, Responses, Pruning
    <3> QED
      BY <2>3, <3>1, <3>2, <3>3 DEF Decoded, Outcome
  <2> QED
    BY <2>2, <2>3
<1>3. InHandInv /\ [Next]_vars =>
        [Succeeds /\ Payload.kind = "object" =>
       result' = Decoded(\/ Subscribes(op) /\ phase = "waiting"
                         \/ Subscribes(op) /\ Decodes(Event[op], Pruned(Payload))
                         \/ ~Subscribes(op) /\ Decodes(Response[op], Pruned(Payload)))]_vars
  BY <1>2
<1> QED
  BY <1>1, <1>3, InHandInit, PTL DEF Spec, MembersMayBeAdded

(* The message of an error is that of its payload, if it has a text for it.*)
LEMMA ErrorMessage ==
  ASSUME NEW p, p.kind = "object"
  PROVE  HasMessage(p) <=> \E f \in DOMAIN p.members :
                             f = "message" /\ p.members[f].kind \in {"text", "base64"}
<1> DEFINE t == ServiceErrorPayload
<1>1. /\ t.type = "Struct" /\ DOMAIN t.fields = {"message"}
      /\ t.fields["message"].need = "optional" /\ t.fields["message"].of = Text
  BY DEF ServiceErrorPayload, Struct, Optional
<1>2. IsStruct(t, p)
  BY <1>1 DEF IsStruct
<1>3. ASSUME NEW j PROVE Takes2(Text, j) <=> j.kind \in {"text", "base64"}
  BY DEF Takes2, IsStruct, Takes, Text
<1>4. Decodes(t, p) <=> \A f \in Present(t, p) : Takes2(t.fields[f].of, p.members[f])
  BY <1>2, DecodesFromTheTop DEF Takes3
<1>5. CASE "message" \in DOMAIN p.members /\ p.members["message"].kind # "null"
  <2>1. Present(t, p) = {"message"}
    BY <1>1, <1>5 DEF Present
  <2> QED
    BY <1>1, <1>3, <1>4, <1>5, <2>1 DEF HasMessage
<1>6. CASE ~("message" \in DOMAIN p.members /\ p.members["message"].kind # "null")
  BY <1>6 DEF HasMessage
<1> QED
  BY <1>5, <1>6

(* An ApplicationError is an error to the caller, whatever its payload.    *)
THEOREM ErrorsReachTheCaller == Spec => ErrorsAreErrors
<1>1. ASSUME [Next]_vars, OwnMessage, Message.type = "ApplicationError"
      PROVE  /\ result'.kind = "Service" /\ ~registered'
             /\ Payload.kind = "object" =>
                  (result'.message <=> \E f \in DOMAIN Payload.members :
                      f = "message" /\ Payload.members[f].kind \in {"text", "base64"})
  <2>1. result' = ServiceError(Message, Payload) /\ registered' = FALSE
    BY <1>1, OwnStep DEF DispatchError
  <2>2. result'.kind = "Service" /\ (result'.message <=> HasMessage(Payload))
    BY <2>1 DEF ServiceError
  <2> QED
    BY <2>1, <2>2, ErrorMessage
<1>2. [Next]_vars =>
        [OwnMessage /\ Message.type = "ApplicationError" =>
       /\ result'.kind = "Service" /\ ~registered'
       /\ Payload.kind = "object" =>
            (result'.message <=> \E f \in DOMAIN Payload.members :
                f = "message" /\ Payload.members[f].kind \in {"text", "base64"})]_vars
  BY <1>1
<1> QED
  BY <1>2, PTL DEF Spec, ErrorsAreErrors

-----------------------------------------------------------------------------
(***************************************************************************)
(* What the crate writes.  Its messages have the three integers first.     *)
(***************************************************************************)

LEMMA LoneInteger ==
  ASSUME NEW hs, NEW name, NEW i \in Nat, NEW n, NEW default, Places(hs, name) = {i},
         hs[i] = Int32(name, n)
  PROVE  LastInt(hs, name, default) = n
<1>1. Max({i}) = i
  BY DEF Max
<1> QED
  BY <1>1 DEF LastInt, HeaderI32, Int32

Built(hs, len, t, fl, s) ==
  /\ DOMAIN hs = 1 .. len
  /\ hs[1] = Int32(TypeHeader, t) /\ hs[2] = Int32(FlagsHeader, fl)
  /\ hs[3] = Int32(StreamHeader, s)
  /\ \A i \in 4 .. len : hs[i].name \notin IntHeaders

LEMMA BuiltParses ==
  ASSUME NEW hs, NEW len \in Nat, len >= 3, NEW t \in 0 .. 7, NEW fl, NEW s,
         Built(hs, len, t, fl, s), NEW place, place = t + 1
  PROVE  /\ Parses(hs)
         /\ Parse(hs).type = MessageType[place]
         /\ Parse(hs).flags = fl /\ Parse(hs).stream = s
<1> USE DEF Built
<1>1. /\ hs[1].name = TypeHeader /\ hs[2].name = FlagsHeader /\ hs[3].name = StreamHeader
      /\ HeaderI32(hs[1]).ok /\ HeaderI32(hs[2]).ok /\ HeaderI32(hs[3]).ok
  BY DEF Int32, HeaderI32
<1>2. \A i \in 1 .. len : i \in {1, 2, 3} \/ i \in 4 .. len
  OBVIOUS
<1>3. /\ Places(hs, TypeHeader) = {1} /\ Places(hs, FlagsHeader) = {2}
      /\ Places(hs, StreamHeader) = {3}
  BY <1>1, <1>2 DEF Places, IntHeaders, TypeHeader, FlagsHeader, StreamHeader
<1>4. /\ LastInt(hs, TypeHeader, -1) = t /\ LastInt(hs, FlagsHeader, 0) = fl
      /\ LastInt(hs, StreamHeader, 0) = s
  BY <1>3, LoneInteger
<1>5. DOMAIN MessageType = 1 .. 8
  BY DEF MessageType
<1>6. Parses(hs)
  BY <1>1, <1>2, <1>4, <1>5 DEF Parses
<1> QED
  BY <1>4, <1>6 DEF Parse

LEMMA ConnectParses ==
  Parses(Connect) /\ Parse(Connect).type = "Connect" /\ Parse(Connect).flags = 0
  /\ Parse(Connect).stream = 0
<1> DEFINE hs == Connect
<1>1. /\ DOMAIN hs = 1 .. 5 /\ hs[1] = Int32(TypeHeader, 4) /\ hs[2] = Int32(FlagsHeader, 0)
      /\ hs[3] = Int32(StreamHeader, 0)
      /\ hs[4].name = ":version" /\ hs[5].name = ":content-type"
  BY DEF Connect, String
<1>2. \A i \in 4 .. 5 : hs[i].name \notin IntHeaders
  BY <1>1 DEF IntHeaders, TypeHeader, FlagsHeader, StreamHeader
<1> HIDE DEF hs
<1>3. Parses(hs) /\ Parse(hs).type = MessageType[5] /\ Parse(hs).flags = 0 /\ Parse(hs).stream = 0
  <2>1. Built(hs, 5, 4, 0, 0)
    BY <1>1, <1>2 DEF Built
  <2>2. 5 \in Nat /\ 5 >= 3 /\ 4 \in 0 .. 7 /\ 5 = 4 + 1
    OBVIOUS
  <2> QED
    BY <2>1, <2>2, BuiltParses
<1> QED
  BY <1>3 DEF hs, MessageType

LEMMA PingResponseParses ==
  Parses(PingResponse) /\ Parse(PingResponse).type = "PingResponse"
  /\ Parse(PingResponse).flags = 0 /\ Parse(PingResponse).stream = 0
<1> DEFINE hs == PingResponse
<1>1. /\ DOMAIN hs = 1 .. 3 /\ hs[1] = Int32(TypeHeader, 3) /\ hs[2] = Int32(FlagsHeader, 0)
      /\ hs[3] = Int32(StreamHeader, 0)
  BY DEF PingResponse
<1> HIDE DEF hs
<1>2. Parses(hs) /\ Parse(hs).type = MessageType[4] /\ Parse(hs).flags = 0 /\ Parse(hs).stream = 0
  <2>1. Built(hs, 3, 3, 0, 0)
    BY <1>1 DEF Built
  <2>2. 3 \in Nat /\ 3 >= 3 /\ 3 \in 0 .. 7 /\ 4 = 3 + 1
    OBVIOUS
  <2> QED
    BY <2>1, <2>2, BuiltParses
<1> QED
  BY <1>2 DEF hs, MessageType

LEMMA ActivateParses ==
  ASSUME NEW i
  PROVE  /\ Parses(Activate(i)) /\ Parse(Activate(i)).type = "ApplicationMessage"
         /\ Parse(Activate(i)).flags = 0 /\ Parse(Activate(i)).stream = i
         /\ Parse(Activate(i)).named
<1> DEFINE hs == Activate(i)
<1>1. /\ DOMAIN hs = 1 .. 6 /\ hs[1] = Int32(TypeHeader, 0) /\ hs[2] = Int32(FlagsHeader, 0)
      /\ hs[3] = Int32(StreamHeader, i) /\ hs[4].name = ":content-type"
      /\ hs[5].name = "operation" /\ hs[6].name = ModelHeader /\ hs[6].kind = "String"
  BY DEF Activate, String
<1>2. \A k \in 4 .. 6 : hs[k].name \notin IntHeaders
  BY <1>1 DEF IntHeaders, TypeHeader, FlagsHeader, StreamHeader, ModelHeader
<1> HIDE DEF hs
<1>3. Parses(hs) /\ Parse(hs).type = MessageType[1] /\ Parse(hs).flags = 0 /\ Parse(hs).stream = i
  <2>1. Built(hs, 6, 0, 0, i)
    BY <1>1, <1>2 DEF Built
  <2>2. 6 \in Nat /\ 6 >= 3 /\ 0 \in 0 .. 7 /\ 1 = 0 + 1
    OBVIOUS
  <2> QED
    BY <2>1, <2>2, BuiltParses
<1>4. Parse(hs).named
  BY <1>1 DEF Parse, Places
<1> QED
  BY <1>3, <1>4 DEF hs, MessageType

LEMMA TerminateParses ==
  ASSUME NEW i
  PROVE  /\ Parses(Terminate(i)) /\ Parse(Terminate(i)).type = "ApplicationMessage"
         /\ Parse(Terminate(i)).flags = 2 /\ Parse(Terminate(i)).stream = i
         /\ ~Parse(Terminate(i)).named
<1> DEFINE hs == Terminate(i)
<1>1. /\ DOMAIN hs = 1 .. 3 /\ hs[1] = Int32(TypeHeader, 0) /\ hs[2] = Int32(FlagsHeader, 2)
      /\ hs[3] = Int32(StreamHeader, i)
  BY DEF Terminate
<1>2. Places(hs, ModelHeader) = {}
  BY <1>1 DEF Places, Int32, TypeHeader, FlagsHeader, StreamHeader, ModelHeader
<1> HIDE DEF hs
<1>3. Parses(hs) /\ Parse(hs).type = MessageType[1] /\ Parse(hs).flags = 2 /\ Parse(hs).stream = i
  <2>1. Built(hs, 3, 0, 2, i)
    BY <1>1 DEF Built
  <2>2. 3 \in Nat /\ 3 >= 3 /\ 0 \in 0 .. 7 /\ 1 = 0 + 1
    OBVIOUS
  <2> QED
    BY <2>1, <2>2, BuiltParses
<1>4. ~Parse(hs).named
  BY <1>2 DEF Parse
<1> QED
  BY <1>3, <1>4 DEF hs, MessageType

(***************************************************************************)
(* The last frame written is one of these; a termination of our stream is  *)
(* the last word of our call, which is over then, and has no sink.         *)
(***************************************************************************)
WrittenInv ==
  /\ registered => phase # "idle"
  /\ \/ written \in {Connect, PingResponse, Activate(id)}
     \/ written = Terminate(id) /\ phase = "idle"

LEMMA WrittenInit == ASSUME Init PROVE WrittenInv
BY DEF Init, WrittenInv

LEMMA WrittenStep == ASSUME WrittenInv, [Next]_vars PROVE WrittenInv'
<1> USE DEF WrittenInv
<1>1. ASSUME NEW o \in Ops, Begin(o) PROVE WrittenInv'
  BY <1>1 DEF Begin
<1>2. CASE OtherCall
  BY <1>2 DEF OtherCall, Displaced, callVars
<1>3. CASE OtherRemoves
  BY <1>3 DEF OtherRemoves, Displaced
<1>4. CASE Expire \/ EndOfStream \/ DropStream
  BY <1>4 DEF Expire, EndOfStream, DropStream, callVars
<1>5. ASSUME NEW f \in Frames(op, id), Arrive(f) PROVE WrittenInv'
  BY <1>5 DEF Arrive, callVars
<1>6. CASE SkipMalformed \/ AnswerPing \/ IgnoreProtocol \/ BreakConnection
  BY <1>6 DEF SkipMalformed, AnswerPing, IgnoreProtocol, BreakConnection, ProtocolMessage, Handle
<1>7. CASE DispatchUnknown \/ DispatchError \/ DispatchResponse \/ DispatchEvent
  BY <1>7 DEF DispatchUnknown, DispatchError, DispatchResponse, DispatchEvent, Succeeds,
     OwnMessage, OperationMessage, Handle
<1>8. CASE UNCHANGED vars
  BY <1>8 DEF vars, callVars
<1> QED
  BY <1>1, <1>2, <1>3, <1>4, <1>5, <1>6, <1>7, <1>8 DEF Next, ReadLoop

(* What the crate writes parses to what it meant.                          *)
THEOREM WhatIsBuiltParses == Spec => []BuildersParse
<1>1. WrittenInv /\ [Next]_vars => WrittenInv'
  BY WrittenStep
<1>2. ASSUME WrittenInv PROVE BuildersParse
  <2>1. (0 \div 2) % 2 = 0 /\ (2 \div 2) % 2 = 1
    OBVIOUS
  <2>2. CASE written \in {Connect, PingResponse}
    BY <2>1, <2>2, ConnectParses, PingResponseParses DEF BuildersParse, TerminatesStream
  <2>3. CASE written = Activate(id)
    BY <2>1, <2>3, ActivateParses DEF BuildersParse, TerminatesStream
  <2>4. CASE written = Terminate(id) /\ phase = "idle"
    BY <2>1, <2>4, TerminateParses DEF BuildersParse, TerminatesStream
  <2> QED
    BY <1>2, <2>2, <2>3, <2>4 DEF WrittenInv
<1> QED
  BY <1>1, <1>2, WrittenInit, PTL DEF Spec

=============================================================================
