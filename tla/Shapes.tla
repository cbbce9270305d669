------------------------------- MODULE Shapes --------------------------------
(***************************************************************************)
(* The shapes of what the nucleus sends, as the derived and the handwritten*)
(* Deserialize of src/model/ take them.  A JSON value is a null, a text, a *)
(* text that is base64, a Boolean, a list of texts, or an object that has  *)
(* each member once; a payload that is no JSON at all is "broken".         *)
(***************************************************************************)

Scalar(kind) == [kind |-> kind]
Object(members) == [kind |-> "object", members |-> members]

(* A type is that of a scalar or a struct, and a field of a struct is      *)
(* required, an Option with a default, or with a default but no Option.    *)
Struct(fields) == [type |-> "Struct", fields |-> fields]
Required(t) == [need |-> "required", of |-> t]
Optional(t) == [need |-> "optional", of |-> t]
Defaulted(t) == [need |-> "defaulted", of |-> t]

Text == [type |-> "String"]
Bool == [type |-> "bool"]
Texts == [type |-> "Vec<String>"]
Blob == [type |-> "Blob"]
Value == [type |-> "Value"]

(* A scalar that deserializes; a Blob must be base64.  No scalar is a      *)
(* struct.                                                                 *)
Takes(t, j) ==
  CASE t.type = "String" -> j.kind \in {"text", "base64"}
    [] t.type = "bool" -> j.kind = "bool"
    [] t.type = "Vec<String>" -> j.kind = "list"
    [] t.type = "Blob" -> j.kind = "base64"
    [] t.type = "Value" -> TRUE
    [] OTHER -> FALSE

(* A struct takes an object that has its required fields and ignores the   *)
(* members it does not know; what is left to decode are the members it     *)
(* knows, but for a null in an Option.                                     *)
IsStruct(t, j) ==
  /\ t.type = "Struct" /\ j.kind = "object"
  /\ \A f \in DOMAIN t.fields :
       t.fields[f].need = "required" => f \in DOMAIN j.members

Present(t, j) ==
  {f \in DOMAIN t.fields \cap DOMAIN j.members :
     ~(t.fields[f].need = "optional" /\ j.members[f].kind = "null")}

(* The types and values that pairs of a type and a value come down to.     *)
Inner(pairs) ==
  UNION {IF IsStruct(p[1], p[2])
         THEN {<<p[1].fields[f].of, p[2].members[f]>> : f \in Present(p[1], p[2])}
         ELSE {p} : p \in pairs}

(* Structs are nested three deep at most.                                  *)
Decodes_NoUnknown(t, j) ==
  /\ \A p \in Inner(Inner(Inner({<<t, j>>}))) : Takes(p[1], p[2])
  /\ (IsStruct(t, j) => DOMAIN j.members \subseteq DOMAIN t.fields)
Decodes(t, j) ==
  \A p \in Inner(Inner(Inner({<<t, j>>}))) : Takes(p[1], p[2])

-----------------------------------------------------------------------------
RestartComponentResponse ==
  Struct([restartStatus |-> Optional(Text), message |-> Optional(Text)])

GetConfigurationResponse ==
  Struct([componentName |-> Optional(Text), value |-> Optional(Value)])

PreComponentUpdateEvent ==
  Struct([deploymentId |-> Required(Text), isGgcRestarting |-> Defaulted(Bool)])
PostComponentUpdateEvent == Struct([deploymentId |-> Required(Text)])
ComponentUpdatePolicyEvents ==
  Struct([preUpdateEvent |-> Optional(PreComponentUpdateEvent),
          postUpdateEvent |-> Optional(PostComponentUpdateEvent)])

ConfigurationUpdateEvent ==
  Struct([componentName |-> Required(Text), keyPath |-> Required(Texts)])
ConfigurationUpdateEvents ==
  Struct([configurationUpdateEvent |-> Optional(ConfigurationUpdateEvent)])

MessageContext == Struct([topic |-> Required(Text)])
JsonMessage ==
  Struct([message |-> Optional(Value), context |-> Optional(MessageContext)])
BinaryMessageIn ==
  Struct([message |-> Optional(Blob), context |-> Optional(MessageContext)])
SubscriptionResponseMessage ==
  Struct([jsonMessage |-> Optional(JsonMessage),
          binaryMessage |-> Optional(BinaryMessageIn)])

MqttMessage == Struct([topicName |-> Required(Text), payload |-> Optional(Blob)])
IoTCoreMessage == Struct([message |-> Optional(MqttMessage)])

(* The responses that have no fields.                                      *)
Empty == Struct([f \in {} |-> Text])

(* What each request of Client answers, and what each subscription yields: *)
(* the acknowledgement of a subscription is never decoded.                 *)
Response ==
  [UpdateState |-> Empty, DeferComponentUpdate |-> Empty,
   PauseComponent |-> Empty, ResumeComponent |-> Empty,
   RestartComponent |-> RestartComponentResponse,
   GetConfiguration |-> GetConfigurationResponse,
   UpdateConfiguration |-> Empty, PublishToTopic |-> Empty,
   PublishToIoTCore |-> Empty]

Event ==
  [SubscribeToComponentUpdates |-> ComponentUpdatePolicyEvents,
   SubscribeToConfigurationUpdate |-> ConfigurationUpdateEvents,
   SubscribeToTopic |-> SubscriptionResponseMessage,
   SubscribeToIoTCore |-> IoTCoreMessage]

=============================================================================
