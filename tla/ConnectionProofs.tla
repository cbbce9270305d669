-------------------------- MODULE ConnectionProofs --------------------------
(***************************************************************************)
(* Theorems about Connection, for every set of calls, every number of      *)
(* stream ids and every capacity of the socket.                            *)
(***************************************************************************)
EXTENDS Connection, SequenceTheorems, TLAPS

(* An item taken off a channel is an item.                                 *)
LEMMA PolledType ==
  ASSUME TypeOK, NEW o \in Op
  PROVE  Polled(o) \in Item
BY DEF TypeOK, Polled, Item, Lost

(* Taking it keeps the caller's side well typed.                           *)
LEMMA TakeType ==
  ASSUME TypeOK, NEW o \in Op, Take(o)
  PROVE  /\ chan' \in [Op -> Seq(Item)]
         /\ last' \in [Op -> Nat]
         /\ final' \in [Op -> BOOLEAN]
<1>1. Polled(o) \in Item
  BY PolledType
<1>2. Polled(o).n \in Nat
  BY <1>1 DEF Item, Lost
<1>3. EndsStream(Polled(o)) \in BOOLEAN
  BY <1>1 DEF Item, Lost, EndsStream
<1> QED
  BY <1>2, <1>3 DEF TypeOK, Take


(* What write_message does to the environment keeps it well typed.         *)
LEMMA WriteType ==
  ASSUME NucleusTypeOK, NEW frame \in ClientFrame, Write(frame)
  PROVE  NucleusTypeOK'
BY DEF NucleusTypeOK, Write

LEMMA WriteBrokenType ==
  ASSUME NucleusTypeOK, WriteBroken
  PROVE  NucleusTypeOK'
BY DEF NucleusTypeOK, WriteBroken

(* A call has a stream id exactly when it has begun.  A frame it writes is *)
(* then on an operation stream, which the type of the socket requires.     *)
Allocated == \A o \in Op : streamId[o] = 0 <=> pc[o] = "idle"

TypeInv == TypeOK /\ Allocated

(* Each step of a call keeps the state well typed.                         *)
LEMMA CallType ==
  ASSUME TypeInv, NEW o \in Op, CallStep(o) \/ CallerStep(o)
  PROVE  TypeInv'
<1> USE DEF TypeInv, Allocated
<1>a. pc[o] # "idle" => streamId[o] \in Sid
  BY DEF TypeOK, Sid
<1>b. \A kind \in {"request", "subscription", "terminate"} :
        pc[o] # "idle" => [sid |-> streamId[o], kind |-> kind] \in ClientFrame
  BY <1>a DEF ClientFrame
<1>1. CASE Begin(o)
  BY <1>1, NucleusAssumption
     DEF TypeOK, Begin, FetchAdd, Goto, Locations, Sid, nucleusVars, NucleusTypeOK
<1>2. CASE WriteActivate(o)
  <2>1. NucleusTypeOK'
    BY <1>2, <1>b, WriteType DEF WriteActivate, TypeOK
  <2> QED
    BY <1>2, <2>1 DEF WriteActivate, TypeOK, Goto, Locations
<1>3. CASE ActivateFails(o)
  BY <1>3, WriteBrokenType DEF ActivateFails, TypeOK, Goto, Locations, Outcomes
<1>4. CASE EncodeFails(o)
  BY <1>4 DEF EncodeFails, TypeOK, NucleusTypeOK, nucleusVars, Goto, Locations, Outcomes
<1>5. CASE Unwind(o)
  <2>1. registry' \in [Sid -> Op \cup {NoOp}]
    BY <1>5 DEF Unwind, Deregister, TypeOK
  <2>2. chan' \in [Op -> Seq(Item)]
    BY <1>5 DEF Unwind, TypeOK
  <2> QED
    BY <1>5, <2>1, <2>2 DEF Unwind, TypeOK, NucleusTypeOK, nucleusVars, Goto, Locations
<1>6. CASE Reply(o)
  <2>1. Polled(o).kind \in {"message", "garbled", "error", "closed"}
    BY PolledType DEF Item, Lost, AllPayloads
  <2> QED
    BY <1>6, <2>1, TakeType
       DEF Reply, TypeOK, NucleusTypeOK, nucleusVars, Goto, Locations, Outcomes
<1>7. CASE Expire(o)
  BY <1>7 DEF Expire, TypeOK, NucleusTypeOK, nucleusVars, Goto, Locations
<1>8. CASE GiveUp(o)
  BY <1>8 DEF GiveUp, Deregister, TypeOK, NucleusTypeOK, nucleusVars, Goto,
              Locations, Outcomes
<1>9. CASE Acknowledged(o)
  BY <1>9, TakeType
     DEF Acknowledged, TypeOK, NucleusTypeOK, nucleusVars, Goto, Locations, Outcomes
<1>10. CASE Refused(o)
  BY <1>10, TakeType
     DEF Refused, TypeOK, NucleusTypeOK, nucleusVars, Goto, Locations, Outcomes
<1>11. CASE Cancel(o)
  BY <1>11 DEF Cancel, TypeOK, NucleusTypeOK, nucleusVars, Goto, Locations, Outcomes
<1>12. CASE NextEvent(o)
  BY <1>12, TakeType DEF NextEvent, TypeOK, NucleusTypeOK, nucleusVars
<1>13. CASE EndOfStream(o)
  BY <1>13 DEF EndOfStream, TypeOK, NucleusTypeOK, nucleusVars, Goto, Locations
<1>14. CASE DropStream(o)
  BY <1>14 DEF DropStream, TypeOK, NucleusTypeOK, nucleusVars, Goto, Locations
<1>15. CASE CloseStream(o)
  BY <1>15 DEF CloseStream, Deregister, TypeOK, NucleusTypeOK, nucleusVars, Goto,
               Locations
<1>16. CASE WriteTerminate(o)
  <2>1. NucleusTypeOK'
    BY <1>16, <1>b, WriteType, WriteBrokenType DEF WriteTerminate, TypeOK
  <2> QED
    BY <1>16, <2>1 DEF WriteTerminate, TypeOK, Goto, Locations
<1> QED
  BY <1>1, <1>2, <1>3, <1>4, <1>5, <1>6, <1>7, <1>8, <1>9, <1>10, <1>11, <1>12,
     <1>13, <1>14, <1>15, <1>16 DEF CallStep, CallerStep

(* What dispatch is given is a frame of an operation stream.               *)
LEMMA DispatchedFrame ==
  ASSUME TypeOK, Dispatch
  PROVE  /\ Head(toClient) \in [sid : Sid, kind : AllPayloads, term : BOOLEAN,
                               n : Nat \ {0}]
         /\ toClient' \in Seq(Frame)
<1>1. toClient \in Seq(Frame) /\ toClient # <<>>
  BY DEF Dispatch, Incoming, TypeOK, NucleusTypeOK
<1>2. Head(toClient) \in Frame /\ Head(toClient).kind \in AllPayloads
  BY <1>1 DEF Dispatch, Incoming
<1>3. Head(toClient) \notin [sid : {0}, kind : AllSignals, term : {FALSE}, n : {0}]
  BY <1>2 DEF AllPayloads, AllSignals
<1>4. toClient' \in Seq(Frame)
  BY <1>1 DEF Dispatch
<1> QED
  BY <1>2, <1>3, <1>4 DEF Frame

(* Each step of the read loop does too,                                     *)
LEMMA ReadLoopType ==
  ASSUME TypeInv, ReadLoopStep
  PROVE  TypeInv'
<1> USE DEF TypeInv, Allocated, callVars
<1>1. CASE Dispatch
  <2> DEFINE frame == Head(toClient)
  <2>1. /\ frame \in [sid : Sid, kind : AllPayloads, term : BOOLEAN, n : Nat \ {0}]
        /\ toClient' \in Seq(Frame)
    BY <1>1, DispatchedFrame
  <2>2. frame \in Item /\ frame.sid \in Sid
    BY <2>1 DEF Item
  <2> HIDE DEF frame
  <2>3. registry' \in [Sid -> Op \cup {NoOp}]
    BY <1>1, <2>2 DEF Dispatch, TypeOK, frame
  <2>4. chan' \in [Op -> Seq(Item)]
    BY <1>1, <2>2 DEF Dispatch, TypeOK, frame
  <2> QED
    BY <1>1, <2>1, <2>3, <2>4 DEF Dispatch, TypeOK, NucleusTypeOK
<1>2. CASE AnswerPing
  <2>1. PICK pong \in ClientFrame : pong = [sid |-> 0, kind |-> "pingResponse"]
    BY DEF ClientFrame
  <2>2. toNucleus' \in Seq(ClientFrame)
    <3>1. toNucleus \in Seq(ClientFrame)
      BY DEF TypeOK, NucleusTypeOK
    <3>2. toNucleus' = Append(toNucleus, pong) \/ toNucleus' = toNucleus
      BY <1>2, <2>1 DEF AnswerPing
    <3> QED
      BY <3>1, <3>2
  <2>3. toClient' \in Seq(Frame)
    BY <1>2 DEF AnswerPing, Incoming, TypeOK, NucleusTypeOK
  <2> QED
    BY <1>2, <2>2, <2>3 DEF AnswerPing, TypeOK, NucleusTypeOK
<1>3. CASE Ignore
  BY <1>3 DEF Ignore, Incoming, TypeOK, NucleusTypeOK
<1>4. CASE ReadError
  BY <1>4 DEF ReadError, Incoming, TypeOK, NucleusTypeOK
<1>5. CASE ReadEof
  BY <1>5 DEF ReadEof, TypeOK, NucleusTypeOK, nucleusVars
<1>6. CASE FailAll
  BY <1>6 DEF FailAll, TypeOK, NucleusTypeOK, nucleusVars, Item, Lost
<1>7. CASE SignalClosed
  BY <1>7 DEF SignalClosed, TypeOK, NucleusTypeOK, nucleusVars
<1> QED
  BY <1>1, <1>2, <1>3, <1>4, <1>5, <1>6, <1>7 DEF ReadLoopStep

(* and of the environment.                                                 *)
LEMMA EnvironmentType ==
  ASSUME TypeInv, Environment
  PROVE  TypeInv'
<1>1. NucleusTypeOK'
  <2> USE DEF TypeInv, TypeOK, NucleusTypeOK
  <2>1. CASE Receive
    <3>1. /\ Head(toNucleus) \in ClientFrame
          /\ toNucleus' \in Seq(ClientFrame)
      BY <2>1 DEF Receive
    <3>2. Head(toNucleus).sid # 0 =>
            Head(toNucleus).kind \in {"request", "subscription", "terminate"}
      BY <3>1 DEF ClientFrame
    <3>3. stream' \in [Sid -> StreamState]
      BY <2>1, <3>2 DEF Receive, StreamState
    <3> QED
      BY <2>1, <3>1, <3>3 DEF Receive
  <2>2. ASSUME NEW s \in Sid, NEW k \in Payloads, NEW t \in BOOLEAN, Send(s, k, t)
        PROVE  NucleusTypeOK'
    <3>1. sent[s] \in Nat /\ sent[s] + 1 \in Nat \ {0} /\ k \in AllPayloads
      BY NucleusAssumption
    <3>2. [sid |-> s, kind |-> k, term |-> t, n |-> sent[s] + 1] \in Frame
      BY <3>1 DEF Frame
    <3> QED
      BY <2>2, <3>1, <3>2 DEF Send, StreamState
  <2>3. ASSUME NEW k \in Signals, Signal(k)
        PROVE  NucleusTypeOK'
    <3>1. [sid |-> 0, kind |-> k, term |-> FALSE, n |-> 0] \in Frame
      BY NucleusAssumption DEF Frame
    <3> QED
      BY <2>3, <3>1 DEF Signal
  <2>4. CASE CloseSocket
    BY <2>4 DEF CloseSocket
  <2> QED
    BY <2>1, <2>2, <2>3, <2>4 DEF Environment, NucleusNext
<1> QED
  BY <1>1 DEF Environment, TypeInv, TypeOK, Allocated, callVars

LEMMA TypeInvStep == TypeInv /\ [Next]_vars => TypeInv'
<1> SUFFICES ASSUME TypeInv, [Next]_vars PROVE TypeInv'
  OBVIOUS
<1>1. CASE Next
  BY <1>1, CallType, ReadLoopType, EnvironmentType DEF Next
<1>2. CASE UNCHANGED vars
  BY <1>2 DEF vars, nucleusVars, callVars, TypeInv, TypeOK, NucleusTypeOK, Allocated
<1> QED
  BY <1>1, <1>2

LEMMA TypeInvInit == Init => TypeInv
<1> SUFFICES ASSUME Init PROVE TypeInv
  OBVIOUS
<1>1. NucleusTypeOK
  <2>1. toNucleus \in Seq(ClientFrame)
    BY DEF Init, NucleusInit
  <2>2. toClient \in Seq(Frame)
    BY DEF Init, NucleusInit
  <2> QED
    BY <2>1, <2>2 DEF Init, NucleusInit, NucleusTypeOK, StreamState
<1>2. nextStreamId \in 1 .. MaxId + 1
  BY NucleusAssumption DEF Init, FirstStreamId
<1>3. chan \in [Op -> Seq(Item)]
  BY DEF Init
<1> QED
  <2>1. TypeOK
    <3>1. registry \in [Sid -> Op \cup {NoOp}]
      BY DEF Init
    <3>2. streamId \in [Op -> 0 .. MaxId]
      BY NucleusAssumption DEF Init
    <3> QED
      BY <1>1, <1>2, <1>3, <3>1, <3>2 DEF Init, TypeOK, Locations, Outcomes
  <2>2. Allocated
    BY DEF Init, Allocated
  <2> QED
    BY <2>1, <2>2 DEF TypeInv

LEMMA TypeInvAlways == Spec => []TypeInv
BY TypeInvInit, TypeInvStep, PTL DEF Spec

(* Every state of the connection is well typed.                            *)
THEOREM TypeCorrect == Spec => []TypeOK
<1>1. TypeInv => TypeOK
  BY DEF TypeInv
<1> QED
  BY <1>1, TypeInvAlways, PTL


-----------------------------------------------------------------------------
(***************************************************************************)
(* Sinks and waiters.  The invariant relates the registry to the calls: an *)
(* entry names the one call that has its stream id and is not over, a call *)
(* on its way to its first message has its entry or the message, and the   *)
(* entry of a request is gone once its channel has been used.              *)
(***************************************************************************)
UniqueIds ==
  /\ \A o \in Op : streamId[o] < nextStreamId
  /\ \A o, p \in Op : o # p /\ streamId[o] # 0 => streamId[o] # streamId[p]

Tracked == {"writing", "waiting", "unwinding", "expired", "streaming", "dropped",
            "cancelled"}

SinksTracked ==
  \A s \in Sid : registry[s] # NoOp =>
    streamId[registry[s]] = s /\ pc[registry[s]] \in Tracked

WaitersReachable ==
  \A o \in Op : pc[o] \in {"writing", "waiting"} =>
    Registered(o) \/ chan[o] # <<>>

OneReply == \A o \in Requests : chan[o] # <<>> => ~Registered(o)

NothingBefore == \A o \in Op : pc[o] = "idle" => chan[o] = <<>>

SinkParts ==
  UniqueIds /\ SinksTracked /\ WaitersReachable /\ OneReply /\ NothingBefore

SinkInv == TypeInv /\ SinkParts

(* What a step of one call touches, Begin apart: its location and its      *)
(* channel, into which it puts nothing, and which it leaves alone if it is *)
(* still on its way to its first message.                                  *)
OwnStep(o) ==
  /\ UNCHANGED <<nextStreamId, streamId>>
  /\ \A p \in Op \ {o} : pc'[p] = pc[p] /\ chan'[p] = chan[p]
  /\ chan'[o] # <<>> => chan[o] # <<>>
  /\ pc'[o] # "idle"
  /\ pc'[o] \in {"writing", "waiting"} =>
       pc[o] \in {"writing", "waiting"} /\ chan'[o] = chan[o]

(* Such a step keeps the invariant if it leaves the registry alone and a   *)
(* call with a sink in a place where it may have one,                      *)
LEMMA KeepSink ==
  ASSUME SinkInv, NEW o \in Op, OwnStep(o), UNCHANGED registry,
         Registered(o) => pc'[o] \in Tracked
  PROVE  SinkParts'
<1> USE DEF SinkInv, SinkParts, OwnStep
<1>0. \A p \in Op : Registered(p)' <=> Registered(p)
  BY DEF Registered
<1>1. UniqueIds'
  BY DEF UniqueIds
<1>2. SinksTracked'
  <2> SUFFICES ASSUME NEW s \in Sid, registry[s] # NoOp
               PROVE  streamId[registry[s]] = s /\ pc'[registry[s]] \in Tracked
    BY DEF SinksTracked
  <2>1. registry[s] \in Op /\ streamId[registry[s]] = s /\ pc[registry[s]] \in Tracked
    BY DEF SinksTracked, TypeInv, TypeOK
  <2>2. s # 0
    BY DEF Sid
  <2>3. CASE registry[s] = o
    BY <2>1, <2>2, <2>3 DEF Registered
  <2>4. CASE registry[s] # o
    BY <2>1, <2>4
  <2> QED
    BY <2>3, <2>4
<1>3. WaitersReachable'
  BY <1>0 DEF WaitersReachable
<1>4. OneReply'
  BY <1>0, ConnectionAssumption DEF OneReply, Requests
<1>5. NothingBefore'
  BY DEF NothingBefore
<1> QED
  BY <1>1, <1>2, <1>3, <1>4, <1>5

(* or if it removes its sink and waits no more.                            *)
LEMMA RemoveSink ==
  ASSUME SinkInv, NEW o \in Op, OwnStep(o), Deregister(o),
         pc'[o] \notin {"writing", "waiting"}, pc[o] # "idle"
  PROVE  SinkParts'
<1> USE DEF SinkInv, SinkParts, OwnStep
<1>0. streamId[o] \in Sid /\ streamId[o] # 0 /\ registry \in [Sid -> Op \cup {NoOp}]
  BY DEF TypeInv, TypeOK, Allocated, Sid
<1>1. registry'[streamId[o]] = NoOp /\ NoOp \notin Op
  BY <1>0, ConnectionAssumption DEF Deregister
<1>2. \A s \in Sid : s # streamId[o] => registry'[s] = registry[s]
  BY <1>0 DEF Deregister
<1>3. \A p \in Op : p # o => (Registered(p)' <=> Registered(p))
  BY <1>0, <1>1, <1>2 DEF Registered, UniqueIds, TypeInv, TypeOK, Sid
<1>4. ~Registered(o)'
  BY <1>1 DEF Registered
<1>5. UniqueIds'
  BY DEF UniqueIds
<1>6. SinksTracked'
  <2> SUFFICES ASSUME NEW s \in Sid, registry'[s] # NoOp
               PROVE  streamId[registry'[s]] = s /\ pc'[registry'[s]] \in Tracked
    BY DEF SinksTracked
  <2>1. s # streamId[o] /\ registry'[s] = registry[s]
    BY <1>1, <1>2
  <2>2. registry[s] \in Op /\ streamId[registry[s]] = s /\ pc[registry[s]] \in Tracked
    BY <2>1, <1>0 DEF SinksTracked
  <2> QED
    BY <2>1, <2>2
<1>7. WaitersReachable'
  BY <1>3 DEF WaitersReachable
<1>8. OneReply'
  BY <1>3, <1>4, ConnectionAssumption DEF OneReply, Requests
<1>9. NothingBefore'
  BY DEF NothingBefore
<1> QED
  BY <1>5, <1>6, <1>7, <1>8, <1>9

LEMMA TakeIsOwn ==
  ASSUME TypeInv, NEW o \in Op, Take(o)
  PROVE  /\ \A p \in Op \ {o} : chan'[p] = chan[p]
         /\ chan'[o] # <<>> => chan[o] # <<>>
BY DEF Take, TypeInv, TypeOK

(* A call that begins has a new id and a new sink under it.                *)
LEMMA BeginSinks ==
  ASSUME SinkInv, NEW o \in Op, Begin(o)
  PROVE  SinkParts'
<1> USE DEF SinkInv, SinkParts
<1>0. /\ nextStreamId \in Sid /\ nextStreamId' = nextStreamId + 1
      /\ streamId[o] = 0 /\ pc[o] = "idle"
      /\ streamId' = [streamId EXCEPT ![o] = nextStreamId]
      /\ registry' = [registry EXCEPT ![nextStreamId] = o]
      /\ pc' = [pc EXCEPT ![o] = "writing"]
      /\ UNCHANGED chan
  BY DEF Begin, FetchAdd, Goto, TypeInv, Allocated
<1>t. /\ registry \in [Sid -> Op \cup {NoOp}]
      /\ streamId \in [Op -> 0 .. MaxId]
      /\ pc \in [Op -> Locations]
      /\ NoOp \notin Op /\ MaxId \in Nat
  BY ConnectionAssumption, NucleusAssumption DEF TypeInv, TypeOK
<1>1. UniqueIds'
  BY <1>0, <1>t DEF UniqueIds, Sid
<1>2. \A p \in Op : p # o => (Registered(p)' <=> Registered(p))
  BY <1>0, <1>t DEF Registered, UniqueIds, Sid
<1>3. Registered(o)' /\ ~Registered(o)
  BY <1>0, <1>t DEF Registered, Sid
<1>4. SinksTracked'
  <2> SUFFICES ASSUME NEW s \in Sid, registry'[s] # NoOp
               PROVE  streamId'[registry'[s]] = s /\ pc'[registry'[s]] \in Tracked
    BY DEF SinksTracked
  <2>1. CASE s = nextStreamId
    BY <1>0, <1>t, <2>1 DEF Tracked
  <2>2. CASE s # nextStreamId
    <3>1. registry'[s] = registry[s] /\ registry[s] \in Op
      BY <1>0, <1>t, <2>2
    <3>2. streamId[registry[s]] = s /\ pc[registry[s]] \in Tracked
      BY <3>1, <1>t DEF SinksTracked
    <3>3. registry[s] # o
      BY <3>2, <1>0 DEF Tracked
    <3> QED
      BY <1>0, <1>t, <3>1, <3>2, <3>3
  <2> QED
    BY <2>1, <2>2
<1>5. WaitersReachable'
  BY <1>0, <1>t, <1>2, <1>3 DEF WaitersReachable
<1>6. OneReply'
  <2>1. chan[o] = <<>>
    BY <1>0 DEF NothingBefore
  <2> QED
    BY <1>0, <1>t, <1>2, <2>1, ConnectionAssumption DEF OneReply, Requests
<1>7. NothingBefore'
  BY <1>0, <1>t DEF NothingBefore
<1> QED
  BY <1>1, <1>4, <1>5, <1>6, <1>7

(* The steps of a call keep the invariant.                                 *)
LEMMA CallSinks ==
  ASSUME SinkInv, NEW o \in Op, CallStep(o) \/ CallerStep(o)
  PROVE  SinkParts'
<1>t. pc \in [Op -> Locations] /\ chan \in [Op -> Seq(Item)]
  BY DEF SinkInv, TypeInv, TypeOK
<1>r. Registered(o) => pc[o] \in Tracked
  BY ConnectionAssumption
     DEF SinkInv, SinkParts, SinksTracked, Registered, TypeInv, TypeOK, Sid
<1>1. CASE Begin(o)
  BY <1>1, BeginSinks
<1>2. CASE WriteActivate(o)
  <2>1. OwnStep(o) /\ UNCHANGED registry /\ pc'[o] \in Tracked
    BY <1>2, <1>t DEF WriteActivate, OwnStep, Goto, Tracked
  <2> QED
    BY <2>1, KeepSink
<1>3. CASE ActivateFails(o)
  <2>1. OwnStep(o) /\ UNCHANGED registry /\ pc'[o] \in Tracked
    BY <1>3, <1>t DEF ActivateFails, OwnStep, Goto, Tracked
  <2> QED
    BY <2>1, KeepSink
<1>4. CASE EncodeFails(o)
  <2>1. OwnStep(o) /\ UNCHANGED registry /\ pc'[o] \in Tracked
    BY <1>4, <1>t DEF EncodeFails, OwnStep, Goto, Tracked
  <2> QED
    BY <2>1, KeepSink
<1>5. CASE Unwind(o)
  BY <1>5, <1>t, RemoveSink DEF Unwind, OwnStep, Goto
<1>6. CASE Reply(o)
  <2>1. OwnStep(o) /\ UNCHANGED registry
    BY <1>6, <1>t, TakeIsOwn DEF Reply, OwnStep, Goto, SinkInv
  <2>2. ~Registered(o)
    BY <1>6 DEF Reply, Ready, SinkInv, SinkParts, OneReply
  <2> QED
    BY <2>1, <2>2, KeepSink
<1>7. CASE Expire(o)
  <2>1. OwnStep(o) /\ UNCHANGED registry /\ pc'[o] \in Tracked
    BY <1>7, <1>t DEF Expire, OwnStep, Goto, Tracked
  <2> QED
    BY <2>1, KeepSink
<1>8. CASE GiveUp(o)
  BY <1>8, <1>t, RemoveSink DEF GiveUp, OwnStep, Goto
<1>9. CASE Acknowledged(o)
  <2>1. OwnStep(o) /\ UNCHANGED registry /\ pc'[o] \in Tracked
    BY <1>9, <1>t, TakeIsOwn DEF Acknowledged, OwnStep, Goto, Tracked, SinkInv
  <2> QED
    BY <2>1, KeepSink
<1>10. CASE Refused(o)
  <2>1. OwnStep(o) /\ UNCHANGED registry /\ pc'[o] \in Tracked
    BY <1>10, <1>t, TakeIsOwn DEF Refused, OwnStep, Goto, Tracked, SinkInv
  <2> QED
    BY <2>1, KeepSink
<1>11. CASE Cancel(o)
  <2>1. OwnStep(o) /\ UNCHANGED registry /\ pc'[o] \in Tracked
    BY <1>11, <1>t DEF Cancel, OwnStep, Goto, Tracked
  <2> QED
    BY <2>1, KeepSink
<1>12. CASE NextEvent(o)
  <2>1. OwnStep(o) /\ UNCHANGED registry /\ pc'[o] \in Tracked
    BY <1>12, <1>t, TakeIsOwn DEF NextEvent, OwnStep, Tracked, SinkInv
  <2> QED
    BY <2>1, KeepSink
<1>13. CASE EndOfStream(o)
  <2>1. OwnStep(o) /\ UNCHANGED registry /\ ~Registered(o)
    BY <1>13, <1>t DEF EndOfStream, OwnStep, Goto
  <2> QED
    BY <2>1, KeepSink
<1>14. CASE DropStream(o)
  <2>1. OwnStep(o) /\ UNCHANGED registry /\ pc'[o] \in Tracked
    BY <1>14, <1>t DEF DropStream, OwnStep, Goto, Tracked
  <2> QED
    BY <2>1, KeepSink
<1>15. CASE CloseStream(o)
  BY <1>15, <1>t, RemoveSink DEF CloseStream, OwnStep, Goto
<1>16. CASE WriteTerminate(o)
  <2>1. OwnStep(o) /\ UNCHANGED registry /\ pc[o] = "terminating"
    BY <1>16, <1>t DEF WriteTerminate, OwnStep, Goto
  <2>2. ~Registered(o)
    BY <2>1, <1>r DEF Tracked
  <2> QED
    BY <2>1, <2>2, KeepSink
<1> QED
  BY <1>1, <1>2, <1>3, <1>4, <1>5, <1>6, <1>7, <1>8, <1>9, <1>10, <1>11, <1>12,
     <1>13, <1>14, <1>15, <1>16 DEF CallStep, CallerStep

(* dispatch takes a sink out of the registry only after it has put a frame *)
(* into its channel, if its call still receives;                           *)
LEMMA DispatchSinks ==
  ASSUME SinkInv, Dispatch
  PROVE  SinkParts'
<1> USE DEF SinkInv, SinkParts
<1> DEFINE frame == Head(toClient)
           q     == registry[frame.sid]
<1>0. frame.sid \in Sid
  BY DispatchedFrame DEF TypeInv
<1>t. /\ registry \in [Sid -> Op \cup {NoOp}] /\ chan \in [Op -> Seq(Item)]
      /\ NoOp \notin Op /\ Subscriptions \subseteq Op
  BY ConnectionAssumption DEF TypeInv, TypeOK
<1>u. UNCHANGED <<nextStreamId, pc, streamId>>
  BY DEF Dispatch
<1>1. /\ \A s \in Sid : s # frame.sid => registry'[s] = registry[s]
      /\ registry'[frame.sid] \in {q, NoOp}
      /\ q \in Requests => registry'[frame.sid] = NoOp
  BY <1>0, <1>t DEF Dispatch, Requests, StaysRegistered
<1>2. /\ \A p \in Op : p # q => chan'[p] = chan[p]
      /\ q \in Op /\ Receiving(q) => chan'[q] # <<>>
      /\ q \in Op /\ ~Receiving(q) => chan'[q] = chan[q]
  BY <1>0, <1>t DEF Dispatch
<1>3. \A p \in Op : p # q => (Registered(p)' <=> Registered(p))
  BY <1>0, <1>1, <1>t, <1>u DEF Registered, TypeInv, TypeOK, SinksTracked, Sid
<1>4. q \in Op => streamId[q] = frame.sid /\ Registered(q) /\ pc[q] \in Tracked
  BY <1>0, <1>t DEF SinksTracked, Registered, Sid
<1>5. UniqueIds'
  BY <1>u DEF UniqueIds
<1>6. SinksTracked'
  BY <1>u, <1>1, <1>t DEF SinksTracked
<1>7. WaitersReachable'
  BY <1>u, <1>2, <1>3 DEF WaitersReachable, Receiving
<1>8. OneReply'
  <2>1. \A p \in Requests : p = q => ~Registered(p)'
    BY <1>1, <1>4, <1>u, <1>t DEF Registered, Requests
  <2> QED
    BY <1>2, <1>3, <2>1 DEF OneReply, Requests
<1>9. NothingBefore'
  BY <1>u, <1>2, <1>4, <1>t DEF NothingBefore, Tracked
<1> QED
  BY <1>5, <1>6, <1>7, <1>8, <1>9

(* and so does fail_all.                                                   *)
LEMMA FailAllSinks ==
  ASSUME SinkInv, FailAll
  PROVE  SinkParts'
<1> USE DEF SinkInv, SinkParts
<1>1. /\ registry' = [s \in Sid |-> NoOp]
      /\ UNCHANGED <<nextStreamId, pc, streamId>>
      /\ chan \in [Op -> Seq(Item)] /\ NoOp \notin Op
      /\ streamId \in [Op -> 0 .. MaxId] /\ registry \in [Sid -> Op \cup {NoOp}]
  BY ConnectionAssumption DEF FailAll, TypeInv, TypeOK
<1>2. \A p \in Op : /\ Registered(p) /\ Receiving(p) => chan'[p] # <<>>
                    /\ ~(Registered(p) /\ Receiving(p)) => chan'[p] = chan[p]
  <2>1. \A p \in Op : chan[p] \in Seq(Item) /\ Lost \in Item
    BY <1>1 DEF Item
  <2>2. \A p \in Op : Append(chan[p], Lost) # <<>>
    BY <2>1, AppendProperties
  <2> QED
    <3> SUFFICES ASSUME NEW p \in Op
                 PROVE  /\ Registered(p) /\ Receiving(p) => chan'[p] # <<>>
                        /\ ~(Registered(p) /\ Receiving(p)) => chan'[p] = chan[p]
      OBVIOUS
    <3>1. CASE Registered(p) /\ Receiving(p)
      <4>1. chan'[p] = Append(chan[p], Lost)
        BY <3>1 DEF FailAll
      <4> QED
        BY <3>1, <4>1, <2>2
    <3>2. CASE ~(Registered(p) /\ Receiving(p))
      BY <3>2 DEF FailAll
    <3> QED
      BY <3>1, <3>2
<1>3. \A p \in Op : ~Registered(p)'
  BY <1>1 DEF Registered, Sid
<1>4. UniqueIds'
  BY <1>1 DEF UniqueIds
<1>5. SinksTracked'
  BY <1>1 DEF SinksTracked
<1>6. WaitersReachable'
  BY <1>1, <1>2 DEF WaitersReachable, Receiving
<1>7. OneReply'
  BY <1>3 DEF OneReply, Requests
<1>8. NothingBefore'
  BY <1>1, <1>2 DEF NothingBefore, Receiving
<1> QED
  BY <1>4, <1>5, <1>6, <1>7, <1>8

(* Every other step touches neither a sink nor a call.                     *)
LEMMA OtherSinks ==
  ASSUME SinkInv,
         UNCHANGED <<nextStreamId, registry, pc, streamId, chan>>
  PROVE  SinkParts'
BY DEF SinkInv, SinkParts, UniqueIds, SinksTracked, WaitersReachable, OneReply,
       NothingBefore, Registered

LEMMA SinkInvStep == SinkInv /\ [Next]_vars => SinkInv'
<1> SUFFICES ASSUME SinkInv, [Next]_vars PROVE SinkInv'
  OBVIOUS
<1>1. TypeInv'
  BY TypeInvStep DEF SinkInv
<1>2. SinkParts'
  <2>1. ASSUME NEW o \in Op, CallStep(o) \/ CallerStep(o) PROVE SinkParts'
    BY <2>1, CallSinks
  <2>2. CASE Dispatch
    BY <2>2, DispatchSinks
  <2>3. CASE FailAll
    BY <2>3, FailAllSinks
  <2>4. CASE AnswerPing \/ Ignore \/ ReadError \/ ReadEof \/ SignalClosed
    BY <2>4, OtherSinks
       DEF AnswerPing, Ignore, ReadError, ReadEof, SignalClosed, callVars
  <2>5. CASE Environment
    BY <2>5, OtherSinks DEF Environment, callVars
  <2>6. CASE UNCHANGED vars
    BY <2>6, OtherSinks DEF vars, callVars
  <2> QED
    BY <2>1, <2>2, <2>3, <2>4, <2>5, <2>6 DEF Next, ReadLoopStep
<1> QED
  BY <1>1, <1>2 DEF SinkInv

LEMMA SinkInvInit == Init => SinkInv
<1> SUFFICES ASSUME Init PROVE SinkParts
  BY TypeInvInit DEF SinkInv
<1> QED
  BY DEF Init, SinkParts, UniqueIds, SinksTracked, WaitersReachable, OneReply,
         NothingBefore, FirstStreamId, Requests

LEMMA SinkInvAlways == Spec => []SinkInv
BY SinkInvInit, SinkInvStep, PTL DEF Spec

(* No call waits for a channel that nobody will ever write to: whatever    *)
(* takes a sink out of the registry while its call waits (dispatch or      *)
(* fail_all) leaves an item in the channel.                                *)
THEOREM WaitersAreReachable == Spec => []WaiterIsReachable
<1>1. SinkInv => WaiterIsReachable
  BY DEF SinkInv, SinkParts, WaitersReachable, WaiterIsReachable
<1> QED
  BY <1>1, SinkInvAlways, PTL

(* A registered sink is that of the call that has its stream id, and of no *)
(* call that is over.                                                      *)
THEOREM NoSinkIsStale == Spec => []NoStaleSink
<1>1. SinkInv => NoStaleSink
  BY DEF SinkInv, SinkParts, SinksTracked, NoStaleSink, Tracked
<1> QED
  BY <1>1, SinkInvAlways, PTL

=============================================================================
