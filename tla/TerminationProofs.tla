------------------------- MODULE TerminationProofs -------------------------
(***************************************************************************)
(* Theorem about the terminations Connection writes.  The nucleus knows of *)
(* a stream before it sends anything on it, a caller has an EventStream    *)
(* only when something was sent, and only an EventStream is terminated.    *)
(***************************************************************************)
EXTENDS DeliveryProofs

Known(s) == stream[s] # "unknown"

Opened == {"streaming", "ended", "dropped", "terminating"}

WireKnown == \A i \in DOMAIN toClient : toClient[i].sid # 0 => Known(toClient[i].sid)

ChannelKnown ==
  \A o \in Op : \A i \in DOMAIN chan[o] : chan[o][i] # Lost => Known(streamId[o])

OpenKnown == \A o \in Op : pc[o] \in Opened => Known(streamId[o])

TerminatedKnown ==
  \A i \in DOMAIN toNucleus : toNucleus[i].kind = "terminate" => Known(toNucleus[i].sid)

KnownParts == WireKnown /\ ChannelKnown /\ OpenKnown /\ TerminatedKnown

KnownInv == SinkInv /\ KnownParts

(* The nucleus does not forget a stream.                                   *)
LEMMA KnownStays ==
  ASSUME KnownInv, [Next]_vars, NEW s \in Sid, Known(s)
  PROVE  stream'[s] # "unknown"
<1>t. stream \in [Sid -> StreamState] /\ toNucleus \in Seq(ClientFrame)
  BY DEF KnownInv, SinkInv, TypeInv, TypeOK, NucleusTypeOK
<1>1. CASE Receive
  <2>1. Head(toNucleus) \in ClientFrame
    BY <1>1, <1>t DEF Receive
  <2>2. Head(toNucleus).kind # "unknown"
    BY <2>1 DEF ClientFrame
  <2> QED
    BY <1>1, <1>t, <2>2 DEF Receive, Known
<1>2. CASE \E r \in Sid, k \in Payloads, e \in BOOLEAN : Send(r, k, e)
  BY <1>2, <1>t DEF Send, Known
<1>3. CASE UNCHANGED stream
  BY <1>3 DEF Known
<1>4. Receive \/ UNCHANGED stream \/ \E r \in Sid, k \in Payloads, e \in BOOLEAN : Send(r, k, e)
  BY DEF Next, CallStep, CallerStep, ReadLoopStep, Environment, NucleusNext, Signal,
         CloseSocket, Begin, WriteActivate, ActivateFails, EncodeFails, Unwind,
         Reply, Expire, GiveUp, Acknowledged, Refused, Cancel, NextEvent, EndOfStream,
         DropStream, CloseStream, WriteTerminate, Write, WriteBroken, Dispatch,
         AnswerPing, Ignore, ReadError, ReadEof, FailAll, SignalClosed, nucleusVars, vars
<1> QED
  BY <1>1, <1>2, <1>3, <1>4

(* What is on the wire to the client comes from a stream it knows.         *)
LEMMA WireKnownStep ==
  ASSUME KnownInv, [Next]_vars
  PROVE  WireKnown'
<1>t. /\ toClient \in Seq(Frame) /\ stream \in [Sid -> StreamState]
      /\ \A i \in DOMAIN toClient : toClient[i].sid \in Sid \cup {0}
  <2>1. toClient \in Seq(Frame) /\ stream \in [Sid -> StreamState]
    BY DEF KnownInv, SinkInv, TypeInv, TypeOK, NucleusTypeOK
  <2>2. \A i \in DOMAIN toClient : toClient[i] \in Frame
    BY <2>1
  <2> QED
    BY <2>1, <2>2, FrameSid
<1>k. ASSUME NEW i \in DOMAIN toClient, toClient[i].sid # 0
      PROVE  stream'[toClient[i].sid] # "unknown"
  <2>1. toClient[i].sid \in Sid /\ Known(toClient[i].sid)
    BY <1>t, <1>k DEF KnownInv, KnownParts, WireKnown
  <2> QED
    BY <2>1, KnownStays
<1>1. CASE toClient' = toClient
  BY <1>1, <1>k DEF WireKnown, Known
<1>2. CASE toClient # <<>> /\ toClient' = Tail(toClient)
  BY <1>2, <1>t, <1>k, Popped DEF WireKnown, Known
<1>3. ASSUME NEW s \in Sid, NEW k \in Payloads, NEW e \in BOOLEAN, Send(s, k, e)
      PROVE  WireKnown'
  <2>1. stream'[s] # "unknown"
    <3>1. sent[s] < Quota(s) /\ sent[s] \in Nat
      BY <1>3 DEF Send, KnownInv, SinkInv, TypeInv, TypeOK, NucleusTypeOK
    <3>2. Known(s)
      BY <3>1 DEF Quota, Known
    <3> QED
      BY <3>2, KnownStays
  <2>2. /\ \A i \in DOMAIN toClient' :
             \/ i \in DOMAIN toClient /\ toClient'[i] = toClient[i]
             \/ toClient'[i].sid = s
    BY <1>3, <1>t DEF Send
  <2> QED
    BY <1>k, <2>1, <2>2 DEF WireKnown, Known
<1>4. ASSUME NEW k \in Signals, Signal(k)
      PROVE  WireKnown'
  <2>1. /\ \A i \in DOMAIN toClient' :
             \/ i \in DOMAIN toClient /\ toClient'[i] = toClient[i]
             \/ toClient'[i].sid = 0
    BY <1>4, <1>t DEF Signal
  <2> QED
    BY <1>k, <2>1 DEF WireKnown, Known
<1>5. \/ toClient' = toClient
      \/ toClient # <<>> /\ toClient' = Tail(toClient)
      \/ \E s \in Sid, k \in Payloads, e \in BOOLEAN : Send(s, k, e)
      \/ \E k \in Signals : Signal(k)
  BY DEF Next, CallStep, CallerStep, ReadLoopStep, Environment, NucleusNext, Receive,
         CloseSocket, Begin, WriteActivate, ActivateFails, EncodeFails, Unwind,
         Reply, Expire, GiveUp, Acknowledged, Refused, Cancel, NextEvent, EndOfStream,
         DropStream, CloseStream, WriteTerminate, Write, WriteBroken, Dispatch, Incoming,
         AnswerPing, Ignore, ReadError, ReadEof, FailAll, SignalClosed, nucleusVars, vars
<1> QED
  BY <1>1, <1>2, <1>3, <1>4, <1>5

(* A frame in the channel of a call was there before, or dispatch takes it *)
(* off the wire and it is one of its stream.                               *)
WasThere(p, item) == \E j \in DOMAIN chan[p] : item = chan[p][j]

IsNext(p, item) ==
  /\ 1 \in DOMAIN toClient /\ item = toClient[1] /\ item.sid = streamId[p]
  /\ UNCHANGED sent

LEMMA ItemOrigin ==
  ASSUME SinkInv, [Next]_vars, NEW p \in Op, NEW i \in DOMAIN chan'[p], chan'[p][i] # Lost
  PROVE  /\ streamId'[p] = streamId[p] /\ streamId[p] \in Sid
         /\ WasThere(p, chan'[p][i]) \/ IsNext(p, chan'[p][i])
<1>t. /\ chan \in [Op -> Seq(Item)] /\ registry \in [Sid -> Op \cup {NoOp}]
      /\ streamId \in [Op -> 0 .. MaxId] /\ MaxId \in Nat /\ NoOp \notin Op
  BY ConnectionAssumption, NucleusAssumption DEF SinkInv, TypeInv, TypeOK
<1>1. chan'[p][i] # Lost /\ i \in DOMAIN chan'[p]
  OBVIOUS
<1>2. CASE streamId'[p] = streamId[p] /\ WasThere(p, chan'[p][i])
  <2>1. pc[p] # "idle"
    BY <1>2 DEF SinkInv, SinkParts, NothingBefore, WasThere
  <2> QED
    BY <1>2, <2>1, <1>t DEF SinkInv, TypeInv, Allocated, Sid
<1>3. ASSUME NEW o \in Op, CallStep(o) \/ CallerStep(o)
      PROVE  streamId'[p] = streamId[p] /\ WasThere(p, chan'[p][i])
  <2>1. CASE chan'[p] = chan[p]
    <3>1. ~(Begin(o) /\ p = o)
      BY <1>1, <2>1 DEF Begin, SinkInv, SinkParts, NothingBefore
    <3>2. streamId'[p] = streamId[p]
      BY <1>3, <1>t, <3>1
         DEF CallStep, CallerStep, Begin, WriteActivate, ActivateFails, EncodeFails, Unwind,
             Reply, Expire, GiveUp, Acknowledged, Refused, Cancel, NextEvent, EndOfStream,
             DropStream, CloseStream, WriteTerminate
    <3> QED
      BY <1>1, <2>1, <3>2 DEF WasThere
  <2>2. CASE chan'[p] # chan[p]
    <3>1. Take(o) /\ p = o /\ UNCHANGED streamId /\ chan[p] # <<>>
      BY <1>1, <1>3, <1>t, <2>2
         DEF CallStep, CallerStep, Begin, WriteActivate, ActivateFails, EncodeFails, Unwind,
             Reply, Expire, GiveUp, Acknowledged, Refused, Cancel, NextEvent, EndOfStream,
             DropStream, CloseStream, WriteTerminate, Take
    <3>2. chan'[p] = Tail(chan[p]) /\ chan[p] \in Seq(Item)
      BY <1>t, <3>1 DEF Take
    <3>3. i + 1 \in DOMAIN chan[p] /\ chan'[p][i] = chan[p][i + 1]
      BY <1>1, <3>1, <3>2
    <3> QED
      BY <3>1, <3>3 DEF WasThere
  <2> QED
    BY <2>1, <2>2
<1>4. CASE Dispatch
  <2> DEFINE frame == Head(toClient)
             q     == registry[frame.sid]
  <2>1. frame.sid \in Sid /\ toClient # <<>> /\ frame = toClient[1] /\ 1 \in DOMAIN toClient
    <3>1. frame.sid \in Sid
      BY <1>4, DispatchedFrame DEF SinkInv, TypeInv
    <3>2. toClient # <<>> /\ toClient \in Seq(Frame)
      BY <1>4 DEF Dispatch, Incoming, SinkInv, TypeInv, TypeOK, NucleusTypeOK
    <3> QED
      BY <3>1, <3>2, Popped
  <2>2. /\ UNCHANGED streamId
        /\ chan' = IF q # NoOp /\ Receiving(q)
                   THEN [chan EXCEPT ![q] = Append(@, frame)] ELSE chan
    BY <1>4 DEF Dispatch
  <2>3. CASE q = p /\ Receiving(p) /\ i = Len(chan[p]) + 1
    <3>1. streamId[p] = frame.sid
      BY <1>t, <2>1, <2>3 DEF SinkInv, SinkParts, SinksTracked
    <3>2. chan'[p][i] = frame
      BY <1>t, <2>2, <2>3
    <3> QED
      BY <1>4, <2>1, <2>2, <3>1, <3>2 DEF IsNext, Dispatch
  <2>4. CASE ~(q = p /\ Receiving(p) /\ i = Len(chan[p]) + 1)
    <3>1. i \in DOMAIN chan[p] /\ chan'[p][i] = chan[p][i]
      <4>1. chan'[p] = IF q = p /\ Receiving(p) THEN Append(chan[p], frame) ELSE chan[p]
        BY <1>t, <2>2
      <4>2. chan[p] \in Seq(Item)
        BY <1>t
      <4> QED
        BY <1>1, <2>4, <4>1, <4>2
    <3> QED
      BY <1>2, <2>2, <3>1 DEF WasThere
  <2> QED
    BY <2>3, <2>4
<1>5. CASE FailAll
  <2>1. chan'[p] = IF Registered(p) /\ Receiving(p) THEN Append(chan[p], Lost) ELSE chan[p]
    BY <1>5 DEF FailAll
  <2>2. chan[p] \in Seq(Item)
    BY <1>t
  <2>3. i \in DOMAIN chan[p] /\ chan'[p][i] = chan[p][i]
    BY <1>1, <2>1, <2>2
  <2> QED
    BY <1>2, <1>5, <2>3 DEF FailAll, WasThere
<1>6. CASE UNCHANGED <<chan, streamId>>
  BY <1>1, <1>2, <1>6 DEF WasThere
<1>7. \/ \E o \in Op : CallStep(o) \/ CallerStep(o)
      \/ Dispatch \/ FailAll
      \/ UNCHANGED <<chan, streamId>>
  BY DEF Next, ReadLoopStep, Environment, AnswerPing, Ignore, ReadError, ReadEof,
         SignalClosed, callVars, vars
<1> QED
  BY <1>2, <1>3, <1>4, <1>5, <1>6, <1>7

(* So the stream of a call is known when its channel holds a frame.        *)
LEMMA ChannelKnownStep ==
  ASSUME KnownInv, [Next]_vars
  PROVE  ChannelKnown'
<1>1. SUFFICES ASSUME NEW p \in Op, NEW i \in DOMAIN chan'[p], chan'[p][i] # Lost
               PROVE  stream'[streamId'[p]] # "unknown"
  BY DEF ChannelKnown, Known, Lost
<1>2. /\ streamId'[p] = streamId[p] /\ streamId[p] \in Sid
      /\ WasThere(p, chan'[p][i]) \/ IsNext(p, chan'[p][i])
  BY <1>1, ItemOrigin DEF KnownInv
<1>3. Known(streamId[p])
  BY <1>1, <1>2 DEF WasThere, IsNext, KnownInv, KnownParts, ChannelKnown, WireKnown, Sid
<1> QED
  BY <1>2, <1>3, KnownStays

(* A caller gets an EventStream for the first frame of its stream.         *)
LEMMA OpenKnownStep ==
  ASSUME KnownInv, [Next]_vars
  PROVE  OpenKnown'
<1> USE DEF KnownInv, KnownParts
<1>t. /\ chan \in [Op -> Seq(Item)] /\ pc \in [Op -> Locations]
      /\ streamId \in [Op -> 0 .. MaxId] /\ MaxId \in Nat
  BY NucleusAssumption DEF SinkInv, TypeInv, TypeOK
<1>1. SUFFICES ASSUME NEW p \in Op, pc'[p] \in Opened
               PROVE  stream'[streamId'[p]] # "unknown"
  BY DEF OpenKnown, Known
<1>2. CASE pc[p] # "idle" /\ streamId'[p] = streamId[p] /\ Known(streamId[p])
  <2>1. streamId[p] \in Sid
    BY <1>2, <1>t DEF SinkInv, TypeInv, Allocated, Sid
  <2> QED
    BY <1>2, <2>1, KnownStays
<1>3. CASE pc[p] \in Opened /\ streamId'[p] = streamId[p]
  BY <1>2, <1>3 DEF OpenKnown, Opened
<1>4. CASE Acknowledged(p)
  <2>1. chan[p] # <<>> /\ Polled(p) # Lost
    BY <1>4 DEF Acknowledged, Polled, Lost
  <2>2. 1 \in DOMAIN chan[p] /\ chan[p][1] # Lost
    BY <1>t, <2>1 DEF Polled
  <2>3. Known(streamId[p])
    BY <2>2 DEF ChannelKnown
  <2> QED
    BY <1>2, <1>4, <2>3 DEF Acknowledged
<1>5. ASSUME NEW o \in Op, CallStep(o) \/ CallerStep(o)
      PROVE  Acknowledged(p) \/ (pc[p] \in Opened /\ streamId'[p] = streamId[p])
  BY <1>1, <1>5, <1>t
     DEF CallStep, CallerStep, Begin, WriteActivate, ActivateFails, EncodeFails, Unwind,
         Reply, Expire, GiveUp, Acknowledged, Refused, Cancel, NextEvent, EndOfStream,
         DropStream, CloseStream, WriteTerminate, Goto, Opened
<1>6. CASE UNCHANGED <<pc, streamId>>
  BY <1>1, <1>3, <1>6
<1>7. (\E o \in Op : CallStep(o) \/ CallerStep(o)) \/ UNCHANGED <<pc, streamId>>
  BY DEF Next, ReadLoopStep, Environment, Dispatch, AnswerPing, Ignore, ReadError, ReadEof,
         FailAll, SignalClosed, callVars, vars
<1> QED
  BY <1>3, <1>4, <1>5, <1>6, <1>7

(* Only the close task of an EventStream writes a termination.             *)
LEMMA TerminatedKnownStep ==
  ASSUME KnownInv, [Next]_vars
  PROVE  TerminatedKnown'
<1> USE DEF KnownInv, KnownParts
<1>t. /\ toNucleus \in Seq(ClientFrame)
      /\ streamId \in [Op -> 0 .. MaxId] /\ MaxId \in Nat
  BY NucleusAssumption DEF SinkInv, TypeInv, TypeOK, NucleusTypeOK
<1>k. ASSUME NEW i \in DOMAIN toNucleus, toNucleus[i].kind = "terminate"
      PROVE  stream'[toNucleus[i].sid] # "unknown"
  <2>1. toNucleus[i] \in ClientFrame
    BY <1>t
  <2>2. toNucleus[i].sid \in Sid
    BY <1>k, <2>1 DEF ClientFrame
  <2>3. Known(toNucleus[i].sid)
    BY <1>k DEF TerminatedKnown
  <2> QED
    BY <2>2, <2>3, KnownStays
<1>1. ASSUME NEW frame, frame.kind # "terminate" \/ stream'[frame.sid] # "unknown",
             toNucleus' = Append(toNucleus, frame)
      PROVE  TerminatedKnown'
  <2>1. \A i \in DOMAIN toNucleus' :
          \/ i \in DOMAIN toNucleus /\ toNucleus'[i] = toNucleus[i]
          \/ toNucleus'[i] = frame
    BY <1>1, <1>t
  <2> QED
    BY <1>1, <1>k, <2>1 DEF TerminatedKnown, Known
<1>2. CASE toNucleus' = toNucleus
  BY <1>2, <1>k DEF TerminatedKnown, Known
<1>3. CASE toNucleus' = <<>>
  BY <1>3 DEF TerminatedKnown
<1>4. CASE toNucleus # <<>> /\ toNucleus' = Tail(toNucleus)
  <2>1. \A i \in DOMAIN toNucleus' : /\ i + 1 \in DOMAIN toNucleus
                                     /\ toNucleus'[i] = toNucleus[i + 1]
    BY <1>4, <1>t
  <2> QED
    BY <1>k, <2>1 DEF TerminatedKnown, Known
<1>5. ASSUME NEW o \in Op, WriteActivate(o)
      PROVE  TerminatedKnown'
  <2> DEFINE frame == [sid |-> streamId[o],
                       kind |-> IF o \in Subscriptions THEN "subscription" ELSE "request"]
  <2>1. toNucleus' = Append(toNucleus, frame) /\ frame.kind # "terminate"
    BY <1>5 DEF WriteActivate, Write
  <2> HIDE DEF frame
  <2> QED
    BY <1>1, <2>1
<1>6. ASSUME NEW o \in Op, WriteTerminate(o)
      PROVE  TerminatedKnown'
  <2> DEFINE frame == [sid |-> streamId[o], kind |-> "terminate"]
  <2>1. toNucleus' = Append(toNucleus, frame) \/ toNucleus' = toNucleus
    BY <1>6 DEF WriteTerminate, Write, WriteBroken
  <2>2. Known(streamId[o]) /\ streamId[o] \in Sid
    BY <1>6, <1>t
       DEF WriteTerminate, OpenKnown, Opened, SinkInv, TypeInv, Allocated, Sid
  <2>3. frame.sid = streamId[o]
    OBVIOUS
  <2>4. stream'[frame.sid] # "unknown"
    BY <2>2, <2>3, KnownStays
  <2> HIDE DEF frame
  <2> QED
    BY <1>1, <1>2, <2>1, <2>4
<1>7. CASE AnswerPing
  <2> DEFINE frame == [sid |-> 0, kind |-> "pingResponse"]
  <2>1. /\ toNucleus' = Append(toNucleus, frame) \/ toNucleus' = toNucleus
        /\ frame.kind # "terminate"
    BY <1>7 DEF AnswerPing
  <2> HIDE DEF frame
  <2> QED
    BY <1>1, <1>2, <2>1
<1>8. \/ \E o \in Op : WriteActivate(o) \/ WriteTerminate(o)
      \/ AnswerPing
      \/ toNucleus' = toNucleus \/ toNucleus' = <<>>
      \/ toNucleus # <<>> /\ toNucleus' = Tail(toNucleus)
  BY DEF Next, CallStep, CallerStep, ReadLoopStep, Environment, NucleusNext, Receive, Send,
         Signal, CloseSocket, Begin, ActivateFails, EncodeFails, Unwind,
         Reply, Expire, GiveUp, Acknowledged, Refused, Cancel, NextEvent, EndOfStream,
         DropStream, CloseStream, WriteBroken, Dispatch,
         Ignore, ReadError, ReadEof, FailAll, SignalClosed, nucleusVars, vars
<1> QED
  BY <1>2, <1>3, <1>4, <1>5, <1>6, <1>7, <1>8

LEMMA KnownInvStep == KnownInv /\ [Next]_vars => KnownInv'
<1> SUFFICES ASSUME KnownInv, [Next]_vars PROVE KnownInv'
  OBVIOUS
<1>1. SinkInv'
  BY SinkInvStep DEF KnownInv
<1> QED
  BY <1>1, WireKnownStep, ChannelKnownStep, OpenKnownStep, TerminatedKnownStep
     DEF KnownInv, KnownParts

LEMMA KnownInvInit == Init => KnownInv
<1> SUFFICES ASSUME Init PROVE KnownParts
  BY SinkInvInit DEF KnownInv
<1> QED
  BY DEF Init, NucleusInit, KnownParts, WireKnown, ChannelKnown, OpenKnown, Opened,
         TerminatedKnown

(* The nucleus never gets a TERMINATE_STREAM for a stream it has not been  *)
(* told of: it knows of the stream even before the termination is written. *)
THEOREM TerminationsFollow == Spec => []TerminateAfterActivate
<1>1. KnownInv => TerminateAfterActivate
  BY DEF KnownInv, KnownParts, TerminatedKnown, TerminateAfterActivate, Known
<1>2. Spec => []KnownInv
  BY KnownInvInit, KnownInvStep, PTL DEF Spec
<1> QED
  BY <1>1, <1>2, PTL

=============================================================================
