--------------------------- MODULE DeliveryProofs ---------------------------
(***************************************************************************)
(* Theorems about what Connection delivers to its callers: the frames of   *)
(* their own streams, in order, without loss or repetition, and nothing    *)
(* after the end.                                                          *)
(***************************************************************************)
EXTENDS ConnectionProofs, SequenceTheorems

(* A channel that holds one item is empty once that is taken.              *)
LEMMA TailOfOne ==
  ASSUME NEW S, NEW q \in Seq(S), Len(q) = 1
  PROVE  Tail(q) = <<>>
<1>1. q # <<>>
  BY EmptySeq
<1>2. Tail(q) \in Seq(S) /\ Len(Tail(q)) = Len(q) - 1
  BY <1>1, HeadTailProperties
<1>3. Len(Tail(q)) = 0
  BY <1>2
<1>4. Len(Tail(q)) \in Nat \ {0} => FALSE
  BY <1>3
<1> QED
  BY <1>2, <1>4, EmptySeq

-----------------------------------------------------------------------------
(***************************************************************************)
(* The end of a stream.  An item that ends the stream is the last of its   *)
(* channel, and whoever put it there has removed the sink: nothing can     *)
(* follow it.                                                              *)
(***************************************************************************)
EndIsLast ==
  \A o \in Op :
    /\ pc[o] = "idle" => ~final[o]
    /\ final[o] => chan[o] = <<>> /\ ~Registered(o)
    /\ \A i \in DOMAIN chan[o] : EndsStream(chan[o][i]) =>
         i = Len(chan[o]) /\ ~Registered(o)

EndInv == SinkInv /\ EndIsLast

(* A step that only empties channels and removes sinks keeps it.           *)
LEMMA EndKeep ==
  ASSUME EndInv, UNCHANGED <<streamId, final>>,
         \A s \in Sid : registry'[s] \in {registry[s], NoOp},
         \A p \in Op : /\ chan'[p] \in {chan[p], <<>>}
                       /\ pc'[p] = "idle" => pc[p] = "idle"
  PROVE  EndIsLast'
<1> USE DEF EndInv
<1>1. \A p \in Op : Registered(p)' => Registered(p)
  BY ConnectionAssumption DEF Registered, SinkInv, TypeInv, TypeOK, Sid
<1>2. SUFFICES ASSUME NEW p \in Op
               PROVE  /\ pc'[p] = "idle" => ~final'[p]
                      /\ final'[p] => chan'[p] = <<>> /\ ~Registered(p)'
                      /\ \A i \in DOMAIN chan'[p] : EndsStream(chan'[p][i]) =>
                           i = Len(chan'[p]) /\ ~Registered(p)'
  BY DEF EndIsLast, EndsStream
<1>3. CASE chan'[p] = chan[p]
  BY <1>1, <1>3 DEF EndIsLast
<1>4. CASE chan'[p] = <<>>
  BY <1>1, <1>4 DEF EndIsLast
<1> QED
  BY <1>3, <1>4

(* So does taking what a ready channel holds.                              *)
LEMMA EndTake ==
  ASSUME EndInv, NEW o \in Op, Take(o), Ready(o), pc'[o] # "idle",
         UNCHANGED <<streamId, registry>>,
         \A p \in Op \ {o} : pc'[p] = pc[p]
  PROVE  EndIsLast'
<1> USE DEF EndInv
<1>t. /\ chan \in [Op -> Seq(Item)] /\ final \in [Op -> BOOLEAN]
      /\ chan[o] \in Seq(Item)
  BY DEF SinkInv, TypeInv, TypeOK
<1>r. \A p \in Op : Registered(p)' <=> Registered(p)
  BY DEF Registered
<1>1. /\ \A p \in Op \ {o} : chan'[p] = chan[p] /\ final'[p] = final[p]
      /\ chan'[o] = IF chan[o] = <<>> THEN <<>> ELSE Tail(chan[o])
      /\ final'[o] = (final[o] \/ EndsStream(Polled(o)))
  BY <1>t DEF Take
<1>2. SUFFICES ASSUME NEW p \in Op
               PROVE  /\ pc'[p] = "idle" => ~final'[p]
                      /\ final'[p] => chan'[p] = <<>> /\ ~Registered(p)'
                      /\ \A i \in DOMAIN chan'[p] : EndsStream(chan'[p][i]) =>
                           i = Len(chan'[p]) /\ ~Registered(p)'
  BY DEF EndIsLast, EndsStream
<1>3. CASE p # o
  BY <1>1, <1>3, <1>r DEF EndIsLast
<1>4. CASE p = o /\ chan[o] = <<>>
  BY <1>1, <1>4, <1>r DEF Ready
<1>5. CASE p = o /\ chan[o] # <<>>
  <2>1. /\ Len(chan'[o]) = Len(chan[o]) - 1
        /\ \A i \in DOMAIN chan'[o] : /\ i + 1 \in DOMAIN chan[o]
                                      /\ chan'[o][i] = chan[o][i + 1]
        /\ Polled(o) = chan[o][1] /\ 1 \in DOMAIN chan[o]
    BY <1>1, <1>5, <1>t DEF Polled
  <2>2. ~final[o]
    BY <1>5 DEF EndIsLast
  <2>3. final'[o] => chan'[o] = <<>> /\ ~Registered(o)'
    <3>0. Len(chan[o]) = 1 => chan'[o] = <<>>
      <4>1. chan'[o] = Tail(chan[o])
        BY <1>1, <1>5
      <4> QED
        BY <4>1, <1>t, TailOfOne
    <3>1. SUFFICES ASSUME final'[o] PROVE Len(chan[o]) = 1 /\ ~Registered(o)
      BY <3>0, <1>r
    <3>2. EndsStream(chan[o][1])
      BY <1>1, <2>1, <2>2, <3>1
    <3> QED
      BY <2>1, <3>2 DEF EndIsLast
  <2>4. \A i \in DOMAIN chan'[o] : EndsStream(chan'[o][i]) =>
          i = Len(chan'[o]) /\ ~Registered(o)'
    BY <2>1, <1>r, <1>t DEF EndIsLast
  <2> QED
    BY <1>5, <2>3, <2>4
<1> QED
  BY <1>3, <1>4, <1>5

(* A call that begins registers no sink but its own.                       *)
LEMMA BeginOthers ==
  ASSUME EndInv, NEW o \in Op, Begin(o), NEW p \in Op \ {o}, Registered(p)'
  PROVE  Registered(p)
<1>1. registry \in [Sid -> Op \cup {NoOp}]
  BY DEF EndInv, SinkInv, TypeInv, TypeOK
<1>2. streamId'[p] = streamId[p] /\ streamId[p] \in Sid
  BY DEF Begin, Registered, EndInv, SinkInv, TypeInv, TypeOK, Sid
<1>3. registry'[streamId[p]] = registry[streamId[p]]
  BY <1>1, <1>2 DEF Begin, Registered
<1> QED
  BY <1>2, <1>3 DEF Registered

(* Every step of a call keeps it,                                          *)
LEMMA CallEnd ==
  ASSUME EndInv, NEW o \in Op, CallStep(o) \/ CallerStep(o)
  PROVE  EndIsLast'
<1>t. /\ chan \in [Op -> Seq(Item)] /\ pc \in [Op -> Locations]
      /\ registry \in [Sid -> Op \cup {NoOp}]
  BY DEF EndInv, SinkInv, TypeInv, TypeOK
<1>1. CASE Begin(o)
  <2>1. /\ UNCHANGED <<chan, final>> /\ pc[o] = "idle" /\ chan[o] = <<>>
        /\ pc' = [pc EXCEPT ![o] = "writing"]
    BY <1>1 DEF Begin, Goto, EndInv, SinkInv, SinkParts, NothingBefore
  <2>2. \A p \in Op \ {o} : Registered(p)' => Registered(p)
    BY <1>1, BeginOthers
  <2> QED
    BY <1>t, <2>1, <2>2 DEF EndInv, EndIsLast, EndsStream
<1>2. CASE WriteActivate(o)
  BY <1>2, <1>t, EndKeep DEF WriteActivate, Goto
<1>3. CASE ActivateFails(o)
  BY <1>3, <1>t, EndKeep DEF ActivateFails, Goto
<1>4. CASE EncodeFails(o)
  BY <1>4, <1>t, EndKeep DEF EncodeFails, Goto
<1>5. CASE Unwind(o)
  BY <1>5, <1>t, EndKeep DEF Unwind, Deregister, Goto
<1>6. CASE Reply(o)
  BY <1>6, <1>t, EndTake DEF Reply, Goto
<1>7. CASE Expire(o)
  BY <1>7, <1>t, EndKeep DEF Expire, Goto
<1>8. CASE GiveUp(o)
  BY <1>8, <1>t, EndKeep DEF GiveUp, Deregister, Goto
<1>9. CASE Acknowledged(o)
  BY <1>9, <1>t, EndTake DEF Acknowledged, Goto
<1>10. CASE Refused(o)
  BY <1>10, <1>t, EndTake DEF Refused, Goto
<1>11. CASE Cancel(o)
  BY <1>11, <1>t, EndKeep DEF Cancel, Goto
<1>12. CASE NextEvent(o)
  BY <1>12, <1>t, EndTake DEF NextEvent, Ready
<1>13. CASE EndOfStream(o)
  BY <1>13, <1>t, EndKeep DEF EndOfStream, Goto
<1>14. CASE DropStream(o)
  BY <1>14, <1>t, EndKeep DEF DropStream, Goto
<1>15. CASE CloseStream(o)
  BY <1>15, <1>t, EndKeep DEF CloseStream, Deregister, Goto
<1>16. CASE WriteTerminate(o)
  BY <1>16, <1>t, EndKeep DEF WriteTerminate, Goto
<1> QED
  BY <1>1, <1>2, <1>3, <1>4, <1>5, <1>6, <1>7, <1>8, <1>9, <1>10, <1>11, <1>12,
     <1>13, <1>14, <1>15, <1>16 DEF CallStep, CallerStep

(* An item put into the channel of a registered call follows none that     *)
(* ends the stream.                                                        *)
LEMMA EndAppend ==
  ASSUME EndInv, NEW q \in Op, Registered(q), NEW item \in Item,
         chan'[q] = Append(chan[q], item), UNCHANGED final,
         EndsStream(item) => ~Registered(q)'
  PROVE  /\ ~final'[q]
         /\ \A i \in DOMAIN chan'[q] : EndsStream(chan'[q][i]) =>
              i = Len(chan'[q]) /\ ~Registered(q)'
<1>t. chan[q] \in Seq(Item)
  BY DEF EndInv, SinkInv, TypeInv, TypeOK
<1>1. ~final[q] /\ \A i \in DOMAIN chan[q] : ~EndsStream(chan[q][i])
  BY DEF EndInv, EndIsLast
<1>2. /\ Len(chan'[q]) = Len(chan[q]) + 1
      /\ \A i \in DOMAIN chan'[q] : chan'[q][i] = IF i = Len(chan[q]) + 1 THEN item
                                                  ELSE chan[q][i]
      /\ \A i \in DOMAIN chan'[q] : i # Len(chan[q]) + 1 => i \in DOMAIN chan[q]
  BY <1>t
<1>3. \A i \in DOMAIN chan'[q] : EndsStream(chan'[q][i]) =>
        i = Len(chan[q]) + 1 /\ EndsStream(item)
  BY <1>1, <1>2
<1> QED
  BY <1>1, <1>2, <1>3

(* dispatch keeps it,                                                      *)
LEMMA DispatchEnd ==
  ASSUME EndInv, Dispatch
  PROVE  EndIsLast'
<1> USE DEF EndInv, SinkInv
<1> DEFINE frame == Head(toClient)
           q     == registry[frame.sid]
<1>0. frame \in Item /\ frame.sid \in Sid
  BY DispatchedFrame DEF TypeInv, Item
<1>t. /\ registry \in [Sid -> Op \cup {NoOp}] /\ chan \in [Op -> Seq(Item)]
      /\ NoOp \notin Op
  BY ConnectionAssumption DEF TypeInv, TypeOK
<1>u. UNCHANGED <<pc, streamId, final>>
  BY DEF Dispatch
<1>1. /\ registry' = IF StaysRegistered(q, frame) THEN registry
                     ELSE [registry EXCEPT ![frame.sid] = NoOp]
      /\ chan' = IF q # NoOp /\ Receiving(q)
                 THEN [chan EXCEPT ![q] = Append(@, frame)] ELSE chan
  BY DEF Dispatch
<1>2. \A s \in Sid : registry'[s] \in {registry[s], NoOp}
  BY <1>1, <1>t
<1>3. CASE q \notin Op \/ ~Receiving(q)
  BY <1>1, <1>2, <1>3, <1>t, <1>u, EndKeep
<1>4. ASSUME NEW r \in Op, r = q, Receiving(r)
      PROVE  EndIsLast'
  <2>1. Registered(r) /\ streamId[r] = frame.sid
    BY <1>0, <1>t, <1>4 DEF SinkParts, SinksTracked, Registered, Sid
  <2>2. chan' = [chan EXCEPT ![r] = Append(@, frame)]
    BY <1>1, <1>4, <1>t
  <2>3. EndsStream(frame) => ~Registered(r)'
    BY <1>0, <1>1, <1>4, <1>t, <1>u, <2>1 DEF Registered, StaysRegistered
  <2>4. /\ ~final'[r]
        /\ \A i \in DOMAIN chan'[r] : EndsStream(chan'[r][i]) =>
             i = Len(chan'[r]) /\ ~Registered(r)'
    <3>1. chan'[r] = Append(chan[r], frame)
      BY <2>2, <1>t
    <3> QED
      BY <1>0, <1>u, <2>1, <2>3, <3>1, EndAppend
  <2>5. \A p \in Op \ {r} : chan'[p] = chan[p] /\ (Registered(p)' => Registered(p))
    <3>1. \A p \in Op \ {r} : chan'[p] = chan[p]
      BY <2>2, <1>t
    <3>2. \A p \in Op : Registered(p)' => Registered(p)
      BY <1>2, <1>t, <1>u DEF Registered, TypeInv, TypeOK, Sid
    <3> QED
      BY <3>1, <3>2
  <2> QED
    BY <2>4, <2>5, <1>u DEF EndIsLast, EndsStream
<1> QED
  BY <1>3, <1>4

(* and so does fail_all.                                                   *)
LEMMA FailAllEnd ==
  ASSUME EndInv, FailAll
  PROVE  EndIsLast'
<1>t. chan \in [Op -> Seq(Item)] /\ Lost \in Item
  BY DEF EndInv, SinkInv, TypeInv, TypeOK, Item
<1>u. UNCHANGED <<pc, streamId, final>>
  BY DEF FailAll
<1>0. \A p \in Op : ~Registered(p)'
  BY ConnectionAssumption DEF FailAll, Registered, EndInv, SinkInv, TypeInv, TypeOK, Sid
<1>1. SUFFICES ASSUME NEW p \in Op
               PROVE  /\ pc'[p] = "idle" => ~final'[p]
                      /\ final'[p] => chan'[p] = <<>> /\ ~Registered(p)'
                      /\ \A i \in DOMAIN chan'[p] : EndsStream(chan'[p][i]) =>
                           i = Len(chan'[p]) /\ ~Registered(p)'
  BY DEF EndIsLast, EndsStream
<1>2. CASE Registered(p) /\ Receiving(p)
  <2>1. chan'[p] = Append(chan[p], Lost)
    BY <1>2 DEF FailAll
  <2>2. /\ ~final'[p]
        /\ \A i \in DOMAIN chan'[p] : EndsStream(chan'[p][i]) =>
             i = Len(chan'[p]) /\ ~Registered(p)'
    BY <1>0, <1>2, <1>t, <1>u, <2>1, EndAppend
  <2> QED
    BY <2>2
<1>3. CASE ~(Registered(p) /\ Receiving(p))
  <2>1. chan'[p] = chan[p]
    BY <1>3 DEF FailAll
  <2> QED
    BY <1>0, <1>u, <2>1 DEF EndInv, EndIsLast
<1> QED
  BY <1>2, <1>3

LEMMA OtherEnd ==
  ASSUME EndInv, UNCHANGED <<registry, pc, streamId, chan, final>>
  PROVE  EndIsLast'
BY DEF EndInv, EndIsLast, Registered, EndsStream

LEMMA EndInvStep == EndInv /\ [Next]_vars => EndInv'
<1> SUFFICES ASSUME EndInv, [Next]_vars PROVE EndInv'
  OBVIOUS
<1>1. SinkInv'
  BY SinkInvStep DEF EndInv
<1>2. EndIsLast'
  <2>1. ASSUME NEW o \in Op, CallStep(o) \/ CallerStep(o) PROVE EndIsLast'
    BY <2>1, CallEnd
  <2>2. CASE Dispatch
    BY <2>2, DispatchEnd
  <2>3. CASE FailAll
    BY <2>3, FailAllEnd
  <2>4. CASE AnswerPing \/ Ignore \/ ReadError \/ ReadEof \/ SignalClosed
    BY <2>4, OtherEnd DEF AnswerPing, Ignore, ReadError, ReadEof, SignalClosed, callVars
  <2>5. CASE Environment
    BY <2>5, OtherEnd DEF Environment, callVars
  <2>6. CASE UNCHANGED vars
    BY <2>6, OtherEnd DEF vars, callVars
  <2> QED
    BY <2>1, <2>2, <2>3, <2>4, <2>5, <2>6 DEF Next, ReadLoopStep
<1> QED
  BY <1>1, <1>2 DEF EndInv

LEMMA EndInvInit == Init => EndInv
<1> SUFFICES ASSUME Init PROVE EndIsLast
  BY SinkInvInit DEF EndInv
<1> QED
  BY DEF Init, EndIsLast, Registered

LEMMA EndInvAlways == Spec => []EndInv
BY EndInvInit, EndInvStep, PTL DEF Spec

(* Nothing follows the item that ends a stream: not in a channel, and not  *)
(* after the caller has been handed it.                                    *)
THEOREM NothingFollowsTheEnd == Spec => []NothingAfterTheEnd
<1>1. EndInv => NothingAfterTheEnd
  <2> SUFFICES ASSUME EndInv, NEW o \in Op
               PROVE  /\ final[o] => chan[o] = <<>>
                      /\ \A i \in DOMAIN chan[o] :
                           i < Len(chan[o]) => ~EndsStream(chan[o][i])
    BY DEF NothingAfterTheEnd
  <2>1. Len(chan[o]) \in Nat /\ DOMAIN chan[o] = 1 .. Len(chan[o])
    BY DEF EndInv, SinkInv, TypeInv, TypeOK
  <2> QED
    BY <2>1 DEF EndInv, EndIsLast
<1> QED
  BY <1>1, EndInvAlways, PTL

-----------------------------------------------------------------------------
(***************************************************************************)
(* Order.  The frames of a stream are on the wire by increasing rank, and  *)
(* those the nucleus has sent and the channel has not received are all on  *)
(* the wire; so the first of them there is the next one due.               *)
(***************************************************************************)
FreshIds ==
  /\ \A i \in DOMAIN toNucleus : toNucleus[i].sid < nextStreamId
  /\ \A s \in Sid : s >= nextStreamId => stream[s] = "unknown" /\ sent[s] = 0
  /\ \A o \in Op : pc[o] = "idle" => last[o] = 0

WireOrdered ==
  \A i \in DOMAIN toClient : toClient[i].sid # 0 =>
    /\ toClient[i].n <= sent[toClient[i].sid]
    /\ \A j \in DOMAIN toClient :
         i < j /\ toClient[j].sid = toClient[i].sid => toClient[i].n < toClient[j].n

(* How many frames of its stream a call has been given. *)
Given(o) == last[o] + Len(chan[o])

NextDue(o) ==
  Registered(o) /\ Receiving(o) =>
    /\ Given(o) <= sent[streamId[o]]
    /\ \A i \in DOMAIN toClient : toClient[i].sid = streamId[o] =>
         Given(o) < toClient[i].n
    /\ \A k \in Nat : Given(o) < k /\ k <= sent[streamId[o]] =>
         \E i \in DOMAIN toClient : toClient[i].sid = streamId[o] /\ toClient[i].n = k

InOrder(o) ==
  \A i \in DOMAIN chan[o] :
    chan[o][i] # Lost => /\ chan[o][i].sid = streamId[o]
                         /\ chan[o][i].n = last[o] + i

OrderParts ==
  FreshIds /\ WireOrdered /\ \A o \in Op : NextDue(o) /\ InOrder(o)

OrderInv == EndInv /\ OrderParts

(* An id not yet allocated is unknown to the nucleus.  The steps that do   *)
(* not touch what the nucleus knows or reads keep it so,                   *)
LEMMA FreshKeep ==
  ASSUME OrderInv, UNCHANGED <<toNucleus, stream, sent, nextStreamId>>,
         \A p \in Op : pc'[p] = "idle" => pc[p] = "idle" /\ last'[p] = last[p]
  PROVE  FreshIds'
BY DEF OrderInv, OrderParts, FreshIds

(* so does writing a frame of a call that has begun, or of stream 0,       *)
LEMMA FreshWrite ==
  ASSUME OrderInv, NEW frame \in ClientFrame, frame.sid < nextStreamId,
         toNucleus' = Append(toNucleus, frame) \/ toNucleus' = toNucleus,
         UNCHANGED <<stream, sent, nextStreamId>>,
         \A p \in Op : pc'[p] = "idle" => pc[p] = "idle" /\ last'[p] = last[p]
  PROVE  FreshIds'
<1>t. toNucleus \in Seq(ClientFrame)
  BY DEF OrderInv, EndInv, SinkInv, TypeInv, TypeOK, NucleusTypeOK
<1>1. \A i \in DOMAIN toNucleus' : toNucleus'[i].sid < nextStreamId
  BY <1>t DEF OrderInv, OrderParts, FreshIds
<1> QED
  BY <1>1 DEF OrderInv, OrderParts, FreshIds

(* allocating an id,                                                       *)
LEMMA FreshBegin ==
  ASSUME OrderInv, NEW o \in Op, Begin(o)
  PROVE  FreshIds'
<1>t. /\ nextStreamId \in Nat /\ nextStreamId' = nextStreamId + 1
      /\ toNucleus \in Seq(ClientFrame) /\ pc \in [Op -> Locations]
  BY DEF OrderInv, EndInv, SinkInv, TypeInv, TypeOK, NucleusTypeOK, Begin, FetchAdd, Sid
<1>1. \A i \in DOMAIN toNucleus : toNucleus[i].sid \in Int
  BY <1>t DEF ClientFrame, Sid
<1> QED
  BY <1>t, <1>1 DEF OrderInv, OrderParts, FreshIds, Begin, Goto, nucleusVars, Sid

(* and the environment.                                                    *)
LEMMA FreshEnvironment ==
  ASSUME OrderInv, Environment
  PROVE  FreshIds'
<1> USE DEF OrderInv, OrderParts
<1>t. /\ toNucleus \in Seq(ClientFrame)
      /\ stream \in [Sid -> StreamState] /\ sent \in [Sid -> Nat]
      /\ nextStreamId \in Int
  BY DEF EndInv, SinkInv, TypeInv, TypeOK, NucleusTypeOK
<1>u. UNCHANGED <<nextStreamId, pc, last>>
  BY DEF Environment, callVars
<1>1. CASE Receive
  <2>1. /\ Head(toNucleus) = toNucleus[1] /\ 1 \in DOMAIN toNucleus
        /\ \A i \in DOMAIN toNucleus' : /\ i + 1 \in DOMAIN toNucleus
                                        /\ toNucleus'[i] = toNucleus[i + 1]
    BY <1>1, <1>t DEF Receive
  <2>2. \A s \in Sid : s >= nextStreamId => stream'[s] = stream[s] /\ sent'[s] = sent[s]
    <3>1. SUFFICES ASSUME NEW s \in Sid, s >= nextStreamId
                   PROVE  stream'[s] = stream[s] /\ sent'[s] = sent[s]
      OBVIOUS
    <3>2. Head(toNucleus).sid < nextStreamId
      BY <2>1 DEF FreshIds
    <3> QED
      BY <1>1, <1>t, <3>1, <3>2 DEF Receive, Sid
  <2> QED
    BY <1>u, <2>1, <2>2 DEF FreshIds
<1>2. ASSUME NEW r \in Sid, NEW k \in Payloads, NEW e \in BOOLEAN, Send(r, k, e)
      PROVE  FreshIds'
  <2>1. stream[r] # "unknown"
    BY <1>2, <1>t DEF Send, Quota
  <2>2. \A s \in Sid : s >= nextStreamId => stream'[s] = stream[s] /\ sent'[s] = sent[s]
    BY <1>2, <1>t, <2>1 DEF Send, FreshIds
  <2> QED
    BY <1>2, <1>u, <2>2 DEF Send, FreshIds
<1>3. ASSUME NEW k \in Signals, Signal(k)
      PROVE  FreshIds'
  BY <1>3, <1>u DEF Signal, FreshIds
<1>4. CASE CloseSocket
  BY <1>4, <1>u DEF CloseSocket, FreshIds
<1> QED
  BY <1>1, <1>2, <1>3, <1>4 DEF Environment, NucleusNext

(* The frames of a stream stay in order when the first frame on the wire   *)
(* is read,                                                                *)
LEMMA FrameSid ==
  ASSUME NEW f \in Frame
  PROVE  f.sid \in Sid \cup {0} /\ f.n \in Nat
<1>1. \/ f \in [sid : Sid, kind : AllPayloads, term : BOOLEAN, n : Nat \ {0}]
      \/ f \in [sid : {0}, kind : AllSignals, term : {FALSE}, n : {0}]
  BY DEF Frame
<1>2. CASE f \in [sid : Sid, kind : AllPayloads, term : BOOLEAN, n : Nat \ {0}]
  BY <1>2
<1>3. CASE f \in [sid : {0}, kind : AllSignals, term : {FALSE}, n : {0}]
  BY <1>3
<1> QED
  BY <1>1, <1>2, <1>3

LEMMA WireType ==
  ASSUME OrderInv
  PROVE  /\ toClient \in Seq(Frame)
         /\ sent \in [Sid -> Nat]
         /\ \A i \in DOMAIN toClient : /\ toClient[i].sid \in Sid \cup {0}
                                       /\ toClient[i].n \in Nat
<1>1. toClient \in Seq(Frame) /\ sent \in [Sid -> Nat]
  BY DEF OrderInv, EndInv, SinkInv, TypeInv, TypeOK, NucleusTypeOK
<1>2. \A f \in Frame : f.sid \in Sid \cup {0} /\ f.n \in Nat
  BY FrameSid
<1>3. \A i \in DOMAIN toClient : toClient[i] \in Frame
  BY <1>1
<1> QED
  BY <1>1, <1>2, <1>3

LEMMA WireRanks ==
  ASSUME OrderInv, NEW i \in DOMAIN toClient, toClient[i].sid # 0
  PROVE  toClient[i].n > 0
<1>1. toClient[i] \in Frame
  BY DEF OrderInv, EndInv, SinkInv, TypeInv, TypeOK, NucleusTypeOK
<1>2. toClient[i] \notin [sid : {0}, kind : AllSignals, term : {FALSE}, n : {0}]
  OBVIOUS
<1>3. toClient[i] \in [sid : Sid, kind : AllPayloads, term : BOOLEAN, n : Nat \ {0}]
  BY <1>1, <1>2 DEF Frame
<1> QED
  BY <1>3

LEMMA Popped ==
  ASSUME NEW q \in Seq(Frame), q # <<>>
  PROVE  /\ Head(q) = q[1] /\ 1 \in DOMAIN q
         /\ \A i \in DOMAIN Tail(q) : i + 1 \in DOMAIN q /\ Tail(q)[i] = q[i + 1]
         /\ \A i \in DOMAIN q : i = 1 \/ (i - 1 \in DOMAIN Tail(q) /\ Tail(q)[i - 1] = q[i])
OBVIOUS

LEMMA WirePop ==
  ASSUME OrderInv, toClient # <<>>, toClient' = Tail(toClient), UNCHANGED sent
  PROVE  WireOrdered'
<1>1. \A i \in DOMAIN toClient' : /\ i \in Nat /\ i + 1 \in DOMAIN toClient
                                  /\ toClient'[i] = toClient[i + 1]
  BY WireType, Popped
<1>2. SUFFICES ASSUME NEW i \in DOMAIN toClient', toClient'[i].sid # 0
               PROVE  /\ toClient'[i].n <= sent'[toClient'[i].sid]
                      /\ \A j \in DOMAIN toClient' :
                           i < j /\ toClient'[j].sid = toClient'[i].sid
                             => toClient'[i].n < toClient'[j].n
  BY DEF WireOrdered
<1>3. toClient'[i].n <= sent'[toClient'[i].sid]
  BY <1>1, <1>2 DEF OrderInv, OrderParts, WireOrdered
<1>4. ASSUME NEW j \in DOMAIN toClient', i < j, toClient'[j].sid = toClient'[i].sid
      PROVE  toClient'[i].n < toClient'[j].n
  <2>1. /\ i + 1 \in DOMAIN toClient /\ toClient'[i] = toClient[i + 1]
        /\ j + 1 \in DOMAIN toClient /\ toClient'[j] = toClient[j + 1]
        /\ i + 1 < j + 1
    BY <1>1, <1>4
  <2> QED
    BY <1>2, <1>4, <2>1 DEF OrderInv, OrderParts, WireOrdered
<1> QED
  BY <1>3, <1>4

(* and when the nucleus sends one.                                         *)
LEMMA WirePush ==
  ASSUME OrderInv, Environment
  PROVE  WireOrdered'
<1> USE WireType DEF OrderInv, OrderParts
<1>1. CASE Receive \/ CloseSocket
  BY <1>1 DEF Receive, CloseSocket, WireOrdered
<1>2. ASSUME NEW s \in Sid, NEW k \in Payloads, NEW e \in BOOLEAN, Send(s, k, e)
      PROVE  WireOrdered'
  <2> DEFINE new == [sid |-> s, kind |-> k, term |-> e, n |-> sent[s] + 1]
             L   == Len(toClient)
  <2>1. toClient' = Append(toClient, new) /\ sent' = [sent EXCEPT ![s] = @ + 1]
    BY <1>2 DEF Send
  <2>2. /\ DOMAIN toClient' = 1 .. L + 1 /\ DOMAIN toClient = 1 .. L /\ L \in Nat
        /\ toClient'[L + 1] = new
        /\ \A i \in 1 .. L : toClient'[i] = toClient[i]
    BY <2>1
  <2>3. \A i \in 1 .. L : toClient[i].sid # 0 =>
          /\ toClient[i].n <= sent[toClient[i].sid]
          /\ toClient[i].n <= sent'[toClient[i].sid]
          /\ toClient[i].sid = s => toClient[i].n < sent[s] + 1
    <3>1. SUFFICES ASSUME NEW i \in DOMAIN toClient, toClient[i].sid # 0
                   PROVE  /\ toClient[i].n <= sent[toClient[i].sid]
                          /\ toClient[i].n <= sent'[toClient[i].sid]
                          /\ toClient[i].sid = s => toClient[i].n < sent[s] + 1
      BY <2>2
    <3>2. toClient[i].n <= sent[toClient[i].sid]
      BY <3>1 DEF WireOrdered
    <3>3. toClient[i].n \in Nat /\ toClient[i].sid \in Sid /\ sent \in [Sid -> Nat]
      BY <3>1, WireType
    <3> HIDE DEF OrderInv, OrderParts
    <3>4. sent' = [sent EXCEPT ![s] = sent[s] + 1] /\ s \in Sid
      BY <2>1
    <3> QED
      BY <3>2, <3>3, <3>4
  <2>4. SUFFICES ASSUME NEW i \in 1 .. L + 1, toClient'[i].sid # 0
                 PROVE  /\ toClient'[i].n <= sent'[toClient'[i].sid]
                        /\ \A j \in 1 .. L + 1 :
                             i < j /\ toClient'[j].sid = toClient'[i].sid
                               => toClient'[i].n < toClient'[j].n
    BY <2>2 DEF WireOrdered
  <2>5. CASE i = L + 1
    BY <2>1, <2>2, <2>5
  <2>6. CASE i # L + 1
    <3>1. i \in 1 .. L /\ toClient'[i] = toClient[i]
      BY <2>2, <2>6
    <3>2. toClient'[i].n <= sent'[toClient'[i].sid]
      BY <2>3, <2>4, <3>1
    <3>3. ASSUME NEW j \in 1 .. L + 1, i < j, toClient'[j].sid = toClient'[i].sid
          PROVE  toClient'[i].n < toClient'[j].n
      <4>1. CASE j = L + 1
        BY <2>2, <2>3, <2>4, <3>1, <3>3, <4>1
      <4>2. CASE j # L + 1
        <5>1. j \in 1 .. L /\ toClient'[j] = toClient[j]
          BY <2>2, <4>2
        <5>2. /\ i \in DOMAIN toClient /\ j \in DOMAIN toClient
              /\ toClient[i].sid # 0 /\ toClient[j].sid = toClient[i].sid
          BY <2>2, <2>4, <3>1, <3>3, <5>1
        <5> HIDE DEF L, new
        <5>3. toClient[i].n < toClient[j].n
          BY <3>3, <5>2 DEF WireOrdered
        <5> QED
          BY <3>1, <5>1, <5>3
      <4> QED
        BY <4>1, <4>2
    <3> QED
      BY <3>2, <3>3
  <2> QED
    BY <2>5, <2>6
<1>3. ASSUME NEW k \in Signals, Signal(k)
      PROVE  WireOrdered'
  <2> DEFINE new == [sid |-> 0, kind |-> k, term |-> FALSE, n |-> 0]
             L   == Len(toClient)
  <2>1. toClient' = Append(toClient, new) /\ sent' = sent
    BY <1>3 DEF Signal
  <2>2. /\ DOMAIN toClient' = 1 .. L + 1 /\ DOMAIN toClient = 1 .. L
        /\ toClient'[L + 1].sid = 0
        /\ \A i \in 1 .. L : toClient'[i] = toClient[i]
    BY <2>1
  <2> QED
    BY <2>1, <2>2 DEF WireOrdered
<1> QED
  BY <1>1, <1>2, <1>3 DEF Environment, NucleusNext

-----------------------------------------------------------------------------
(* The types the lemmas about one call need.                               *)
LEMMA OrderType ==
  ASSUME OrderInv
  PROVE  /\ registry \in [Sid -> Op \cup {NoOp}] /\ NoOp \notin Op
         /\ pc \in [Op -> Locations] /\ streamId \in [Op -> 0 .. MaxId]
         /\ chan \in [Op -> Seq(Item)] /\ last \in [Op -> Nat]
         /\ \A o \in Op : /\ Len(chan[o]) \in Nat /\ Given(o) \in Nat
                          /\ DOMAIN chan[o] = 1 .. Len(chan[o])
                          /\ Registered(o) => streamId[o] \in Sid
         /\ MaxId \in Nat
<1>1. /\ registry \in [Sid -> Op \cup {NoOp}] /\ NoOp \notin Op
      /\ pc \in [Op -> Locations] /\ streamId \in [Op -> 0 .. MaxId]
      /\ chan \in [Op -> Seq(Item)] /\ last \in [Op -> Nat] /\ MaxId \in Nat
  BY ConnectionAssumption, NucleusAssumption
     DEF OrderInv, EndInv, SinkInv, TypeInv, TypeOK
<1> QED
  BY <1>1 DEF Given, Registered, Sid

(* Where the wire stands still, a call whose channel does too, or which no *)
(* longer receives, is as it was.                                          *)
LEMMA OrderKeep ==
  ASSUME OrderInv, NEW p \in Op, UNCHANGED <<toClient, sent>>,
         streamId'[p] = streamId[p], last'[p] = last[p],
         chan'[p] \in {chan[p], <<>>},
         Registered(p)' /\ Receiving(p)' =>
           Registered(p) /\ Receiving(p) /\ chan'[p] = chan[p]
  PROVE  NextDue(p)' /\ InOrder(p)'
<1> USE DEF OrderInv, OrderParts
<1>1. NextDue(p)'
  <2>1. CASE Registered(p)' /\ Receiving(p)'
    BY <2>1 DEF NextDue, Given
  <2>2. CASE ~(Registered(p)' /\ Receiving(p)')
    BY <2>2 DEF NextDue
  <2> QED
    BY <2>1, <2>2
<1>2. InOrder(p)'
  BY DEF InOrder, Lost
<1> QED
  BY <1>1, <1>2

(* What the caller takes leaves its channel as much as it adds to what it  *)
(* has been handed.                                                        *)
LEMMA OrderTake ==
  ASSUME OrderInv, NEW o \in Op, Take(o), Ready(o), Receiving(o),
         UNCHANGED <<toClient, sent, streamId, registry>>
  PROVE  NextDue(o)' /\ InOrder(o)'
<1>t. chan \in [Op -> Seq(Item)] /\ chan[o] \in Seq(Item)
      /\ last \in [Op -> Nat] /\ last[o] \in Nat
  BY OrderType
<1>e. EndIsLast /\ NextDue(o) /\ InOrder(o)
  BY DEF OrderInv, OrderParts, EndInv
<1>r. Registered(o)' <=> Registered(o)
  BY DEF Registered
<1>1. /\ chan'[o] = IF chan[o] = <<>> THEN <<>> ELSE Tail(chan[o])
      /\ last'[o] = IF Polled(o) = Lost THEN last[o] ELSE Polled(o).n
  BY <1>t DEF Take
<1>2. CASE chan[o] = <<>>
  BY <1>t, <1>r, <1>1, <1>2 DEF Ready, NextDue, InOrder
<1>3. CASE chan[o] # <<>>
  <2>1. /\ Polled(o) = chan[o][1] /\ 1 \in DOMAIN chan[o]
        /\ Len(chan'[o]) = Len(chan[o]) - 1
        /\ \A i \in DOMAIN chan'[o] : /\ i \in Nat /\ i + 1 \in DOMAIN chan[o]
                                      /\ chan'[o][i] = chan[o][i + 1]
    BY <1>1, <1>3, <1>t DEF Polled
  <2>2. CASE Polled(o) = Lost
    <3>1. EndsStream(chan[o][1])
      BY <2>1, <2>2 DEF EndsStream, Lost
    <3>2. Len(chan[o]) = 1 /\ ~Registered(o)
      BY <1>e, <2>1, <3>1 DEF EndIsLast
    <3>3. chan'[o] = <<>>
      <4>1. chan'[o] = Tail(chan[o])
        BY <1>1, <1>3
      <4> QED
        BY <4>1, <1>t, <3>2, TailOfOne
    <3> QED
      BY <1>r, <3>2, <3>3 DEF NextDue, InOrder
  <2>3. CASE Polled(o) # Lost
    <3>1. last'[o] = last[o] + 1
      BY <1>e, <1>1, <2>1, <2>3 DEF InOrder
    <3>2. Given(o)' = Given(o)
      BY <1>t, <2>1, <3>1 DEF Given
    <3>3. NextDue(o)'
      BY <1>e, <1>r, <3>2 DEF NextDue, Receiving
    <3>4. InOrder(o)'
      <4>1. SUFFICES ASSUME NEW i \in DOMAIN chan'[o], chan'[o][i] # Lost
                     PROVE  /\ chan'[o][i].sid = streamId'[o]
                            /\ chan'[o][i].n = last'[o] + i
        BY DEF InOrder, Lost
      <4>2. /\ i \in Nat /\ i + 1 \in DOMAIN chan[o]
            /\ chan'[o][i] = chan[o][i + 1]
        BY <2>1
      <4>3. /\ chan[o][i + 1].sid = streamId[o]
            /\ chan[o][i + 1].n = last[o] + (i + 1)
        BY <1>e, <4>1, <4>2 DEF InOrder
      <4>4. last[o] + (i + 1) = (last[o] + 1) + i
        BY <1>t, <4>2
      <4> QED
        BY <3>1, <4>2, <4>3, <4>4
    <3> QED
      BY <3>3, <3>4
  <2> QED
    BY <2>2, <2>3
<1> QED
  BY <1>2, <1>3

(* A call that begins has a new id, of which there is nothing on the wire. *)
LEMMA BeginOrder ==
  ASSUME OrderInv, NEW o \in Op, Begin(o), NEW p \in Op
  PROVE  NextDue(p)' /\ InOrder(p)'
<1> USE DEF OrderInv, OrderParts
<1>0. /\ nextStreamId \in Sid /\ pc[o] = "idle" /\ chan[o] = <<>> /\ last[o] = 0
      /\ sent[nextStreamId] = 0
      /\ streamId' = [streamId EXCEPT ![o] = nextStreamId]
      /\ registry' = [registry EXCEPT ![nextStreamId] = o]
      /\ pc' = [pc EXCEPT ![o] = "writing"]
      /\ UNCHANGED <<chan, last, toClient, sent>>
  BY DEF Begin, FetchAdd, Goto, nucleusVars, FreshIds, EndInv, SinkInv, SinkParts,
         NothingBefore, Sid
<1>1. CASE p = o
  <2>1. /\ streamId'[p] = nextStreamId /\ chan'[p] = <<>> /\ last'[p] = 0
        /\ Given(p)' = 0
    BY <1>0, <1>1, OrderType DEF Given
  <2>2. \A i \in DOMAIN toClient : toClient[i].sid # nextStreamId
    <3>1. SUFFICES ASSUME NEW i \in DOMAIN toClient, toClient[i].sid = nextStreamId
                   PROVE  FALSE
      OBVIOUS
    <3>2. toClient[i].n <= 0
      BY <1>0, <3>1 DEF WireOrdered, Sid
    <3>3. toClient[i].n > 0
      BY <1>0, <3>1, WireRanks DEF Sid
    <3>4. toClient[i].n \in Nat
      BY WireType
    <3> QED
      BY <3>2, <3>3, <3>4
  <2> QED
    BY <1>0, <2>1, <2>2 DEF NextDue, InOrder
<1>2. CASE p # o
  <2>1. Registered(p)' => Registered(p)
    BY <1>1, <1>2, BeginOthers
  <2>2. streamId'[p] = streamId[p] /\ pc'[p] = pc[p]
    BY <1>0, <1>2, OrderType
  <2> QED
    BY <1>0, <2>1, <2>2, OrderKeep DEF Receiving
<1> QED
  BY <1>1, <1>2

(* Every step of a call keeps the order,                                   *)
LEMMA CallOrder ==
  ASSUME OrderInv, NEW o \in Op, CallStep(o) \/ CallerStep(o)
  PROVE  \A p \in Op : NextDue(p)' /\ InOrder(p)'
<1> SUFFICES ASSUME NEW p \in Op PROVE NextDue(p)' /\ InOrder(p)'
  OBVIOUS
<1>t. /\ registry \in [Sid -> Op \cup {NoOp}] /\ NoOp \notin Op
      /\ pc \in [Op -> Locations] /\ streamId \in [Op -> 0 .. MaxId]
      /\ chan \in [Op -> Seq(Item)] /\ last \in [Op -> Nat]
      /\ \A s \in Sid : s # 0
      /\ Registered(p) => streamId[p] \in Sid
  BY OrderType DEF Sid
<1>1. CASE Begin(o)
  BY <1>1, BeginOrder
<1>2. CASE WriteActivate(o)
  BY <1>2, <1>t, OrderKeep DEF WriteActivate, Write, Goto, Registered, Receiving
<1>3. CASE ActivateFails(o)
  BY <1>3, <1>t, OrderKeep DEF ActivateFails, WriteBroken, Goto, Registered, Receiving
<1>4. CASE EncodeFails(o)
  BY <1>4, <1>t, OrderKeep DEF EncodeFails, nucleusVars, Goto, Registered, Receiving
<1>5. CASE Unwind(o)
  BY <1>5, <1>t, OrderKeep
     DEF Unwind, nucleusVars, Deregister, Goto, Registered, Receiving
<1>6. CASE Reply(o)
  <2>1. CASE p = o
    BY <1>6, <2>1, OrderTake DEF Reply, nucleusVars, Receiving
  <2>2. CASE p # o
    BY <1>6, <2>2, <1>t, OrderKeep DEF Reply, Take, nucleusVars, Goto, Registered, Receiving
  <2> QED
    BY <2>1, <2>2
<1>7. CASE Expire(o)
  BY <1>7, <1>t, OrderKeep DEF Expire, nucleusVars, Goto, Registered, Receiving
<1>8. CASE GiveUp(o)
  BY <1>8, <1>t, OrderKeep
     DEF GiveUp, nucleusVars, Deregister, Goto, Registered, Receiving
<1>9. CASE Acknowledged(o)
  <2>1. CASE p = o
    BY <1>9, <2>1, OrderTake DEF Acknowledged, nucleusVars, Receiving
  <2>2. CASE p # o
    BY <1>9, <2>2, <1>t, OrderKeep
       DEF Acknowledged, Take, nucleusVars, Goto, Registered, Receiving
  <2> QED
    BY <2>1, <2>2
<1>10. CASE Refused(o)
  <2>1. CASE p = o
    BY <1>10, <2>1, OrderTake DEF Refused, nucleusVars, Receiving
  <2>2. CASE p # o
    BY <1>10, <2>2, <1>t, OrderKeep
       DEF Refused, Take, nucleusVars, Goto, Registered, Receiving
  <2> QED
    BY <2>1, <2>2
<1>11. CASE Cancel(o)
  BY <1>11, <1>t, OrderKeep DEF Cancel, nucleusVars, Goto, Registered, Receiving
<1>12. CASE NextEvent(o)
  <2>1. CASE p = o
    BY <1>12, <2>1, OrderTake DEF NextEvent, nucleusVars, Ready, Receiving
  <2>2. CASE p # o
    BY <1>12, <2>2, <1>t, OrderKeep DEF NextEvent, Take, nucleusVars, Registered, Receiving
  <2> QED
    BY <2>1, <2>2
<1>13. CASE EndOfStream(o)
  BY <1>13, <1>t, OrderKeep DEF EndOfStream, nucleusVars, Goto, Registered, Receiving
<1>14. CASE DropStream(o)
  BY <1>14, <1>t, OrderKeep DEF DropStream, nucleusVars, Goto, Registered, Receiving
<1>15. CASE CloseStream(o)
  BY <1>15, <1>t, OrderKeep
     DEF CloseStream, nucleusVars, Deregister, Goto, Registered, Receiving
<1>16. CASE WriteTerminate(o)
  BY <1>16, <1>t, OrderKeep
     DEF WriteTerminate, Write, WriteBroken, Goto, Registered, Receiving
<1> QED
  BY <1>1, <1>2, <1>3, <1>4, <1>5, <1>6, <1>7, <1>8, <1>9, <1>10, <1>11, <1>12,
     <1>13, <1>14, <1>15, <1>16 DEF CallStep, CallerStep

(* A frame read off the wire keeps the order for a call whose stream it    *)
(* does not belong to and whose channel stands still,                      *)
LEMMA OrderSkip ==
  ASSUME OrderInv, NEW p \in Op, toClient # <<>>, toClient' = Tail(toClient),
         UNCHANGED sent, streamId'[p] = streamId[p], last'[p] = last[p],
         chan'[p] = chan[p],
         Registered(p)' /\ Receiving(p)' =>
           Registered(p) /\ Receiving(p) /\ Head(toClient).sid # streamId[p]
  PROVE  NextDue(p)' /\ InOrder(p)'
<1>1. InOrder(p)'
  BY DEF OrderInv, OrderParts, InOrder, Lost
<1>2. NextDue(p)'
  <2>1. SUFFICES ASSUME Registered(p)', Receiving(p)'
                 PROVE  /\ Given(p) <= sent[streamId[p]]
                        /\ \A i \in DOMAIN toClient' : toClient'[i].sid = streamId[p] =>
                             Given(p) < toClient'[i].n
                        /\ \A k \in Nat : Given(p) < k /\ k <= sent[streamId[p]] =>
                             \E i \in DOMAIN toClient' : /\ toClient'[i].sid = streamId[p]
                                                         /\ toClient'[i].n = k
    BY DEF NextDue, Given
  <2>2. Registered(p) /\ Receiving(p) /\ NextDue(p) /\ toClient[1].sid # streamId[p]
    BY <2>1, WireType, Popped DEF OrderInv, OrderParts
  <2>3. /\ \A i \in DOMAIN toClient' : /\ i + 1 \in DOMAIN toClient
                                       /\ toClient'[i] = toClient[i + 1]
        /\ \A i \in DOMAIN toClient :
             i = 1 \/ (i - 1 \in DOMAIN toClient' /\ toClient'[i - 1] = toClient[i])
    BY WireType, Popped
  <2>4. ASSUME NEW k \in Nat, Given(p) < k, k <= sent[streamId[p]]
        PROVE  \E i \in DOMAIN toClient' : /\ toClient'[i].sid = streamId[p]
                                           /\ toClient'[i].n = k
    <3>1. PICK i \in DOMAIN toClient : toClient[i].sid = streamId[p] /\ toClient[i].n = k
      BY <2>2, <2>4 DEF NextDue
    <3>2. i - 1 \in DOMAIN toClient' /\ toClient'[i - 1] = toClient[i]
      BY <2>2, <2>3, <3>1
    <3> QED
      BY <3>1, <3>2
  <2> QED
    BY <2>2, <2>3, <2>4 DEF NextDue
<1> QED
  BY <1>1, <1>2

(* and for the call it is given to: it is the next one due, or the frame   *)
(* of the next rank would be on the wire behind it.                        *)
LEMMA OrderGive ==
  ASSUME OrderInv, NEW p \in Op, Registered(p), Receiving(p), toClient # <<>>,
         Head(toClient).sid = streamId[p], toClient' = Tail(toClient),
         UNCHANGED sent, streamId'[p] = streamId[p], last'[p] = last[p],
         chan'[p] = Append(chan[p], Head(toClient))
  PROVE  NextDue(p)' /\ InOrder(p)'
<1> DEFINE frame == Head(toClient)
           sid   == streamId[p]
<1>t. /\ chan[p] \in Seq(Item) /\ Given(p) \in Nat /\ Len(chan[p]) \in Nat
      /\ last[p] \in Nat /\ sid \in Sid /\ sent[sid] \in Nat /\ sid # 0
  BY OrderType, WireType DEF Sid
<1>i. NextDue(p) /\ InOrder(p)
  BY DEF OrderInv, OrderParts
<1>f. /\ frame = toClient[1] /\ 1 \in DOMAIN toClient /\ frame.n \in Nat
      /\ \A i \in DOMAIN toClient : i \in Nat /\ toClient[i].n \in Nat
      /\ \A i \in DOMAIN toClient : i = 1 \/ 1 < i
  BY WireType, Popped
<1>w. /\ frame.n <= sent[sid]
      /\ \A j \in DOMAIN toClient : j # 1 /\ toClient[j].sid = sid => frame.n < toClient[j].n
  BY <1>f, <1>t DEF OrderInv, OrderParts, WireOrdered
<1>1. frame.n = Given(p) + 1
  <2>1. Given(p) < frame.n
    BY <1>f, <1>i DEF NextDue
  <2>2. PICK i \in DOMAIN toClient : toClient[i].sid = sid /\ toClient[i].n = Given(p) + 1
    <3>1. Given(p) + 1 \in Nat /\ Given(p) < Given(p) + 1 /\ Given(p) + 1 <= sent[sid]
      BY <1>f, <1>t, <1>w, <2>1
    <3> QED
      BY <1>i, <3>1 DEF NextDue
  <2>3. i = 1
    <3>1. SUFFICES ASSUME i # 1 PROVE FALSE
      OBVIOUS
    <3>2. frame.n < Given(p) + 1
      BY <1>w, <2>2, <3>1
    <3> QED
      BY <1>f, <1>t, <2>1, <3>2
  <2> QED
    BY <1>f, <2>2, <2>3
<1>2. /\ Len(chan'[p]) = Len(chan[p]) + 1
      /\ \A i \in DOMAIN chan'[p] :
           IF i = Len(chan[p]) + 1 THEN chan'[p][i] = frame
           ELSE i \in DOMAIN chan[p] /\ chan'[p][i] = chan[p][i]
  BY <1>t
<1>3. Given(p)' = Given(p) + 1
  BY <1>t, <1>2 DEF Given
<1>4. InOrder(p)'
  <2>1. SUFFICES ASSUME NEW i \in DOMAIN chan'[p], chan'[p][i] # Lost
                 PROVE  chan'[p][i].sid = sid /\ chan'[p][i].n = last[p] + i
    BY DEF InOrder, Lost
  <2>2. CASE i = Len(chan[p]) + 1
    <3>1. Given(p) + 1 = last[p] + i
      BY <1>t, <2>2 DEF Given
    <3> QED
      BY <1>1, <1>2, <2>2, <3>1
  <2>3. CASE i # Len(chan[p]) + 1
    BY <1>i, <1>2, <2>1, <2>3 DEF InOrder
  <2> QED
    BY <2>2, <2>3
<1>5. NextDue(p)'
  <2>1. SUFFICES /\ Given(p) + 1 <= sent[sid]
                 /\ \A i \in DOMAIN toClient' : toClient'[i].sid = sid =>
                      Given(p) + 1 < toClient'[i].n
                 /\ \A k \in Nat : Given(p) + 1 < k /\ k <= sent[sid] =>
                      \E i \in DOMAIN toClient' : toClient'[i].sid = sid /\ toClient'[i].n = k
    BY <1>3 DEF NextDue
  <2>2. /\ \A i \in DOMAIN toClient' : /\ i + 1 \in DOMAIN toClient /\ i + 1 # 1
                                       /\ toClient'[i] = toClient[i + 1]
        /\ \A i \in DOMAIN toClient :
             i = 1 \/ (i - 1 \in DOMAIN toClient' /\ toClient'[i - 1] = toClient[i])
    BY WireType, Popped
  <2>3. ASSUME NEW k \in Nat, Given(p) + 1 < k, k <= sent[sid]
        PROVE  \E i \in DOMAIN toClient' : toClient'[i].sid = sid /\ toClient'[i].n = k
    <3>1. Given(p) < k
      BY <1>t, <2>3
    <3>2. PICK i \in DOMAIN toClient : toClient[i].sid = sid /\ toClient[i].n = k
      BY <1>i, <2>3, <3>1 DEF NextDue
    <3>3. i # 1
      BY <1>1, <1>f, <1>t, <2>3, <3>2
    <3>4. i - 1 \in DOMAIN toClient' /\ toClient'[i - 1] = toClient[i]
      BY <2>2, <3>3
    <3> QED
      BY <3>2, <3>4
  <2>4. ASSUME NEW i \in DOMAIN toClient', toClient'[i].sid = sid
        PROVE  Given(p) + 1 < toClient'[i].n
    <3>1. i + 1 \in DOMAIN toClient /\ i + 1 # 1 /\ toClient'[i] = toClient[i + 1]
      BY <2>2, <2>4
    <3>2. frame.n < toClient[i + 1].n
      BY <1>w, <2>4, <3>1
    <3> QED
      BY <1>1, <3>1, <3>2
  <2> QED
    BY <1>1, <1>w, <2>3, <2>4
<1> QED
  BY <1>4, <1>5

(* So dispatch keeps the order,                                            *)
LEMMA DispatchOrder ==
  ASSUME OrderInv, Dispatch, NEW p \in Op
  PROVE  NextDue(p)' /\ InOrder(p)'
<1> DEFINE frame == Head(toClient)
           q     == registry[frame.sid]
<1>0. frame.sid \in Sid
  BY DispatchedFrame DEF OrderInv, EndInv, SinkInv, TypeInv
<1>t. /\ registry \in [Sid -> Op \cup {NoOp}] /\ NoOp \notin Op
      /\ chan \in [Op -> Seq(Item)]
      /\ Registered(p) => streamId[p] \in Sid
      /\ \A s \in Sid : s # 0
  BY OrderType DEF Sid
<1>u. /\ UNCHANGED <<sent, pc, streamId, last>>
      /\ toClient # <<>> /\ toClient' = Tail(toClient)
  BY DEF Dispatch, Incoming
<1>1. /\ registry' = IF StaysRegistered(q, frame) THEN registry
                     ELSE [registry EXCEPT ![frame.sid] = NoOp]
      /\ chan' = IF q # NoOp /\ Receiving(q)
                 THEN [chan EXCEPT ![q] = Append(@, frame)] ELSE chan
  BY DEF Dispatch
<1>2. /\ Receiving(p)' <=> Receiving(p)
      /\ Registered(p)' => Registered(p)
  <2>1. Receiving(p)' <=> Receiving(p)
    BY <1>u DEF Receiving
  <2>2. streamId[p] # 0 => streamId[p] \in Sid
    BY OrderType DEF Sid
  <2>3. \A s \in Sid : registry'[s] \in {registry[s], NoOp}
    BY <1>1, <1>t
  <2> QED
    BY <1>t, <1>u, <2>1, <2>2, <2>3 DEF Registered
<1>3. CASE p = q /\ Receiving(p)
  <2>1. streamId[p] = frame.sid /\ Registered(p)
    BY <1>0, <1>3, <1>t DEF OrderInv, EndInv, SinkInv, SinkParts, SinksTracked, Registered
  <2>2. chan'[p] = Append(chan[p], frame)
    BY <1>1, <1>3, <1>t
  <2> QED
    BY <1>3, <1>u, <2>1, <2>2, OrderGive
<1>4. CASE ~(p = q /\ Receiving(p))
  <2>1. chan'[p] = chan[p]
    BY <1>1, <1>4, <1>t
  <2>2. Registered(p) /\ Receiving(p) => frame.sid # streamId[p]
    BY <1>4 DEF Registered
  <2> QED
    BY <1>2, <1>u, <2>1, <2>2, OrderSkip
<1> QED
  BY <1>3, <1>4

(* and so does fail_all, after which nothing is registered.                *)
LEMMA FailAllOrder ==
  ASSUME OrderInv, FailAll, NEW p \in Op
  PROVE  NextDue(p)' /\ InOrder(p)'
<1>0. ~Registered(p)'
  BY OrderType DEF FailAll, Registered, Sid
<1>t. chan[p] \in Seq(Item)
  BY OrderType
<1>i. InOrder(p)
  BY DEF OrderInv, OrderParts
<1>u. UNCHANGED <<streamId, last>>
  BY DEF FailAll
<1>1. CASE Registered(p) /\ Receiving(p)
  <2>1. chan'[p] = Append(chan[p], Lost)
    BY <1>1 DEF FailAll
  <2>2. \A i \in DOMAIN chan'[p] :
          IF i = Len(chan[p]) + 1 THEN chan'[p][i] = Lost
          ELSE i \in DOMAIN chan[p] /\ chan'[p][i] = chan[p][i]
    BY <1>t, <2>1
  <2>3. InOrder(p)'
    BY <1>i, <1>u, <2>2 DEF InOrder, Lost
  <2> QED
    BY <1>0, <2>3 DEF NextDue
<1>2. CASE ~(Registered(p) /\ Receiving(p))
  <2>1. chan'[p] = chan[p]
    BY <1>2 DEF FailAll
  <2> QED
    BY <1>0, <1>i, <1>u, <2>1 DEF InOrder, NextDue, Lost
<1> QED
  BY <1>1, <1>2

(* The other frames are those of stream 0, which no call has.              *)
LEMMA SignalOrder ==
  ASSUME OrderInv, AnswerPing \/ Ignore \/ ReadError, NEW p \in Op
  PROVE  NextDue(p)' /\ InOrder(p)'
<1>u. UNCHANGED <<sent, pc, registry, streamId, chan, last>>
  BY DEF AnswerPing, Ignore, ReadError, callVars
<1>1. toClient # <<>> /\ toClient' = Tail(toClient)
  BY DEF AnswerPing, Ignore, ReadError, Incoming
<1>2. Head(toClient).kind \notin AllPayloads /\ Head(toClient) \in Frame
  <2>1. Head(toClient).kind \notin AllPayloads
    BY DEF AnswerPing, Ignore, ReadError, Incoming, AllPayloads
  <2>2. Head(toClient) \in Frame
    BY <1>1, WireType
  <2> QED
    BY <2>1, <2>2
<1>3. Head(toClient).sid = 0
  <2>1. Head(toClient) \notin [sid : Sid, kind : AllPayloads, term : BOOLEAN, n : Nat \ {0}]
    BY <1>2
  <2>2. Head(toClient) \in [sid : {0}, kind : AllSignals, term : {FALSE}, n : {0}]
    BY <1>2, <2>1 DEF Frame
  <2> QED
    BY <2>2
<1>4. /\ Registered(p)' <=> Registered(p)
      /\ Receiving(p)' <=> Receiving(p)
  BY <1>u DEF Registered, Receiving
<1>5. Registered(p) => Head(toClient).sid # streamId[p]
  BY <1>3 DEF Registered
<1> QED
  BY <1>u, <1>1, <1>4, <1>5, OrderSkip

(* What the nucleus sends has the next rank of its stream.                 *)
LEMMA EnvironmentOrder ==
  ASSUME OrderInv, Environment, NEW p \in Op
  PROVE  NextDue(p)' /\ InOrder(p)'
<1>u. UNCHANGED <<pc, registry, streamId, chan, last>>
  BY DEF Environment, callVars
<1>r. /\ Registered(p)' <=> Registered(p)
      /\ Receiving(p)' <=> Receiving(p)
      /\ Given(p)' = Given(p)
  BY <1>u DEF Registered, Receiving, Given
<1>i. NextDue(p) /\ InOrder(p)
  BY DEF OrderInv, OrderParts
<1>1. InOrder(p)'
  BY <1>u, <1>i DEF InOrder, Lost
<1>2. CASE Receive \/ CloseSocket
  BY <1>1, <1>2, <1>u, <1>r, <1>i DEF Receive, CloseSocket, NextDue
<1>3. ASSUME NEW s \in Sid, NEW k \in Payloads, NEW t \in BOOLEAN, Send(s, k, t)
      PROVE  NextDue(p)'
  <2> DEFINE new == [sid |-> s, kind |-> k, term |-> t, n |-> sent[s] + 1]
             L   == Len(toClient)
             sid == streamId[p]
  <2>1. SUFFICES ASSUME Registered(p), Receiving(p)
                 PROVE  /\ Given(p) <= sent'[sid]
                        /\ \A i \in DOMAIN toClient' : toClient'[i].sid = sid =>
                             Given(p) < toClient'[i].n
                        /\ \A m \in Nat : Given(p) < m /\ m <= sent'[sid] =>
                             \E i \in DOMAIN toClient' :
                               toClient'[i].sid = sid /\ toClient'[i].n = m
    BY <1>r, <1>u DEF NextDue
  <2>t. /\ sid \in Sid /\ Given(p) \in Nat /\ sent \in [Sid -> Nat]
        /\ sent[sid] \in Nat /\ toClient \in Seq(Frame)
    BY <2>1, OrderType, WireType
  <2>2. /\ toClient' = Append(toClient, new)
        /\ sent'[sid] = IF sid = s THEN sent[sid] + 1 ELSE sent[sid]
    BY <1>3, <2>t DEF Send
  <2>3. /\ L + 1 \in DOMAIN toClient' /\ toClient'[L + 1] = new
        /\ \A i \in DOMAIN toClient : i \in DOMAIN toClient' /\ toClient'[i] = toClient[i]
        /\ \A i \in DOMAIN toClient' :
             i = L + 1 \/ (i \in DOMAIN toClient /\ toClient'[i] = toClient[i])
    BY <2>2, <2>t
  <2>4. /\ Given(p) <= sent[sid]
        /\ \A i \in DOMAIN toClient : toClient[i].sid = sid => Given(p) < toClient[i].n
        /\ \A m \in Nat : Given(p) < m /\ m <= sent[sid] =>
             \E i \in DOMAIN toClient : toClient[i].sid = sid /\ toClient[i].n = m
    BY <1>i, <2>1 DEF NextDue
  <2>5. ASSUME NEW i \in DOMAIN toClient', toClient'[i].sid = sid
        PROVE  Given(p) < toClient'[i].n
    <3>1. CASE i = L + 1
      <4>1. new.sid = s /\ new.n = sent[s] + 1
        OBVIOUS
      <4> QED
        BY <2>3, <2>4, <2>5, <2>t, <3>1, <4>1
    <3>2. CASE i # L + 1
      BY <2>3, <2>4, <2>5, <3>2
    <3> QED
      BY <3>1, <3>2
  <2>6. ASSUME NEW m \in Nat, Given(p) < m, m <= sent'[sid]
        PROVE  \E i \in DOMAIN toClient' : toClient'[i].sid = sid /\ toClient'[i].n = m
    <3>1. CASE m <= sent[sid]
      <4>1. PICK i \in DOMAIN toClient : toClient[i].sid = sid /\ toClient[i].n = m
        BY <2>4, <2>6, <3>1
      <4> QED
        BY <2>3, <4>1
    <3>2. CASE ~(m <= sent[sid])
      <4>1. sid = s /\ m = sent[s] + 1
        BY <2>2, <2>6, <2>t, <3>2
      <4>2. new.sid = s /\ new.n = sent[s] + 1
        OBVIOUS
      <4> QED
        BY <2>3, <4>1, <4>2
    <3> QED
      BY <3>1, <3>2
  <2>7. Given(p) <= sent'[sid]
    BY <2>2, <2>4, <2>t
  <2> QED
    BY <2>5, <2>6, <2>7
<1>4. ASSUME NEW k \in Signals, Signal(k)
      PROVE  NextDue(p)'
  <2> DEFINE new == [sid |-> 0, kind |-> k, term |-> FALSE, n |-> 0]
             L   == Len(toClient)
  <2>1. toClient' = Append(toClient, new) /\ sent' = sent /\ toClient \in Seq(Frame)
    BY <1>4, WireType DEF Signal
  <2>2. /\ toClient'[L + 1].sid = 0
        /\ \A i \in DOMAIN toClient : i \in DOMAIN toClient' /\ toClient'[i] = toClient[i]
        /\ \A i \in DOMAIN toClient' :
             i = L + 1 \/ (i \in DOMAIN toClient /\ toClient'[i] = toClient[i])
    BY <2>1
  <2>3. SUFFICES ASSUME Registered(p), Receiving(p) PROVE NextDue(p)'
    BY <1>r DEF NextDue
  <2>4. streamId[p] # 0
    BY <2>3 DEF Registered
  <2> QED
    BY <1>i, <1>r, <1>u, <2>1, <2>2, <2>3, <2>4 DEF NextDue
<1> QED
  BY <1>1, <1>2, <1>3, <1>4 DEF Environment, NucleusNext

(* Ids stay fresh, and frames ordered, over every step of a call.          *)
LEMMA CallWire ==
  ASSUME OrderInv, NEW o \in Op, CallStep(o) \/ CallerStep(o)
  PROVE  FreshIds' /\ WireOrdered'
<1>t. pc \in [Op -> Locations] /\ last \in [Op -> Nat]
  BY OrderType
<1>w. UNCHANGED <<toClient, sent>>
  BY DEF CallStep, CallerStep, Begin, WriteActivate, ActivateFails, EncodeFails, Unwind,
         Reply, Expire, GiveUp, Acknowledged, Refused, Cancel, NextEvent, EndOfStream,
         DropStream, CloseStream, WriteTerminate, Write, WriteBroken, nucleusVars
<1>1. WireOrdered'
  BY <1>w DEF OrderInv, OrderParts, WireOrdered
<1>2. CASE Begin(o)
  BY <1>1, <1>2, FreshBegin
<1>3. CASE WriteActivate(o) \/ WriteTerminate(o)
  <2>1. streamId[o] < nextStreamId /\ streamId[o] \in Sid
    BY <1>3, OrderType
       DEF OrderInv, EndInv, SinkInv, SinkParts, UniqueIds, TypeInv, Allocated,
           WriteActivate, WriteTerminate, Sid
  <2>2. \A kind \in {"request", "subscription", "terminate"} :
          /\ [sid |-> streamId[o], kind |-> kind] \in ClientFrame
          /\ [sid |-> streamId[o], kind |-> kind].sid < nextStreamId
    BY <2>1 DEF ClientFrame
  <2>3. \E kind \in {"request", "subscription", "terminate"} :
          \/ toNucleus' = Append(toNucleus, [sid |-> streamId[o], kind |-> kind])
          \/ toNucleus' = toNucleus
    BY <1>3 DEF WriteActivate, WriteTerminate, Write, WriteBroken
  <2>4. PICK kind \in {"request", "subscription", "terminate"} :
          \/ toNucleus' = Append(toNucleus, [sid |-> streamId[o], kind |-> kind])
          \/ toNucleus' = toNucleus
    BY <2>3
  <2>5. /\ UNCHANGED <<stream, sent, nextStreamId>>
        /\ \A p \in Op : pc'[p] = "idle" => pc[p] = "idle" /\ last'[p] = last[p]
    BY <1>3, <1>t DEF WriteActivate, WriteTerminate, Write, WriteBroken, Goto
  <2> QED
    BY <1>1, <2>2, <2>4, <2>5, FreshWrite
<1>4. CASE ~(Begin(o) \/ WriteActivate(o) \/ WriteTerminate(o))
  <2>1. UNCHANGED <<toNucleus, stream, sent, nextStreamId>>
    BY <1>4
       DEF CallStep, CallerStep, ActivateFails, EncodeFails, Unwind, Reply, Expire, GiveUp,
           Acknowledged, Refused, Cancel, NextEvent, EndOfStream, DropStream, CloseStream,
           WriteBroken, nucleusVars
  <2>2. \A p \in Op : pc'[p] = "idle" => pc[p] = "idle" /\ last'[p] = last[p]
    BY <1>4, <1>t
       DEF CallStep, CallerStep, ActivateFails, EncodeFails, Unwind, Reply, Expire, GiveUp,
           Acknowledged, Refused, Cancel, NextEvent, EndOfStream, DropStream, CloseStream,
           Take, Goto
  <2> QED
    BY <1>1, <2>1, <2>2, FreshKeep
<1> QED
  BY <1>2, <1>3, <1>4

(* and of the read loop.                                                   *)
LEMMA ReadLoopWire ==
  ASSUME OrderInv, ReadLoopStep
  PROVE  FreshIds' /\ WireOrdered'
<1>u. UNCHANGED <<stream, sent, nextStreamId, pc, last>>
  BY DEF ReadLoopStep, Dispatch, AnswerPing, Ignore, ReadError, ReadEof, FailAll,
         SignalClosed, nucleusVars, callVars
<1>1. WireOrdered'
  <2>1. CASE Dispatch \/ AnswerPing \/ Ignore \/ ReadError
    BY <2>1, <1>u, WirePop DEF Dispatch, AnswerPing, Ignore, ReadError, Incoming
  <2>2. CASE ReadEof \/ FailAll \/ SignalClosed
    BY <2>2 DEF ReadEof, FailAll, SignalClosed, nucleusVars, OrderInv, OrderParts,
                WireOrdered
  <2> QED
    BY <2>1, <2>2 DEF ReadLoopStep
<1>2. FreshIds'
  <2>1. CASE AnswerPing
    <3> DEFINE pong == [sid |-> 0, kind |-> "pingResponse"]
    <3>1. pong \in ClientFrame
      BY DEF ClientFrame
    <3>2. pong.sid < nextStreamId
      BY DEF OrderInv, EndInv, SinkInv, TypeInv, TypeOK
    <3>3. toNucleus' = Append(toNucleus, pong) \/ toNucleus' = toNucleus
      BY <2>1 DEF AnswerPing
    <3> HIDE DEF pong
    <3> QED
      BY <1>u, <3>1, <3>2, <3>3, FreshWrite
  <2>2. CASE ~AnswerPing
    <3>1. UNCHANGED toNucleus
      BY <2>2 DEF ReadLoopStep, Dispatch, Ignore, ReadError, ReadEof, FailAll,
                  SignalClosed, nucleusVars
    <3> QED
      BY <1>u, <3>1, FreshKeep
  <2> QED
    BY <2>1, <2>2
<1> QED
  BY <1>1, <1>2

LEMMA OrderInvStep == OrderInv /\ [Next]_vars => OrderInv'
<1> SUFFICES ASSUME OrderInv, [Next]_vars PROVE OrderInv'
  OBVIOUS
<1>1. EndInv'
  BY EndInvStep DEF OrderInv
<1>2. OrderParts'
  <2>1. ASSUME NEW o \in Op, CallStep(o) \/ CallerStep(o) PROVE OrderParts'
    BY <2>1, CallWire, CallOrder DEF OrderParts
  <2>2. CASE ReadLoopStep
    <3>1. ASSUME NEW p \in Op PROVE NextDue(p)' /\ InOrder(p)'
      <4>1. CASE Dispatch
        BY <4>1, DispatchOrder
      <4>2. CASE AnswerPing \/ Ignore \/ ReadError
        BY <4>2, SignalOrder
      <4>3. CASE ReadEof \/ SignalClosed
        BY <4>3, OrderKeep
           DEF ReadEof, SignalClosed, nucleusVars, callVars, Registered, Receiving
      <4>4. CASE FailAll
        BY <4>4, FailAllOrder
      <4> QED
        BY <2>2, <4>1, <4>2, <4>3, <4>4 DEF ReadLoopStep
    <3> QED
      BY <2>2, <3>1, ReadLoopWire DEF OrderParts
  <2>3. CASE Environment
    BY <2>3, FreshEnvironment, WirePush, EnvironmentOrder DEF OrderParts
  <2>4. CASE UNCHANGED vars
    <3>1. ASSUME NEW p \in Op PROVE NextDue(p)' /\ InOrder(p)'
      BY <2>4, OrderKeep DEF vars, nucleusVars, callVars, Registered, Receiving
    <3>2. FreshIds'
      BY <2>4, FreshKeep DEF vars, nucleusVars, callVars
    <3>3. WireOrdered'
      BY <2>4 DEF vars, nucleusVars, OrderInv, OrderParts, WireOrdered
    <3> QED
      BY <3>1, <3>2, <3>3 DEF OrderParts
  <2> QED
    BY <2>1, <2>2, <2>3, <2>4 DEF Next
<1> QED
  BY <1>1, <1>2 DEF OrderInv

LEMMA OrderInvInit == Init => OrderInv
<1> SUFFICES ASSUME Init PROVE OrderParts
  BY EndInvInit DEF OrderInv
<1> QED
  BY NucleusAssumption
     DEF Init, NucleusInit, FirstStreamId, OrderParts, FreshIds, WireOrdered, NextDue,
         InOrder, Given, Registered, Sid

LEMMA OrderInvAlways == Spec => []OrderInv
BY OrderInvInit, OrderInvStep, PTL DEF Spec

(* The channel of a call holds the frames of its own stream, in the order  *)
(* the nucleus sent them, none lost or repeated since the last one the     *)
(* caller was handed.                                                      *)
THEOREM FramesAreInOrder == Spec => []InOrderDelivery
<1>1. OrderInv => InOrderDelivery
  BY DEF OrderInv, OrderParts, InOrder, InOrderDelivery
<1> QED
  BY <1>1, OrderInvAlways, PTL

=============================================================================
