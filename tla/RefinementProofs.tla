-------------------------- MODULE RefinementProofs --------------------------
(***************************************************************************)
(* Connection implements IpcCalls: every step of the connection is a step  *)
(* of the abstract specification, or one it does not see.                  *)
(***************************************************************************)
EXTENDS TerminationProofs

-----------------------------------------------------------------------------
(***************************************************************************)
(* What the mapping needs beyond the order of frames: nothing was handed   *)
(* over before the first answer; a channel holds only what was sent; and   *)
(* the channel of a subscription without a sink ends with the item that    *)
(* ends its stream, if the caller does not have it already.                *)
(***************************************************************************)
FirstPending ==
  \A o \in Op : pc[o] \in {"idle", "writing", "waiting", "expired"} => last[o] = 0

SentBound ==
  \A o \in Op : \A i \in DOMAIN chan[o] :
    chan[o][i] # Lost => chan[o][i].n <= sent[streamId[o]]

Listening == {"writing", "waiting", "streaming"}

Ends(o) == final[o] \/ (chan[o] # <<>> /\ EndsStream(chan[o][Len(chan[o])]))

StreamEnds ==
  \A o \in Subscriptions : pc[o] \in Listening /\ ~Registered(o) => Ends(o)

OnlySubscriptions ==
  \A o \in Op : pc[o] \in {"streaming", "ended"} => o \in Subscriptions

CallsInv ==
  OrderInv /\ OnlySubscriptions /\ FirstPending /\ SentBound /\ StreamEnds

LEMMA CallsType ==
  ASSUME CallsInv
  PROVE  /\ SinkInv /\ EndInv /\ OrderInv
         /\ pc \in [Op -> Locations] /\ outcome \in [Op -> Outcomes]
         /\ streamId \in [Op -> 0 .. MaxId] /\ MaxId \in Nat
         /\ registry \in [Sid -> Op \cup {NoOp}] /\ NoOp \notin Op
         /\ chan \in [Op -> Seq(Item)] /\ last \in [Op -> Nat]
         /\ final \in [Op -> BOOLEAN] /\ sent \in [Sid -> Nat]
         /\ Subscriptions \subseteq Op
         /\ \A o \in Op : streamId[o] = 0 <=> pc[o] = "idle"
BY ConnectionAssumption, NucleusAssumption
   DEF CallsInv, OrderInv, EndInv, SinkInv, TypeInv, TypeOK, NucleusTypeOK, Allocated

(* The first parts.                                                        *)
LEMMA OnlySubscriptionsStep ==
  ASSUME CallsInv, [Next]_vars
  PROVE  OnlySubscriptions'
<1>t. pc \in [Op -> Locations]
  BY CallsType
<1>1. ASSUME NEW o \in Op, CallStep(o) \/ CallerStep(o)
      PROVE  OnlySubscriptions'
  BY <1>1, <1>t
     DEF CallsInv, OnlySubscriptions, CallStep, CallerStep, Begin, WriteActivate,
         ActivateFails, EncodeFails, Unwind, Reply, Expire, GiveUp, Acknowledged, Refused,
         Cancel, NextEvent, EndOfStream, DropStream, CloseStream, WriteTerminate, Goto
<1>2. CASE UNCHANGED pc
  BY <1>2 DEF CallsInv, OnlySubscriptions
<1>3. (\E o \in Op : CallStep(o) \/ CallerStep(o)) \/ UNCHANGED pc
  BY DEF Next, ReadLoopStep, Environment, Dispatch, AnswerPing, Ignore, ReadError, ReadEof,
         FailAll, SignalClosed, callVars, vars
<1> QED
  BY <1>1, <1>2, <1>3

LEMMA FirstPendingStep ==
  ASSUME CallsInv, [Next]_vars
  PROVE  FirstPending'
<1>t. pc \in [Op -> Locations] /\ last \in [Op -> Nat]
  BY CallsType
<1>1. ASSUME NEW o \in Op, CallStep(o) \/ CallerStep(o)
      PROVE  FirstPending'
  BY <1>1, <1>t
     DEF CallsInv, FirstPending, CallStep, CallerStep, Begin, WriteActivate, ActivateFails,
         EncodeFails, Unwind, Reply, Expire, GiveUp, Acknowledged, Refused, Cancel,
         NextEvent, EndOfStream, DropStream, CloseStream, WriteTerminate, Take, Goto
<1>2. CASE UNCHANGED <<pc, last>>
  BY <1>2 DEF CallsInv, FirstPending
<1>3. (\E o \in Op : CallStep(o) \/ CallerStep(o)) \/ UNCHANGED <<pc, last>>
  BY DEF Next, ReadLoopStep, Environment, Dispatch, AnswerPing, Ignore, ReadError, ReadEof,
         FailAll, SignalClosed, callVars, vars
<1> QED
  BY <1>1, <1>2, <1>3

(* The nucleus does not take back what it has sent.                        *)
LEMMA SentGrows ==
  ASSUME CallsInv, [Next]_vars, NEW s \in Sid
  PROVE  sent[s] <= sent'[s] /\ sent[s] \in Nat /\ sent'[s] \in Nat
<1>t. sent \in [Sid -> Nat]
  BY CallsType
<1>1. CASE \E r \in Sid, k \in Payloads, e \in BOOLEAN : Send(r, k, e)
  BY <1>1, <1>t DEF Send
<1>2. CASE UNCHANGED sent
  BY <1>2, <1>t
<1>3. UNCHANGED sent \/ \E r \in Sid, k \in Payloads, e \in BOOLEAN : Send(r, k, e)
  BY DEF Next, CallStep, CallerStep, ReadLoopStep, Environment, NucleusNext, Signal, Receive,
         CloseSocket, Begin, WriteActivate, ActivateFails, EncodeFails, Unwind,
         Reply, Expire, GiveUp, Acknowledged, Refused, Cancel, NextEvent, EndOfStream,
         DropStream, CloseStream, WriteTerminate, Write, WriteBroken, Dispatch,
         AnswerPing, Ignore, ReadError, ReadEof, FailAll, SignalClosed, nucleusVars, vars
<1> QED
  BY <1>1, <1>2, <1>3

LEMMA SentBoundStep ==
  ASSUME CallsInv, [Next]_vars
  PROVE  SentBound'
<1>1. SUFFICES ASSUME NEW p \in Op, NEW i \in DOMAIN chan'[p], chan'[p][i] # Lost
               PROVE  chan'[p][i].n <= sent'[streamId'[p]]
  BY DEF SentBound, Lost
<1>2. /\ streamId'[p] = streamId[p] /\ streamId[p] \in Sid /\ streamId[p] # 0
      /\ WasThere(p, chan'[p][i]) \/ IsNext(p, chan'[p][i])
  BY <1>1, ItemOrigin, CallsType DEF Sid
<1>3. /\ sent[streamId[p]] <= sent'[streamId[p]]
      /\ sent[streamId[p]] \in Nat /\ sent'[streamId[p]] \in Nat
  BY <1>2, SentGrows
<1>4. chan'[p][i].n \in Nat
  <2>1. CASE WasThere(p, chan'[p][i])
    <3>1. chan'[p][i] \in Item
      BY <2>1, CallsType DEF WasThere
    <3> QED
      BY <3>1 DEF Item, Lost
  <2>2. CASE IsNext(p, chan'[p][i])
    BY <2>2, CallsType, WireType DEF IsNext
  <2> QED
    BY <1>2, <2>1, <2>2
<1>5. chan'[p][i].n <= sent[streamId[p]]
  <2>1. CASE WasThere(p, chan'[p][i])
    BY <1>1, <2>1 DEF WasThere, CallsInv, SentBound
  <2>2. CASE IsNext(p, chan'[p][i])
    BY <1>2, <2>2 DEF IsNext, CallsInv, OrderInv, OrderParts, WireOrdered
  <2> QED
    BY <1>2, <2>1, <2>2
<1> QED
  BY <1>2, <1>3, <1>4, <1>5

-----------------------------------------------------------------------------
(* A call that removes a sink removes its own.                             *)
LEMMA OthersRegistered ==
  ASSUME SinkInv, NEW o \in Op, pc[o] # "idle", Deregister(o), UNCHANGED streamId,
         NEW p \in Op \ {o}
  PROVE  Registered(p)' <=> Registered(p)
<1>t. /\ registry \in [Sid -> Op \cup {NoOp}] /\ streamId \in [Op -> 0 .. MaxId]
      /\ MaxId \in Nat
  BY NucleusAssumption DEF SinkInv, TypeInv, TypeOK
<1>1. streamId[o] \in Sid /\ streamId[o] # streamId[p] /\ streamId[o] # 0
  BY <1>t DEF SinkInv, TypeInv, Allocated, SinkParts, UniqueIds, Sid
<1>2. streamId[p] # 0 => streamId[p] \in Sid
  BY <1>t DEF Sid
<1> QED
  BY <1>t, <1>1, <1>2 DEF Registered, Deregister

(* A subscription that stands still still has its end.                     *)
LEMMA EndsKeep ==
  ASSUME CallsInv, NEW p \in Subscriptions, chan'[p] = chan[p], final'[p] = final[p],
         pc'[p] \in Listening => pc[p] \in Listening /\ (Registered(p) => Registered(p)')
  PROVE  pc'[p] \in Listening /\ ~Registered(p)' => Ends(p)'
BY DEF CallsInv, StreamEnds, Ends, EndsStream

LEMMA TailEnd ==
  ASSUME NEW q \in Seq(Item), q # <<>>, Len(q) # 1
  PROVE  Tail(q) # <<>> /\ Tail(q)[Len(Tail(q))] = q[Len(q)]
<1>1. Len(q) \in Nat /\ Len(q) > 1
  <2>1. Len(q) \in Nat \ {0}
    BY EmptySeq
  <2>2. \A n \in Nat \ {0} : n # 1 => n > 1
    OBVIOUS
  <2> QED
    BY <2>1, <2>2
<1>2. Len(Tail(q)) = Len(q) - 1 /\ Tail(q) \in Seq(Item)
  OBVIOUS
<1>3. \A i \in 1 .. Len(q) - 1 : Tail(q)[i] = q[i + 1]
  OBVIOUS
<1>4. Tail(q) # <<>>
  <2>1. Len(Tail(q)) # 0
    BY <1>1, <1>2
  <2> QED
    BY <2>1, EmptySeq
<1>5. Len(Tail(q)) \in 1 .. Len(q) - 1 /\ Len(Tail(q)) + 1 = Len(q)
  BY <1>1, <1>2
<1> QED
  BY <1>3, <1>4, <1>5

(* What it takes is not the end, or the caller has it now.                 *)
LEMMA EndsTake ==
  ASSUME CallsInv, NEW p \in Subscriptions, Take(p), Ready(p), pc[p] \in Listening,
         UNCHANGED <<streamId, registry>>
  PROVE  ~Registered(p)' => Ends(p)'
<1>t. chan \in [Op -> Seq(Item)] /\ chan[p] \in Seq(Item) /\ p \in Op /\ final \in [Op -> BOOLEAN]
  BY CallsType
<1>1. SUFFICES ASSUME ~Registered(p) PROVE Ends(p)'
  BY DEF Registered
<1>2. Ends(p)
  BY <1>1 DEF CallsInv, StreamEnds
<1>3. /\ chan'[p] = IF chan[p] = <<>> THEN <<>> ELSE Tail(chan[p])
      /\ final'[p] = (final[p] \/ EndsStream(Polled(p)))
  BY <1>t DEF Take
<1>4. CASE final[p]
  BY <1>3, <1>4 DEF Ends
<1>5. CASE ~final[p] /\ Len(chan[p]) = 1
  <2>1. Polled(p) = chan[p][1] /\ EndsStream(chan[p][1])
    BY <1>2, <1>5, <1>t DEF Ends, Polled
  <2> QED
    BY <1>3, <2>1 DEF Ends
<1>6. CASE ~final[p] /\ Len(chan[p]) # 1
  <2>0. chan[p] # <<>> /\ chan'[p] = Tail(chan[p]) /\ Len(chan[p]) \in Nat
    BY <1>2, <1>3, <1>6, <1>t DEF Ends
  <2>1. /\ chan[p] # <<>> /\ chan'[p] # <<>>
        /\ chan'[p][Len(chan'[p])] = chan[p][Len(chan[p])]
    BY <1>6, <1>t, <2>0, TailEnd
  <2> QED
    BY <1>2, <1>6, <2>1 DEF Ends, EndsStream
<1> QED
  BY <1>4, <1>5, <1>6

LEMMA CallEnds ==
  ASSUME CallsInv, NEW o \in Op, CallStep(o) \/ CallerStep(o)
  PROVE  StreamEnds'
<1> SUFFICES ASSUME NEW p \in Subscriptions
             PROVE  pc'[p] \in Listening /\ ~Registered(p)' => Ends(p)'
  BY DEF StreamEnds, Ends, EndsStream
<1>t. /\ chan \in [Op -> Seq(Item)] /\ pc \in [Op -> Locations] /\ p \in Op
      /\ final \in [Op -> BOOLEAN] /\ SinkInv /\ EndInv
  BY CallsType
<1>1. CASE Begin(o)
  <2>1. CASE p = o
    <3>1. Registered(p)'
      BY <1>1, <2>1, CallsType DEF Begin, FetchAdd, Registered, Sid
    <3> QED
      BY <3>1
  <2>2. CASE p # o
    <3>1. Registered(p) => Registered(p)'
      BY <1>1, <2>2, CallsType
         DEF Begin, FetchAdd, Registered, Sid, SinkInv, SinkParts, UniqueIds
    <3> QED
      BY <1>1, <1>t, <2>2, <3>1, EndsKeep DEF Begin, Goto
  <2> QED
    BY <2>1, <2>2
<1>2. CASE WriteActivate(o)
  BY <1>2, <1>t, EndsKeep DEF WriteActivate, Goto, Registered, Listening
<1>3. CASE ActivateFails(o)
  BY <1>3, <1>t, EndsKeep DEF ActivateFails, Goto, Registered, Listening
<1>4. CASE EncodeFails(o)
  BY <1>4, <1>t, EndsKeep DEF EncodeFails, Goto, Registered, Listening
<1>5. CASE Unwind(o)
  BY <1>5, <1>t, EndsKeep, OthersRegistered DEF Unwind, Goto, Listening
<1>6. CASE Reply(o)
  BY <1>6, <1>t, EndsKeep DEF Reply, Requests, Take, Goto, Registered
<1>7. CASE Expire(o)
  BY <1>7, <1>t, EndsKeep DEF Expire, Goto, Registered, Listening
<1>8. CASE GiveUp(o)
  BY <1>8, <1>t, EndsKeep, OthersRegistered DEF GiveUp, Goto, Listening
<1>9. CASE Acknowledged(o)
  <2>1. CASE p = o
    BY <1>9, <2>1, EndsTake DEF Acknowledged, Listening
  <2>2. CASE p # o
    BY <1>9, <1>t, <2>2, EndsKeep DEF Acknowledged, Take, Goto, Registered
  <2> QED
    BY <2>1, <2>2
<1>10. CASE Refused(o)
  <2>1. CASE p = o
    BY <1>10, <1>t, <2>1 DEF Refused, Goto, Listening
  <2>2. CASE p # o
    BY <1>10, <1>t, <2>2, EndsKeep DEF Refused, Take, Goto, Registered
  <2> QED
    BY <2>1, <2>2
<1>11. CASE Cancel(o)
  <2>1. CASE p = o
    BY <1>11, <1>t, <2>1 DEF Cancel, Goto, Listening
  <2>2. CASE p # o
    BY <1>11, <1>t, <2>2, EndsKeep DEF Cancel, Goto, Registered
  <2> QED
    BY <2>1, <2>2
<1>12. CASE NextEvent(o)
  <2>1. CASE p = o
    BY <1>12, <2>1, EndsTake DEF NextEvent, Ready, Listening
  <2>2. CASE p # o
    BY <1>12, <1>t, <2>2, EndsKeep DEF NextEvent, Take, Registered
  <2> QED
    BY <2>1, <2>2
<1>13. CASE EndOfStream(o)
  BY <1>13, <1>t, EndsKeep DEF EndOfStream, Goto, Registered, Listening
<1>14. CASE DropStream(o)
  <2>1. CASE p = o
    BY <1>14, <1>t, <2>1 DEF DropStream, Goto, Listening
  <2>2. CASE p # o
    BY <1>14, <1>t, <2>2, EndsKeep DEF DropStream, Goto, Registered
  <2> QED
    BY <2>1, <2>2
<1>15. CASE CloseStream(o)
  BY <1>15, <1>t, EndsKeep, OthersRegistered DEF CloseStream, Goto, Listening
<1>16. CASE WriteTerminate(o)
  BY <1>16, <1>t, EndsKeep DEF WriteTerminate, Goto, Registered, Listening
<1> QED
  BY <1>1, <1>2, <1>3, <1>4, <1>5, <1>6, <1>7, <1>8, <1>9, <1>10, <1>11, <1>12,
     <1>13, <1>14, <1>15, <1>16 DEF CallStep, CallerStep

LEMMA DispatchEnds ==
  ASSUME CallsInv, Dispatch
  PROVE  StreamEnds'
<1> DEFINE frame == Head(toClient)
           q     == registry[frame.sid]
<1> SUFFICES ASSUME NEW p \in Subscriptions, pc'[p] \in Listening, ~Registered(p)'
             PROVE  Ends(p)'
  BY DEF StreamEnds, Ends, EndsStream
<1>t. /\ chan \in [Op -> Seq(Item)] /\ registry \in [Sid -> Op \cup {NoOp}]
      /\ NoOp \notin Op /\ p \in Op /\ SinkInv
      /\ streamId \in [Op -> 0 .. MaxId] /\ MaxId \in Nat
  BY CallsType
<1>0. frame.sid \in Sid /\ frame.sid # 0
  BY DispatchedFrame, CallsType DEF SinkInv, TypeInv, Sid
<1>1. /\ registry' = IF StaysRegistered(q, frame) THEN registry
                     ELSE [registry EXCEPT ![frame.sid] = NoOp]
      /\ chan' = IF q # NoOp /\ Receiving(q)
                 THEN [chan EXCEPT ![q] = Append(@, frame)] ELSE chan
      /\ UNCHANGED <<pc, streamId, final>>
  BY DEF Dispatch
<1>2. pc[p] \in Listening /\ Receiving(p)
  BY <1>1 DEF Receiving, Listening
<1>3. CASE p = q
  <2>1. streamId[p] = frame.sid /\ registry[frame.sid] = p
    BY <1>0, <1>3, <1>t DEF SinkInv, SinkParts, SinksTracked
  <2>2. EndsStream(frame)
    BY <1>0, <1>1, <1>3, <2>1 DEF Registered, StaysRegistered
  <2>3. chan'[p] = Append(chan[p], frame) /\ chan[p] \in Seq(Item)
    BY <1>1, <1>2, <1>3, <1>t
  <2>4. chan'[p] # <<>> /\ chan'[p][Len(chan'[p])] = frame
    BY <2>3
  <2> QED
    BY <2>2, <2>4 DEF Ends, EndsStream
<1>4. CASE p # q
  <2>1. ~Registered(p)
    <3>1. SUFFICES ASSUME Registered(p) PROVE FALSE
      OBVIOUS
    <3>2. streamId[p] \in Sid /\ streamId[p] # frame.sid
      BY <1>4, <1>t, <3>1 DEF Registered, Sid
    <3>3. registry'[streamId[p]] = registry[streamId[p]]
      BY <1>1, <1>t, <3>2
    <3> QED
      BY <1>1, <3>1, <3>3 DEF Registered
  <2>2. chan'[p] = chan[p]
    BY <1>1, <1>4, <1>t
  <2> QED
    BY <1>1, <1>2, <2>1, <2>2, EndsKeep
<1> QED
  BY <1>3, <1>4

LEMMA FailAllEnds ==
  ASSUME CallsInv, FailAll
  PROVE  StreamEnds'
<1> SUFFICES ASSUME NEW p \in Subscriptions, pc'[p] \in Listening PROVE Ends(p)'
  BY DEF StreamEnds, Ends, EndsStream
<1>t. chan \in [Op -> Seq(Item)] /\ chan[p] \in Seq(Item) /\ p \in Op
  BY CallsType
<1>1. pc[p] \in Listening /\ Receiving(p) /\ UNCHANGED final
  BY DEF FailAll, Receiving, Listening
<1>2. CASE Registered(p)
  <2>1. chan'[p] = Append(chan[p], Lost)
    BY <1>1, <1>2, <1>t DEF FailAll
  <2>2. chan'[p] # <<>> /\ chan'[p][Len(chan'[p])] = Lost
    BY <1>t, <2>1
  <2> QED
    BY <2>2 DEF Ends, EndsStream, Lost
<1>3. CASE ~Registered(p)
  <2>1. chan'[p] = chan[p]
    BY <1>3, <1>t DEF FailAll
  <2> QED
    BY <1>1, <1>3, <2>1 DEF CallsInv, StreamEnds, Ends, EndsStream
<1> QED
  BY <1>2, <1>3

LEMMA CallsInvStep == CallsInv /\ [Next]_vars => CallsInv'
<1> SUFFICES ASSUME CallsInv, [Next]_vars PROVE CallsInv'
  OBVIOUS
<1>1. OrderInv'
  BY OrderInvStep DEF CallsInv
<1>2. StreamEnds'
  <2>1. ASSUME NEW o \in Op, CallStep(o) \/ CallerStep(o) PROVE StreamEnds'
    BY <2>1, CallEnds
  <2>2. CASE Dispatch
    BY <2>2, DispatchEnds
  <2>3. CASE FailAll
    BY <2>3, FailAllEnds
  <2>4. CASE UNCHANGED <<pc, registry, streamId, chan, final>>
    BY <2>4 DEF CallsInv, StreamEnds, Ends, EndsStream, Registered
  <2>5. \/ \E o \in Op : CallStep(o) \/ CallerStep(o)
        \/ Dispatch \/ FailAll
        \/ UNCHANGED <<pc, registry, streamId, chan, final>>
    BY DEF Next, ReadLoopStep, Environment, AnswerPing, Ignore, ReadError, ReadEof,
           SignalClosed, callVars, vars
  <2> QED
    BY <2>1, <2>2, <2>3, <2>4, <2>5
<1> QED
  BY <1>1, <1>2, OnlySubscriptionsStep, FirstPendingStep, SentBoundStep DEF CallsInv

LEMMA CallsInvInit == Init => CallsInv
<1> SUFFICES ASSUME Init PROVE OnlySubscriptions /\ FirstPending /\ SentBound /\ StreamEnds
  BY OrderInvInit DEF CallsInv
<1> QED
  BY ConnectionAssumption DEF Init, OnlySubscriptions, FirstPending, SentBound, StreamEnds, Listening

LEMMA CallsInvAlways == Spec => []CallsInv
BY CallsInvInit, CallsInvStep, PTL DEF Spec

-----------------------------------------------------------------------------
(***************************************************************************)
(* The steps.                                                              *)
(***************************************************************************)
InFlight == {"writing", "waiting", "expired"}
Over     == {"unwinding", "done", "dropped", "terminating", "cancelled"}

(* What the wire has of a call does not change with a step of a call.      *)
LEMMA SentToKeep ==
  ASSUME UNCHANGED <<sent, streamId>>
  PROVE  [p \in Op |-> SentTo(p)]' = [p \in Op |-> SentTo(p)]
BY DEF SentTo

LEMMA PhaseMoves ==
  ASSUME pc \in [Op -> Locations], NEW o \in Op, NEW l, pc' = [pc EXCEPT ![o] = l],
         NEW phase, Phase(o)' = phase
  PROVE  [p \in Op |-> Phase(p)]' = [[p \in Op |-> Phase(p)] EXCEPT ![o] = phase]
<1>1. \A p \in Op \ {o} : Phase(p)' = Phase(p)
  BY DEF Phase
<1> QED
  BY <1>1

LEMMA PhaseKeeps ==
  ASSUME pc \in [Op -> Locations], NEW o \in Op, NEW l, pc' = [pc EXCEPT ![o] = l],
         Phase(o)' = Phase(o)
  PROVE  [p \in Op |-> Phase(p)]' = [p \in Op |-> Phase(p)]
<1>1. \A p \in Op \ {o} : Phase(p)' = Phase(p)
  BY DEF Phase
<1> QED
  BY <1>1

(* A call that resolves without a frame of the nucleus fails.              *)
LEMMA Fails ==
  ASSUME CallsInv, NEW o \in Op, pc[o] \in InFlight,
         NEW l \in Over, pc' = [pc EXCEPT ![o] = l],
         NEW r \in Calls!Failures, outcome' = [outcome EXCEPT ![o] = r],
         NEW e \in BOOLEAN, final' = [final EXCEPT ![o] = e],
         UNCHANGED <<sent, streamId, last>>
  PROVE  Calls!CallsNext
<1>1. Phase(o) = "inflight" /\ Phase(o)' = "over"
  BY CallsType DEF Phase, InFlight, Over
<1>2. [p \in Op |-> Phase(p)]' = [[p \in Op |-> Phase(p)] EXCEPT ![o] = "over"]
  BY <1>1, CallsType, PhaseMoves
<1>3. Calls!Fail(o, r)
  BY <1>1, <1>2, SentToKeep DEF Calls!Fail
<1> QED
  BY <1>3 DEF Calls!CallsNext

(* A call that takes the first item of its channel has an answer, or fails *)
(* if that is the notice that the connection is lost.                      *)
LEMMA FirstItem ==
  ASSUME CallsInv, NEW o \in Op, pc[o] = "waiting", Take(o), Ready(o),
         Polled(o) # Lost
  PROVE  last' = [last EXCEPT ![o] = 1] /\ SentTo(o) > 0
<1>t. chan[o] \in Seq(Item) /\ last[o] = 0 /\ streamId[o] # 0 /\ streamId[o] \in Sid
  BY CallsType DEF CallsInv, FirstPending, Sid
<1>1. chan[o] # <<>> /\ Polled(o) = chan[o][1] /\ 1 \in DOMAIN chan[o]
  BY <1>t DEF Polled
<1>2. Polled(o).n = 1
  <2>1. InOrder(o)
    BY DEF CallsInv, OrderInv, OrderParts
  <2> QED
    BY <1>t, <1>1, <2>1 DEF InOrder
<1>3. 1 <= sent[streamId[o]] /\ sent[streamId[o]] \in Nat
  BY <1>t, <1>1, <1>2, CallsType DEF CallsInv, SentBound
<1> QED
  BY <1>t, <1>2, <1>3 DEF Take, SentTo

LEMMA Answers ==
  ASSUME CallsInv, NEW o \in Op, pc[o] = "waiting", Take(o), Ready(o), Polled(o) # Lost,
         NEW l, pc' = [pc EXCEPT ![o] = l],
         NEW r \in Calls!Answers, outcome' = [outcome EXCEPT ![o] = r],
         IF o \in Subscriptions /\ r = "ok" THEN l = "streaming" ELSE l \in Over,
         UNCHANGED <<sent, streamId>>
  PROVE  Calls!CallsNext
<1> DEFINE after == IF o \in Subscriptions /\ r = "ok" THEN "open" ELSE "over"
<1>1. Phase(o) = "inflight" /\ Phase(o)' = after
  BY CallsType DEF Phase, Over
<1>2. [p \in Op |-> Phase(p)]' = [[p \in Op |-> Phase(p)] EXCEPT ![o] = after]
  BY <1>1, CallsType, PhaseMoves
<1>3. \E e \in BOOLEAN : final' = [final EXCEPT ![o] = e]
  BY CallsType DEF Take
<1>4. Calls!Answer(o, r)
  BY <1>1, <1>2, <1>3, SentToKeep, FirstItem DEF Calls!Answer
<1> QED
  BY <1>4 DEF Calls!CallsNext

LEMMA PolledKind ==
  ASSUME CallsInv, NEW o \in Op
  PROVE  /\ Polled(o) = Lost <=> Polled(o).kind = "closed"
         /\ Polled(o).kind \in {"message", "garbled", "error", "closed"}
<1>1. Polled(o) \in Item
  BY PolledType, CallsType DEF SinkInv, TypeInv
<1>2. CASE Polled(o) = Lost
  BY <1>2 DEF Lost
<1>3. CASE Polled(o) # Lost
  BY <1>1, <1>3 DEF Item, AllPayloads, Lost
<1> QED
  BY <1>2, <1>3

(* Taking the notice hands nothing over.                                   *)
LEMMA TakeLost ==
  ASSUME CallsInv, NEW o \in Op, Take(o), Polled(o) = Lost
  PROVE  UNCHANGED last /\ final' = [final EXCEPT ![o] = TRUE]
<1>1. last' = [last EXCEPT ![o] = last[o]]
  BY CallsType DEF Take
<1>2. EndsStream(Polled(o))
  BY DEF EndsStream, Lost
<1>3. final' = [final EXCEPT ![o] = TRUE]
  BY <1>2 DEF Take
<1> QED
  BY <1>1, <1>3, CallsType

(* What an open stream hands over is its next frame, or the notice.        *)
LEMMA NextEventRefines ==
  ASSUME CallsInv, NEW o \in Op, NextEvent(o)
  PROVE  Calls!CallsNext
<1>t. /\ pc[o] = "streaming" /\ chan[o] # <<>> /\ Take(o) /\ o \in Op
      /\ UNCHANGED <<pc, sent, streamId, outcome>>
      /\ chan[o] \in Seq(Item) /\ streamId[o] # 0 /\ streamId[o] \in Sid
      /\ last[o] \in Nat /\ final \in [Op -> BOOLEAN]
  BY CallsType DEF NextEvent, nucleusVars, Sid
<1>1. Phase(o) = "open" /\ [p \in Op |-> Phase(p)]' = [p \in Op |-> Phase(p)]
  BY <1>t DEF Phase
<1>2. ~final[o]
  BY <1>t, CallsType DEF EndInv, EndIsLast
<1>3. Polled(o) = chan[o][1] /\ 1 \in DOMAIN chan[o]
  BY <1>t DEF Polled
<1>4. CASE Polled(o) = Lost
  <2>1. Calls!Lose(o)
    BY <1>t, <1>1, <1>2, <1>4, TakeLost, SentToKeep DEF Calls!Lose
  <2> QED
    BY <2>1 DEF Calls!CallsNext
<1>5. CASE Polled(o) # Lost
  <2>1. Polled(o).n = last[o] + 1
    BY <1>3, <1>5 DEF CallsInv, OrderInv, OrderParts, InOrder
  <2>2. last[o] + 1 <= sent[streamId[o]] /\ sent[streamId[o]] \in Nat
    BY <1>t, <1>3, <1>5, <2>1, CallsType DEF CallsInv, SentBound
  <2>3. SentTo(o) > last[o]
    BY <1>t, <2>2 DEF SentTo
  <2>4. last' = [last EXCEPT ![o] = last[o] + 1]
    BY <1>t, <1>5, <2>1 DEF Take
  <2>5. \E e \in BOOLEAN : final' = [final EXCEPT ![o] = e]
    BY <1>t DEF Take
  <2>6. [p \in Op |-> SentTo(p)][o] \in Nat
    BY <1>t, <2>2 DEF SentTo
  <2>7. Calls!See(o)
    BY <1>t, <1>1, <1>2, <2>2, <2>3, <2>4, <2>5, SentToKeep DEF Calls!See
  <2> QED
    BY <2>7 DEF Calls!CallsNext
<1> QED
  BY <1>4, <1>5

(* The step of a call is one of IpcCalls, or nothing it sees.              *)
Unseen ==
  /\ [p \in Op |-> Phase(p)]' = [p \in Op |-> Phase(p)]
  /\ [p \in Op |-> SentTo(p)]' = [p \in Op |-> SentTo(p)]
  /\ UNCHANGED <<outcome, last, final>>

LEMMA CallRefines ==
  ASSUME CallsInv, NEW o \in Op, CallStep(o) \/ CallerStep(o)
  PROVE  Calls!CallsNext \/ Unseen
<1>t. /\ pc \in [Op -> Locations] /\ final \in [Op -> BOOLEAN]
      /\ final = [final EXCEPT ![o] = final[o]] /\ final[o] \in BOOLEAN
  BY CallsType
<1>f. {"closed", "timeout", "io", "frame", "cancelled"} \subseteq Calls!Failures
  BY DEF Calls!Failures
<1>a. {"ok", "payload", "service"} \subseteq Calls!Answers
  BY DEF Calls!Answers
<1>1. CASE Begin(o)
  <2>1. Phase(o) = "idle" /\ Phase(o)' = "inflight"
    BY <1>1, <1>t DEF Begin, Goto, Phase
  <2>2. [p \in Op |-> Phase(p)]' = [[p \in Op |-> Phase(p)] EXCEPT ![o] = "inflight"]
    BY <1>1, <1>t, <2>1, PhaseMoves DEF Begin, Goto
  <2>3. \A p \in Op : SentTo(p)' = SentTo(p)
    <3>1. UNCHANGED sent /\ streamId' = [streamId EXCEPT ![o] = nextStreamId]
      BY <1>1 DEF Begin, nucleusVars
    <3>2. streamId[o] = 0 /\ nextStreamId \in Sid /\ sent[nextStreamId] = 0
      BY <1>1, CallsType
         DEF Begin, FetchAdd, CallsInv, OrderInv, OrderParts, FreshIds, Sid
    <3> QED
      BY <3>1, <3>2, CallsType DEF SentTo
  <2>4. Calls!Call(o)
    BY <1>1, <2>1, <2>2, <2>3 DEF Begin, Calls!Call
  <2> QED
    BY <2>4 DEF Calls!CallsNext
<1>2. CASE WriteActivate(o)
  <2>1. Phase(o)' = Phase(o)
    BY <1>2, <1>t DEF WriteActivate, Goto, Phase
  <2> QED
    BY <1>2, <1>t, <2>1, PhaseKeeps, SentToKeep DEF WriteActivate, Write, Goto, Unseen
<1>3. CASE ActivateFails(o)
  BY <1>3, <1>t, <1>f, Fails DEF ActivateFails, WriteBroken, Goto, InFlight, Over
<1>4. CASE EncodeFails(o)
  BY <1>4, <1>t, <1>f, Fails DEF EncodeFails, nucleusVars, Goto, InFlight, Over
<1>5. CASE Unwind(o)
  <2>1. Phase(o)' = Phase(o)
    BY <1>5, <1>t DEF Unwind, Goto, Phase
  <2> QED
    BY <1>5, <1>t, <2>1, PhaseKeeps, SentToKeep DEF Unwind, nucleusVars, Goto, Unseen
<1>6. CASE Reply(o)
  <2> DEFINE r == CASE Polled(o).kind = "message" -> "ok"
                    [] Polled(o).kind = "garbled" -> "payload"
                    [] Polled(o).kind = "error"   -> "service"
                    [] Polled(o).kind = "closed"  -> "closed"
  <2>1. /\ pc[o] = "waiting" /\ o \notin Subscriptions /\ Ready(o) /\ Take(o)
        /\ outcome' = [outcome EXCEPT ![o] = r] /\ pc' = [pc EXCEPT ![o] = "done"]
        /\ UNCHANGED <<sent, streamId>>
    BY <1>6 DEF Reply, Requests, Goto, nucleusVars
  <2>2. CASE Polled(o) = Lost
    <3>1. r = "closed"
      BY <2>2 DEF Lost
    <3> HIDE DEF r
    <3> QED
      BY <1>f, <2>1, <2>2, <3>1, TakeLost, Fails DEF InFlight, Over
  <2>3. CASE Polled(o) # Lost
    <3>1. r \in {"ok", "payload", "service"}
      BY <2>3, PolledKind
    <3> HIDE DEF r
    <3> QED
      BY <1>a, <2>1, <2>3, <3>1, Answers DEF Over
  <2> QED
    BY <2>2, <2>3
<1>7. CASE Expire(o)
  <2>1. Phase(o)' = Phase(o)
    BY <1>7, <1>t DEF Expire, Goto, Phase
  <2> QED
    BY <1>7, <1>t, <2>1, PhaseKeeps, SentToKeep DEF Expire, nucleusVars, Goto, Unseen
<1>8. CASE GiveUp(o)
  BY <1>8, <1>t, <1>f, Fails DEF GiveUp, nucleusVars, Goto, InFlight, Over
<1>9. CASE Acknowledged(o)
  <2>1. Polled(o) # Lost
    BY <1>9 DEF Acknowledged, Lost
  <2> QED
    BY <1>9, <1>a, <2>1, Answers DEF Acknowledged, nucleusVars, Goto
<1>10. CASE Refused(o)
  <2>1. CASE Polled(o) = Lost
    <3>1. outcome' = [outcome EXCEPT ![o] = "closed"]
      BY <1>10, <2>1 DEF Refused, Lost
    <3> QED
      BY <1>10, <1>f, <2>1, <3>1, TakeLost, Fails
         DEF Refused, nucleusVars, Goto, InFlight, Over
  <2>2. CASE Polled(o) # Lost
    <3>1. outcome' = [outcome EXCEPT ![o] = "service"]
      BY <1>10, <2>2, PolledKind DEF Refused
    <3> QED
      BY <1>10, <1>a, <2>2, <3>1, Answers DEF Refused, nucleusVars, Goto, Over
  <2> QED
    BY <2>1, <2>2
<1>11. CASE Cancel(o)
  BY <1>11, <1>t, <1>f, Fails DEF Cancel, nucleusVars, Goto, InFlight, Over
<1>12. CASE NextEvent(o)
  BY <1>12, NextEventRefines
<1>13. CASE EndOfStream(o)
  <2>1. final[o] /\ Phase(o) = "open" /\ Phase(o)' = "ended"
    <3>1. o \in Subscriptions
      BY <1>13, CallsType DEF EndOfStream, CallsInv, OnlySubscriptions
    <3>2. Ends(o)
      BY <1>13, <3>1 DEF EndOfStream, CallsInv, StreamEnds, Listening
    <3> QED
      BY <1>13, <1>t, <3>2 DEF EndOfStream, Ends, Goto, Phase
  <2>2. [p \in Op |-> Phase(p)]' = [[p \in Op |-> Phase(p)] EXCEPT ![o] = "ended"]
    BY <1>13, <1>t, <2>1, PhaseMoves DEF EndOfStream, Goto
  <2>3. Calls!End(o)
    BY <1>13, <2>1, <2>2, SentToKeep DEF EndOfStream, nucleusVars, Calls!End
  <2> QED
    BY <2>3 DEF Calls!CallsNext
<1>14. CASE DropStream(o)
  <2>1. Phase(o) \in {"open", "ended"} /\ Phase(o)' = "over"
    BY <1>14, <1>t DEF DropStream, Goto, Phase
  <2>2. [p \in Op |-> Phase(p)]' = [[p \in Op |-> Phase(p)] EXCEPT ![o] = "over"]
    BY <1>14, <1>t, <2>1, PhaseMoves DEF DropStream, Goto
  <2>3. Calls!Close(o)
    BY <1>14, <2>1, <2>2, SentToKeep DEF DropStream, nucleusVars, Calls!Close
  <2> QED
    BY <2>3 DEF Calls!CallsNext
<1>15. CASE CloseStream(o)
  <2>1. Phase(o)' = Phase(o)
    BY <1>15, <1>t DEF CloseStream, Goto, Phase
  <2> QED
    BY <1>15, <1>t, <2>1, PhaseKeeps, SentToKeep DEF CloseStream, nucleusVars, Goto, Unseen
<1>16. CASE WriteTerminate(o)
  <2>1. Phase(o)' = Phase(o)
    BY <1>16, <1>t DEF WriteTerminate, Goto, Phase
  <2>2. UNCHANGED <<sent, streamId>>
    BY <1>16 DEF WriteTerminate, Write, WriteBroken
  <2> QED
    BY <1>16, <1>t, <2>1, <2>2, PhaseKeeps, SentToKeep DEF WriteTerminate, Goto, Unseen
<1> QED
  BY <1>1, <1>2, <1>3, <1>4, <1>5, <1>6, <1>7, <1>8, <1>9, <1>10, <1>11, <1>12,
     <1>13, <1>14, <1>15, <1>16 DEF CallStep, CallerStep

(* The nucleus sends on the stream of one call, or of none.                *)
LEMMA SendRefines ==
  ASSUME CallsInv, Environment, NEW s \in Sid, NEW k \in Payloads, NEW e \in BOOLEAN,
         Send(s, k, e)
  PROVE  Calls!CallsNext \/ Unseen
<1>t. /\ UNCHANGED <<pc, streamId, outcome, last, final>>
      /\ sent' = [sent EXCEPT ![s] = @ + 1] /\ sent \in [Sid -> Nat] /\ s # 0
      /\ streamId \in [Op -> 0 .. MaxId] /\ MaxId \in Nat
  BY CallsType DEF Environment, callVars, Send, Sid
<1>1. [p \in Op |-> Phase(p)]' = [p \in Op |-> Phase(p)]
  BY <1>t DEF Phase
<1>2. \A p \in Op : streamId[p] # s => SentTo(p)' = SentTo(p)
  <2>1. \A p \in Op : streamId[p] # 0 => streamId[p] \in Sid
    BY <1>t DEF Sid
  <2> QED
    BY <1>t, <2>1 DEF SentTo
<1>3. CASE \E o \in Op : streamId[o] = s
  <2>1. PICK o \in Op : streamId[o] = s
    BY <1>3
  <2>2. \A p \in Op \ {o} : streamId[p] # s
    BY <1>t, <2>1, CallsType DEF SinkInv, SinkParts, UniqueIds
  <2>3. SentTo(o)' = SentTo(o) + 1
    BY <1>t, <2>1 DEF SentTo
  <2>4. [p \in Op |-> SentTo(p)]' =
          [[p \in Op |-> SentTo(p)] EXCEPT ![o] = SentTo(o) + 1]
    BY <1>2, <2>2, <2>3
  <2>5. Phase(o) # "idle"
    <3>1. pc[o] # "idle"
      BY <1>t, <2>1, CallsType
    <3> QED
      BY <3>1 DEF Phase
  <2>6. Calls!Emit(o)
    BY <1>t, <1>1, <2>4, <2>5 DEF Calls!Emit
  <2> QED
    BY <2>6 DEF Calls!CallsNext
<1>4. CASE ~ \E o \in Op : streamId[o] = s
  BY <1>t, <1>1, <1>2, <1>4 DEF Unseen
<1> QED
  BY <1>3, <1>4

(* The other steps move no call and send nothing.                          *)
LEMMA OtherRefines ==
  ASSUME UNCHANGED <<pc, streamId, outcome, last, final, sent>>
  PROVE  Unseen
<1>1. [p \in Op |-> Phase(p)]' = [p \in Op |-> Phase(p)]
  BY DEF Phase
<1> QED
  BY <1>1, SentToKeep DEF Unseen

LEMMA StepRefines == CallsInv /\ [Next]_vars => [Calls!CallsNext]_(Calls!callsVars)
<1> SUFFICES ASSUME CallsInv, [Next]_vars PROVE [Calls!CallsNext]_(Calls!callsVars)
  OBVIOUS
<1>1. Unseen => UNCHANGED Calls!callsVars
  BY DEF Unseen, Calls!callsVars
<1>2. ASSUME NEW o \in Op, CallStep(o) \/ CallerStep(o)
      PROVE  Calls!CallsNext \/ Unseen
  BY <1>2, CallRefines
<1>3. ASSUME Environment, NEW s \in Sid, NEW k \in Payloads, NEW e \in BOOLEAN, Send(s, k, e)
      PROVE  Calls!CallsNext \/ Unseen
  BY <1>3, SendRefines
<1>4. CASE UNCHANGED <<pc, streamId, outcome, last, final, sent>>
  BY <1>1, <1>4, OtherRefines
<1>5. \/ \E o \in Op : CallStep(o) \/ CallerStep(o)
      \/ Environment /\ \E s \in Sid, k \in Payloads, e \in BOOLEAN : Send(s, k, e)
      \/ UNCHANGED <<pc, streamId, outcome, last, final, sent>>
  BY DEF Next, ReadLoopStep, Environment, NucleusNext, Receive, Signal, CloseSocket, Dispatch,
         AnswerPing, Ignore, ReadError, ReadEof, FailAll, SignalClosed, nucleusVars,
         callVars, vars
<1> QED
  BY <1>1, <1>2, <1>3, <1>4, <1>5

LEMMA InitRefines == Init => Calls!CallsInit
<1> SUFFICES ASSUME Init PROVE Calls!CallsInit
  OBVIOUS
<1>1. [p \in Op |-> Phase(p)] = [p \in Op |-> "idle"]
  BY DEF Init, Phase
<1>2. [p \in Op |-> SentTo(p)] = [p \in Op |-> 0]
  BY DEF Init, SentTo
<1> QED
  BY <1>1, <1>2 DEF Init, Calls!CallsInit

(* The connection keeps the promises of IpcCalls: each call resolves once, *)
(* with what the nucleus said in answer to it or with a failure, and an    *)
(* EventStream hands over its events in order up to the item that ends it. *)
THEOREM ConnectionImplementsCalls == Spec => ImplementsCalls
<1>1. Spec => []CallsInv
  BY CallsInvAlways
<1> QED
  BY <1>1, InitRefines, StepRefines, PTL DEF Spec, ImplementsCalls, Calls!CallsSpec

-----------------------------------------------------------------------------
(* The watch flips when the read loop ends, and not before.                *)
FlipsLast == closed => readLoop = "exited"

LEMMA FlipsLastStep == ASSUME FlipsLast, [Next]_vars PROVE FlipsLast'
BY DEF FlipsLast, Next, CallStep, CallerStep, ReadLoopStep, Environment, WriteActivate,
       ActivateFails, Unwind, Reply, Expire, GiveUp, Acknowledged, Refused, CloseStream,
       WriteTerminate, Begin, EncodeFails, Cancel, NextEvent, EndOfStream, DropStream,
       Dispatch, AnswerPing, Ignore, ReadError, ReadEof, FailAll, SignalClosed, Incoming, vars

(* What fail_all leaves without a sink has what it needs without one.      *)
THEOREM NobodyIsLeftBehind == Spec => LossReachesEveryone
<1>1. ASSUME CallsInv', [Next]_vars, readLoop = "failing", readLoop' # "failing", NEW o \in Op
      PROVE  /\ pc[o] \in {"writing", "waiting"} => chan'[o] # <<>>
             /\ o \in Subscriptions /\ pc[o] \in {"writing", "waiting", "streaming"} =>
                  final[o] \/ (chan'[o] # <<>> /\ EndsStream(chan'[o][Len(chan'[o])]))
  <2>1. FailAll
    BY <1>1
       DEF Next, CallStep, CallerStep, ReadLoopStep, Environment, WriteActivate, ActivateFails,
           Unwind, Reply, Expire, GiveUp, Acknowledged, Refused, CloseStream, WriteTerminate,
           Begin, EncodeFails, Cancel, NextEvent, EndOfStream, DropStream, Dispatch,
           AnswerPing, Ignore, ReadError, ReadEof, SignalClosed, Incoming, vars
  <2>2. UNCHANGED <<pc, streamId, final>> /\ registry' = [s \in Sid |-> NoOp]
    BY <2>1 DEF FailAll
  <2>3. ~Registered(o)'
    <3>1. TypeOK'
      BY <1>1 DEF CallsInv, OrderInv, EndInv, SinkInv, TypeInv
    <3>2. streamId'[o] # 0 => streamId'[o] \in Sid
      BY <3>1 DEF TypeOK, Sid
    <3> QED
      BY <2>2, <3>2, ConnectionAssumption DEF Registered
  <2>4. pc'[o] \in {"writing", "waiting"} => chan'[o] # <<>>
    BY <1>1, <2>3
       DEF CallsInv, OrderInv, EndInv, SinkInv, SinkParts, WaitersReachable
  <2>5. o \in Subscriptions /\ pc'[o] \in Listening => Ends(o)'
    BY <1>1, <2>3 DEF CallsInv, StreamEnds
  <2> QED
    BY <2>2, <2>4, <2>5 DEF Ends, Listening
<1>2. FlipsLast /\ CallsInv' /\ [Next]_vars =>
        [readLoop = "failing" /\ readLoop' # "failing" =>
       /\ ~closed'
       /\ \A o \in Op :
            /\ pc[o] \in {"writing", "waiting"} => chan'[o] # <<>>
            /\ o \in Subscriptions /\ pc[o] \in {"writing", "waiting", "streaming"} =>
                 final[o] \/ (chan'[o] # <<>> /\ EndsStream(chan'[o][Len(chan'[o])]))]_vars
  <2>1. FlipsLast /\ [Next]_vars /\ readLoop = "failing" /\ readLoop' # "failing" => ~closed'
    BY DEF FlipsLast, Next, CallStep, CallerStep, ReadLoopStep, Environment, WriteActivate,
           ActivateFails, Unwind, Reply, Expire, GiveUp, Acknowledged, Refused, CloseStream,
           WriteTerminate, Begin, EncodeFails, Cancel, NextEvent, EndOfStream, DropStream,
           Dispatch, AnswerPing, Ignore, ReadError, ReadEof, FailAll, SignalClosed,
           Incoming, vars
  <2> QED
    BY <1>1, <2>1
<1>3. Spec => []CallsInv
  BY CallsInvAlways
<1>4. Init => FlipsLast
  BY DEF Init, FlipsLast
<1> QED
  BY <1>2, <1>3, <1>4, FlipsLastStep, PTL DEF Spec, LossReachesEveryone

=============================================================================
