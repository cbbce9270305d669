--------------------------- MODULE ExchangeProofs ----------------------------
(***************************************************************************)
(* Theorems about Exchange, for every width of the stream ids, every set   *)
(* of operations and whatever frames arrive.                               *)
(***************************************************************************)
EXTENDS Exchange, WellFoundedInduction, TLAPS

(***************************************************************************)
(* The ids are drawn in the order 1, 2, .., Half - 1, -Half, .., -1, 0;    *)
(* Rank is the place of an id in it.  While the circle is not closed the   *)
(* next id comes after all those drawn, and nobody is the heir of another. *)
(***************************************************************************)
Rank(n) == IF n >= 1 THEN n ELSE n + 2 * Half

IdInv ==
  /\ next \in I32 /\ id \in I32 /\ calls \in Nat /\ drawn \subseteq I32
  /\ calls < 2 * Half => Rank(next) = calls + 1
  /\ calls <= 2 * Half => \A n \in drawn : Rank(n) <= calls
  /\ registered /\ calls <= 2 * Half => Rank(id) <= calls
  /\ heir => calls > 2 * Half
  /\ ClosedMeansLost

LEMMA IdInit == ASSUME Init PROVE IdInv
BY WidthAssumption DEF Init, IdInv, I32, Rank, ClosedMeansLost, Nothing, Outcome

LEMMA NextIdIsNext ==
  ASSUME NEW n \in I32
  PROVE  /\ NextId(n) \in I32
         /\ Rank(n) < 2 * Half => Rank(NextId(n)) = Rank(n) + 1
         /\ Rank(n) \in 1 .. 2 * Half
BY WidthAssumption DEF I32, NextId, Rank

(* A draw, whatever is done with the id.                                   *)
LEMMA DrawStep ==
  ASSUME IdInv, Draw
  PROVE  /\ next' \in I32 /\ calls' = calls + 1 /\ calls' \in Nat /\ drawn' \subseteq I32
         /\ calls' < 2 * Half => Rank(next') = calls' + 1
         /\ calls < 2 * Half => Rank(next) = calls + 1
         /\ calls' <= 2 * Half => next \notin drawn /\ \A n \in drawn' : Rank(n) <= calls'
<1>1. next \in I32 /\ calls \in Nat /\ (calls < 2 * Half => Rank(next) = calls + 1)
  BY DEF IdInv
<1>2. next' = NextId(next) /\ calls' = calls + 1 /\ drawn' \subseteq I32
  BY DEF Draw, IdInv
<1>3. Rank(next) < 2 * Half => Rank(next') = Rank(next) + 1
  BY <1>1, <1>2, NextIdIsNext
<1>4. calls + 1 < 2 * Half => Rank(next') = calls + 2
  <2> SUFFICES ASSUME calls + 1 < 2 * Half PROVE Rank(next') = calls + 2
    OBVIOUS
  <2>1. Rank(next) = calls + 1
    BY <1>1, WidthAssumption
  <2> QED
    BY <2>1, <1>3, <1>1
<1>5. ASSUME calls + 1 <= 2 * Half
      PROVE  next \notin drawn /\ \A n \in drawn' : Rank(n) <= calls + 1
  <2>1. Rank(next) = calls + 1 /\ \A n \in drawn : Rank(n) <= calls
    BY <1>1, <1>5, WidthAssumption DEF IdInv
  <2>2. next \notin drawn
    BY <2>1, <1>1
  <2>3. ASSUME NEW n \in drawn' PROVE Rank(n) <= calls + 1
    <3>1. n \in drawn \/ n = next
      BY <2>3 DEF Draw
    <3>2. CASE n \in drawn
      <4>1. Rank(n) <= calls
        BY <2>1, <3>2
      <4>2. Rank(n) \in Int
        BY <3>2, WidthAssumption DEF IdInv, I32, Rank
      <4> QED
        BY <4>1, <4>2, <1>1
    <3>3. CASE n = next
      BY <2>1, <3>3, <1>1
    <3> QED
      BY <3>1, <3>2, <3>3
  <2> QED
    BY <2>2, <2>3
<1> QED
  BY <1>1, <1>2, <1>4, <1>5, NextIdIsNext

(* Steps that draw no id keep the invariant if they hand over nothing that *)
(* looks like a loss, and register nothing.                                *)
LEMMA QuietStep ==
  ASSUME IdInv, UNCHANGED <<idVars, id, heir>>,
         registered' => registered,
         (result'.kind = "ConnectionClosed" /\ alive') => ClosedMeansLost'
  PROVE  IdInv'
BY WidthAssumption DEF IdInv, ClosedMeansLost, Rank, I32, idVars

LEMMA IdStep == ASSUME IdInv, [Next]_vars PROVE IdInv'
<1> USE DEF idVars
<1>1. ASSUME NEW o \in Ops, Begin(o) PROVE IdInv'
  <2>1. /\ next' \in I32 /\ calls' = calls + 1 /\ calls' \in Nat /\ drawn' \subseteq I32
        /\ calls' < 2 * Half => Rank(next') = calls' + 1
        /\ calls < 2 * Half => Rank(next) = calls + 1
        /\ calls' <= 2 * Half => next \notin drawn /\ \A n \in drawn' : Rank(n) <= calls'
    BY <1>1, DrawStep DEF Begin
  <2>2. /\ id' = next /\ heir' = (next \in drawn) /\ result' = Nothing
        /\ next \in I32 /\ calls \in Nat
    BY <1>1 DEF Begin, IdInv
  <2>3. calls' <= 2 * Half => Rank(id') <= calls'
    <3> SUFFICES ASSUME calls + 1 <= 2 * Half PROVE Rank(next) <= calls + 1
      BY <2>1, <2>2
    <3>1. calls < 2 * Half
      BY <2>2, WidthAssumption
    <3>2. Rank(next) = calls + 1
      BY <3>1, <2>1
    <3>3. calls \in Nat
      BY DEF IdInv
    <3> QED
      BY <3>2, <3>3
  <2>4. heir' => calls' > 2 * Half
    <3>1. calls' <= 2 * Half \/ calls' > 2 * Half
      BY <2>1, WidthAssumption
    <3>2. CASE calls' <= 2 * Half
      <4>1. next \notin drawn
        BY <2>1, <3>2
      <4> QED
        BY <2>2, <4>1, Zenon
    <3> QED
      BY <3>1, <3>2
  <2>5. ClosedMeansLost'
    BY <2>2 DEF ClosedMeansLost, Nothing, Outcome
  <2> QED
    BY <2>1, <2>2, <2>3, <2>4, <2>5 DEF IdInv
<1>2. CASE OtherCall
  <2>1. /\ next' \in I32 /\ calls' = calls + 1 /\ calls' \in Nat /\ drawn' \subseteq I32
        /\ calls' < 2 * Half => Rank(next') = calls' + 1
        /\ calls < 2 * Half => Rank(next) = calls + 1
        /\ calls' <= 2 * Half => next \notin drawn /\ \A n \in drawn' : Rank(n) <= calls'
    BY <1>2, DrawStep DEF OtherCall
  <2>2. /\ id' = id /\ heir' = heir /\ id \in I32 /\ calls \in Nat
        /\ heir => calls > 2 * Half
        /\ registered /\ calls <= 2 * Half => Rank(id) <= calls
        /\ registered' => registered
    BY <1>2 DEF OtherCall, Displaced, callVars, IdInv
  <2>3. heir' => calls' > 2 * Half
    BY <2>1, <2>2, WidthAssumption
  <2>4. registered' /\ calls' <= 2 * Half => Rank(id') <= calls'
    <3> SUFFICES ASSUME registered, calls + 1 <= 2 * Half PROVE Rank(id) <= calls + 1
      BY <2>1, <2>2
    <3>1. calls <= 2 * Half
      BY <2>2, WidthAssumption
    <3>2. Rank(id) <= calls
      BY <2>2, <3>1
    <3> QED
      BY <3>2, <2>2, NextIdIsNext
  <2>5. ClosedMeansLost'
    <3>1. CASE registered /\ next = id
      <4>1. calls >= 2 * Half
        <5> SUFFICES ASSUME calls < 2 * Half PROVE FALSE
          BY <2>2, WidthAssumption
        <5>1. Rank(id) <= calls /\ Rank(id) = calls + 1
          BY <3>1, <2>1, <2>2, WidthAssumption
        <5> QED
          BY <5>1, <2>2, NextIdIsNext
      <4> QED
        BY <4>1, <2>1, <2>2, WidthAssumption DEF ClosedMeansLost
    <3>2. CASE ~(registered /\ next = id)
      BY <1>2, <3>2 DEF OtherCall, ClosedMeansLost, Nothing, Outcome
    <3> QED
      BY <3>1, <3>2
  <2> QED
    BY <2>1, <2>2, <2>3, <2>4, <2>5 DEF IdInv
<1>3. CASE OtherRemoves
  <2>1. calls' > 2 * Half
    BY <1>3 DEF OtherRemoves, IdInv
  <2>2. UNCHANGED <<idVars, id, heir>> /\ ~registered'
    BY <1>3 DEF OtherRemoves, Displaced
  <2> QED
    BY <2>1, <2>2, QuietStep DEF ClosedMeansLost
<1>4. CASE Expire
  BY <1>4, QuietStep DEF Expire, Outcome
<1>5. CASE EndOfStream
  BY <1>5, QuietStep DEF EndOfStream, Outcome, callVars
<1>6. CASE DropStream
  BY <1>6, QuietStep DEF DropStream, Nothing, Outcome
<1>7. ASSUME NEW f \in Frames(op, id), Arrive(f) PROVE IdInv'
  BY <1>7, QuietStep DEF Arrive, Nothing, Outcome, callVars
<1>8. CASE ReadLoop
  <2>1. CASE SkipMalformed
    BY <2>1, QuietStep DEF SkipMalformed, Handle, IdInv, ClosedMeansLost
  <2>2. CASE AnswerPing
    BY <2>2, QuietStep DEF AnswerPing, ProtocolMessage, Handle, IdInv, ClosedMeansLost
  <2>3. CASE IgnoreProtocol
    BY <2>3, QuietStep DEF IgnoreProtocol, ProtocolMessage, Handle, IdInv, ClosedMeansLost
  <2>4. CASE BreakConnection
    BY <2>4, QuietStep DEF BreakConnection, ProtocolMessage, Handle
  <2>5. CASE DispatchUnknown
    BY <2>5, QuietStep DEF DispatchUnknown, OperationMessage, Handle, IdInv, ClosedMeansLost
  <2>6. CASE DispatchError
    BY <2>6, QuietStep DEF DispatchError, OwnMessage, OperationMessage, Handle, ServiceError
  <2>7. CASE DispatchResponse
    BY <2>7, QuietStep DEF DispatchResponse, Succeeds, OwnMessage, OperationMessage, Handle,
       Decoded, Outcome
  <2>8. CASE DispatchEvent
    BY <2>8, QuietStep DEF DispatchEvent, Succeeds, OwnMessage, OperationMessage, Handle,
       Decoded, Outcome
  <2> QED
    BY <1>8, <2>1, <2>2, <2>3, <2>4, <2>5, <2>6, <2>7, <2>8 DEF ReadLoop
<1>9. CASE UNCHANGED vars
  BY <1>9, QuietStep DEF vars, callVars, IdInv, ClosedMeansLost
<1> QED
  BY <1>1, <1>2, <1>3, <1>4, <1>5, <1>6, <1>7, <1>8, <1>9 DEF Next

(* A live connection looks closed to a call only when the ids have come    *)
(* full circle.                                                            *)
THEOREM LossIsReal == Spec => []ClosedMeansLost
<1>1. IdInv /\ [Next]_vars => IdInv'
  BY IdStep
<1>2. IdInv => ClosedMeansLost
  BY DEF IdInv
<1> QED
  BY <1>1, <1>2, IdInit, PTL DEF Spec

-----------------------------------------------------------------------------
(***************************************************************************)
(* What parse returns, for every sequence of headers.                      *)
(***************************************************************************)
Less == OpToRel(<, Nat)

LEMMA LastPlace ==
  ASSUME NEW hs \in Seq(Header), NEW name, Places(hs, name) # {}
  PROVE  /\ Max(Places(hs, name)) \in Places(hs, name)
         /\ \A j \in Places(hs, name) : j <= Max(Places(hs, name))
<1> DEFINE P == Places(hs, name)
           n == Len(hs)
           T == {n - i : i \in P}
<1>1. n \in Nat /\ P \subseteq 1 .. n
  BY DEF Places
<1>2. T \subseteq Nat /\ T # {}
  BY <1>1
<1>3. PICK t \in T : \A u \in T : ~ (<<u, t>> \in Less)
  <2>1. IsWellFoundedOn(Less, Nat)
    BY NatLessThanWellFounded DEF Less
  <2> HIDE DEF T
  <2> QED
    BY <1>2, <2>1, WFMin
<1>4. PICK i \in P : t = n - i
  BY <1>3
<1>5. ASSUME NEW j \in P PROVE j <= i
  <2>1. n - j \in T /\ n - j \in Nat /\ t \in Nat
    BY <1>2, <1>3
  <2>2. ~ (n - j < t)
    <3> SUFFICES ASSUME n - j < t PROVE <<n - j, t>> \in Less
      BY <1>3, <2>1
    <3> QED
      BY <2>1 DEF Less, OpToRel
  <2> QED
    BY <1>1, <1>4, <2>1, <2>2
<1>6. Max(P) \in P /\ \A j \in P : Max(P) >= j
  <2>1. \E m \in P : \A j \in P : m >= j
    BY <1>1, <1>5
  <2> QED
    BY <2>1 DEF Max
<1> QED
  BY <1>1, <1>6

(* A good integer is an i32.                                               *)
LEMMA GoodInteger ==
  ASSUME NEW h \in Header, HeaderI32(h).ok
  PROVE  HeaderI32(h).n = h.n /\ h.n \in I32 /\ Exact(h, h.n)
BY DEF Header, HeaderI32, Exact

(* Of a frame that parses, every integer is one.                           *)
LEMMA ParsedIntegers ==
  ASSUME NEW hs \in Seq(Header), Parses(hs), NEW i \in DOMAIN hs,
         hs[i].name \in IntHeaders
  PROVE  hs[i].n \in I32 /\ Exact(hs[i], hs[i].n) /\ HeaderI32(hs[i]).n = hs[i].n
<1>1. hs[i] \in Header /\ HeaderI32(hs[i]).ok
  BY DEF Parses
<1> QED
  BY <1>1, GoodInteger

(* Its stream id is the last one, or 0 if there is none.                   *)
LEMMA StreamOfParsed ==
  ASSUME NEW hs \in Seq(Header), Parses(hs)
  PROVE  \/ Places(hs, StreamHeader) = {} /\ Parse(hs).stream = 0
         \/ \E i \in Places(hs, StreamHeader) :
              /\ \A j \in Places(hs, StreamHeader) : j <= i
              /\ Exact(hs[i], Parse(hs).stream)
<1>1. CASE Places(hs, StreamHeader) = {}
  BY <1>1 DEF Parse, LastInt
<1>2. CASE Places(hs, StreamHeader) # {}
  <2> DEFINE i == Max(Places(hs, StreamHeader))
  <2>1. i \in Places(hs, StreamHeader) /\ \A j \in Places(hs, StreamHeader) : j <= i
    BY <1>2, LastPlace
  <2>2. Parse(hs).stream = HeaderI32(hs[i]).n
    BY <1>2 DEF Parse, LastInt
  <2> HIDE DEF i
  <2>3. i \in DOMAIN hs /\ hs[i].name \in IntHeaders
    BY <2>1 DEF Places, IntHeaders
  <2> QED
    BY <2>1, <2>2, <2>3, ParsedIntegers
<1> QED
  BY <1>1, <1>2

-----------------------------------------------------------------------------
(* The frame in hand is one that the wire can carry.                       *)
InHandInv ==
  /\ op \in Ops /\ id \in I32 /\ next \in I32 /\ drawn \subseteq I32
  /\ inbound = <<>> \/ (alive /\ Headers \in Seq(Header))

LEMMA InHandInit == ASSUME Init PROVE InHandInv
BY WidthAssumption DEF Init, InHandInv, I32

LEMMA InHandStep == ASSUME InHandInv, [Next]_vars PROVE InHandInv'
<1> USE DEF idVars
<1>1. ASSUME NEW o \in Ops, Begin(o) PROVE InHandInv'
  BY <1>1, NextIdIsNext DEF Begin, Draw, InHandInv, Headers
<1>2. CASE OtherCall
  BY <1>2, NextIdIsNext DEF OtherCall, Draw, Displaced, callVars, InHandInv, Headers
<1>3. CASE OtherRemoves
  BY <1>3 DEF OtherRemoves, Displaced, InHandInv, Headers
<1>4. CASE Expire \/ EndOfStream \/ DropStream
  BY <1>4 DEF Expire, EndOfStream, DropStream, callVars, InHandInv, Headers
<1>5. ASSUME NEW f \in Frames(op, id), Arrive(f) PROVE InHandInv'
  <2>1. f.headers \in Seq(Header)
    BY ExchangeAssumption DEF InHandInv
  <2>2. inbound' = <<f>> /\ UNCHANGED <<op, id, next, drawn>> /\ alive'
    BY <1>5 DEF Arrive, callVars
  <2> QED
    BY <2>1, <2>2 DEF InHandInv, Headers
<1>6. CASE ReadLoop
  BY <1>6 DEF ReadLoop, SkipMalformed, AnswerPing, IgnoreProtocol, BreakConnection,
     DispatchUnknown, DispatchError, DispatchResponse, DispatchEvent, Succeeds, OwnMessage,
     OperationMessage, ProtocolMessage, Handle, InHandInv
<1>7. CASE UNCHANGED vars
  BY <1>7 DEF vars, callVars, InHandInv, Headers
<1> QED
  BY <1>1, <1>2, <1>3, <1>4, <1>5, <1>6, <1>7 DEF Next

(* Who the frames of the read loop have an effect on.                      *)
LEMMA OwnFrameStep ==
  ASSUME InHandInv, Next, Handle,
         <<phase, registered, alive, result>>' # <<phase, registered, alive, result>>
  PROVE  /\ \A i \in DOMAIN Headers :
              Headers[i].name \in IntHeaders => \E n \in I32 : Exact(Headers[i], n)
         /\ \/ Places(Headers, StreamHeader) = {} /\ ~alive'
            \/ \E i \in Places(Headers, StreamHeader) :
                 /\ \A j \in Places(Headers, StreamHeader) : j <= i
                 /\ IF alive' THEN Exact(Headers[i], id) ELSE Exact(Headers[i], 0)
<1>1. inbound # <<>> /\ inbound' = <<>>
  BY DEF Handle
<1>2. Headers \in Seq(Header)
  BY <1>1 DEF InHandInv
<1>3. BreakConnection \/ DispatchError \/ DispatchResponse \/ DispatchEvent
  <2>1. ReadLoop
    BY <1>1 DEF Next, Begin, OtherCall, OtherRemoves, Expire, EndOfStream, DropStream, Arrive
  <2> QED
    BY <2>1 DEF ReadLoop, SkipMalformed, AnswerPing, IgnoreProtocol, DispatchUnknown,
       OperationMessage
<1>4. Parses(Headers)
  BY <1>3 DEF BreakConnection, ProtocolMessage, DispatchError, DispatchResponse,
     DispatchEvent, Succeeds, OwnMessage, OperationMessage
<1>5. CASE BreakConnection
  <2>1. Parse(Headers).stream = 0 /\ alive' = FALSE
    BY <1>5 DEF BreakConnection, ProtocolMessage, Message
  <2> QED
    BY <1>2, <1>4, <2>1, ParsedIntegers, StreamOfParsed
<1>6. CASE DispatchError \/ DispatchResponse \/ DispatchEvent
  <2>1. OwnMessage
    BY <1>6 DEF DispatchError, DispatchResponse, DispatchEvent, Succeeds
  <2>2. Parse(Headers).stream = id /\ Parse(Headers).stream # 0
    BY <2>1 DEF OwnMessage, OperationMessage, Message
  <2>3. alive'
    BY <1>1, <2>1 DEF OwnMessage, OperationMessage, InHandInv
  <2> QED
    BY <1>2, <1>4, <2>2, <2>3, ParsedIntegers, StreamOfParsed
<1> QED
  BY <1>3, <1>5, <1>6

(* Only a frame whose integers are all i32s, and that is addressed to the  *)
(* call or to the connection, has an effect: for every sequence of headers.*)
THEOREM FramesAreOwn == Spec => OnlyOwnFrames
<1>1. InHandInv /\ [Next]_vars => InHandInv'
  BY InHandStep
<1>2. InHandInv /\ [Next]_vars =>
        [Handle /\ <<phase, registered, alive, result>>' # <<phase, registered, alive, result>>
     => /\ \A i \in DOMAIN Headers :
             Headers[i].name \in IntHeaders => \E n \in I32 : Exact(Headers[i], n)
        /\ \/ /\ Places(Headers, StreamHeader) = {}
              /\ ~alive'
           \/ \E i \in Places(Headers, StreamHeader) :
                /\ \A j \in Places(Headers, StreamHeader) : j <= i
                /\ IF alive' THEN Exact(Headers[i], id) ELSE Exact(Headers[i], 0)]_vars
  BY OwnFrameStep
<1> QED
  BY <1>1, <1>2, InHandInit, PTL DEF Spec, OnlyOwnFrames

-----------------------------------------------------------------------------
(* Every state is well typed: the parts of TypeOK that InHandInv has not.  *)
Stages ==
  /\ phase \in {"idle", "waiting", "open"}
  /\ phase = "waiting" => registered
  /\ Len(inbound) <= 1

Flags == registered \in BOOLEAN /\ heir \in BOOLEAN /\ alive \in BOOLEAN

Results ==
  result.kind \in {"nothing", "ok", "end", "Payload", "Service", "Timeout", "ConnectionClosed"}

TypeInv == InHandInv /\ calls \in 0 .. MaxCalls /\ Stages /\ Flags /\ Results

LEMMA TypeInit == ASSUME Init PROVE TypeInv
<1>1. calls \in 0 .. MaxCalls
  BY ExchangeAssumption DEF Init
<1>2. Stages
  BY DEF Init, Stages
<1>3. Flags
  BY DEF Init, Flags
<1>4. Results
  BY DEF Init, Results, Nothing, Outcome
<1> QED
  BY <1>1, <1>2, <1>3, <1>4, InHandInit DEF TypeInv

LEMMA TypeStep == ASSUME TypeInv, [Next]_vars PROVE TypeInv'
<1> USE DEF idVars
<1> USE DEF TypeInv
<1>1. InHandInv'
  BY InHandStep
<1> DEFINE Quiet == \/ OtherRemoves \/ Expire \/ EndOfStream \/ DropStream
                    \/ \E f \in Frames(op, id) : Arrive(f)
                    \/ UNCHANGED vars
<1>0. (\E o \in Ops : Begin(o)) \/ OtherCall \/ Quiet \/ ReadLoop
  BY DEF Next
<1>2. calls' \in 0 .. MaxCalls
  <2>1. CASE (\E o \in Ops : Begin(o)) \/ OtherCall
    BY <2>1, ExchangeAssumption DEF callVars, Begin, OtherCall, Draw, Displaced
  <2>2. CASE Quiet
    BY <2>2 DEF OtherRemoves, Displaced, Expire, EndOfStream,
       DropStream, Arrive, vars, callVars
  <2>3. CASE ReadLoop
    BY <2>3 DEF ReadLoop, SkipMalformed, AnswerPing, IgnoreProtocol, BreakConnection,
       ProtocolMessage, DispatchUnknown, DispatchError, DispatchResponse, DispatchEvent, Succeeds,
       OwnMessage, OperationMessage, Handle
  <2> QED
    BY <1>0, <2>1, <2>2, <2>3
<1>3. Flags'
  <2>1. CASE (\E o \in Ops : Begin(o)) \/ OtherCall
    <3>1. (next \in drawn) \in BOOLEAN
      OBVIOUS
    <3> QED
      BY <2>1, <3>1, Zenon DEF Flags, callVars, Begin, OtherCall, Draw, Displaced
  <2>2. CASE Quiet
    BY <2>2 DEF Flags, OtherRemoves, Displaced, Expire, EndOfStream,
       DropStream, Arrive, vars, callVars
  <2>3. CASE ReadLoop
    BY <2>3 DEF Flags, TerminatesStream, ReadLoop, SkipMalformed, AnswerPing,
       IgnoreProtocol, BreakConnection, ProtocolMessage, DispatchUnknown, DispatchError,
       DispatchResponse, DispatchEvent, Succeeds, OwnMessage, OperationMessage, Handle
  <2> QED
    BY <1>0, <2>1, <2>2, <2>3
<1>4. Stages'
  <2>1. CASE (\E o \in Ops : Begin(o)) \/ OtherCall
    BY <2>1 DEF Stages, callVars, Begin, OtherCall, Draw, Displaced
  <2>2. CASE Quiet
    <3>1. Len(inbound') <= 1
      <4>1. inbound' = inbound \/ \E f : inbound' = <<f>>
        BY <2>2 DEF OtherRemoves, Expire, EndOfStream, DropStream, Arrive, vars
      <4>2. CASE inbound' = inbound
        BY <4>2 DEF Stages
      <4>3. CASE \E f : inbound' = <<f>>
        <5>1. PICK f : inbound' = <<f>>
          BY <4>3
        <5> QED
          BY <5>1
      <4> QED
        BY <4>1, <4>2, <4>3, Zenon
    <3> QED
      BY <2>2, <3>1 DEF Stages, OtherRemoves, Displaced, Expire, EndOfStream,
         DropStream, Arrive, vars, callVars
  <2>3. CASE ReadLoop
    BY <2>3 DEF Stages, ReadLoop, SkipMalformed, AnswerPing, IgnoreProtocol, BreakConnection,
       ProtocolMessage, DispatchUnknown, DispatchError, DispatchResponse, DispatchEvent, Succeeds,
       OwnMessage, OperationMessage, Handle
  <2> QED
    BY <1>0, <2>1, <2>2, <2>3
<1>5. Results'
  <2>1. CASE (\E o \in Ops : Begin(o)) \/ OtherCall
    BY <2>1 DEF Results, Nothing, Outcome, callVars, Begin, OtherCall, Draw, Displaced
  <2>2. CASE Quiet
    BY <2>2 DEF Results, Nothing, Outcome, OtherRemoves, Displaced, Expire, EndOfStream,
       DropStream, Arrive, vars, callVars
  <2>3. CASE ReadLoop
    BY <2>3 DEF Results, Nothing, Outcome, Decoded, ServiceError, ReadLoop, SkipMalformed,
       AnswerPing, IgnoreProtocol, BreakConnection, ProtocolMessage, DispatchUnknown,
       DispatchError, DispatchResponse, DispatchEvent, Succeeds,
       OwnMessage, OperationMessage, Handle
  <2> QED
    BY <1>0, <2>1, <2>2, <2>3
<1> QED
  BY <1>1, <1>2, <1>3, <1>4, <1>5

(* Every state of a call is well typed, for every width of the ids.        *)
THEOREM ExchangeTyped == Spec => []TypeOK
<1>1. TypeInv /\ [Next]_vars => TypeInv'
  BY TypeStep
<1>2. TypeInv => TypeOK
  BY DEF TypeInv, InHandInv, Stages, Flags, Results, TypeOK
<1> QED
  BY <1>1, <1>2, TypeInit, PTL DEF Spec

=============================================================================
