--------------------------- MODULE TransportProofs ---------------------------
(***************************************************************************)
(* Theorems about Transport: frames do not mix on the way out, and the     *)
(* frames that come in are those that were sent.                           *)
(***************************************************************************)
EXTENDS Transport, SequenceTheorems, WellFoundedInduction, TLAPS

-----------------------------------------------------------------------------
(* Each step of the composition is one of a half, or a stutter of it.      *)
WriteHalfStep ==
  \/ \E w \in Writer : Lock(w) \/ Put(w) \/ Fail(w) \/ Drop(w)
  \/ NucleusReads
  \/ UNCHANGED <<write, arrival, turns, put, out, shut>>

LEMMA WriteSteps == ASSUME [Next]_vars PROVE WriteHalfStep
<1> USE TransportAssumption, WriteHalfAssumption DEF WriteHalfStep
<1>1. CASE \E w \in Writer : WriterStep(w)
  BY <1>1 DEF WriterStep
<1>2. CASE \E w \in Writer \ Pongs : Lock(w) /\ UNCHANGED readVars
  BY <1>2
<1>3. CASE \E w \in Droppable : Drop(w) /\ UNCHANGED readVars
  BY <1>3
<1>4. CASE ReadLoop
  <2>1. CASE AnswerPing
    BY <2>1 DEF AnswerPing
  <2>2. CASE (ReaderStep /\ UNCHANGED writeVars) \/ ReadOn
    BY <2>2 DEF ReadOn, writeVars
  <2> QED
    BY <1>4, <2>1, <2>2 DEF ReadLoop
<1>5. CASE NucleusReads /\ UNCHANGED readVars
  BY <1>5
<1>6. CASE (Emit /\ UNCHANGED writeVars) \/ HangUp \/ UNCHANGED vars
  BY <1>6 DEF HangUp, vars, writeVars
<1> QED
  BY <1>1, <1>2, <1>3, <1>4, <1>5, <1>6 DEF Next

-----------------------------------------------------------------------------
(***************************************************************************)
(* The write half.  The last part on the socket is the end of a frame, or  *)
(* what is left of a future or of a PingResponse, or it is the last one put*)
(* by the task that has the lock; if not, the write half is shut down.     *)
(***************************************************************************)
WriteType ==
  /\ write \in [Writer -> {"idle", "locking", "done", "failed", "dropped"}]
  /\ arrival \in [Writer -> Nat]
  /\ turns \in Nat
  /\ put \in [Writer -> Nat]
  /\ out \in Seq([frame : Writer, part : Nat])

Turns ==
  \A v, w \in Writer :
    AtLock(v) => /\ arrival[v] <= turns
                 /\ AtLock(w) /\ arrival[v] = arrival[w] => v = w

Last == out[Len(out)]

OwnPart(w) ==
  /\ write[w] = "idle" => put[w] = 0
  /\ AtLock(w) /\ put[w] > 0 =>
       HasLock(w) /\ out # <<>> /\ Last = [frame |-> w, part |-> put[w]]

UnderWay == \A w \in Writer : OwnPart(w)

LastPart ==
  out # <<>> =>
    \/ Last.part = Parts
    \/ Fragment(Last.frame)
    \/ shut
    \/ AtLock(Last.frame) /\ put[Last.frame] = Last.part /\ put[Last.frame] > 0

WriteInv == WriteType /\ Turns /\ UnderWay /\ LastPart /\ FramesDoNotMix

(* The lock has one holder.                                                *)
LEMMA OneHolder ==
  ASSUME WriteType, Turns, NEW v \in Writer, NEW w \in Writer,
         HasLock(v), HasLock(w)
  PROVE  v = w
<1>1. arrival[v] = arrival[w]
  BY DEF WriteType, HasLock
<1> QED
  BY <1>1 DEF Turns, HasLock

LEMMA WriteInvInit == ASSUME Init PROVE WriteInv
BY WriteHalfAssumption
DEF Init, WriteInit, WriteInv, WriteType, Turns, UnderWay, OwnPart, LastPart, FramesDoNotMix,
    AtLock

(* What is on the socket are parts of frames.                              *)
LEMMA PartOnSocket ==
  ASSUME WriteType, NEW i \in 1 .. Len(out)
  PROVE  out[i].frame \in Writer
<1>1. out[i] \in [frame : Writer, part : Nat]
  BY ElementOfSeq DEF WriteType
<1> QED
  BY <1>1

LEMMA LastFrame ==
  ASSUME WriteType, out # <<>>
  PROVE  Len(out) \in 1 .. Len(out) /\ Last.frame \in Writer
<1>1. Len(out) \in 1 .. Len(out)
  BY EmptySeq, LenProperties DEF WriteType
<1> QED
  BY <1>1, PartOnSocket DEF Last

(* Steps that put nothing on the socket keep the order of its parts.       *)
LEMMA MixUnchanged ==
  ASSUME WriteType, FramesDoNotMix, out' = out,
         \A w \in Writer : Fragment(w) => Fragment(w)'
  PROVE  FramesDoNotMix'
<1>1. \A i \in DOMAIN out : i > 1 => out[i - 1].frame \in Writer
  <2> SUFFICES ASSUME NEW i \in DOMAIN out, i > 1
               PROVE  out[i - 1].frame \in Writer
    OBVIOUS
  <2>1. i - 1 \in 1 .. Len(out)
    BY LenProperties DEF WriteType
  <2> QED
    BY <2>1, PartOnSocket
<1> QED
  BY <1>1 DEF FramesDoNotMix, Follows

LEMMA LockWrite == ASSUME WriteInv, NEW w \in Writer, Lock(w) PROVE WriteInv'
<1> USE DEF WriteInv
<1>1. WriteType'
  BY DEF WriteType, Lock
<1>2. \A v \in Writer : AtLock(v)' <=> v = w \/ AtLock(v)
  BY DEF WriteType, Lock, AtLock
<1>3. \A v \in Writer :
        arrival'[v] = IF v = w THEN turns + 1 ELSE arrival[v]
  BY DEF WriteType, Lock
<1>4. Turns'
  BY <1>2, <1>3 DEF WriteType, Turns, Lock, AtLock
<1>5. UnderWay'
  <2> SUFFICES ASSUME NEW v \in Writer PROVE OwnPart(v)'
    BY DEF UnderWay
  <2>1. (write[v] = "idle" => put[v] = 0)'
    BY DEF UnderWay, OwnPart, WriteType, Lock
  <2>2. ASSUME (AtLock(v) /\ put[v] > 0)'
        PROVE  AtLock(v) /\ v # w /\ HasLock(v) /\ out # <<>>
               /\ Last = [frame |-> v, part |-> put[v]]
    BY <1>2, <2>2 DEF UnderWay, OwnPart, WriteType, Lock
  <2>3. ASSUME (AtLock(v) /\ put[v] > 0)' PROVE HasLock(v)'
    <3> SUFFICES ASSUME NEW u \in Writer, AtLock(u)'
                 PROVE  arrival'[v] <= arrival'[u]
      BY <2>3 DEF HasLock, AtLock
    <3>1. arrival'[v] = arrival[v] /\ HasLock(v) /\ arrival[v] <= turns
      BY <1>3, <2>2, <2>3 DEF Turns
    <3>2. CASE u = w
      BY <1>3, <3>1, <3>2 DEF WriteType
    <3>3. CASE u # w
      BY <1>2, <1>3, <3>1, <3>3 DEF HasLock
    <3> QED
      BY <3>2, <3>3
  <2> QED
    BY <2>1, <2>2, <2>3 DEF OwnPart, Last, Lock
<1>6. LastPart'
  BY <1>2 DEF LastPart, Last, Fragment, Lock, WriteType, AtLock
<1>7. FramesDoNotMix'
  BY MixUnchanged DEF Lock, Fragment, WriteType
<1> QED
  BY <1>1, <1>4, <1>5, <1>6, <1>7

(* A part that goes out follows the one before: the task's own last one,   *)
(* if it has put one; if not, one that nobody will add to.                 *)
LEMMA PutWrite == ASSUME WriteInv, NEW w \in Writer, Put(w) PROVE WriteInv'
<1> USE DEF WriteInv
<1> DEFINE new == [frame |-> w, part |-> put[w] + 1]
<1>1. WriteType'
  BY DEF WriteType, Put
<1>2. \A v \in Writer : AtLock(v)' => AtLock(v)
  BY DEF WriteType, Put, AtLock
<1>3. Turns'
  BY <1>2 DEF Turns, Put
<1>4. /\ out' # <<>> /\ Last' = new
      /\ Len(out') = Len(out) + 1
      /\ \A i \in 1 .. Len(out) : out'[i] = out[i]
      /\ out'[Len(out) + 1] = new
  <2>1. new \in [frame : Writer, part : Nat] /\ out' = Append(out, new)
    BY DEF WriteType, Put
  <2> HIDE DEF new
  <2>2. /\ Len(out') = Len(out) + 1 /\ Len(out) \in Nat
        /\ \A i \in 1 .. Len(out) : out'[i] = out[i]
        /\ out'[Len(out) + 1] = new
    BY <2>1, AppendProperties, LenProperties DEF WriteType
  <2>3. out' # <<>>
    BY <1>1, <2>2, EmptySeq DEF WriteType
  <2> QED
    BY <2>2, <2>3 DEF Last
<1>5. put' = [put EXCEPT ![w] = put[w] + 1] /\ put[w] \in Nat
  BY DEF Put, WriteType
<1>6. UnderWay'
  <2> SUFFICES ASSUME NEW v \in Writer PROVE OwnPart(v)'
    BY DEF UnderWay
  <2>1. (write[v] = "idle" => put[v] = 0)'
    BY <1>5 DEF UnderWay, OwnPart, WriteType, Put, HasLock, AtLock
  <2>2. ASSUME (AtLock(v) /\ put[v] > 0)' PROVE v = w
    <3>1. CASE v # w
      <4>1. HasLock(v)
        BY <1>2, <1>5, <2>2, <3>1 DEF UnderWay, OwnPart, WriteType
      <4> QED
        BY <4>1, OneHolder DEF Put
    <3> QED
      BY <3>1
  <2>3. ASSUME (AtLock(v) /\ put[v] > 0)' PROVE HasLock(v)'
    BY <1>2, <2>2, <2>3 DEF HasLock, Put
  <2> QED
    BY <1>4, <1>5, <2>1, <2>2, <2>3 DEF OwnPart, WriteType
<1>7. LastPart'
  <2>1. CASE IsLast(put[w] + 1)
    BY <1>4, <2>1 DEF LastPart, IsLast
  <2>2. CASE ~IsLast(put[w] + 1)
    BY <1>4, <1>5, <2>2 DEF LastPart, Put, HasLock, AtLock, WriteType
  <2> QED
    BY <2>1, <2>2
<1>8. ASSUME out # <<>> PROVE Follows(Last, new)
  <2>1. CASE put[w] > 0
    BY <2>1, <1>5 DEF UnderWay, OwnPart, Put, HasLock, Follows
  <2>2. CASE put[w] = 0
    <3>1. ~(AtLock(Last.frame) /\ put[Last.frame] > 0)
      <4>1. Last.frame \in Writer
        BY <1>8, LastFrame
      <4> QED
        BY <2>2, <4>1, OneHolder DEF UnderWay, OwnPart, Put
    <3> QED
      BY <1>8, <2>2, <3>1 DEF LastPart, Follows, Put
  <2> QED
    BY <1>5, <2>1, <2>2
<1>9. FramesDoNotMix'
  <2>1. \A v \in Writer : Fragment(v) => Fragment(v)'
    BY DEF Fragment, Put, WriteType, HasLock, AtLock
  <2> SUFFICES ASSUME NEW i \in DOMAIN out', i > 1
               PROVE  Follows(out[i - 1], out[i])'
    BY DEF FramesDoNotMix
  <2>3. i \in 1 .. Len(out) + 1 /\ Len(out) \in Nat
    BY <1>1, <1>4, LenProperties DEF WriteType
  <2>4. CASE i = Len(out) + 1
    <3>1. out # <<>> /\ out'[i - 1] = Last /\ out'[i] = new
      BY <1>4, <2>3, <2>4, EmptySeq DEF Last, WriteType
    <3>2. Last.frame \in Writer
      BY <3>1, LastFrame
    <3> QED
      BY <1>8, <2>1, <3>1, <3>2 DEF Follows
  <2>5. CASE i # Len(out) + 1
    <3>1. i \in 1 .. Len(out) /\ i - 1 \in 1 .. Len(out)
      BY <2>3, <2>5
    <3>2. out'[i - 1] = out[i - 1] /\ out'[i] = out[i]
      BY <1>4, <3>1
    <3>3. Follows(out[i - 1], out[i]) /\ out[i - 1].frame \in Writer
      BY <3>1, PartOnSocket, LenProperties DEF FramesDoNotMix, WriteType
    <3> QED
      BY <2>1, <3>2, <3>3 DEF Follows
  <2> QED
    BY <2>4, <2>5
<1> QED
  BY <1>1, <1>3, <1>6, <1>7, <1>9

(* A task that leaves the lock leaves a fragment, or a socket shut down.   *)
LEMMA LeaveWrite ==
  ASSUME WriteInv, NEW w \in Writer, Fail(w) \/ Drop(w)
  PROVE  WriteInv'
<1> USE DEF WriteInv
<1>1. /\ WriteType'
      /\ UNCHANGED <<arrival, turns, put, out>>
      /\ AtLock(w) /\ write'[w] # "idle" /\ write'[w] # "locking"
      /\ \A v \in Writer : v # w => write'[v] = write[v]
      /\ shut => shut'
  <2>1. CASE Fail(w)
    BY <2>1 DEF WriteType, Fail, HasLock, AtLock
  <2>2. CASE Drop(w)
    BY <2>2 DEF WriteType, Drop, AtLock
  <2> QED
    BY <2>1, <2>2
<1>2. \A v \in Writer : AtLock(v)' <=> v # w /\ AtLock(v)
  BY <1>1 DEF AtLock
<1>3. \A v \in Writer : Fragment(v) => Fragment(v)'
  BY DEF Fragment, Fail, Drop, WriteType, HasLock, AtLock
<1>4. Fragment(w)' \/ shut'
  BY DEF Fail, Drop, Fragment, WriteType
<1>5. Turns'
  BY <1>1, <1>2 DEF Turns
<1>6. UnderWay'
  <2>1. \A v \in Writer : v # w /\ HasLock(v) => HasLock(v)'
    BY <1>1, <1>2 DEF HasLock
  <2> QED
    BY <1>1, <1>2, <2>1 DEF UnderWay, OwnPart, Last
<1>7. LastPart'
  <2>1. out # <<>> => Last.frame \in Writer
    BY LastFrame
  <2> QED
    BY <1>1, <1>2, <1>3, <1>4, <2>1 DEF LastPart, Last
<1>8. FramesDoNotMix'
  BY <1>1, <1>3, MixUnchanged
<1> QED
  BY <1>1, <1>5, <1>6, <1>7, <1>8

LEMMA WriteInvStep == ASSUME WriteInv, [Next]_vars PROVE WriteInv'
<1>1. CASE \E w \in Writer : Lock(w) \/ Put(w) \/ Fail(w) \/ Drop(w)
  BY <1>1, LockWrite, PutWrite, LeaveWrite
<1>2. CASE NucleusReads \/ UNCHANGED <<write, arrival, turns, put, out, shut>>
  <2>1. UNCHANGED <<write, arrival, turns, put, out, shut>>
    BY <1>2 DEF NucleusReads
  <2> QED
    BY <2>1 DEF WriteInv, WriteType, Turns, UnderWay, OwnPart, LastPart, FramesDoNotMix,
                Follows, Fragment, Last, HasLock, AtLock
<1> QED
  BY <1>1, <1>2, WriteSteps DEF WriteHalfStep

(* The bytes of two frames never mix on the socket, whatever is dropped and*)
(* whatever fails, for any number of calls and any cutting into parts.     *)
THEOREM FramesNeverMix == Spec => []FramesDoNotMix
<1>1. WriteInv /\ [Next]_vars => WriteInv'
  BY WriteInvStep
<1>2. WriteInv => FramesDoNotMix
  BY DEF WriteInv
<1> QED
  BY <1>1, <1>2, WriteInvInit, PTL DEF Spec

-----------------------------------------------------------------------------
(***************************************************************************)
(* The reader.  What it has yielded, what is in its buffer and what is on  *)
(* the wire are, end to end, what the nucleus has written; and when it     *)
(* reads, there are fewer bytes in the buffer than the frame that is due   *)
(* has announced.                                                          *)
(***************************************************************************)
Base == Start[Due]

ReadType ==
  /\ sent \in 0 .. Start[Frames + 1]
  /\ wire \in Seq(Nat)
  /\ buf \in Seq(Nat)
  /\ yielded \in Seq(Nat)
  /\ Len(yielded) \in 0 .. Frames

InOrder ==
  /\ \A i \in 1 .. Len(yielded) : yielded[i] = i
  /\ \A i \in 1 .. Len(buf) : buf[i] = Base + i
  /\ \A i \in 1 .. Len(wire) : wire[i] = Base + Len(buf) + i
  /\ sent = Base + Len(buf) + Len(wire)

(* Only damage to its prelude makes a frame announce a wrong length.       *)
Announced ==
  /\ announced \in [Frame -> Nat]
  /\ \A f \in Frame : announced[f] # Size(f) => Start[f] + 1 \in damaged

NoFrameLeft == Due \in Frame => buf = <<>> \/ Len(buf) < announced[Due]

DamageFound ==
  Due \in Frame /\ \E b \in damaged : Start[Due] < b /\ b <= Start[Due + 1]

ReadInv ==
  /\ ReadType
  /\ InOrder
  /\ Announced
  /\ reader \in {"reading", "eof"} => NoFrameLeft
  /\ reader = "eof" => ended /\ wire = <<>>
  /\ reader = "error" => DamageFound

LEMMA StartOrder ==
  ASSUME NEW f \in 1 .. Frames + 1, NEW g \in 1 .. Frames + 1
  PROVE  /\ Start[f] \in Nat /\ Frames + 1 \in 1 .. Frames + 1
         /\ f < g => Start[f] < Start[g]
         /\ f <= g => Start[f] <= Start[g]
         /\ Start[f] = Start[g] => f = g
BY ReaderAssumption

(* The numbers the invariant speaks of are numbers.                        *)
LEMMA ReadNumbers ==
  ASSUME ReadType
  PROVE  /\ Len(buf) \in Nat /\ Len(wire) \in Nat /\ sent \in Nat
         /\ Frames \in Nat /\ Start[Frames + 1] \in Nat
         /\ Due \in 1 .. Frames + 1 /\ Base \in Nat
         /\ Due \in Frame => Start[Due + 1] \in Nat /\ Size(Due) \in Nat \ {0}
                             /\ Start[Due + 1] = Base + Size(Due)
<1>1. /\ Len(buf) \in Nat /\ Len(wire) \in Nat
      /\ Frames \in Nat /\ Due \in 1 .. Frames + 1
  BY LenProperties, ReaderAssumption DEF ReadType, Due
<1>2. Start[Frames + 1] \in Nat /\ Base \in Nat
  BY <1>1, StartOrder DEF Base
<1>3. ASSUME Due \in Frame
      PROVE  /\ Start[Due + 1] \in Nat /\ Size(Due) \in Nat \ {0}
             /\ Start[Due + 1] = Base + Size(Due)
  <2>1. Due + 1 \in 1 .. Frames + 1 /\ Due < Due + 1
    BY <1>1, <1>3 DEF Frame
  <2>2. Start[Due] < Start[Due + 1] /\ Start[Due + 1] \in Nat
    BY <1>1, <2>1, StartOrder
  <2> QED
    BY <1>2, <2>2 DEF Size, Base
<1> QED
  BY <1>1, <1>2, <1>3 DEF ReadType

(* The frame at the front of the buffer is the one that is due.            *)
LEMMA FrontIsDue ==
  ASSUME ReadType, InOrder, buf # <<>>
  PROVE  /\ Due \in Frame /\ Head(buf) = Base + 1
         /\ \A f \in AtFront : f = Due
<1>1. Len(buf) >= 1 /\ Head(buf) = buf[1]
  BY EmptySeq, ReadNumbers DEF ReadType
<1>2. Head(buf) = Base + 1 /\ Base < sent
  BY <1>1, ReadNumbers DEF InOrder
<1>3. Due # Frames + 1
  BY <1>2, ReadNumbers DEF ReadType, Base
<1>4. \A f \in AtFront : f = Due
  <2> SUFFICES ASSUME NEW f \in AtFront PROVE f = Due
    OBVIOUS
  <2>1. f \in 1 .. Frames + 1 /\ Start[f] + 1 = Base + 1
    BY <1>2, ReadNumbers DEF AtFront, Frame
  <2>2. Due \in 1 .. Frames + 1
    BY ReadNumbers
  <2>3. Start[f] \in Nat /\ Start[Due] \in Nat
    BY <2>1, <2>2, StartOrder
  <2>4. Start[f] = Start[Due]
    BY <2>1, <2>3 DEF Base
  <2> QED
    BY <2>1, <2>2, <2>4, StartOrder
<1> QED
  BY <1>2, <1>3, <1>4, ReadNumbers DEF Frame

LEMMA ReadInvInit == ASSUME Init PROVE ReadInv
<1>1. /\ ReadType /\ Len(yielded) = 0 /\ Len(buf) = 0 /\ Len(wire) = 0
      /\ sent = 0 /\ reader = "decoding"
  BY ReaderAssumption, EmptySeq DEF Init, ReadInit, ReadType
<1>2. Base = 0
  BY <1>1, ReaderAssumption DEF Base, Due
<1>3. Announced
  <2>1. \A f \in Frame : Size(f) \in Nat
    BY ReaderAssumption DEF Frame, Size
  <2> QED
    BY <2>1 DEF Init, ReadInit, Announced
<1> QED
  BY <1>1, <1>2, <1>3 DEF ReadInv, InOrder

(* The nucleus writes the prelude of a frame with its first byte.          *)
LEMMA EmitLengths ==
  ASSUME Announced, Emit
  PROVE  /\ Announced'
         /\ \A f \in Frame : announced'[f] # announced[f] => Start[f] = sent
<1>1. damaged \subseteq damaged'
  BY DEF Emit
<1>2. CASE UNCHANGED announced
  BY <1>1, <1>2 DEF Announced
<1>3. CASE ~UNCHANGED announced
  <2>1. PICK f \in Frame, n \in Lengths :
          Start[f] = sent /\ announced' = [announced EXCEPT ![f] = n]
    BY <1>3 DEF Emit
  <2>2. n \in Nat /\ sent + 1 \in damaged'
    BY <1>3, ReaderAssumption DEF Emit
  <2>3. \A g \in Frame : g # f => announced'[g] = announced[g]
    BY <2>1 DEF Announced
  <2>4. announced' \in [Frame -> Nat]
    BY <2>1, <2>2 DEF Announced
  <2>5. ASSUME NEW g \in Frame, announced'[g] # Size(g)
        PROVE  Start[g] + 1 \in damaged'
    BY <1>1, <2>1, <2>2, <2>3, <2>5 DEF Announced
  <2> QED
    BY <2>1, <2>3, <2>4, <2>5 DEF Announced, Size
<1> QED
  BY <1>2, <1>3

LEMMA EmitRead == ASSUME ReadInv, Emit PROVE ReadInv'
<1> ReadType /\ InOrder
  BY DEF ReadInv
<1>n. /\ Len(buf) \in Nat /\ Len(wire) \in Nat /\ sent \in Nat
      /\ Len(yielded) \in Nat /\ Due = Len(yielded) + 1 /\ Base \in Nat
      /\ Due \in Frame => Start[Due + 1] \in Nat /\ Size(Due) \in Nat \ {0}
                          /\ Start[Due + 1] = Base + Size(Due)
  BY ReadNumbers, LenProperties DEF ReadType, Due
<1>1. sent + 1 \in Nat /\ sent' = sent + 1 /\ wire' = Append(wire, sent + 1)
      /\ UNCHANGED <<ended, buf, yielded, reader>> /\ ~ended
      /\ sent' \in 0 .. Start[Frames + 1]
  BY <1>n DEF Emit, Byte
<1>2. /\ wire' \in Seq(Nat) /\ Len(wire') = Len(wire) + 1
      /\ \A i \in 1 .. Len(wire) : wire'[i] = wire[i]
      /\ wire'[Len(wire) + 1] = sent + 1
  BY <1>1, AppendProperties DEF ReadType
<1>3. ReadType' /\ Base' = Base /\ Due' = Due
  BY <1>1, <1>2 DEF ReadType, Base, Due
<1>4. InOrder'
  <2>1. ASSUME NEW i \in 1 .. Len(wire') PROVE wire'[i] = Base + Len(buf) + i
    <3>1. CASE i \in 1 .. Len(wire)
      BY <1>2, <3>1 DEF InOrder
    <3>2. CASE i = Len(wire) + 1
      BY <1>2, <3>2, <1>n DEF InOrder
    <3> QED
      BY <1>2, <3>1, <3>2, <1>n
  <2> QED
    BY <1>1, <1>2, <1>3, <2>1, <1>n DEF InOrder
<1>5. reader = "error" => DamageFound'
  <2>1. damaged \subseteq damaged'
    BY DEF Emit
  <2> QED
    BY <1>3, <2>1 DEF DamageFound, ReadInv
<1>6. Announced' /\ (NoFrameLeft => NoFrameLeft')
  <2>1. Announced' /\ \A f \in Frame : announced'[f] # announced[f] => Start[f] = sent
    BY EmitLengths DEF ReadInv
  <2>2. Start[Due] = sent => buf = <<>>
    BY <1>n, EmptySeq DEF InOrder, ReadType, Base
  <2> QED
    BY <1>1, <1>3, <2>1, <2>2 DEF NoFrameLeft
<1> QED
  BY <1>1, <1>3, <1>4, <1>5, <1>6 DEF ReadInv

(* decode_frame takes the frame that is due.                               *)
LEMMA DecodeRead == ASSUME ReadInv, DecodeFrame PROVE ReadInv'
<1> ReadType /\ InOrder
  BY DEF ReadInv
<1>n. /\ Len(buf) \in Nat /\ Len(wire) \in Nat /\ sent \in Nat
      /\ Len(yielded) \in Nat /\ Due = Len(yielded) + 1 /\ Base \in Nat
      /\ Due \in Frame => Start[Due + 1] \in Nat /\ Size(Due) \in Nat \ {0}
                          /\ Start[Due + 1] = Base + Size(Due)
  BY ReadNumbers, LenProperties DEF ReadType, Due
<1>1. /\ Due \in Frame /\ Len(buf) >= Size(Due) /\ yielded' = Append(yielded, Due)
      /\ buf' = SubSeq(buf, Size(Due) + 1, Len(buf)) /\ reader' = "holding"
      /\ UNCHANGED <<sent, wire, damaged, announced>>
  <2>1. PICK f \in AtFront :
          /\ Len(buf) >= Size(f) /\ yielded' = Append(yielded, f)
          /\ buf' = SubSeq(buf, Size(f) + 1, Len(buf))
    BY DEF DecodeFrame, Intact
  <2>2. buf # <<>>
    BY <2>1 DEF AtFront
  <2> QED
    BY <2>1, <2>2, FrontIsDue DEF DecodeFrame
<1>2. /\ yielded' \in Seq(Nat) /\ Len(yielded') = Due /\ Due' = Due + 1
      /\ \A i \in 1 .. Len(yielded') : yielded'[i] = i
  <2>1. /\ yielded' \in Seq(Nat) /\ Len(yielded') = Len(yielded) + 1
        /\ \A i \in 1 .. Len(yielded) : yielded'[i] = yielded[i]
        /\ yielded'[Len(yielded) + 1] = Due
    BY <1>1, AppendProperties, <1>n DEF ReadType
  <2>2. Len(yielded') = Due /\ Due' = Due + 1 /\ Len(yielded) \in Nat
    BY <2>1 DEF Due, ReadType
  <2>3. ASSUME NEW i \in 1 .. Len(yielded') PROVE yielded'[i] = i
    <3>1. CASE i \in 1 .. Len(yielded)
      BY <2>1, <3>1 DEF InOrder
    <3>2. CASE i = Len(yielded) + 1
      BY <2>1, <2>2, <3>2 DEF Due
    <3> QED
      BY <2>1, <2>2, <3>1, <3>2
  <2> QED
    BY <2>1, <2>2, <2>3
<1>3. /\ buf' \in Seq(Nat) /\ Len(buf') = Len(buf) - Size(Due)
      /\ \A i \in 1 .. Len(buf') : buf'[i] = buf[Size(Due) + i]
  <2> DEFINE m == Size(Due) + 1
             n == Len(buf)
  <2>1. m \in Int /\ n \in Int /\ m >= 1 /\ m <= n + 1
    BY <1>1, <1>n
  <2>2. \A i \in m .. n : buf[i] \in Nat
    BY <2>1, ElementOfSeq DEF ReadType
  <2> HIDE DEF m, n
  <2>3. /\ SubSeq(buf, m, n) \in Seq(Nat)
        /\ Len(SubSeq(buf, m, n)) = IF m <= n THEN n - m + 1 ELSE 0
        /\ \A i \in 1 .. n - m + 1 : SubSeq(buf, m, n)[i] = buf[m + i - 1]
    BY <2>1, <2>2, SubSeqProperties
  <2>4. n - m + 1 = Len(buf) - Size(Due) /\ (m > n => Len(buf) = Size(Due))
    BY <1>1, <2>1, <1>n DEF m, n
  <2>5. Len(buf') = Len(buf) - Size(Due)
    BY <1>1, <2>1, <2>3, <2>4, <1>n DEF m, n
  <2>6. ASSUME NEW i \in 1 .. Len(buf') PROVE buf'[i] = buf[Size(Due) + i]
    <3>1. i \in 1 .. n - m + 1 /\ m + i - 1 = Size(Due) + i
      BY <1>1, <2>4, <2>5, <1>n DEF m
    <3>2. buf' = SubSeq(buf, m, n)
      BY <1>1 DEF m, n
    <3> QED
      BY <2>3, <3>1, <3>2
  <2>7. buf' \in Seq(Nat)
    BY <1>1, <2>3 DEF m, n
  <2> QED
    BY <2>5, <2>6, <2>7
<1>4. Base' = Base + Size(Due)
  BY <1>1, <1>2, <1>n DEF Base
<1>5. ReadType'
  BY <1>1, <1>2, <1>3, <1>n DEF ReadType, Frame
<1>6. InOrder'
  <2>1. \A i \in 1 .. Len(buf') : buf'[i] = Base' + i
    <3> SUFFICES ASSUME NEW i \in 1 .. Len(buf') PROVE buf'[i] = Base' + i
      OBVIOUS
    <3>1. Size(Due) \in Nat /\ Base \in Nat /\ Len(buf) \in Nat
      BY <1>1, <1>n
    <3>3. Size(Due) + i \in 1 .. Len(buf)
      BY <1>3, <3>1
    <3>2. buf[Size(Due) + i] = Base + (Size(Due) + i)
      BY <3>3 DEF InOrder
    <3> QED
      BY <1>3, <1>4, <3>1, <3>2
  <2>2. Base' + Len(buf') = Base + Len(buf)
    BY <1>1, <1>3, <1>4, <1>n
  <2> QED
    BY <1>1, <1>2, <2>1, <2>2 DEF InOrder
<1> QED
  BY <1>1, <1>5, <1>6 DEF ReadInv, Announced

(* It fails only on a byte of that frame.                                  *)
LEMMA ErrorIsDamage == ASSUME ReadInv, DecodeError PROVE DamageFound
<1> ReadType /\ InOrder
  BY DEF ReadInv
<1>n. /\ Len(buf) \in Nat /\ Len(wire) \in Nat /\ sent \in Nat
      /\ Len(yielded) \in Nat /\ Due = Len(yielded) + 1 /\ Base \in Nat
      /\ Due \in Frame => Start[Due + 1] \in Nat /\ Size(Due) \in Nat \ {0}
                          /\ Start[Due + 1] = Base + Size(Due)
  BY ReadNumbers, LenProperties DEF ReadType, Due
<1>1. Due \in Frame /\ Head(buf) = Base + 1
  BY FrontIsDue DEF DecodeError
<1>2. Due \in AtFront
  BY <1>1 DEF AtFront, DecodeError, Base
<1>3. CASE announced[Due] # Size(Due)
  <2>1. Start[Due] + 1 \in damaged
    BY <1>1, <1>3 DEF ReadInv, Announced
  <2>2. Start[Due] < Start[Due] + 1 /\ Start[Due] + 1 <= Start[Due + 1]
    BY <1>1, <1>n DEF Base
  <2> QED
    BY <1>1, <2>1, <2>2 DEF DamageFound
<1>4. CASE announced[Due] = Size(Due)
  <2>1. PICK i \in 1 .. Size(Due) : ~(buf[i] = Base + i /\ buf[i] \notin damaged)
    BY <1>2, <1>4 DEF DecodeError, Intact, Base
  <2>2. i \in 1 .. Len(buf)
    BY <1>1, <1>2, <1>4, <1>n DEF DecodeError
  <2>3. buf[i] = Base + i /\ buf[i] \in damaged
    BY <2>1, <2>2 DEF InOrder
  <2>4. Start[Due] < Base + i /\ Base + i <= Start[Due + 1]
    BY <1>1, <1>n DEF Base
  <2> QED
    BY <1>1, <2>3, <2>4 DEF DamageFound
<1> QED
  BY <1>3, <1>4

LEMMA ErrorRead == ASSUME ReadInv, DecodeError PROVE ReadInv'
BY ErrorIsDamage
DEF DecodeError, ReadType, InOrder, Announced, DamageFound, Base, Due, ReadInv

(* It asks for more only when there is less than the frame has announced.  *)
LEMMA IncompleteRead == ASSUME ReadInv, DecodeIncomplete PROVE ReadInv'
<1> USE DEF ReadInv
<1>1. NoFrameLeft
  <2>1. CASE buf = <<>>
    BY <2>1 DEF NoFrameLeft
  <2>2. CASE buf # <<>>
    BY <2>2, FrontIsDue DEF DecodeIncomplete, NoFrameLeft
  <2> QED
    BY <2>1, <2>2
<1> QED
  BY <1>1 DEF DecodeIncomplete, ReadType, InOrder, Announced, NoFrameLeft, Base, Due

LEMMA BufRead == ASSUME ReadInv, ReadBuf PROVE ReadInv'
<1> ReadType /\ InOrder
  BY DEF ReadInv
<1>n. /\ Len(buf) \in Nat /\ Len(wire) \in Nat /\ sent \in Nat
      /\ Len(yielded) \in Nat /\ Due = Len(yielded) + 1 /\ Base \in Nat
      /\ Due \in Frame => Start[Due + 1] \in Nat /\ Size(Due) \in Nat \ {0}
                          /\ Start[Due + 1] = Base + Size(Due)
  BY ReadNumbers, LenProperties DEF ReadType, Due
<1>1. PICK n \in 1 .. Len(wire) :
        /\ buf' = buf \o SubSeq(wire, 1, n)
        /\ wire' = SubSeq(wire, n + 1, Len(wire))
  BY DEF ReadBuf
<1>2. reader' = "decoding" /\ UNCHANGED <<sent, yielded, damaged, announced>>
  BY DEF ReadBuf
<1> DEFINE new == SubSeq(wire, 1, n)
           len == Len(wire)
<1>3. len \in Nat /\ n \in 1 .. len /\ \A i \in 1 .. len : wire[i] \in Nat
  BY <1>n, ElementOfSeq DEF ReadType
<1>4. /\ new \in Seq(Nat) /\ Len(new) = n
      /\ \A i \in 1 .. n : new[i] = wire[i]
  <2> HIDE DEF len
  <2>1. \A i \in 1 .. n : wire[i] \in Nat
    BY <1>3
  <2>2. /\ new \in Seq(Nat) /\ Len(new) = IF 1 <= n THEN n - 1 + 1 ELSE 0
        /\ \A i \in 1 .. n - 1 + 1 : new[i] = wire[1 + i - 1]
    BY <1>3, <2>1, SubSeqProperties
  <2> QED
    BY <1>3, <2>2
<1>5. /\ wire' \in Seq(Nat) /\ Len(wire') = len - n
      /\ \A i \in 1 .. len - n : wire'[i] = wire[n + i]
  <2> DEFINE m == n + 1
  <2> HIDE DEF len
  <2>1. m \in Int /\ len \in Int /\ m <= len + 1 /\ \A i \in m .. len : wire[i] \in Nat
    BY <1>3
  <2> HIDE DEF m
  <2>2. /\ SubSeq(wire, m, len) \in Seq(Nat)
        /\ Len(SubSeq(wire, m, len)) = IF m <= len THEN len - m + 1 ELSE 0
        /\ \A i \in 1 .. len - m + 1 : SubSeq(wire, m, len)[i] = wire[m + i - 1]
    BY <2>1, SubSeqProperties
  <2> QED
    BY <1>1, <1>3, <2>1, <2>2 DEF m, len
<1> HIDE DEF new
<1>6. /\ buf' \in Seq(Nat) /\ Len(buf') = Len(buf) + n
      /\ \A i \in 1 .. Len(buf) + n :
           buf'[i] = IF i <= Len(buf) THEN buf[i] ELSE wire[i - Len(buf)]
  <2>1. /\ buf \o new \in Seq(Nat) /\ Len(buf \o new) = Len(buf) + Len(new)
        /\ \A i \in 1 .. Len(buf) + Len(new) :
             (buf \o new)[i] = IF i <= Len(buf) THEN buf[i] ELSE new[i - Len(buf)]
    BY <1>4, ConcatProperties DEF ReadType
  <2>2. buf' = buf \o new
    BY <1>1 DEF new
  <2> QED
    BY <1>3, <1>4, <2>1, <2>2, <1>n
<1>7. ReadType' /\ Base' = Base
  BY <1>2, <1>5, <1>6 DEF ReadType, Base, Due
<1>8. InOrder'
  <2>1. ASSUME NEW i \in 1 .. Len(buf') PROVE buf'[i] = Base + i
    <3>1. CASE i \in 1 .. Len(buf)
      <4>1. buf'[i] = buf[i]
        BY <1>3, <1>6, <3>1, <1>n
      <4> QED
        BY <3>1, <4>1 DEF InOrder
    <3>2. CASE i > Len(buf)
      <4>1. i - Len(buf) \in 1 .. Len(wire)
        BY <1>3, <1>6, <3>2, <1>n
      <4>2. wire[i - Len(buf)] = Base + Len(buf) + (i - Len(buf))
        BY <4>1 DEF InOrder
      <4> QED
        BY <1>3, <1>6, <3>2, <4>2, <1>n
    <3> QED
      BY <1>3, <1>6, <3>1, <3>2, <1>n
  <2>2. ASSUME NEW i \in 1 .. Len(wire') PROVE wire'[i] = Base + Len(buf') + i
    <3>1. n + i \in 1 .. Len(wire) /\ wire'[i] = wire[n + i]
      BY <1>3, <1>5
    <3>2. wire[n + i] = Base + Len(buf) + (n + i)
      BY <3>1 DEF InOrder
    <3> QED
      BY <1>3, <1>6, <1>n, <3>1, <3>2
  <2> QED
    BY <1>2, <1>3, <1>5, <1>6, <1>7, <2>1, <2>2, <1>n DEF InOrder
<1> QED
  BY <1>2, <1>7, <1>8 DEF ReadInv, Announced

LEMMA ReadInvStep == ASSUME ReadInv, [Next]_vars PROVE ReadInv'
<1>1. CASE Emit
  BY <1>1, EmitRead
<1>2. CASE ReaderStep
  <2>1. ASSUME EndOfFile PROVE ReadInv'
    BY <2>1 DEF EndOfFile, ReadsNothing, ReadInv, ReadType, InOrder, Announced,
                NoFrameLeft, Base, Due
  <2> QED
    BY <1>2, <2>1, DecodeRead, IncompleteRead, ErrorRead, BufRead DEF ReaderStep
<1>3. CASE NextFrame
  BY <1>3 DEF NextFrame, ReadInv, ReadType, InOrder, Announced, Base, Due
<1>4. CASE HangUp \/ UNCHANGED readVars
  <2>1. /\ UNCHANGED <<sent, damaged, announced, wire, buf, yielded, reader>>
        /\ ended => ended'
    BY <1>4 DEF HangUp, readVars
  <2> QED
    BY <2>1 DEF ReadInv, ReadType, InOrder, Announced, NoFrameLeft, DamageFound,
                Base, Due
<1>5. Emit \/ ReaderStep \/ NextFrame \/ HangUp \/ UNCHANGED readVars
  BY DEF Next, ReadLoop, AnswerPing, ReadOn, vars, WriterStep
<1> QED
  BY <1>1, <1>2, <1>3, <1>4, <1>5

(* next_frame yields what the nucleus sent, frame by frame and without a   *)
(* gap, however the bytes are cut, for any number and any size of frames;  *)
(* and when it fails, a byte of the frame that was due is damaged.         *)
THEOREM FramesAreThoseSent == Spec => []YieldsWhatWasSent
<1>1. ReadInv /\ [Next]_vars => ReadInv'
  BY ReadInvStep
<1>2. ASSUME ReadInv PROVE YieldsWhatWasSent
  <2>1. ASSUME NEW i \in 1 .. Len(yielded) PROVE yielded[i] = i /\ Start[i + 1] <= sent
    <3>1. i + 1 \in 1 .. Frames + 1 /\ i + 1 <= Due
      BY <1>2, ReadNumbers DEF ReadInv, ReadType, Due
    <3>2. Start[i + 1] <= Base /\ Start[i + 1] \in Nat
      BY <1>2, <3>1, ReadNumbers, StartOrder DEF ReadInv, Base
    <3> QED
      BY <1>2, <3>2, ReadNumbers DEF ReadInv, InOrder
  <2> QED
    BY <1>2, <2>1, LenProperties
    DEF ReadInv, ReadType, YieldsWhatWasSent, DamageFound
<1> QED
  BY <1>1, <1>2, ReadInvInit, PTL DEF Spec

(* When all that was written has been read and decode_frame asks for more, *)
(* every whole frame has been yielded, or the one that is due announces    *)
(* more bytes than it has.                                                 *)
LEMMA AllYielded ==
  ASSUME ReadInv, NoFrameLeft, wire = <<>>
  PROVE  \/ Whole \subseteq 1 .. Len(yielded)
         \/ Due \in Long
<1> SUFFICES ASSUME Due \notin Long, NEW f \in Frame, Start[f + 1] <= sent
             PROVE  f \in 1 .. Len(yielded)
  BY DEF Whole
<1>1. Len(wire) = 0 /\ sent = Base + Len(buf)
  BY ReadNumbers DEF ReadInv, InOrder
<1>2. SUFFICES ASSUME f >= Due PROVE FALSE
  BY DEF ReadInv, ReadType, Due, Frame
<1>3. Due \in Frame /\ Due + 1 \in 1 .. Frames + 1 /\ f + 1 \in 1 .. Frames + 1
  BY <1>2, ReadNumbers DEF ReadInv, Frame
<1>4. Start[Due + 1] <= Start[f + 1] /\ Start[f + 1] \in Nat
  BY <1>2, <1>3, StartOrder DEF Frame
<1>5. announced[Due] <= Size(Due) /\ announced[Due] \in Nat
  BY <1>3, ReadNumbers DEF ReadInv, Announced, Long
<1>6. Len(buf) < Size(Due)
  <2>1. CASE buf = <<>>
    BY <1>3, <2>1, ReadNumbers DEF ReadInv
  <2>2. CASE buf # <<>>
    BY <1>3, <1>5, <2>2, ReadNumbers DEF ReadInv, NoFrameLeft
  <2> QED
    BY <2>1, <2>2
<1> QED
  BY <1>1, <1>3, <1>4, <1>6, ReadNumbers DEF ReadInv

(* When next_frame returns None, no whole frame is lost, but for damage to *)
(* the length of the one that was due.                                     *)
THEOREM NoneLosesNoFrame == Spec => []NoneMeansAll
<1>1. ReadInv /\ [Next]_vars => ReadInv'
  BY ReadInvStep
<1>2. ReadInv => NoneMeansAll
  BY AllYielded DEF ReadInv, Whole, Long, NoneMeansAll
<1> QED
  BY <1>1, <1>2, ReadInvInit, PTL DEF Spec

-----------------------------------------------------------------------------
(***************************************************************************)
(* The types of the write half: a task at the lock has not put all of its  *)
(* frame, or it would have left.                                           *)
(***************************************************************************)
Unfinished ==
  \A w \in Writer :
    /\ write[w] = "idle" => put[w] = 0
    /\ AtLock(w) => put[w] < Parts

WriteTypeInv == WriteTypeOK /\ Unfinished

LEMMA WriteTypeInit == ASSUME Init PROVE WriteTypeInv
<1>1. out \in Seq(Part) /\ Len(out) = 0
  BY EmptySeq DEF Init, WriteInit
<1>2. taken \in 0 .. Len(out) /\ put \in [Writer -> 0 .. Parts]
  BY <1>1, WriteHalfAssumption DEF Init, WriteInit
<1>3. Unfinished
  BY WriteHalfAssumption DEF Init, WriteInit, Unfinished, AtLock
<1> QED
  BY <1>1, <1>2, <1>3 DEF Init, WriteInit, WriteTypeInv, WriteTypeOK

LEMMA PutType == ASSUME WriteTypeInv, NEW w \in Writer, Put(w) PROVE WriteTypeInv'
<1> USE WriteHalfAssumption
<1>1. AtLock(w) /\ put[w] \in 0 .. Parts /\ put[w] < Parts
  BY DEF WriteTypeInv, WriteTypeOK, Unfinished, Put, HasLock
<1>2. put' \in [Writer -> 0 .. Parts] /\ put'[w] = put[w] + 1
  BY <1>1 DEF WriteTypeInv, WriteTypeOK, Put
<1>3. out' \in Seq(Part) /\ Len(out') = Len(out) + 1 /\ Len(out) \in Nat
  <2> DEFINE new == [frame |-> w, part |-> put[w] + 1]
  <2>1. new \in Part
    BY <1>1 DEF Part
  <2>2. out' = Append(out, new) /\ out \in Seq(Part)
    BY DEF WriteTypeInv, WriteTypeOK, Put
  <2> HIDE DEF new
  <2> QED
    BY <2>1, <2>2, AppendProperties, LenProperties
<1>4. taken' \in 0 .. Len(out')
  BY <1>3 DEF WriteTypeInv, WriteTypeOK, Put
<1>5. WriteTypeOK'
  BY <1>2, <1>3, <1>4 DEF WriteTypeInv, WriteTypeOK, Put
<1>6. Unfinished'
  BY <1>1, <1>2 DEF WriteTypeInv, WriteTypeOK, Unfinished, Put, IsLast, AtLock
<1> QED
  BY <1>5, <1>6 DEF WriteTypeInv

LEMMA WriteTypeStep == ASSUME WriteTypeInv, [Next]_vars PROVE WriteTypeInv'
<1> WriteTypeOK /\ Unfinished
  BY DEF WriteTypeInv
<1>t. /\ Len(out) \in Nat /\ taken \in 0 .. Len(out) /\ gone' \in BOOLEAN
      /\ NucleusReads \/ taken' = taken
  <2>1. Len(out) \in Nat /\ taken \in 0 .. Len(out)
    BY LenProperties DEF WriteTypeOK
  <2>2. gone' = gone \/ gone' = TRUE
    BY DEF Next, WriterStep, ReadLoop, AnswerPing, ReadOn, HangUp, Lock, Put, Fail, Drop,
           NucleusReads, writeVars, vars
  <2>3. NucleusReads \/ taken' = taken
    BY DEF Next, WriterStep, ReadLoop, AnswerPing, ReadOn, HangUp, Lock, Put, Fail, Drop,
           writeVars, vars
  <2> QED
    BY <2>1, <2>2, <2>3 DEF WriteTypeOK
<1>1. ASSUME NEW w \in Writer, Lock(w) PROVE WriteTypeInv'
  <2>1. Unfinished'
    BY <1>1, WriteHalfAssumption DEF WriteTypeOK, Unfinished, Lock, AtLock
  <2> QED
    BY <1>1, <1>t, <2>1 DEF WriteTypeInv, WriteTypeOK, Lock
<1>2. ASSUME NEW w \in Writer, Fail(w) \/ Drop(w) PROVE WriteTypeInv'
  <2>1. /\ UNCHANGED <<arrival, turns, put, out, taken>> /\ shut' \in BOOLEAN
        /\ \E e \in {"failed", "dropped"} : write' = [write EXCEPT ![w] = e]
    BY <1>2 DEF Fail, Drop, WriteTypeOK
  <2>2. Unfinished'
    BY <2>1 DEF WriteTypeOK, Unfinished, AtLock
  <2> QED
    BY <1>t, <2>1, <2>2 DEF WriteTypeInv, WriteTypeOK
<1>3. CASE NucleusReads
  <2>1. taken' \in 0 .. Len(out)
    BY <1>3, <1>t DEF NucleusReads
  <2> QED
    BY <1>3, <2>1 DEF WriteTypeInv, WriteTypeOK, Unfinished, NucleusReads, AtLock
<1>4. CASE UNCHANGED <<write, arrival, turns, put, out, shut, taken>>
  BY <1>4, <1>t DEF WriteTypeInv, WriteTypeOK, Unfinished, AtLock
<1> QED
  BY <1>1, <1>2, <1>3, <1>4, <1>t, PutType, WriteSteps DEF WriteHalfStep

(***************************************************************************)
(* The types of the reader: the bytes and the frames it holds are those the*)
(* nucleus has written, by ReadInv.                                        *)
(***************************************************************************)
ReadModes ==
  /\ ended \in BOOLEAN
  /\ damaged \subseteq 1 .. sent
  /\ reader \in {"decoding", "reading", "holding", "eof", "error"}

(* A sequence is one of whatever its elements are.                         *)
LEMMA SeqOfElements ==
  ASSUME NEW S, NEW T, NEW s \in Seq(S), \A i \in 1 .. Len(s) : s[i] \in T
  PROVE  s \in Seq(T)
<1>1. Len(s) \in Nat /\ s \in [1 .. Len(s) -> S]
  BY LenProperties
<1>2. s \in [1 .. Len(s) -> T]
  BY <1>1
<1> QED
  BY <1>1, <1>2, SeqDef

LEMMA ReadModesStep == ASSUME ReadInv, ReadModes, [Next]_vars PROVE ReadModes'
<1>1. sent \in Nat /\ (sent' = sent \/ sent' = sent + 1)
  BY ReadNumbers
  DEF ReadInv, Next, ReadLoop, ReaderStep, Emit, DecodeFrame, DecodeIncomplete, DecodeError,
      ReadBuf, EndOfFile, AnswerPing, ReadOn, NextFrame, HangUp, WriterStep, readVars, vars
<1>2. CASE Emit
  <2>1. 1 .. sent \subseteq 1 .. sent + 1 /\ sent + 1 \in 1 .. sent + 1
    BY <1>1
  <2>2. damaged' \subseteq 1 .. sent'
    BY <1>2, <2>1 DEF ReadModes, Emit
  <2> QED
    BY <1>2, <2>2 DEF ReadModes, Emit
<1>3. CASE ~Emit
  BY <1>3
  DEF ReadModes, Next, ReadLoop, ReaderStep, DecodeFrame, DecodeIncomplete, DecodeError,
      ReadBuf, EndOfFile, AnswerPing, ReadOn, NextFrame, HangUp, WriterStep, readVars, vars
<1> QED
  BY <1>2, <1>3

LEMMA ReadTyped == ASSUME ReadInv, ReadModes PROVE ReadTypeOK
<1> ReadType /\ InOrder
  BY DEF ReadInv
<1>1. /\ Len(buf) \in Nat /\ Len(wire) \in Nat /\ sent \in Nat /\ Base \in Nat
      /\ Start[Frames + 1] \in Nat
  BY ReadNumbers
<1>2. \A i \in 1 .. Len(buf) : buf[i] \in Byte
  BY <1>1 DEF ReadType, InOrder, Byte
<1>3. \A i \in 1 .. Len(wire) : wire[i] \in Byte
  BY <1>1 DEF ReadType, InOrder, Byte
<1>4. \A i \in 1 .. Len(yielded) : yielded[i] \in Frame
  <2>1. Len(yielded) \in 0 .. Frames /\ Frames \in Nat
    BY ReadNumbers DEF ReadType
  <2> QED
    BY <2>1 DEF InOrder, Frame
<1>5. buf \in Seq(Byte) /\ wire \in Seq(Byte) /\ yielded \in Seq(Frame)
  BY <1>2, <1>3, <1>4, SeqOfElements DEF ReadType
<1> QED
  BY <1>1, <1>5 DEF ReadInv, Announced, ReadType, ReadModes, ReadTypeOK, Byte

(* Every state of the two directions is well typed, for any number of calls*)
(* and of parts, and any number and any size of frames.                    *)
THEOREM TransportTyped == Spec => []TypeOK
<1> DEFINE Inv == WriteTypeInv /\ ReadInv /\ ReadModes
<1>1. Init => Inv
  BY WriteTypeInit, ReadInvInit DEF Init, ReadInit, ReadModes
<1>2. Inv /\ [Next]_vars => Inv'
  BY WriteTypeStep, ReadInvStep, ReadModesStep
<1>3. Inv => TypeOK
  BY ReadTyped DEF WriteTypeInv, TypeOK
<1> QED
  BY <1>1, <1>2, <1>3, PTL DEF Spec

-----------------------------------------------------------------------------
(***************************************************************************)
(* The reader implements FrameQueue.                                       *)
(***************************************************************************)

(* The nucleus writes a byte: of a frame that is the first not yet whole.  *)
LEMMA ByteOfFrame ==
  ASSUME sent \in Nat, NEW f \in Frame, Start[f] <= sent, sent < Start[f + 1]
  PROVE  Whole = 1 .. f - 1
<1>1. ASSUME NEW g \in Frame PROVE g \in Whole <=> g < f
  <2>1. /\ f \in 1 .. Frames + 1 /\ f + 1 \in 1 .. Frames + 1
        /\ g + 1 \in 1 .. Frames + 1
    BY ReaderAssumption DEF Frame
  <2>2. CASE g < f
    <3>1. Start[g + 1] <= Start[f] /\ Start[g + 1] \in Nat /\ Start[f] \in Nat
      BY <2>1, <2>2, StartOrder DEF Frame
    <3> QED
      BY <2>2, <3>1 DEF Whole
  <2>3. CASE ~(g < f)
    <3>1. Start[f + 1] <= Start[g + 1] /\ Start[g + 1] \in Nat /\ Start[f + 1] \in Nat
      BY <2>1, <2>3, StartOrder DEF Frame
    <3> QED
      BY <2>3, <3>1 DEF Whole
  <2> QED
    BY <2>2, <2>3
<1>2. Whole \subseteq Frame /\ Frame \subseteq Int /\ 1 .. f - 1 \subseteq Frame
  BY ReaderAssumption DEF Whole, Frame
<1>3. \A g \in Frame : g < f <=> g \in 1 .. f - 1
  BY ReaderAssumption DEF Frame
<1> QED
  BY <1>1, <1>2, <1>3

LEMMA EmitRefines ==
  ASSUME ReadInv, ReadModes, Emit
  PROVE  Queue!QueueNext \/ UNCHANGED Queue!queueVars
<1>1. /\ sent \in Nat /\ sent' = sent + 1 /\ ~ended
      /\ damaged' = damaged \/ damaged' = damaged \cup {sent + 1}
      /\ UNCHANGED <<ended, buf, yielded, reader>>
  BY ReadNumbers DEF ReadInv, Emit
<1>2. UNCHANGED <<~ended, yielded, Returned>>
  BY <1>1 DEF Returned
<1> DEFINE Holds(f) == Start[f] <= sent /\ sent < Start[f + 1]
<1>3. ASSUME NEW f \in Frame
      PROVE  /\ Start[f] \in Nat /\ Start[f + 1] \in Nat
             /\ f \in Whole' /\ f \notin Whole => Holds(f)
             /\ f \in Bad' /\ f \notin Bad => Holds(f)
             /\ announced'[f] # announced[f] => Holds(f)
  <2>1. Start[f] \in Nat /\ Start[f + 1] \in Nat /\ Start[f] < Start[f + 1]
    BY ReaderAssumption DEF Frame
  <2> QED
    BY <1>1, <2>1, EmitLengths DEF Whole, Bad, ReadInv
<1>4. Whole \subseteq Whole' /\ Bad \subseteq Bad'
  BY <1>1, <1>3 DEF Whole, Bad
<1>5. CASE \E f \in Frame : Holds(f)
  <2>1. PICK f \in Frame : Holds(f)
    BY <1>5
  <2>2. Whole = 1 .. f - 1
    BY <1>1, <2>1, ByteOfFrame
  <2>3. \A g \in Frame : Holds(g) => g = f
    <3>1. ASSUME NEW g \in Frame, Holds(g) PROVE g = f
      <4>1. Whole = 1 .. g - 1
        BY <1>1, <3>1, ByteOfFrame
      <4>2. g \in Nat \ {0} /\ f \in Nat \ {0}
        BY ReaderAssumption DEF Frame
      <4>3. ~(f < g) /\ ~(g < f)
        BY <2>2, <4>1, <4>2
      <4> QED
        BY <4>2, <4>3
    <3> QED
      BY <3>1
  <2>4. Bad' \in {Bad, Bad \cup {f}}
    <3>1. Bad' \subseteq Bad \cup {f}
      BY <1>3, <2>3 DEF Bad
    <3> QED
      BY <1>4, <3>1
  <2>5. Whole' \in {Whole, 1 .. f}
    <3>1. Whole' \subseteq Whole \cup {f}
      BY <1>3, <2>3 DEF Whole
    <3>2. Whole \cup {f} = 1 .. f
      BY <2>2, ReaderAssumption DEF Frame
    <3> QED
      BY <1>4, <3>1, <3>2
  <2>6. Long' \in {Long, Long \cup {f}}
    <3>1. \A g \in Frame : g # f => announced'[g] = announced[g]
      BY <1>3, <2>3
    <3>2. \A g \in Frame : g # f => (g \in Long' <=> g \in Long)
      BY <3>1 DEF Long, Size
    <3>3. f \in Long => announced'[f] = announced[f]
      <4>1. sent + 1 \notin damaged
        BY <1>1 DEF ReadModes
      <4>2. announced[f] = Size(f) \/ Start[f] # sent
        BY <4>1 DEF ReadInv, Announced
      <4>3. Size(f) \in Nat
        BY ReaderAssumption DEF Frame, Size
      <4> QED
        BY <4>2, <4>3, EmitLengths DEF ReadInv, Long
    <3>4. f \in Long => f \in Long'
      BY <3>3 DEF Long, Size
    <3> QED
      BY <3>2, <3>4 DEF Long
  <2>7. Queue!Write(f)
    BY <1>1, <1>2, <2>2, <2>4, <2>5, <2>6 DEF Queue!Write
  <2> QED
    BY <2>7 DEF Queue!QueueNext, Frame
<1>6. CASE ~ \E f \in Frame : Holds(f)
  <2>1. Whole' = Whole /\ Bad' = Bad /\ Long' = Long
    BY <1>3, <1>4, <1>6 DEF Whole, Bad, Long, Size
  <2> QED
    BY <1>2, <2>1 DEF Queue!queueVars
<1> QED
  BY <1>5, <1>6

(* What decode_frame returns is whole, and none of its bytes is damaged.   *)
LEMMA DecodeRefines == ASSUME ReadInv, ReadModes, DecodeFrame PROVE Queue!ReturnFrame
<1> ReadType /\ InOrder
  BY DEF ReadInv
<1>1. PICK f \in AtFront :
        /\ Len(buf) >= Size(f) /\ Intact(f) /\ yielded' = Append(yielded, f)
  BY DEF DecodeFrame, Intact
<1>2. f = Due /\ Due \in Frame
  BY <1>1, FrontIsDue DEF AtFront
<1>3. /\ Len(buf) \in Nat /\ Len(wire) \in Nat /\ Base \in Nat
      /\ Start[Due + 1] \in Nat /\ Size(Due) \in Nat /\ Start[Due + 1] = Base + Size(Due)
  BY <1>2, ReadNumbers
<1>4. Due \in Whole
  BY <1>1, <1>2, <1>3 DEF InOrder, Whole
<1>5. Due \notin Bad
  <2> SUFFICES ASSUME NEW b \in damaged, Start[Due] < b, b <= Start[Due + 1]
               PROVE  FALSE
    BY DEF Bad
  <2>1. b \in Int
    BY DEF ReadModes
  <2>2. b - Base \in 1 .. Size(Due)
    BY <1>3, <2>1 DEF Base
  <2>3. buf[b - Base] = Start[Due] + (b - Base) /\ buf[b - Base] \notin damaged
    BY <1>1, <1>2, <2>2 DEF Intact
  <2> QED
    BY <1>3, <2>1, <2>3 DEF Base
<1>6. UNCHANGED <<Whole, Bad, Long, ~ended>> /\ Returned = "begun" /\ Returned' = "frame"
  BY DEF DecodeFrame, Whole, Bad, Long, Size, Returned
<1> QED
  BY <1>1, <1>2, <1>4, <1>5, <1>6 DEF Queue!ReturnFrame, Queue!First, Due

LEMMA ReaderRefines ==
  ASSUME ReadInv, ReadModes, ReaderStep
  PROVE  Queue!QueueNext \/ UNCHANGED Queue!queueVars
<1>1. CASE DecodeFrame
  BY <1>1, DecodeRefines DEF Queue!QueueNext
<1>2. CASE DecodeIncomplete \/ ReadBuf
  BY <1>2 DEF DecodeIncomplete, ReadBuf, Whole, Bad, Long, Size, Returned, Queue!queueVars
<1>3. CASE DecodeError
  <2>1. Due \in Bad
    BY <1>3, ErrorIsDamage DEF DamageFound, Bad
  <2>2. UNCHANGED <<Whole, Bad, Long, ~ended, yielded>>
    BY <1>3 DEF DecodeError, Whole, Bad, Long, Size
  <2>3. Returned = "begun" /\ Returned' = "error"
    BY <1>3 DEF DecodeError, Returned
  <2>4. Queue!ReturnError
    BY <2>1, <2>2, <2>3 DEF Queue!ReturnError, Queue!First, Due
  <2> QED
    BY <2>4 DEF Queue!QueueNext
<1>4. CASE EndOfFile
  <2>1. ended /\ (Whole \subseteq 1 .. Len(yielded) \/ Due \in Long)
    BY <1>4, AllYielded DEF EndOfFile, ReadsNothing, ReadInv
  <2>2. UNCHANGED <<Whole, Bad, Long, ~ended, yielded>>
    BY <1>4 DEF EndOfFile, Whole, Bad, Long, Size
  <2>3. Returned = "begun" /\ Returned' = "none"
    BY <1>4 DEF EndOfFile, Returned
  <2>4. Queue!ReturnNone
    BY <2>1, <2>2, <2>3 DEF Queue!ReturnNone, Queue!First, Due
  <2> QED
    BY <2>4 DEF Queue!QueueNext
<1> QED
  BY <1>1, <1>2, <1>3, <1>4 DEF ReaderStep

LEMMA QueueStep ==
  ASSUME ReadInv, ReadModes, [Next]_vars
  PROVE  [Queue!QueueNext]_(Queue!queueVars)
<1>1. CASE Emit
  BY <1>1, EmitRefines
<1>2. CASE ReaderStep
  BY <1>2, ReaderRefines
<1>3. CASE NextFrame
  <2>1. Queue!Call
    BY <1>3 DEF NextFrame, Queue!Call, Whole, Bad, Long, Size, Returned
  <2> QED
    BY <2>1 DEF Queue!QueueNext
<1>4. CASE HangUp
  <2>1. Queue!Close
    BY <1>4 DEF HangUp, Queue!Close, Whole, Bad, Long, Size, Returned
  <2> QED
    BY <2>1 DEF Queue!QueueNext
<1>5. CASE UNCHANGED readVars
  BY <1>5 DEF readVars, Whole, Bad, Long, Size, Returned, Queue!queueVars
<1>6. Emit \/ ReaderStep \/ NextFrame \/ HangUp \/ UNCHANGED readVars
  BY DEF Next, ReadLoop, AnswerPing, ReadOn, vars, WriterStep
<1> QED
  BY <1>1, <1>2, <1>3, <1>4, <1>5, <1>6

LEMMA QueueInits == Init => Queue!QueueInit
<1> SUFFICES ASSUME Init PROVE Queue!QueueInit
  OBVIOUS
<1>1. Whole = {}
  <2> SUFFICES ASSUME NEW f \in Frame PROVE ~(Start[f + 1] <= 0)
    BY DEF Init, ReadInit, Whole
  <2>1. 1 \in 1 .. Frames + 1 /\ f + 1 \in 1 .. Frames + 1 /\ 1 < f + 1
    BY ReaderAssumption DEF Frame
  <2>2. Start[1] < Start[f + 1] /\ Start[f + 1] \in Nat
    BY <2>1, StartOrder
  <2> QED
    BY <2>2, ReaderAssumption
<1>2. Bad = {}
  BY DEF Init, ReadInit, Bad
<1>3. Long = {}
  <2>1. \A f \in Frame : Size(f) \in Nat
    BY ReaderAssumption DEF Frame, Size
  <2> QED
    BY <2>1 DEF Init, ReadInit, Long
<1> QED
  BY <1>1, <1>2, <1>3 DEF Init, ReadInit, Returned, Queue!QueueInit

(* next_frame is a queue of frames, whatever becomes of the bytes: what it *)
(* returns is the next frame written whole and undamaged, an error for a   *)
(* damaged one, or None when there is none and will be none, or when the   *)
(* damage to the next one is that it announces more bytes than it has.     *)
THEOREM ReaderImplementsQueue == Spec => ImplementsQueue
<1> DEFINE Inv == ReadInv /\ ReadModes
<1>1. Init => Inv
  BY ReadInvInit DEF Init, ReadInit, ReadModes
<1>2. Inv /\ [Next]_vars => Inv'
  BY ReadInvStep, ReadModesStep
<1>3. Inv /\ [Next]_vars => [Queue!QueueNext]_(Queue!queueVars)
  BY QueueStep
<1> QED
  BY <1>1, <1>2, <1>3, QueueInits, PTL DEF Spec, ImplementsQueue, Queue!QueueSpec

-----------------------------------------------------------------------------
(***************************************************************************)
(* Nothing stands still: what WritesEnd and FramesArrive need beyond the   *)
(* fairness of the tasks.  The guards of the steps are spelled out.        *)
(***************************************************************************)
MayPut(w)  == HasLock(w) /\ ~shut /\ ~gone /\ Len(out) - taken < Room
MayFail(w) == HasLock(w) /\ (shut \/ gone)
MayRead    == ~gone /\ taken < Len(out)

(* Some task has the lock, and it can write, or is told that it cannot, or *)
(* the nucleus has something to read that makes room.                      *)
LockMoves == \E w \in Writer : HasLock(w) /\ (MayPut(w) \/ MayFail(w) \/ MayRead)

LockAlwaysMoves == \A w \in Writer : AtLock(w) => LockMoves

(* A frame that is whole but not yielded is on its way, when no byte of it *)
(* or of one before it is damaged: decode_frame decides, or there are bytes*)
(* to read, or the reader can leave the frame in its hand, or it waits, to *)
(* answer a ping, behind a lock that moves.                                *)
FramesAlwaysMove ==
  (\E f \in Whole : Clean(f) /\ f > Len(yielded)) =>
    \/ reader = "decoding"
    \/ reader = "reading" /\ wire # <<>>
    \/ /\ reader = "holding"
       /\ InHand \in Pongs => write[InHand] \in {"idle", "done", "failed"} \/ LockMoves

(* A set of natural numbers that is not empty has a least one.             *)
LEMMA Least ==
  ASSUME NEW T, T \subseteq Nat, T # {}
  PROVE  \E x \in T : \A y \in T : x <= y
<1> DEFINE R == OpToRel(<, Nat)
<1>1. IsWellFoundedOn(R, Nat)
  BY NatLessThanWellFounded
<1>2. \A x, y \in Nat : x < y => <<x, y>> \in R
  BY DEF OpToRel
<1> HIDE DEF R
<1>3. PICK x \in T : \A y \in T : ~(<<y, x>> \in R)
  BY <1>1, WFMin, Zenon
<1>4. ASSUME NEW y \in T PROVE x <= y
  <2>1. x \in Nat /\ y \in Nat
    OBVIOUS
  <2>2. ~(y < x)
    BY <1>2, <1>3, <2>1, Zenon
  <2> QED
    BY <2>1, <2>2
<1> QED
  BY <1>4

(* The lock is never lost: while a task asks for it, a task has it.        *)
LEMMA LockIsHeld ==
  ASSUME WriteTypeOK, NEW w \in Writer, AtLock(w)
  PROVE  \E v \in Writer : HasLock(v)
<1> DEFINE T == {arrival[v] : v \in {u \in Writer : AtLock(u)}}
<1>1. T \subseteq Nat /\ T # {}
  BY DEF WriteTypeOK
<1>2. PICK x \in T : \A y \in T : x <= y
  BY <1>1, Least
<1>3. PICK v \in Writer : AtLock(v) /\ x = arrival[v]
  OBVIOUS
<1> QED
  BY <1>2, <1>3 DEF HasLock

LEMMA LockMovesOn ==
  ASSUME WriteTypeOK, NEW w \in Writer, AtLock(w)
  PROVE  LockMoves
<1>1. PICK v \in Writer : HasLock(v)
  BY LockIsHeld
<1>2. Len(out) \in Nat /\ taken \in 0 .. Len(out) /\ Room \in Nat \ {0}
  BY LenProperties, WriteHalfAssumption DEF WriteTypeOK
<1>3. (Len(out) - taken < Room) \/ taken < Len(out)
  BY <1>2
<1> QED
  BY <1>1, <1>3 DEF LockMoves, MayPut, MayFail, MayRead

(* No PingResponse of the read loop is dropped.                            *)
PongsStay == \A w \in Pongs : write[w] # "dropped"

LEMMA PongsStayStep == ASSUME WriteTypeInv, PongsStay, [Next]_vars PROVE PongsStay'
<1> USE WriteHalfAssumption
<1>1. ASSUME NEW w \in Writer, Lock(w) \/ Put(w) \/ Fail(w) \/ Drop(w) PROVE PongsStay'
  BY <1>1 DEF PongsStay, WriteTypeInv, WriteTypeOK, Lock, Put, Fail, Drop
<1>2. CASE UNCHANGED write
  BY <1>2 DEF PongsStay
<1> QED
  BY <1>1, <1>2, WriteSteps DEF WriteHalfStep, NucleusReads

LEMMA FramesMoveOn ==
  ASSUME WriteTypeOK, PongsStay, ReadInv, ReadModes
  PROVE  FramesAlwaysMove
<1> SUFFICES ASSUME NEW f \in Whole, Clean(f), f > Len(yielded)
             PROVE  \/ reader = "decoding"
                    \/ reader = "reading" /\ wire # <<>>
                    \/ /\ reader = "holding"
                       /\ InHand \in Pongs =>
                            write[InHand] \in {"idle", "done", "failed"} \/ LockMoves
  BY DEF FramesAlwaysMove
<1>n. /\ f \in Frame /\ f + 1 \in 1 .. Frames + 1 /\ Due \in Frame
      /\ Due + 1 \in 1 .. Frames + 1 /\ f >= Due /\ Due \in Nat
  <2>1. f \in 1 .. Frames /\ Frames \in Nat /\ Len(yielded) \in Nat
    BY ReadNumbers DEF ReadInv, ReadType, Whole, Frame
  <2> QED
    BY <2>1 DEF Frame, Due
<1>d. ASSUME NEW b \in damaged, b <= Start[Due + 1] PROVE FALSE
  <2>1. Start[Due + 1] <= Start[f + 1] /\ Start[f + 1] \in Nat /\ Start[Due + 1] \in Nat
    BY <1>n, StartOrder
  <2>2. b \in Int /\ b > Start[f + 1]
    BY DEF Clean, ReadModes
  <2> QED
    BY <1>d, <2>1, <2>2
<1>1. reader \in {"decoding", "reading", "holding", "eof"}
  BY <1>d DEF ReadModes, ReadInv, DamageFound
<1>2. reader \in {"reading", "eof"} => wire # <<>>
  <2>1. Due \notin Long
    <3>1. Start[Due] + 1 <= Start[Due + 1] /\ Size(Due) \in Nat
      BY <1>n, ReadNumbers DEF ReadInv, Base
    <3>2. announced[Due] = Size(Due)
      BY <1>n, <1>d, <3>1 DEF ReadInv, Announced
    <3> QED
      BY <3>1, <3>2 DEF Long
  <2>2. ~(Whole \subseteq 1 .. Len(yielded))
    BY <1>n DEF ReadInv, ReadType
  <2> QED
    BY <2>1, <2>2, AllYielded DEF ReadInv
<1>3. reader # "eof"
  BY <1>2 DEF ReadInv
<1>4. ASSUME InHand \in Pongs
      PROVE  write[InHand] \in {"idle", "done", "failed"} \/ LockMoves
  <2>1. InHand \in Writer /\ write[InHand] # "dropped"
    BY <1>4, WriteHalfAssumption DEF PongsStay
  <2>2. write[InHand] \in {"idle", "locking", "done", "failed", "dropped"}
    BY <2>1 DEF WriteTypeOK
  <2> QED
    BY <2>1, <2>2, LockMovesOn DEF AtLock
<1> QED
  BY <1>1, <1>2, <1>3, <1>4

(* Neither the lock nor the reader can come to a standstill, whatever is   *)
(* dropped and whatever fails, for any number of tasks and of frames: what *)
(* they wait for is always a step that can be taken.                       *)
THEOREM NothingStandsStill == Spec => [](LockAlwaysMoves /\ FramesAlwaysMove)
<1> DEFINE Inv == WriteTypeInv /\ PongsStay /\ ReadInv /\ ReadModes
<1>1. Init => Inv
  BY WriteTypeInit, ReadInvInit, WriteHalfAssumption
  DEF Init, ReadInit, WriteInit, ReadModes, PongsStay
<1>2. Inv /\ [Next]_vars => Inv'
  BY WriteTypeStep, PongsStayStep, ReadInvStep, ReadModesStep
<1>3. Inv => LockAlwaysMoves /\ FramesAlwaysMove
  BY LockMovesOn, FramesMoveOn DEF WriteTypeInv, LockAlwaysMoves
<1> QED
  BY <1>1, <1>2, <1>3, PTL DEF Spec

=============================================================================
