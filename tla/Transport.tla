------------------------------ MODULE Transport ------------------------------
(***************************************************************************)
(* Both directions of the socket at the level of bytes, and the read loop  *)
(* between them (src/connection.rs: connect, read_loop,                    *)
(* handle_protocol_message): it reads the next frame only when the         *)
(* PingResponse to the last one has been written, behind the calls that    *)
(* are at the lock before it.                                              *)
(*                                                                         *)
(* The Pongs are the numbers of the frames that are pings; the other       *)
(* Writers are the messages of calls.                                      *)
(***************************************************************************)
EXTENDS WriteHalf, FramedReader

(* Frame 1 is the ConnectAck of the handshake.                             *)
ASSUME TransportAssumption == Pongs \subseteq 2 .. Frames

vars == <<writeVars, readVars>>

Init == WriteInit /\ ReadInit

TypeOK == WriteTypeOK /\ ReadTypeOK

(* The frame in hand, when there is one.                                   *)
InHand == yielded[Len(yielded)]

(* The read loop asks for the lock to answer a ping,                       *)
AnswerPing ==
  /\ reader = "holding"
  /\ InHand \in Pongs
  /\ Lock(InHand)
  /\ UNCHANGED readVars

(* and reads on after a frame that is none, or whose response is written,  *)
(* or has failed to be.                                                    *)
ReadOn ==
  /\ reader = "holding"
  /\ InHand \in Pongs => write[InHand] \in {"done", "failed"}
  /\ NextFrame
  /\ UNCHANGED writeVars

(* The nucleus closes the socket, or dies, in the middle of anything.      *)
HangUp ==
  /\ ~gone
  /\ gone' = TRUE /\ ended' = TRUE
  /\ UNCHANGED <<write, arrival, turns, put, out, taken, shut, sent, damaged,
                 announced, wire, buf, yielded, reader>>

ReadLoop == (ReaderStep /\ UNCHANGED writeVars) \/ AnswerPing \/ ReadOn

WriterStep(w) == (Put(w) \/ Fail(w)) /\ UNCHANGED readVars

Next ==
  \/ \E w \in Writer : WriterStep(w)
  \/ \E w \in Writer \ Pongs : Lock(w) /\ UNCHANGED readVars
  \/ \E w \in Droppable : Drop(w) /\ UNCHANGED readVars
  \/ ReadLoop
  \/ NucleusReads /\ UNCHANGED readVars
  \/ Emit /\ UNCHANGED writeVars
  \/ HangUp

(* What a write owes: the next part, when there is room, or its failure,   *)
(* when the socket is over.  An error out of the blue is owed by nobody.   *)
WriteGoesOn(w) == (Put(w) \/ ((shut \/ gone) /\ Fail(w))) /\ UNCHANGED readVars

(* The runtime polls its tasks, and the nucleus reads what it is sent.  It *)
(* owes no byte, and nobody owes a call.                                   *)
Fairness ==
  /\ WF_vars(ReadLoop)
  /\ \A w \in Writer : WF_vars(WriteGoesOn(w))
  /\ WF_vars(NucleusReads /\ UNCHANGED readVars)

Spec == Init /\ [][Next]_vars

FairSpec == Spec /\ Fairness

-----------------------------------------------------------------------------
(* A task that asks for the lock gets it, and is done with it, whatever    *)
(* becomes of the tasks before it: a future that is dropped while it waits,*)
(* or while it writes, or a write that fails, leaves no lock behind.       *)
WritesEnd == \A w \in Writer : write[w] = "locking" ~> write[w] # "locking"

(* A frame written whole is yielded, if neither it nor one before it was   *)
(* damaged: without a byte more from the nucleus, although it may lie in   *)
(* the buffer behind another one, and behind pings whose responses wait for*)
(* the lock, and whatever is damaged behind it.                            *)
Clean(f) == \A b \in damaged : b > Start[f + 1]

FramesArrive ==
  \A f \in Frame : sent >= Start[f + 1] /\ Clean(f) ~> Len(yielded) >= f

=============================================================================
