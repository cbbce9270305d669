------------------------------ MODULE FrameQueue -----------------------------
(***************************************************************************)
(* What next_frame promises the read loop, with no bytes, no buffer and no *)
(* pieces: a queue of frames.                                              *)
(*                                                                         *)
(* The nucleus writes frames, of which any may be damaged until it is      *)
(* whole.  Each call returns the next one, if it is whole and undamaged;   *)
(* an error, if it is damaged, whole or not; or None, if the nucleus has   *)
(* closed its end and every whole frame has been returned, or the damage to*)
(* the next one is that it announces more bytes than it has.  After an     *)
(* error or None nothing is returned any more.                             *)
(***************************************************************************)
EXTENDS Naturals, Sequences

CONSTANT Frames   \* how many frames the nucleus writes at most

VARIABLES
  whole,      \* the frames written whole
  bad,        \* those that were damaged, whole or not
  long,       \* those that were made to announce too many bytes
  open,       \* may the nucleus still write?
  returned,   \* the frames returned, in their order
  call        \* "begun", or what the last call has returned

queueVars == <<whole, bad, long, open, returned, call>>

QueueInit ==
  /\ whole = {} /\ bad = {} /\ long = {} /\ open = TRUE
  /\ returned = <<>> /\ call = "begun"

(* The nucleus writes on at the frame f, perhaps to its end.               *)
Write(f) ==
  /\ open
  /\ whole = 1 .. f - 1
  /\ whole' \in {whole, 1 .. f}
  /\ bad' \in {bad, bad \cup {f}}
  /\ long' \in {long, long \cup {f}}
  /\ UNCHANGED <<open, returned, call>>

Close ==
  /\ open' = FALSE
  /\ UNCHANGED <<whole, bad, long, returned, call>>

First == Len(returned) + 1

Call ==
  /\ call = "frame"
  /\ call' = "begun"
  /\ UNCHANGED <<whole, bad, long, open, returned>>

ReturnFrame ==
  /\ call = "begun"
  /\ First \in whole \ bad
  /\ returned' = Append(returned, First)
  /\ call' = "frame"
  /\ UNCHANGED <<whole, bad, long, open>>

ReturnError ==
  /\ call = "begun"
  /\ First \in bad
  /\ call' = "error"
  /\ UNCHANGED <<whole, bad, long, open, returned>>

ReturnNone ==
  /\ call = "begun"
  /\ ~open
  /\ whole \subseteq 1 .. Len(returned) \/ First \in long
  /\ call' = "none"
  /\ UNCHANGED <<whole, bad, long, open, returned>>

QueueNext ==
  \/ \E f \in 1 .. Frames : Write(f)
  \/ Close \/ Call \/ ReturnFrame \/ ReturnError \/ ReturnNone

QueueSpec == QueueInit /\ [][QueueNext]_queueVars

=============================================================================
