---------------------------- MODULE FramedReader ----------------------------
(***************************************************************************)
(* FramedReader::next_frame (src/connection.rs): bytes arrive in pieces of *)
(* any size, and whole frames are cut out of them.  The decoder is that of *)
(* the crate aws-smithy-eventstream.                                       *)
(*                                                                         *)
(* A byte is named by its position in all that the nucleus writes, so that *)
(* a byte lost, repeated or out of place is told from the one that was due.*)
(* Frame f is the bytes Start[f] + 1 .. Start[f + 1].  The first of them   *)
(* stands for the prelude, which has the length of the frame and a CRC.    *)
(* The decoder believes that length before it looks at any CRC: it asks for*)
(* as many bytes, and only then finds out that one of them is damaged.     *)
(***************************************************************************)
EXTENDS Integers, Sequences

CONSTANTS
  Frames,    \* how many frames the nucleus writes at most
  Start,     \* where they start
  Damage,    \* may bytes be damaged on their way?
  Lengths    \* lengths that a damaged prelude may announce

Frame == 1 .. Frames

ASSUME ReaderAssumption ==
  /\ Frames \in Nat
  /\ Start \in [1 .. Frames + 1 -> Nat]
  /\ Start[1] = 0
  /\ \A f, g \in 1 .. Frames + 1 : f < g => Start[f] < Start[g]
  /\ Damage \in BOOLEAN
  /\ Lengths \subseteq Nat

Size(f) == Start[f + 1] - Start[f]

VARIABLES
  sent,      \* how many bytes the nucleus has written
  ended,     \* has it closed its end, in the middle of a frame perhaps?
  damaged,   \* the bytes that were damaged
  announced, \* the length in the prelude of each frame, as it arrives
  wire,      \* the bytes still to be read
  buf,       \* FramedReader.buf
  yielded,   \* the frames next_frame has returned
  reader     \* where next_frame is; "holding" when it has returned a frame

readVars == <<sent, ended, damaged, announced, wire, buf, yielded, reader>>

Byte == 1 .. Start[Frames + 1]

ReadTypeOK ==
  /\ sent \in 0 .. Start[Frames + 1]
  /\ ended \in BOOLEAN
  /\ damaged \subseteq Byte
  /\ announced \in [Frame -> Nat]
  /\ wire \in Seq(Byte)
  /\ buf \in Seq(Byte)
  /\ yielded \in Seq(Frame)
  /\ reader \in {"decoding", "reading", "holding", "eof", "error"}

ReadInit ==
  /\ sent = 0
  /\ ended = FALSE
  /\ damaged = {}
  /\ announced = [f \in Frame |-> Size(f)]
  /\ wire = <<>>
  /\ buf = <<>>
  /\ yielded = <<>>
  /\ reader = "decoding"

(* The nucleus writes the next byte.                                       *)
Emit ==
  /\ ~ended
  /\ sent + 1 \in Byte
  /\ sent' = sent + 1
  /\ wire' = Append(wire, sent + 1)
  /\ \/ UNCHANGED <<damaged, announced>>
     \/ /\ Damage
        /\ damaged' = damaged \cup {sent + 1}
        /\ \/ UNCHANGED announced
           \/ \E f \in Frame, n \in Lengths :
                Start[f] = sent /\ announced' = [announced EXCEPT ![f] = n]
  /\ UNCHANGED <<ended, buf, yielded, reader>>

(* The frame the buffer begins with.                                       *)
AtFront == {f \in Frame : buf # <<>> /\ Head(buf) = Start[f] + 1}

(* The bytes of f are at the front of the buffer, and its CRCs are right.  *)
Intact(f) ==
  /\ announced[f] = Size(f)
  /\ \A i \in 1 .. Size(f) : buf[i] = Start[f] + i /\ buf[i] \notin damaged

(* decode_frame: a whole frame is taken out of the buffer,                 *)
DecodeFrame ==
  /\ reader = "decoding"
  /\ \E f \in AtFront :
       /\ Len(buf) >= announced[f]
       /\ Intact(f)
       /\ yielded' = Append(yielded, f)
       /\ buf' = SubSeq(buf, Size(f) + 1, Len(buf))
  /\ reader' = "holding"
  /\ UNCHANGED <<sent, ended, damaged, announced, wire>>

(* or there are not yet as many bytes as the prelude announces,            *)
DecodeIncomplete ==
  /\ reader = "decoding"
  /\ buf = <<>> \/ \E f \in AtFront : Len(buf) < announced[f]
  /\ reader' = "reading"
  /\ UNCHANGED <<sent, ended, damaged, announced, wire, buf, yielded>>

(* or there are, and a CRC is wrong: Error::Frame.                         *)
DecodeError_ReturnsNone ==
  /\ reader = "decoding"
  /\ buf # <<>>
  /\ \A f \in AtFront : Len(buf) >= announced[f] /\ ~Intact(f)
  /\ reader' = "eof"
  /\ UNCHANGED <<sent, ended, damaged, announced, wire, buf, yielded>>

DecodeError ==
  /\ reader = "decoding"
  /\ buf # <<>>
  /\ \A f \in AtFront : Len(buf) >= announced[f] /\ ~Intact(f)
  /\ reader' = "error"
  /\ UNCHANGED <<sent, ended, damaged, announced, wire, buf, yielded>>

(* read_buf appends what has arrived, or as much of it as it likes.        *)
ReadBuf ==
  /\ reader = "reading"
  /\ \E n \in 1 .. Len(wire) :
       /\ buf' = buf \o SubSeq(wire, 1, n)
       /\ wire' = SubSeq(wire, n + 1, Len(wire))
  /\ reader' = "decoding"
  /\ UNCHANGED <<sent, ended, damaged, announced, yielded>>

(* It reads 0 bytes: the end of file, and next_frame returns None, whether *)
(* the buffer is empty or not.  A read that fails is not told apart: it is *)
(* the last thing a socket reports too, and ends the read loop alike.      *)
ReadsNothing_Early == ended
ReadsNothing == ended /\ wire = <<>>

EndOfFile ==
  /\ reader = "reading"
  /\ ReadsNothing
  /\ reader' = "eof"
  /\ UNCHANGED <<sent, ended, damaged, announced, wire, buf, yielded>>

(* next_frame is called again, on the same buffer and decoder: those of the*)
(* handshake, which took the first frame, go on to the read loop.          *)
NextFrame_ReadsFirst ==
  /\ reader = "holding"
  /\ reader' = "reading"
  /\ UNCHANGED <<sent, ended, damaged, announced, wire, buf, yielded>>

NextFrame_FreshReader ==
  /\ reader = "holding"
  /\ reader' = "decoding"
  /\ buf' = IF Len(yielded) = 1 THEN <<>> ELSE buf
  /\ UNCHANGED <<sent, ended, damaged, announced, wire, yielded>>

NextFrame ==
  /\ reader = "holding"
  /\ reader' = "decoding"
  /\ UNCHANGED <<sent, ended, damaged, announced, wire, buf, yielded>>

ReaderStep ==
  DecodeFrame \/ DecodeIncomplete \/ DecodeError \/ ReadBuf \/ EndOfFile

-----------------------------------------------------------------------------
(* The frames next_frame yields are those the nucleus wrote, in order and  *)
(* without a gap, however their bytes are cut up; and it fails only on a   *)
(* damaged byte, one of the frame that was due.                            *)
Due == Len(yielded) + 1

YieldsWhatWasSent ==
  /\ \A i \in DOMAIN yielded : yielded[i] = i /\ Start[i + 1] <= sent
  /\ reader = "error" =>
       Due \in Frame /\ \E b \in damaged : Start[Due] < b /\ b <= Start[Due + 1]

(* None means that every frame written whole has been yielded: a frame that*)
(* is cut short by the end of file is dropped, and only that; unless damage*)
(* made the frame that was due announce more bytes than it has, and the    *)
(* frames behind it were taken for these.                                  *)
NoneMeansAll ==
  reader = "eof" =>
    \A f \in Frame :
      Start[f + 1] <= sent => f \in 1 .. Len(yielded) \/ announced[Due] > Size(Due)

(* Module FrameQueue has frames in place of bytes: those written whole,    *)
(* those that have a damaged byte, and those that announce too many.       *)
Whole == {f \in Frame : Start[f + 1] <= sent}

Bad == {f \in Frame : \E b \in damaged : Start[f] < b /\ b <= Start[f + 1]}

Long == {f \in Frame : announced[f] > Size(f)}

Returned ==
  CASE reader \in {"decoding", "reading"} -> "begun"
    [] reader = "holding" -> "frame"
    [] reader = "eof" -> "none"
    [] OTHER -> reader

Queue == INSTANCE FrameQueue WITH
           whole    <- Whole,
           bad      <- Bad,
           long     <- Long,
           open     <- ~ended,
           returned <- yielded,
           call     <- Returned

(* Every behaviour of next_frame is one of FrameQueue, however the bytes   *)
(* are cut: in particular no frame with a damaged byte is returned.        *)
ImplementsQueue == Queue!QueueSpec

=============================================================================
