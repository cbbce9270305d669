------------------------------ MODULE WriteHalf ------------------------------
(***************************************************************************)
(* The write half of the socket and its lock (src/connection.rs):          *)
(* write_message for the calls, write_frame for the PingResponses of the   *)
(* read loop.  The socket takes a frame in several parts, and the task that*)
(* writes it may be dropped, or its write may fail, between two of them.   *)
(*                                                                         *)
(* tokio's mutex serves its waiters in the order in which they came.       *)
(***************************************************************************)
EXTENDS Integers, Sequences

CONSTANTS
  Writer,       \* the frames to be written, each by one call of write_*
  Pongs,        \* those that are PingResponses of the read loop
  Droppable,    \* those whose future may be dropped before it is done
  Parts,        \* the socket takes a frame in at most this many parts
  Room,         \* parts the socket holds before it blocks its writer
  WriteErrors   \* may a write fail although both ends are there?

ASSUME WriteHalfAssumption ==
  /\ Pongs \subseteq Writer
  /\ Droppable \subseteq Writer \ Pongs
  /\ Parts \in Nat \ {0}
  /\ Room \in Nat \ {0}
  /\ WriteErrors \in BOOLEAN

VARIABLES
  write,     \* how far each write is
  arrival,   \* the turn it drew at write_half.lock()
  turns,     \* how many turns have been drawn
  put,       \* the parts of its frame that the socket has taken
  out,       \* all the parts the socket has taken
  taken,     \* how many of those the nucleus has read
  shut,      \* has the write half been shut down?
  gone       \* has the nucleus closed its end?

writeVars == <<write, arrival, turns, put, out, taken, shut, gone>>

Part == [frame : Writer, part : 1 .. Parts]

WriteTypeOK ==
  /\ write \in [Writer -> {"idle", "locking", "done", "failed", "dropped"}]
  /\ arrival \in [Writer -> Nat]
  /\ turns \in Nat
  /\ put \in [Writer -> 0 .. Parts]
  /\ out \in Seq(Part)
  /\ taken \in 0 .. Len(out)
  /\ shut \in BOOLEAN
  /\ gone \in BOOLEAN

WriteInit ==
  /\ write = [w \in Writer |-> "idle"]
  /\ arrival = [w \in Writer |-> 0]
  /\ turns = 0
  /\ put = [w \in Writer |-> 0]
  /\ out = <<>>
  /\ taken = 0
  /\ shut = FALSE
  /\ gone = FALSE

(* A task is at the lock from the moment it asks to the moment its future  *)
(* is gone or done; the one that came first holds it.                      *)
AtLock(w) == write[w] = "locking"

HasLock_Leaked(w) ==
  /\ AtLock(w)
  /\ \A v \in Writer :
       AtLock(v) \/ write[v] = "dropped" => arrival[w] <= arrival[v]

HasLock(w) ==
  AtLock(w) /\ \A v \in Writer : AtLock(v) => arrival[w] <= arrival[v]

(* The frame is encoded and the task asks for the lock.                    *)
Lock(w) ==
  /\ write[w] = "idle"
  /\ write' = [write EXCEPT ![w] = "locking"]
  /\ turns' = turns + 1
  /\ arrival' = [arrival EXCEPT ![w] = turns + 1]
  /\ UNCHANGED <<put, out, taken, shut, gone>>

(* write_all hands the socket a part.  With the last one the call returns, *)
(* and its guard releases the lock.                                        *)
IsLast_OneMore(n) == n > Parts
IsLast(n) == n = Parts

Put(w) ==
  /\ HasLock(w)
  /\ ~shut /\ ~gone
  /\ Len(out) - taken < Room
  /\ put' = [put EXCEPT ![w] = @ + 1]
  /\ out' = Append(out, [frame |-> w, part |-> put[w] + 1])
  /\ write' = IF IsLast(put[w] + 1) THEN [write EXCEPT ![w] = "done"] ELSE write
  /\ UNCHANGED <<arrival, turns, taken, shut, gone>>

(* The write fails.  write_message shuts the write half down under the     *)
(* lock; the read loop only logs that its PingResponse did not go out.     *)
Fail_NoShutdown(w) ==
  /\ HasLock(w)
  /\ shut \/ gone \/ WriteErrors
  /\ write' = [write EXCEPT ![w] = "failed"]
  /\ UNCHANGED <<arrival, turns, put, out, taken, shut, gone>>

Fail(w) ==
  /\ HasLock(w)
  /\ shut \/ gone \/ WriteErrors
  /\ write' = [write EXCEPT ![w] = "failed"]
  /\ shut' = (shut \/ w \notin Pongs)
  /\ UNCHANGED <<arrival, turns, put, out, taken, gone>>

(* The caller drops its future: at the lock, or, holding it, in write_all. *)
(* The guard or the place in the queue goes with it, and nothing else.     *)
Drop(w) ==
  /\ w \in Droppable
  /\ AtLock(w)
  /\ write' = [write EXCEPT ![w] = "dropped"]
  /\ UNCHANGED <<arrival, turns, put, out, taken, shut, gone>>

(* The nucleus reads a part.                                               *)
NucleusReads ==
  /\ ~gone
  /\ taken < Len(out)
  /\ taken' = taken + 1
  /\ UNCHANGED <<write, arrival, turns, put, out, shut, gone>>

-----------------------------------------------------------------------------
(* Frames do not mix.  What follows a part on the socket is the next part  *)
(* of its frame, or the first of another; and that only after a whole      *)
(* frame, or after what is left of a future that was dropped half-way      *)
(* through write_all, or of a PingResponse that failed.  After any other   *)
(* failure nothing goes out.  (That a fragment is left with a frame behind *)
(* it is the matter of TransportClaims.)                                   *)
Fragment(w) == write[w] = "dropped" \/ (write[w] = "failed" /\ w \in Pongs)

Follows(p, q) ==
  \/ q.frame = p.frame /\ q.part = p.part + 1
  \/ q.part = 1 /\ (p.part = Parts \/ Fragment(p.frame))

FramesDoNotMix ==
  \A i \in DOMAIN out : i > 1 => Follows(out[i - 1], out[i])

=============================================================================
