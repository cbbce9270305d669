-------------------------- MODULE ConnectionClaims --------------------------
(***************************************************************************)
(* What comments of the code say of the connection, and its code does not  *)
(* do.  Each is a property that Connection violates.                       *)
(***************************************************************************)
EXTENDS Connection

CONSTANTS r1, r2, s1   \* calls

(* client.rs:33, of the request timeout: "only the initial subscribe       *)
(* handshake is bounded by this".  But subscribe awaits the               *)
(* acknowledgement with a plain recv(): a nucleus that reads and does not  *)
(* answer keeps it waiting for ever.                                       *)
SubscribeHandshakeIsBounded ==
  \A o \in Subscriptions : pc[o] = "waiting" ~> pc[o] # "waiting"

(* client.rs:31: "How long a request/response operation waits before       *)
(* failing with Error::Timeout".  But the timer starts after the write: a  *)
(* request that finds the socket full waits for room, without a timeout.   *)
RequestIsBounded ==
  \A o \in Requests : pc[o] = "writing" ~> pc[o] # "writing"

(* connection.rs:71, of the write half: shared with the read loop "to shut *)
(* the socket down when the nucleus reports a connection-level error".     *)
(* But the read loop only ends: the socket stays open until the nucleus    *)
(* closes it, and Client::closed resolves meanwhile.                       *)
ClosedMeansShutDown == closed => writeShut \/ peer = "closed"

(* error.rs:54, of Error::Timeout: "the connection is still believed to be *)
(* alive; the nucleus simply never replied".  But a request begun after    *)
(* the read loop has ended is written to the open socket, and times out    *)
(* although the connection is known to be closed.                          *)
TimeoutMeansAlive ==
  [][\A o \in Requests :
       pc[o] = "waiting" /\ pc'[o] = "expired" => ~closed]_vars

(* error.rs:65, of Error::ConnectionClosed: "The connection was closed     *)
(* while an operation was in flight"; connection.rs:274: whatever ends the *)
(* read loop "fails every in-flight operation".  But a subscription that   *)
(* registers its sink after fail_all has drained the registry is in flight *)
(* when the nucleus closes the socket, and never resolves.                 *)
ClosedWhileInFlight ==
  \A o \in Op : peer = "closed" /\ pc[o] = "waiting" ~> pc[o] # "waiting"

=============================================================================
