--------------------------- MODULE TransportClaims ---------------------------
(***************************************************************************)
(* What a document of the repository says of the socket, and the code does *)
(* not see to: a property that Transport violates.                         *)
(***************************************************************************)
EXTENDS MCTransport

(* docs/WIRE_PROTOCOL.md:19: "Each message on the wire is a single         *)
(* EventStream frame".  But write_message hands its bytes to write_all and *)
(* keeps no record of how many went out (connection.rs:251): a caller whose*)
(* future is dropped there leaves a fragment, releases the lock, and the   *)
(* next message follows in the middle of what the nucleus takes for the    *)
(* first one.  The read loop leaves one too when it only logs that its     *)
(* PingResponse has failed (connection.rs:328).                            *)
EachMessageIsOneFrame ==
  \A i \in DOMAIN out :
    i > 1 => \/ out[i - 1].part = Parts /\ out[i].part = 1
             \/ out[i] = [out[i - 1] EXCEPT !.part = @ + 1]

=============================================================================
