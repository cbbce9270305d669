------------------------------ MODULE IpcCalls ------------------------------
(***************************************************************************)
(* What the client promises each caller of the API, with no connection, no *)
(* registry and no read loop.                                              *)
(*                                                                         *)
(* A call resolves once.  If it resolves with what the nucleus said, then  *)
(* the nucleus said it, in answer to this call.  A subscription then hands *)
(* over the events of its stream in the order of the nucleus, without gap  *)
(* or repetition, up to an item that ends it: the nucleus' last frame, an  *)
(* error, or the notice that the connection is lost.  After that item and  *)
(* never before, the stream is over.                                       *)
(***************************************************************************)
EXTENDS Naturals

CONSTANTS
  Op,             \* calls of an operation of the API
  Subscriptions   \* those that subscribe; the others are requests

VARIABLES
  phase,     \* where each call is
  result,    \* what it resolved to
  sent,      \* number of frames the nucleus has sent on its stream
  seen,      \* number of frames its caller has been handed
  final      \* has the caller been handed the item that ends the stream?

callsVars == <<phase, result, sent, seen, final>>

(* Results that report a frame of the nucleus, and those that do not.      *)
Answers  == {"ok", "payload", "service"}
Failures == {"closed", "timeout", "io", "frame", "cancelled"}

CallsInit ==
  /\ phase = [o \in Op |-> "idle"]
  /\ result = [o \in Op |-> "none"]
  /\ sent = [o \in Op |-> 0]
  /\ seen = [o \in Op |-> 0]
  /\ final = [o \in Op |-> FALSE]

Call(o) ==
  /\ phase[o] = "idle"
  /\ phase' = [phase EXCEPT ![o] = "inflight"]
  /\ UNCHANGED <<result, sent, seen, final>>

(* The nucleus sends a frame on the stream of a call.                      *)
Emit(o) ==
  /\ phase[o] # "idle"
  /\ sent' = [sent EXCEPT ![o] = @ + 1]
  /\ UNCHANGED <<phase, result, seen, final>>

(* A call resolves with the first frame of its stream; a subscription that *)
(* is accepted stays open.                                                 *)
Answer(o, r) ==
  /\ phase[o] = "inflight"
  /\ sent[o] > 0
  /\ phase' = [phase EXCEPT ![o] = IF o \in Subscriptions /\ r = "ok"
                                   THEN "open" ELSE "over"]
  /\ result' = [result EXCEPT ![o] = r]
  /\ seen' = [seen EXCEPT ![o] = 1]
  /\ \E end \in BOOLEAN : final' = [final EXCEPT ![o] = end]
  /\ UNCHANGED sent

(* A call resolves without one.                                            *)
Fail(o, r) ==
  /\ phase[o] = "inflight"
  /\ phase' = [phase EXCEPT ![o] = "over"]
  /\ result' = [result EXCEPT ![o] = r]
  /\ \E end \in BOOLEAN : final' = [final EXCEPT ![o] = end]
  /\ UNCHANGED <<sent, seen>>

(* The next event is handed over, or the loss of the connection.           *)
See(o) ==
  /\ phase[o] = "open" /\ ~final[o]
  /\ seen[o] < sent[o]
  /\ seen' = [seen EXCEPT ![o] = @ + 1]
  /\ \E end \in BOOLEAN : final' = [final EXCEPT ![o] = end]
  /\ UNCHANGED <<phase, result, sent>>

Lose(o) ==
  /\ phase[o] = "open" /\ ~final[o]
  /\ final' = [final EXCEPT ![o] = TRUE]
  /\ UNCHANGED <<phase, result, sent, seen>>

(* The stream ends, and its caller drops it, at that point or earlier.     *)
End(o) ==
  /\ phase[o] = "open" /\ final[o]
  /\ phase' = [phase EXCEPT ![o] = "ended"]
  /\ UNCHANGED <<result, sent, seen, final>>

Close(o) ==
  /\ phase[o] \in {"open", "ended"}
  /\ phase' = [phase EXCEPT ![o] = "over"]
  /\ UNCHANGED <<result, sent, seen, final>>

CallsNext ==
  \E o \in Op :
    \/ Call(o) \/ Emit(o) \/ See(o) \/ Lose(o) \/ End(o) \/ Close(o)
    \/ \E r \in Answers : Answer(o, r)
    \/ \E r \in Failures : Fail(o, r)

CallsSpec == CallsInit /\ [][CallsNext]_callsVars

=============================================================================
