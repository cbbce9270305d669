----------------------------- MODULE MCTransport -----------------------------
(* An instance of Transport for TLC: an acknowledgement, a ping and an     *)
(* event; the event has two bytes, the others one.                         *)
EXTENDS Transport, TLC

CONSTANTS c1, c2   \* messages of calls

MCStart == <<0, 1, 2, 4>>

=============================================================================
