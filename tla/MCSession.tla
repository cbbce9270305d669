------------------------------ MODULE MCSession ------------------------------
(* An instance of Session for TLC: two calls of connect in a process.      *)
EXTENDS Session

CONSTANTS a, b

=============================================================================
