-------------------------- MODULE MCSessionManager --------------------------
(* A small instance of SessionManager for TLC. *)
EXTENDS SessionManager

CONSTANTS w1, w2

TwoWorkers == {w1, w2}

=============================================================================
