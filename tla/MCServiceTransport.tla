------------------------- MODULE MCServiceTransport -------------------------
(* Small instances of ServiceTransport for TLC. *)
EXTENDS ServiceTransport

=============================================================================
