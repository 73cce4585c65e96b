---------------------------- MODULE MCDownloads -----------------------------
(* A small instance of Downloads for TLC. *)
EXTENDS Downloads

CONSTANTS v1, v2

TwoRevisions == {v1, v2}
TwoLibraries == {"libtorch.so", "libc10.so"}

=============================================================================
