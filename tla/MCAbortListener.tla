-------------------------- MODULE MCAbortListener --------------------------
(* Small instances of AbortListener for TLC. *)
EXTENDS AbortListener

CONSTANTS e1, e2, t1, t2

=============================================================================
