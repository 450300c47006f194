-------------------------- MODULE MCManualRollback --------------------------
(* Small instances of ManualRollback for TLC. *)
EXTENDS ManualRollback

CONSTANTS s1, s2, c1, c2, old, new

=============================================================================
