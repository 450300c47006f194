-------------------------- MODULE MCStageSelection --------------------------
(* Small instances of StageSelection for TLC. *)
EXTENDS StageSelection, TLC

CONSTANTS r1, r2, r3, r4

MCPlace == r1 :> 1 @@ r2 :> 2 @@ r3 :> 3 @@ r4 :> 4

=============================================================================
