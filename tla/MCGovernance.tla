---------------------------- MODULE MCGovernance ----------------------------
(* Small instances of Governance for TLC. *)
EXTENDS Governance

CONSTANTS s1, s2, s3, east, west

RegionOfTwo == [s \in {s1, s2} |-> IF s = s1 THEN east ELSE west]

RegionOfThree == [s \in {s1, s2, s3} |-> IF s = s3 THEN west ELSE east]

=============================================================================
