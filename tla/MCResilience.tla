---------------------------- MODULE MCResilience ----------------------------
(* Small instances of Resilience for TLC. *)
EXTENDS Resilience

CONSTANTS s1, s2, r1, r2, old, new

MCRegionOf == [s \in Server |-> IF s = s1 THEN r1 ELSE r2]

MCInitialRecords ==
    {[version |-> old, previous |-> NoVersion, status |-> st, last |-> NoEntry] :
        st \in {"healthy", "failed"}}

=============================================================================
