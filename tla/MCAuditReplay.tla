--------------------------- MODULE MCAuditReplay ---------------------------
(* Small instances of AuditReplay for TLC. *)
EXTENDS AuditReplay

CONSTANTS s1, s2, r1, old, new

MCServer   == {s1, s2}
MCRegionOf == s1 :> r1 @@ s2 :> r1
MCPercent  == <<50, 100>>

\* The servers differ in nothing but their name.
MCSymmetry == Permutations(MCServer)

\* Every server is on the deployment's source version.
MCInitialRecords ==
    {[version |-> old, previous |-> NoVersion, status |-> "healthy", last |-> NoEntry]}

=============================================================================
