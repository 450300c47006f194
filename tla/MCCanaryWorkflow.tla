-------------------------- MODULE MCCanaryWorkflow --------------------------
(* Small instances of CanaryWorkflow for TLC. *)
EXTENDS CanaryWorkflow, TLC

CONSTANTS s1, s2, s3, r1, r2, old, odd, new

MCRegionOf  == s1 :> r1 @@ s2 :> r1 @@ s3 :> r2
MCRegionOf2 == s1 :> r1 @@ s2 :> r2
MCPercent   == <<50, 100>>

\* A fresh server, and one that an earlier rollout deployed to and took back.
Fresh   == [version |-> old, previous |-> NoVersion, status |-> "healthy",
            last |-> NoEntry]
Veteran == [version |-> odd, previous |-> Target, status |-> "healthy",
            last |-> [action |-> "rollback", version |-> odd]]
MCFreshRecords   == {Fresh}
MCVeteranRecords == {Veteran}

=============================================================================
