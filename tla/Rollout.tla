------------------------------ MODULE Rollout ------------------------------
(***************************************************************************)
(* What a canary rollout promises, whatever its stages, checks and events: *)
(* servers join the new version one at a time until the rollout is decided *)
(* or interrupted; it is decided once; a decision to keep or to freeze the *)
(* servers touches none of them, a decision to revert takes every one back *)
(* -- unless the rollout was interrupted, in which case some may be missed.*)
(* CanaryWorkflow implements this specification.                           *)
(***************************************************************************)
CONSTANT Server

VARIABLES live,         \* servers deployed to and not taken back
          phase,        \* where the rollout stands
          interrupted   \* has the operator's abort reached it?

rolloutVars == <<live, phase, interrupted>>

RolloutInit == live = {} /\ phase = "growing" /\ interrupted = FALSE

Grow(s) == /\ phase = "growing"
           /\ ~interrupted
           /\ live' = live \cup {s}
           /\ UNCHANGED <<phase, interrupted>>

Interrupt == /\ interrupted' = TRUE
             /\ UNCHANGED <<live, phase>>

Decide == /\ phase = "growing"
          /\ phase' \in {"kept", "frozen", "reverting"}
          /\ UNCHANGED <<live, interrupted>>

Revert == /\ phase = "reverting"
          /\ phase' = "reverted"
          /\ live' \in SUBSET live
          /\ live' = {} \/ interrupted
          /\ UNCHANGED interrupted

RolloutNext == (\E s \in Server : Grow(s)) \/ Interrupt \/ Decide \/ Revert

RolloutSpec == /\ RolloutInit
               /\ [][RolloutNext]_rolloutVars
               /\ WF_rolloutVars(Decide)
               /\ WF_rolloutVars(Revert)

=============================================================================
