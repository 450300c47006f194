----------------------------- MODULE Governance -----------------------------
(***************************************************************************)
(* The governance of a series of rollouts (governance/, with the policies  *)
(* of resilience/policies.py).  At each checkpoint of a rollout the        *)
(* coordinator computes the risk, lets the policies look at the cluster    *)
(* one after the other, asks the approval gate if need be, and answers;    *)
(* servers and quarantines change meanwhile.  The rollout itself is kept   *)
(* to what it does with the answers.                                       *)
(***************************************************************************)
EXTENDS Integers, Sequences, FiniteSets

CONSTANTS
    Server, Region, RegionOf,
    CriticalRegion,       \* RiskEngine.critical_regions
    StrictRegion,         \* HealthPolicy.zero_degraded_regions
    ProgressThreshold,    \* ApprovalPolicy.progress_threshold
    AutoApproveBelow,     \* ApprovalGate._auto_approve_below_risk
    Callback,             \* is there someone to ask?
    MaxQuarantinedRegions, MaxRecoveryAttempts, MaxRecentRollbacks,
    Stages,               \* number of stages of a rollout
    MaxDeployments,       \* bound on the rollouts
    MaxChanges,           \* bound on changes by others
    MaxLost               \* bound on answers lost on their way to the workflow

Category == {"LOW", "MEDIUM", "HIGH", "CRITICAL"}

ASSUME ClusterAssumption == IsFiniteSet(Server) /\ Server # {}
                            /\ IsFiniteSet(Region) /\ RegionOf \in [Server -> Region]
ASSUME GateAssumption == AutoApproveBelow \in Category /\ Callback \in BOOLEAN
ASSUME LimitAssumption ==
    /\ {MaxQuarantinedRegions, MaxRecoveryAttempts, MaxRecentRollbacks,
        ProgressThreshold, MaxChanges, MaxLost} \subseteq Nat
    /\ Stages \in Nat \ {0} /\ MaxDeployments \in Nat \ {0}

VARIABLES
    status, quarantined,  \* the cluster and its quarantine
    at,                   \* where the rollout stands
    dep, stage, updated,  \* its id, stage and servers
    trail,                \* the audit events that policies count
    pc,                   \* where the coordinator is
    category, restricted, recent, attempts,  \* its context
    next,                 \* the policy to evaluate next
    decision,             \* overall_decision
    needsApproval,        \* approval_required_result is not None
    answer,               \* of the approval gate
    changes, lost,        \* bounds
    seen,                 \* history: the verdicts of this checkpoint
    sick                  \* history: violations that lasted since its start

clusterVars == <<status, quarantined>>
rolloutVars == <<at, dep, stage, updated, trail>>
contextVars == <<category, restricted, recent, attempts>>
resultVars  == <<next, decision, needsApproval, answer, seen>>
vars == <<clusterVars, rolloutVars, pc, contextVars, resultVars, changes, lost,
          sick>>

-----------------------------------------------------------------------------
(***************************************************************************)
(* The risk of a rollout, with points scaled by the size of the cluster.   *)
(***************************************************************************)

Size == Cardinality(Server)

Having(st, state) == Cardinality({s \in Server : st[s] = state})

\* Faulty variant for RiskMonotone: only degraded servers are counted.
Score_FailedUncounted(st, up) ==
    Size * 15 * Having(st, "degraded")
      + 30 * Cardinality(up)
      + IF \E s \in up : RegionOf[s] \in CriticalRegion THEN 15 * Size ELSE 0

Score(st, up) ==
    Size * (15 * Having(st, "degraded") + 30 * Having(st, "failed"))
      + 30 * Cardinality(up)
      + IF \E s \in up : RegionOf[s] \in CriticalRegion THEN 15 * Size ELSE 0

Risk(st, up) ==
    CASE Score(st, up) <= 25 * Size -> "LOW"
      [] Score(st, up) > 25 * Size /\ Score(st, up) <= 50 * Size -> "MEDIUM"
      [] Score(st, up) > 50 * Size /\ Score(st, up) <= 75 * Size -> "HIGH"
      [] OTHER -> "CRITICAL"

Rank == [LOW |-> 0, MEDIUM |-> 1, HIGH |-> 2, CRITICAL |-> 3]

-----------------------------------------------------------------------------
(***************************************************************************)
(* The policies, in the order the coordinator lists them.                  *)
(***************************************************************************)

Policies == <<"RollbackPolicy", "HealthPolicy", "ApprovalPolicy", "AbortPolicy",
              "RiskPolicy", "UnsafeRecoveryPreventionPolicy",
              "RecoveryRetryCeilingPolicy", "RollbackStormPreventionPolicy",
              "QuarantineEscalationPolicy">>

Unstable(s) == status[s] \in {"degraded", "failed"}

NoCriticalRisk == {"RollbackPolicy", "AbortPolicy", "UnsafeRecoveryPreventionPolicy"}

\* Faulty variant for SickNeverAllowed: only failed servers count.
ZeroDegradationViolated_FailedOnly ==
    \E s \in updated : RegionOf[s] \in StrictRegion /\ status[s] = "failed"

ZeroDegradationViolated ==
    \E s \in updated : RegionOf[s] \in StrictRegion /\ Unstable(s)

\* Faulty variant for NoUnattendedRisk: only the progress is looked at.
ApprovalRequired_ByProgress == 100 * Cardinality(updated) >= ProgressThreshold * Size

ApprovalRequired == \/ category \in {"HIGH", "CRITICAL"}
                    \/ 100 * Cardinality(updated) >= ProgressThreshold * Size

Verdict(p) ==
    CASE p \in NoCriticalRisk /\ category = "CRITICAL" -> "BLOCK"
      [] p = "HealthPolicy" /\ ZeroDegradationViolated -> "ROLLBACK"
      [] p = "ApprovalPolicy" /\ ApprovalRequired -> "APPROVAL"
      [] p = "RiskPolicy" /\ restricted -> "BLOCK"
      [] p = "RecoveryRetryCeilingPolicy" /\ attempts >= MaxRecoveryAttempts -> "BLOCK"
      [] p = "RollbackStormPreventionPolicy" /\ recent >= MaxRecentRollbacks -> "BLOCK"
      [] p = "QuarantineEscalationPolicy"
           /\ Cardinality(quarantined) >= MaxQuarantinedRegions -> "BLOCK"
      [] OTHER -> "ALLOW"

\* Faulty variant, breaks StrictestWins: the later of two objections wins.
Stricter_Later(d, v) == IF v \in {"BLOCK", "ROLLBACK"} THEN v ELSE d

Stricter(d, v) == IF v = "BLOCK" \/ (v = "ROLLBACK" /\ d # "BLOCK") THEN v ELSE d

\* What the approval gate may answer; a callback that raises denies.
GateAnswers ==
    IF Rank[category] < Rank[AutoApproveBelow] THEN {"BYPASSED"}
    ELSE IF Callback THEN {"APPROVED", "DENIED"} ELSE {"DENIED"}

-----------------------------------------------------------------------------

Init ==
    /\ status = [s \in Server |-> "healthy"]
    /\ quarantined = {}
    /\ at = "start" /\ dep = 1 /\ stage = 1 /\ updated = {}
    /\ trail = <<>>
    /\ pc = "idle"
    /\ category = "LOW" /\ restricted = FALSE /\ recent = 0 /\ attempts = 0
    /\ next = 1 /\ decision = "ALLOW" /\ needsApproval = FALSE /\ answer = "none"
    /\ changes = 0 /\ lost = 0
    /\ seen = {} /\ sick = {}

-----------------------------------------------------------------------------
(***************************************************************************)
(* One checkpoint.                                                         *)
(***************************************************************************)

Count(type) == Cardinality({i \in DOMAIN trail : trail[i] = [type |-> type, id |-> dep]})

\* The risk is that of this moment; the policies look at the cluster later.  The
\* clock is pinned by the configuration or the system's.
BuildContext ==
    /\ pc = "idle"
    /\ at \in {"start", "stage_start", "stage_complete", "rollback"}
    /\ category' = Risk(status, updated)
    /\ restricted' \in BOOLEAN
    /\ recent' = Count("rollback_start")
    /\ attempts' = Count("recovery_plan_execute")
    /\ next' = 1 /\ decision' = "ALLOW" /\ needsApproval' = FALSE
    /\ answer' = "none"
    /\ seen' = {}
    /\ sick' = {s \in updated : RegionOf[s] \in StrictRegion /\ Unstable(s)}
    /\ pc' = "policies"
    /\ UNCHANGED <<clusterVars, rolloutVars, changes, lost>>

EvaluatePolicy ==
    /\ pc = "policies"
    /\ next <= Len(Policies)
    /\ LET v == Verdict(Policies[next])
       IN  /\ decision' = Stricter(decision, v)
           /\ needsApproval' = (needsApproval \/ v = "APPROVAL")
           /\ seen' = seen \cup {v}
    /\ next' = next + 1
    /\ UNCHANGED <<clusterVars, rolloutVars, pc, contextVars, answer, changes, lost,
                   sick>>

\* Evaluating a policy, or logging its result, raises.
PolicyRaises ==
    /\ pc = "policies"
    /\ next <= Len(Policies)
    /\ decision' = "BLOCK"
    /\ seen' = seen \cup {"BLOCK"}
    /\ next' = next + 1
    /\ UNCHANGED <<clusterVars, rolloutVars, pc, contextVars, needsApproval, answer,
                   changes, lost, sick>>

\* The gate is only asked when no policy objects.
Decide ==
    /\ pc = "policies"
    /\ next > Len(Policies)
    /\ \/ /\ decision = "ALLOW" /\ needsApproval
          /\ answer' \in GateAnswers
          /\ decision' = IF answer' = "DENIED" THEN "BLOCK" ELSE "ALLOW"
       \/ /\ ~(decision = "ALLOW" /\ needsApproval)
          /\ UNCHANGED <<answer, decision>>
    /\ pc' = "decided"
    /\ UNCHANGED <<clusterVars, rolloutVars, contextVars, next, needsApproval, seen,
                   changes, lost, sick>>

\* The activity times out or its answer is lost: it is evaluated again.
LoseDecision ==
    /\ pc = "decided"
    /\ lost < MaxLost
    /\ lost' = lost + 1
    /\ pc' = "idle"
    /\ UNCHANGED <<clusterVars, rolloutVars, contextVars, resultVars, changes, sick>>

Coordinator == BuildContext \/ EvaluatePolicy \/ PolicyRaises \/ Decide \/ LoseDecision

-----------------------------------------------------------------------------
(***************************************************************************)
(* The rollout.                                                            *)
(***************************************************************************)

Told(point) == pc = "decided" /\ at = point /\ pc' = "idle"

\* A block ends the rollout where it stands, in front of its rollback too.
Blocked ==
    /\ \E point \in {"start", "stage_start", "stage_complete", "rollback"} : Told(point)
    /\ decision = "BLOCK"
    /\ at' = "over"
    /\ UNCHANGED <<clusterVars, dep, stage, updated, trail, contextVars, resultVars,
                   changes, lost, sick>>

\* At the start and before a stage the workflow only tests for BLOCK.
Started ==
    /\ Told("start")
    /\ decision # "BLOCK"
    /\ at' = "stage_start"
    /\ UNCHANGED <<clusterVars, dep, stage, updated, trail, contextVars, resultVars,
                   changes, lost, sick>>

StageStarted ==
    /\ Told("stage_start")
    /\ decision # "BLOCK"
    /\ at' = "deploying"
    /\ UNCHANGED <<clusterVars, dep, stage, updated, trail, contextVars, resultVars,
                   changes, lost, sick>>

Deployable == {s \in Server \ updated : /\ status[s] \in {"healthy", "degraded"}
                                        /\ RegionOf[s] \notin quarantined}

\* A stage that falls short, or whose health check fails, asks for a rollback.
DeployStage(S) ==
    /\ pc = "idle" /\ at = "deploying"
    /\ updated' = updated \cup S
    /\ status' = [s \in Server |-> IF s \in S THEN "updating" ELSE status[s]]
    /\ at' \in {"stage_complete", "rollback"}
    /\ UNCHANGED <<quarantined, dep, stage, trail, pc, contextVars, resultVars,
                   changes, lost, sick>>

\* After a stage a mandated rollback is obeyed.
StageCompleted ==
    /\ Told("stage_complete")
    /\ \/ /\ decision = "ROLLBACK"
          /\ at' = "rollback"
          /\ UNCHANGED <<status, stage>>
       \/ /\ decision = "ALLOW" /\ stage < Stages
          /\ at' = "stage_start"
          /\ stage' = stage + 1
          /\ UNCHANGED status
       \/ /\ decision = "ALLOW" /\ stage = Stages
          /\ at' = "over"
          /\ status' = [s \in Server |-> IF s \in updated THEN "healthy" ELSE status[s]]
          /\ UNCHANGED stage
    /\ UNCHANGED <<quarantined, dep, updated, trail, contextVars, resultVars, changes,
                   lost, sick>>

RollBack ==
    /\ status' = [s \in Server |-> IF s \in updated THEN "healthy" ELSE status[s]]
    /\ trail' = trail \o <<[type |-> "rollback_start", id |-> dep],
                           [type |-> "recovery_plan_execute", id |-> dep]>>
    /\ at' = "over"
    /\ UNCHANGED <<quarantined, dep, stage, updated, contextVars, resultVars, changes,
                   lost, sick>>

RollbackGranted == Told("rollback") /\ decision # "BLOCK" /\ RollBack

\* An aborted rollout is rolled back without asking.
Abort == /\ pc = "idle"
         /\ at \in {"stage_start", "deploying", "stage_complete"}
         /\ RollBack
         /\ UNCHANGED pc

NextDeployment ==
    /\ at = "over" /\ dep < MaxDeployments
    /\ dep' = dep + 1
    /\ at' = "start" /\ stage' = 1 /\ updated' = {}
    /\ UNCHANGED <<clusterVars, trail, pc, contextVars, resultVars, changes, lost, sick>>

Rollout == \/ Blocked \/ Started \/ StageStarted \/ StageCompleted
           \/ RollbackGranted \/ Abort \/ NextDeployment
           \/ \E S \in SUBSET Deployable : DeployStage(S)

-----------------------------------------------------------------------------
(***************************************************************************)
(* Meanwhile.                                                              *)
(***************************************************************************)

ChangeStatus(s, new) ==
    /\ changes < MaxChanges
    /\ changes' = changes + 1
    /\ status' = [status EXCEPT ![s] = new]
    /\ sick' = IF new = "healthy" THEN sick \ {s} ELSE sick
    /\ UNCHANGED <<quarantined, rolloutVars, pc, contextVars, resultVars, lost>>

Quarantine(r) ==
    /\ changes < MaxChanges
    /\ changes' = changes + 1
    /\ quarantined' = quarantined \cup {r}
    /\ UNCHANGED <<status, rolloutVars, pc, contextVars, resultVars, lost, sick>>

Release(r) ==
    /\ changes < MaxChanges
    /\ r \in quarantined
    /\ changes' = changes + 1
    /\ quarantined' = quarantined \ {r}
    /\ UNCHANGED <<status, rolloutVars, pc, contextVars, resultVars, lost, sick>>

Environment == \/ \E s \in Server, new \in {"healthy", "degraded", "failed"} :
                      ChangeStatus(s, new)
               \/ \E r \in Region : Quarantine(r) \/ Release(r)

Terminated == at = "over" /\ dep = MaxDeployments /\ UNCHANGED vars

Next == Coordinator \/ Rollout \/ Environment \/ Terminated

Spec == Init /\ [][Next]_vars

-----------------------------------------------------------------------------
(***************************************************************************)
(* Properties.                                                             *)
(***************************************************************************)

TypeOK ==
    /\ status \in [Server -> {"healthy", "degraded", "failed", "updating"}]
    /\ quarantined \in SUBSET Region
    /\ at \in {"start", "stage_start", "deploying", "stage_complete", "rollback", "over"}
    /\ dep \in 1 .. MaxDeployments /\ stage \in 1 .. Stages
    /\ updated \in SUBSET Server
    /\ trail \in Seq([type : {"rollback_start", "recovery_plan_execute"}, id : Nat])
    /\ pc \in {"idle", "policies", "decided"}
    /\ category \in Category /\ restricted \in BOOLEAN
    /\ recent \in Nat /\ attempts \in Nat
    /\ next \in 1 .. Len(Policies) + 1
    /\ decision \in {"ALLOW", "ROLLBACK", "BLOCK"}
    /\ needsApproval \in BOOLEAN
    /\ answer \in {"none", "BYPASSED", "APPROVED", "DENIED"}
    /\ changes \in 0 .. MaxChanges /\ lost \in 0 .. MaxLost
    /\ seen \in SUBSET {"ALLOW", "APPROVAL", "ROLLBACK", "BLOCK"}
    /\ sick \in SUBSET Server

\* Whatever the order of the policies and whatever raises, the answer is the
\* strictest verdict, and a request for approval counts when nobody objects.
StrictestWins ==
    pc = "decided" =>
        decision = IF "BLOCK" \in seen THEN "BLOCK"
                   ELSE IF "ROLLBACK" \in seen THEN "ROLLBACK"
                   ELSE IF "APPROVAL" \in seen /\ answer = "DENIED" THEN "BLOCK"
                   ELSE "ALLOW"

\* A stage that is deployed at high risk was approved by someone, unless the gate
\* is told to let high risks pass or the checkpoint asked for a rollback, which
\* the workflow does not heed there.
NoUnattendedRisk ==
    at = "deploying" =>
        \/ category \in {"LOW", "MEDIUM"}
        \/ category = "HIGH" /\ (answer = "APPROVED" \/ AutoApproveBelow = "CRITICAL")
        \/ decision = "ROLLBACK"

\* A server of the rollout that is sick in a strict region all through the
\* evaluation keeps the checkpoint from allowing anything.
SickNeverAllowed == pc = "decided" /\ sick # {} => decision # "ALLOW"

Severity == [healthy |-> 0, updating |-> 0, degraded |-> 1, failed |-> 2]

\* No event that makes the cluster worse or the rollout larger lowers the risk.
RiskMonotone ==
    [][(updated \subseteq updated'
          /\ \A s \in Server : Severity[status[s]] <= Severity[status'[s]])
         => Rank[Risk(status, updated)] <= Rank[Risk(status', updated')]]_vars

-----------------------------------------------------------------------------
(***************************************************************************)
(* The inductive invariant behind the properties.                          *)
(***************************************************************************)

\* The coordinator only works while the rollout waits for it.
Waiting == at \in {"deploying", "over"} => pc = "idle"

\* What the loop over the policies has made of the verdicts so far.
Summary ==
    pc = "policies" =>
        /\ decision = IF "BLOCK" \in seen THEN "BLOCK"
                      ELSE IF "ROLLBACK" \in seen THEN "ROLLBACK" ELSE "ALLOW"
        /\ needsApproval <=> "APPROVAL" \in seen
        /\ answer = "none"

\* A policy that has had its turn has left its mark.
Passed(n) == pc = "decided" \/ (pc = "policies" /\ next > n)

Marks ==
    /\ Passed(1) /\ category = "CRITICAL" => "BLOCK" \in seen
    /\ Passed(2) /\ sick # {} => {"ROLLBACK", "BLOCK"} \cap seen # {}
    /\ Passed(3) /\ category = "HIGH" => {"APPROVAL", "BLOCK"} \cap seen # {}

\* The gate has been asked, and has not waved a high risk through.
Asked ==
    pc = "decided" /\ decision = "ALLOW" /\ category = "HIGH" =>
        answer = "APPROVED" \/ AutoApproveBelow = "CRITICAL"

\* The violations seen at the start and not healed since are still there.
SickStill ==
    pc \in {"policies", "decided"} =>
        sick \subseteq {s \in updated : RegionOf[s] \in StrictRegion /\ Unstable(s)}

Judgement == /\ Waiting /\ Summary /\ Marks /\ StrictestWins /\ SickStill
             /\ Asked /\ NoUnattendedRisk

=============================================================================
