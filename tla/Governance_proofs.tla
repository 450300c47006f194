------------------------- MODULE Governance_proofs -------------------------
(***************************************************************************)
(* Theorems about Governance, for any cluster, limits and rollouts.        *)
(***************************************************************************)
EXTENDS Governance, FiniteSetTheorems, TLAPS

(***************************************************************************)
(* Type correctness.                                                       *)
(***************************************************************************)

\* The policies that object to a critical risk, a sick server and a high risk
\* come first, second and third; there are nine policies.
LEMMA FirstPolicies ==
    /\ Len(Policies) = 9
    /\ Policies[1] = "RollbackPolicy"
    /\ Policies[2] = "HealthPolicy"
    /\ Policies[3] = "ApprovalPolicy"
BY DEF Policies

\* The next turn is in range.
LEMMA NextTurn ==
    ASSUME NEW n \in 1 .. Len(Policies) + 1, n <= Len(Policies)
    PROVE  n + 1 \in 1 .. Len(Policies) + 1
BY FirstPolicies

\* The audit trail holds finitely many events of a kind.
LEMMA CountType == ASSUME TypeOK, NEW type PROVE Count(type) \in Nat
<1>1. DOMAIN trail = 1 .. Len(trail) /\ Len(trail) \in Nat
  BY DEF TypeOK
<1>2. IsFiniteSet(DOMAIN trail)
  BY <1>1, FS_Interval
<1>3. QED
  BY <1>2, FS_Subset, FS_CardinalityType DEF Count

\* Every step keeps the types.
LEMMA TypeStep == TypeOK /\ [Next]_vars => TypeOK'
<1> SUFFICES ASSUME TypeOK, [Next]_vars PROVE TypeOK'
  OBVIOUS
<1> USE LimitAssumption
<1> USE DEF TypeOK, clusterVars, rolloutVars, contextVars, resultVars, Category
<1>1. CASE BuildContext
  <2>1. Risk(status, updated) \in Category
    BY DEF Risk
  <2>2. Count("rollback_start") \in Nat /\ Count("recovery_plan_execute") \in Nat
    BY CountType
  <2>3. 1 \in 1 .. Len(Policies) + 1
    BY FirstPolicies
  <2>4. QED
    BY <1>1, <2>1, <2>2, <2>3 DEF BuildContext
<1>2. CASE EvaluatePolicy
  <2>1. Verdict(Policies[next]) \in {"ALLOW", "APPROVAL", "ROLLBACK", "BLOCK"}
    BY DEF Verdict
  <2>2. next + 1 \in 1 .. Len(Policies) + 1
    BY <1>2, NextTurn DEF EvaluatePolicy
  <2>3. /\ decision' \in {"ALLOW", "ROLLBACK", "BLOCK"}
        /\ seen' \in SUBSET {"ALLOW", "APPROVAL", "ROLLBACK", "BLOCK"}
        /\ needsApproval' \in BOOLEAN
    BY <1>2, <2>1 DEF EvaluatePolicy, Stricter
  <2>4. UNCHANGED <<clusterVars, rolloutVars, pc, contextVars, answer, changes, lost,
                    sick>>
    BY <1>2 DEF EvaluatePolicy
  <2>5. QED
    BY <1>2, <2>2, <2>3, <2>4 DEF EvaluatePolicy
<1>3. CASE PolicyRaises
  <2>1. next' \in 1 .. Len(Policies) + 1
    BY <1>3, NextTurn DEF PolicyRaises
  <2>2. seen' \in SUBSET {"ALLOW", "APPROVAL", "ROLLBACK", "BLOCK"}
    BY <1>3 DEF PolicyRaises
  <2>3. decision' \in {"ALLOW", "ROLLBACK", "BLOCK"}
    BY <1>3 DEF PolicyRaises
  <2>4. UNCHANGED <<clusterVars, rolloutVars, pc, contextVars, needsApproval, answer,
                    changes, lost, sick>>
    BY <1>3 DEF PolicyRaises
  <2>5. QED
    BY <2>1, <2>2, <2>3, <2>4
<1>4. CASE Decide
  <2>1. /\ answer' \in {"none", "BYPASSED", "APPROVED", "DENIED"}
        /\ decision' \in {"ALLOW", "ROLLBACK", "BLOCK"}
        /\ pc' \in {"idle", "policies", "decided"}
    BY <1>4 DEF Decide, GateAnswers
  <2>2. UNCHANGED <<clusterVars, rolloutVars, contextVars, next, needsApproval, seen,
                    changes, lost, sick>>
    BY <1>4 DEF Decide
  <2>3. QED
    BY <2>1, <2>2
<1>5. CASE LoseDecision
  BY <1>5 DEF LoseDecision
<1>6. CASE Blocked \/ Started \/ StageStarted
  <2>1. /\ at' \in {"stage_start", "deploying", "over"} /\ pc' = "idle"
        /\ UNCHANGED <<clusterVars, dep, stage, updated, trail, contextVars, resultVars,
                       changes, lost, sick>>
    BY <1>6 DEF Blocked, Started, StageStarted, Told
  <2>2. QED
    BY <2>1
<1>7. CASE StageCompleted
  <2>1. /\ status' \in [Server -> {"healthy", "degraded", "failed", "updating"}]
        /\ at' \in {"stage_start", "rollback", "over"}
    BY <1>7 DEF StageCompleted
  <2>2. stage' \in 1 .. Stages
    BY <1>7 DEF StageCompleted
  <2>3. /\ UNCHANGED <<quarantined, dep, updated, trail, contextVars, resultVars, changes,
                       lost, sick>>
        /\ pc' = "idle"
    BY <1>7 DEF StageCompleted, Told
  <2>4. QED
    BY <2>1, <2>2, <2>3
<1>8. ASSUME RollBack, pc' \in {"idle", "policies", "decided"} PROVE TypeOK'
  <2>1. trail' \in Seq([type : {"rollback_start", "recovery_plan_execute"}, id : Nat])
    BY <1>8 DEF RollBack
  <2>2. QED
    BY <1>8, <2>1 DEF RollBack
<1>9. CASE RollbackGranted \/ Abort
  BY <1>8, <1>9 DEF RollbackGranted, Abort, Told
<1>10. CASE NextDeployment
  BY <1>10 DEF NextDeployment
<1>11. ASSUME NEW S \in SUBSET Deployable, DeployStage(S) PROVE TypeOK'
  BY <1>11 DEF DeployStage, Deployable
<1>12. ASSUME NEW s \in Server, NEW new \in {"healthy", "degraded", "failed"},
              ChangeStatus(s, new)
       PROVE  TypeOK'
  BY <1>12 DEF ChangeStatus
<1>13. ASSUME NEW r \in Region, Quarantine(r) \/ Release(r) PROVE TypeOK'
  <2>1. quarantined' \in SUBSET Region
    BY <1>13 DEF Quarantine, Release
  <2>2. changes' \in 0 .. MaxChanges
    BY <1>13 DEF Quarantine, Release
  <2>3. UNCHANGED <<status, rolloutVars, pc, contextVars, resultVars, lost, sick>>
    BY <1>13 DEF Quarantine, Release
  <2>4. QED
    BY <2>1, <2>2, <2>3
<1>14. CASE UNCHANGED vars
  BY <1>14 DEF vars
<1>15. QED
  BY <1>1, <1>2, <1>3, <1>4, <1>5, <1>6, <1>7, <1>9, <1>10, <1>11, <1>12, <1>13, <1>14
     DEF Next, Coordinator, Rollout, Environment, Terminated

\* Every state of the governance of a series of rollouts is well typed.
THEOREM GovernanceTypeCorrect == Spec => []TypeOK
<1>1. ASSUME Init PROVE TypeOK
  <2>1. trail \in Seq([type : {"rollback_start", "recovery_plan_execute"}, id : Nat])
    BY <1>1 DEF Init
  <2>2. next \in 1 .. Len(Policies) + 1
    BY <1>1, FirstPolicies DEF Init
  <2>3. dep \in 1 .. MaxDeployments /\ stage \in 1 .. Stages
    BY <1>1, LimitAssumption DEF Init
  <2>4. changes \in 0 .. MaxChanges /\ lost \in 0 .. MaxLost
    BY <1>1, LimitAssumption DEF Init
  <2>5. QED
    BY <1>1, <2>1, <2>2, <2>3, <2>4 DEF Init, TypeOK, Category
<1>2. QED
  BY <1>1, TypeStep, PTL DEF Spec

(***************************************************************************)
(* The answers of the coordinator.                                         *)
(***************************************************************************)

\* One policy's verdict keeps what is known of the loop.
LEMMA LoopStep ==
    ASSUME TypeOK, Judgement, EvaluatePolicy \/ PolicyRaises
    PROVE  Summary' /\ Marks' /\ SickStill'
<1> USE DEF contextVars, rolloutVars, clusterVars
<1>1. Summary'
  <2>1. CASE PolicyRaises
    BY <2>1 DEF TypeOK, Judgement, Summary, PolicyRaises
  <2>2. CASE EvaluatePolicy
    <3> DEFINE v == Verdict(Policies[next])
    <3>1. /\ decision' = Stricter(decision, v)
          /\ needsApproval' = (needsApproval \/ v = "APPROVAL")
          /\ seen' = seen \cup {v} /\ answer' = answer /\ pc = "policies"
      BY <2>2 DEF EvaluatePolicy
    <3> HIDE DEF v
    <3>2. needsApproval' <=> "APPROVAL" \in seen'
      BY <3>1 DEF Judgement, Summary
    <3>3. decision' = IF "BLOCK" \in seen' THEN "BLOCK"
                      ELSE IF "ROLLBACK" \in seen' THEN "ROLLBACK" ELSE "ALLOW"
      BY <3>1 DEF Judgement, Summary, Stricter
    <3>4. QED
      BY <3>1, <3>2, <3>3 DEF Judgement, Summary
  <2>3. QED
    BY <2>1, <2>2
<1>2. /\ pc = "policies" /\ pc' = "policies" /\ next' = next + 1 /\ next \in Nat
      /\ category' = category /\ sick' = sick /\ seen \subseteq seen'
  BY DEF TypeOK, EvaluatePolicy, PolicyRaises
<1>3. /\ next = 1 /\ category = "CRITICAL" => "BLOCK" \in seen'
      /\ next = 2 /\ sick # {} => {"ROLLBACK", "BLOCK"} \cap seen' # {}
      /\ next = 3 /\ category = "HIGH" => {"APPROVAL", "BLOCK"} \cap seen' # {}
  <2>1. CASE PolicyRaises
    BY <2>1 DEF PolicyRaises
  <2>2. CASE EvaluatePolicy
    <3>1. Verdict(Policies[next]) \in seen'
      BY <2>2 DEF EvaluatePolicy
    <3>2. next = 1 /\ category = "CRITICAL" => Verdict(Policies[next]) = "BLOCK"
      BY FirstPolicies DEF Verdict, NoCriticalRisk
    <3>3. ASSUME sick # {} PROVE Verdict("HealthPolicy") = "ROLLBACK"
      <4>1. ZeroDegradationViolated
        BY <1>2, <3>3 DEF Judgement, SickStill, ZeroDegradationViolated
      <4>2. QED
        BY <4>1 DEF Verdict, NoCriticalRisk
    <3>4. category = "HIGH" => Verdict("ApprovalPolicy") = "APPROVAL"
      BY DEF Verdict, NoCriticalRisk, ApprovalRequired
    <3>5. QED
      BY <3>1, <3>2, <3>3, <3>4, FirstPolicies
  <2>3. QED
    BY <2>1, <2>2
<1>4. Marks'
  BY <1>2, <1>3 DEF Judgement, Marks, Passed
<1>5. SickStill'
  BY DEF Judgement, SickStill, EvaluatePolicy, PolicyRaises, Unstable
<1>6. QED
  BY <1>1, <1>4, <1>5

\* The decision is the strictest verdict, and a high risk has been approved.
LEMMA DecideStep ==
    ASSUME TypeOK, Judgement, Decide
    PROVE  StrictestWins' /\ Marks' /\ Asked'
<1>1. /\ pc = "policies" /\ pc' = "decided" /\ next > 9
      /\ category' = category /\ seen' = seen /\ sick' = sick
  BY FirstPolicies DEF Decide, contextVars
<1>2. Marks'
  BY <1>1 DEF TypeOK, Judgement, Marks, Passed
<1>3. StrictestWins'
  BY <1>1 DEF TypeOK, Judgement, Summary, StrictestWins, Decide
<1>4. Asked'
  <2>1. SUFFICES ASSUME decision' = "ALLOW", category = "HIGH",
                        AutoApproveBelow # "CRITICAL"
                 PROVE  answer' = "APPROVED"
    BY <1>1 DEF Asked
  <2>2. "BLOCK" \notin seen
    BY <1>1, <1>3, <2>1 DEF StrictestWins
  <2>3. "APPROVAL" \in seen
    BY <1>1, <2>1, <2>2 DEF TypeOK, Judgement, Marks, Passed
  <2>4. needsApproval
    BY <1>1, <2>3 DEF Judgement, Summary
  <2>5. GateAnswers \subseteq {"APPROVED", "DENIED"}
    BY <2>1, GateAssumption DEF GateAnswers, Rank, Category
  <2>6. answer' \in {"APPROVED", "DENIED"} /\ answer' # "DENIED"
    BY <2>1, <2>4, <2>5 DEF Decide
  <2>7. QED
    BY <2>6
<1>5. QED
  BY <1>2, <1>3, <1>4

\* Every step keeps what the coordinator and the rollout know of each other.
LEMMA JudgementStep == TypeOK /\ Judgement /\ [Next]_vars => Judgement'
<1> SUFFICES ASSUME TypeOK, Judgement, [Next]_vars PROVE Judgement'
  OBVIOUS
<1> USE DEF clusterVars, rolloutVars, contextVars, resultVars
<1>1. CASE BuildContext
  <2>1. pc' = "policies" /\ next' = 1
    BY <1>1 DEF BuildContext
  <2>2. Waiting' /\ Summary' /\ StrictestWins' /\ Asked' /\ NoUnattendedRisk'
    BY <1>1 DEF BuildContext, Waiting, Summary, StrictestWins, Asked, NoUnattendedRisk
  <2>3. Marks'
    BY <2>1 DEF Marks, Passed
  <2>4. SickStill'
    BY <1>1 DEF BuildContext, SickStill, Unstable
  <2>5. QED
    BY <2>2, <2>3, <2>4 DEF Judgement
<1>2. CASE EvaluatePolicy \/ PolicyRaises
  <2>1. pc = "policies" /\ pc' = "policies" /\ at' = at
    BY <1>2 DEF EvaluatePolicy, PolicyRaises
  <2>2. at # "deploying"
    BY <2>1 DEF Judgement, Waiting
  <2>3. Waiting' /\ StrictestWins' /\ Asked' /\ NoUnattendedRisk'
    BY <2>1, <2>2 DEF Judgement, Waiting, StrictestWins, Asked, NoUnattendedRisk
  <2>4. QED
    BY <1>2, <2>3, LoopStep DEF Judgement
<1>3. CASE Decide
  <2>1. pc = "policies" /\ pc' = "decided" /\ at' = at
    BY <1>3 DEF Decide
  <2>2. at \notin {"deploying", "over"}
    BY <2>1 DEF Judgement, Waiting
  <2>3. Waiting' /\ Summary' /\ NoUnattendedRisk'
    BY <2>1, <2>2 DEF Waiting, Summary, NoUnattendedRisk
  <2>4. SickStill'
    BY <1>3 DEF Decide, Judgement, SickStill, Unstable
  <2>5. QED
    BY <1>3, <2>3, <2>4, DecideStep DEF Judgement
<1>4. ASSUME pc' = "idle", at' # "deploying" PROVE Judgement'
  BY <1>4 DEF Judgement, Waiting, Summary, Marks, Passed, StrictestWins, SickStill,
              Asked, NoUnattendedRisk
<1>5. CASE LoseDecision
  BY <1>4, <1>5 DEF LoseDecision, Judgement, Waiting
<1>6. CASE StageStarted
  <2>1. /\ pc = "decided" /\ pc' = "idle" /\ decision # "BLOCK"
        /\ UNCHANGED <<category, decision, answer>>
    BY <1>6 DEF StageStarted, Told
  <2>2. category \in {"LOW", "MEDIUM", "HIGH"}
    BY <2>1 DEF TypeOK, Category, Judgement, StrictestWins, Marks, Passed
  <2>3. decision = "ALLOW" /\ category = "HIGH" =>
          answer = "APPROVED" \/ AutoApproveBelow = "CRITICAL"
    BY <2>1 DEF Judgement, Asked
  <2>4. NoUnattendedRisk'
    BY <2>1, <2>2, <2>3 DEF TypeOK, NoUnattendedRisk
  <2>5. QED
    BY <2>1, <2>4 DEF Judgement, Waiting, Summary, Marks, Passed, StrictestWins,
                      SickStill, Asked
<1>7. CASE Blocked \/ Started \/ StageCompleted \/ RollbackGranted
  BY <1>4, <1>7 DEF Blocked, Started, StageCompleted, RollbackGranted, RollBack, Told
<1>8. CASE Abort \/ NextDeployment
  BY <1>4, <1>8 DEF Abort, RollBack, NextDeployment, Judgement, Waiting
<1>9. ASSUME NEW S \in SUBSET Deployable, DeployStage(S) PROVE Judgement'
  BY <1>4, <1>9 DEF DeployStage
<1>10. ASSUME NEW s \in Server, NEW new \in {"healthy", "degraded", "failed"},
              ChangeStatus(s, new)
       PROVE  Judgement'
  <2>1. SickStill'
    BY <1>10 DEF ChangeStatus, TypeOK, Judgement, SickStill, Unstable
  <2>2. sick' # {} => sick # {}
    BY <1>10 DEF ChangeStatus
  <2>3. QED
    BY <1>10, <2>1, <2>2
       DEF ChangeStatus, Judgement, Waiting, Summary, Marks, Passed, StrictestWins,
           Asked, NoUnattendedRisk
<1>11. CASE (\E r \in Region : Quarantine(r) \/ Release(r)) \/ UNCHANGED vars
  BY <1>11
     DEF Quarantine, Release, vars, Judgement, Waiting, Summary, Marks, Passed,
         StrictestWins, SickStill, Unstable, Asked, NoUnattendedRisk
<1>12. QED
  BY <1>1, <1>2, <1>3, <1>5, <1>6, <1>7, <1>8, <1>9, <1>10, <1>11
     DEF Next, Coordinator, Rollout, Environment, Terminated

\* The invariant holds.
LEMMA JudgementInvariant == Spec => []Judgement
<1>1. Init => Judgement
  BY DEF Init, Judgement, Waiting, Summary, Marks, Passed, StrictestWins, SickStill,
         Asked, NoUnattendedRisk
<1>2. QED
  BY <1>1, JudgementStep, GovernanceTypeCorrect, PTL DEF Spec

\* The coordinator's answer is the strictest verdict of its policies
\* (coordinator.py, _evaluate_checkpoint), with a denied approval a block.
THEOREM StrictestWinsHolds == Spec => []StrictestWins
<1>1. Judgement => StrictestWins
  BY DEF Judgement
<1>2. QED
  BY <1>1, JudgementInvariant, PTL

\* No stage is deployed at high risk without someone's approval, unless its
\* checkpoint asked for a rollback (workflows.py, the test after
\* evaluate_stage_start).
THEOREM NoUnattendedRiskHolds == Spec => []NoUnattendedRisk
<1>1. Judgement => NoUnattendedRisk
  BY DEF Judgement
<1>2. QED
  BY <1>1, JudgementInvariant, PTL

\* A lasting violation of the zero-degradation policy (HealthPolicy) keeps any
\* checkpoint from answering ALLOW.
THEOREM SickNeverAllowedHolds == Spec => []SickNeverAllowed
<1>1. Judgement => SickNeverAllowed
  BY DEF Judgement, SickNeverAllowed, Marks, Passed, StrictestWins
<1>2. QED
  BY <1>1, JudgementInvariant, PTL

(***************************************************************************)
(* The risk.                                                               *)
(***************************************************************************)

\* Multiplication by a natural number is monotone.
LEMMA TimesMonotone ==
    ASSUME NEW k \in Nat, NEW a \in Nat, NEW b \in Nat, a <= b
    PROVE  k * a <= k * b
BY SMT

\* The points for sick servers are those for being unstable plus those for having
\* failed, counts of two sets that only grow as servers get worse.
LEMMA SickPoints ==
    ASSUME NEW st \in [Server -> {"healthy", "degraded", "failed", "updating"}],
           NEW st2 \in [Server -> {"healthy", "degraded", "failed", "updating"}],
           \A s \in Server : Severity[st[s]] <= Severity[st2[s]]
    PROVE  /\ 15 * Having(st, "degraded") + 30 * Having(st, "failed") \in Nat
           /\ 15 * Having(st2, "degraded") + 30 * Having(st2, "failed") \in Nat
           /\ 15 * Having(st, "degraded") + 30 * Having(st, "failed")
                <= 15 * Having(st2, "degraded") + 30 * Having(st2, "failed")
<1> DEFINE Deg(f) == {s \in Server : f[s] = "degraded"}
           Fail(f) == {s \in Server : f[s] = "failed"}
<1>1. /\ IsFiniteSet(Deg(st)) /\ IsFiniteSet(Fail(st))
      /\ IsFiniteSet(Deg(st2)) /\ IsFiniteSet(Fail(st2))
  BY FS_Subset, ClusterAssumption
<1>2. Deg(st) \cap Fail(st) = {} /\ Deg(st2) \cap Fail(st2) = {}
  OBVIOUS
<1>3. /\ Fail(st) \subseteq Fail(st2)
      /\ Deg(st) \cup Fail(st) \subseteq Deg(st2) \cup Fail(st2)
  BY DEF Severity
<1>4. /\ Cardinality(Deg(st)) \in Nat /\ Cardinality(Fail(st)) \in Nat
      /\ Cardinality(Deg(st2)) \in Nat /\ Cardinality(Fail(st2)) \in Nat
  BY <1>1, FS_CardinalityType
<1>5. /\ Cardinality(Deg(st) \cup Fail(st)) = Cardinality(Deg(st)) + Cardinality(Fail(st))
      /\ Cardinality(Deg(st2) \cup Fail(st2))
           = Cardinality(Deg(st2)) + Cardinality(Fail(st2))
  <2> HIDE DEF Deg, Fail
  <2>1. ASSUME NEW D, NEW F, IsFiniteSet(D), IsFiniteSet(F), D \cap F = {}
        PROVE  Cardinality(D \cup F) = Cardinality(D) + Cardinality(F)
    <3>1. Cardinality(D \cup F) = Cardinality(D) + Cardinality(F) - Cardinality(D \cap F)
      BY <2>1, FS_Union
    <3>2. Cardinality(D \cap F) = 0
      BY <2>1, FS_EmptySet
    <3>3. Cardinality(D) \in Nat /\ Cardinality(F) \in Nat
      BY <2>1, FS_CardinalityType
    <3>4. QED
      BY <3>1, <3>2, <3>3
  <2>2. QED
    BY <1>1, <1>2, <2>1
<1>6. /\ IsFiniteSet(Deg(st2) \cup Fail(st2))
      /\ Cardinality(Fail(st)) <= Cardinality(Fail(st2))
      /\ Cardinality(Deg(st) \cup Fail(st)) <= Cardinality(Deg(st2) \cup Fail(st2))
  BY <1>1, <1>3, FS_Union, FS_Subset
<1>7. /\ Having(st, "degraded") = Cardinality(Deg(st))
      /\ Having(st, "failed") = Cardinality(Fail(st))
      /\ Having(st2, "degraded") = Cardinality(Deg(st2))
      /\ Having(st2, "failed") = Cardinality(Fail(st2))
  BY DEF Having
<1> HIDE DEF Deg, Fail
<1>8. QED
  BY <1>4, <1>5, <1>6, <1>7

\* A worse cluster and a larger rollout have no lower a score.
LEMMA ScoreMonotone ==
    ASSUME NEW st \in [Server -> {"healthy", "degraded", "failed", "updating"}],
           NEW st2 \in [Server -> {"healthy", "degraded", "failed", "updating"}],
           \A s \in Server : Severity[st[s]] <= Severity[st2[s]],
           NEW up \in SUBSET Server, NEW up2 \in SUBSET Server, up \subseteq up2
    PROVE  Score(st, up) \in Nat /\ Score(st2, up2) \in Nat /\ Score(st, up) <= Score(st2, up2)
<1> DEFINE points == 15 * Having(st, "degraded") + 30 * Having(st, "failed")
           points2 == 15 * Having(st2, "degraded") + 30 * Having(st2, "failed")
           region == IF \E s \in up : RegionOf[s] \in CriticalRegion THEN 15 * Size ELSE 0
           region2 == IF \E s \in up2 : RegionOf[s] \in CriticalRegion THEN 15 * Size ELSE 0
<1>1. Size \in Nat
  BY FS_CardinalityType, ClusterAssumption DEF Size
<1>2. points \in Nat /\ points2 \in Nat /\ points <= points2
  BY SickPoints
<1>3. /\ Cardinality(up) \in Nat /\ Cardinality(up2) \in Nat
      /\ Cardinality(up) <= Cardinality(up2)
  <2>1. IsFiniteSet(up) /\ IsFiniteSet(up2)
    BY FS_Subset, ClusterAssumption
  <2>2. QED
    BY <2>1, FS_Subset, FS_CardinalityType
<1>4. region \in Nat /\ region2 \in Nat /\ region <= region2
  BY <1>1
<1>5. Score(st, up) = Size * points + 30 * Cardinality(up) + region
  BY DEF Score
<1>6. Score(st2, up2) = Size * points2 + 30 * Cardinality(up2) + region2
  BY DEF Score
<1> HIDE DEF points, points2, region, region2
<1>7. Size * points <= Size * points2 /\ Size * points \in Nat /\ Size * points2 \in Nat
  BY <1>1, <1>2, TimesMonotone
<1>8. QED
  BY <1>3, <1>4, <1>5, <1>6, <1>7

\* A higher score has no lower a category.
LEMMA RiskOfScore ==
    ASSUME NEW st, NEW st2, NEW up, NEW up2,
           Score(st, up) \in Nat, Score(st2, up2) \in Nat, Score(st, up) <= Score(st2, up2)
    PROVE  Rank[Risk(st, up)] <= Rank[Risk(st2, up2)]
<1> DEFINE a == Score(st, up)
           b == Score(st2, up2)
           Level(x) == CASE x <= 25 * Size -> "LOW"
                         [] x > 25 * Size /\ x <= 50 * Size -> "MEDIUM"
                         [] x > 50 * Size /\ x <= 75 * Size -> "HIGH"
                         [] OTHER -> "CRITICAL"
<1>1. Size \in Nat
  BY FS_CardinalityType, ClusterAssumption DEF Size
<1>2. Risk(st, up) = Level(a) /\ Risk(st2, up2) = Level(b)
  BY DEF Risk
<1> HIDE DEF a, b
<1>3. \A x, y \in Nat : x <= y => Rank[Level(x)] <= Rank[Level(y)]
  BY <1>1 DEF Rank
<1>4. QED
  BY <1>2, <1>3 DEF a, b

\* The risk category never falls while servers get worse and the rollout grows
\* (risk.py, calculate_risk), whatever the size of the cluster.
THEOREM RiskMonotoneHolds == Spec => RiskMonotone
<1>1. TypeOK /\ TypeOK' /\ [Next]_vars =>
        [(updated \subseteq updated'
            /\ \A s \in Server : Severity[status[s]] <= Severity[status'[s]])
           => Rank[Risk(status, updated)] <= Rank[Risk(status', updated')]]_vars
  BY ScoreMonotone, RiskOfScore DEF TypeOK
<1>2. QED
  BY <1>1, GovernanceTypeCorrect, PTL DEF Spec, RiskMonotone

=============================================================================
