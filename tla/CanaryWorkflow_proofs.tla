----------------------- MODULE CanaryWorkflow_proofs -----------------------
(***************************************************************************)
(* Theorems about CanaryWorkflow, for every cluster, list of stages and    *)
(* configuration.                                                          *)
(***************************************************************************)
EXTENDS CanaryWorkflow, FiniteSetTheorems, SequenceTheorems,
        TLAPS

-----------------------------------------------------------------------------
(***************************************************************************)
(* The operations on a server record.                                      *)
(***************************************************************************)

\* Every write operation of cluster/state.py keeps a server well formed.
LEMMA RecordTypes ==
    ASSUME NEW r \in ServerRecord, NEW v \in Version, NEW st \in ServerStatus
    PROVE  /\ UpdateStatus(r, st) \in ServerRecord
           /\ UpdateVersion(r, v) \in ServerRecord
           /\ OverrideVersion(r, v) \in ServerRecord
           /\ RollbackServer(r) \in ServerRecord
BY DEF ServerRecord, HistoryEntry, ServerStatus, UpdateStatus, UpdateVersion,
       OverrideVersion, RollbackServer, CanRollBack, AlreadyRolledBack

\* rollback_server is idempotent: a second call changes nothing.
LEMMA RollbackIdempotent ==
    ASSUME NEW r \in ServerRecord
    PROVE  RollbackServer(RollbackServer(r)) = RollbackServer(r)
BY DEF ServerRecord, HistoryEntry, RollbackServer, CanRollBack, AlreadyRolledBack

\* rollback_server after update_server_version restores the version.
LEMMA RollbackUndoesDeploy ==
    ASSUME NEW r \in ServerRecord, NEW v \in Version
    PROVE  RollbackServer(UpdateVersion(r, v)).version = r.version
BY NoVersionAssumption
   DEF ServerRecord, UpdateVersion, RollbackServer, CanRollBack, AlreadyRolledBack

-----------------------------------------------------------------------------
(***************************************************************************)
(* The trail.                                                              *)
(***************************************************************************)

\* Record keeps the trail a sequence of event types.
LEMMA RecordSeq ==
    ASSUME trail \in Seq(EventType), NEW e \in Seq(EventType), Record(e)
    PROVE  trail' \in Seq(EventType)
BY DEF Record

\* Record adds to the events on the trail exactly the events it is given.
LEMMA EventsOf ==
    ASSUME trail \in Seq(EventType), NEW e \in Seq(EventType), Record(e)
    PROVE  Events' = Events \cup {e[i] : i \in DOMAIN e}
<1>1. trail' = trail \o e
  BY DEF Record
<1>2. /\ DOMAIN trail = 1 .. Len(trail) /\ Len(trail) \in Nat
      /\ DOMAIN e = 1 .. Len(e) /\ Len(e) \in Nat
      /\ DOMAIN (trail \o e) = 1 .. Len(trail) + Len(e)
  OBVIOUS
<1>3. \A i \in 1 .. Len(trail) : (trail \o e)[i] = trail[i]
  OBVIOUS
<1>4. \A i \in 1 .. Len(e) : (trail \o e)[Len(trail) + i] = e[i]
  OBVIOUS
<1>5. ASSUME NEW x PROVE x \in Events' <=> x \in Events \/ x \in {e[i] : i \in DOMAIN e}
  <2>1. ASSUME x \in Events' PROVE x \in Events \/ x \in {e[i] : i \in DOMAIN e}
    <3>1. PICK i \in 1 .. Len(trail) + Len(e) : x = (trail \o e)[i]
      BY <2>1, <1>1, <1>2 DEF Events
    <3>2. CASE i <= Len(trail)
      BY <3>1, <3>2, <1>2, <1>3 DEF Events
    <3>3. CASE i > Len(trail)
      <4>1. i - Len(trail) \in 1 .. Len(e) /\ Len(trail) + (i - Len(trail)) = i
        BY <3>1, <3>3, <1>2
      <4>2. x = e[i - Len(trail)]
        BY <3>1, <4>1, <1>4
      <4>3. QED
        BY <4>1, <4>2, <1>2
    <3>4. QED
      BY <3>1, <3>2, <3>3, <1>2
  <2>2. ASSUME x \in Events PROVE x \in Events'
    BY <2>2, <1>1, <1>2, <1>3 DEF Events
  <2>3. ASSUME x \in {e[i] : i \in DOMAIN e} PROVE x \in Events'
    <3>1. PICK i \in 1 .. Len(e) : x = e[i]
      BY <2>3, <1>2
    <3>2. x = (trail \o e)[Len(trail) + i] /\ Len(trail) + i \in 1 .. Len(trail) + Len(e)
      BY <3>1, <1>2, <1>4
    <3>3. QED
      BY <3>2, <1>1, <1>2 DEF Events
  <2>4. QED
    BY <2>1, <2>2, <2>3
<1>6. QED
  BY <1>5

\* The sequences of events the actions record.
LEMMA Literals ==
    /\ \A a \in EventType : <<a>> \in Seq(EventType)
    /\ \A a, b \in EventType : <<a, b>> \in Seq(EventType)
    /\ PlanEvents \in Seq(EventType)
    /\ <<"snapshot_create", "rollback_start">> \o PlanEvents \in Seq(EventType)
<1>1. \A a \in EventType : <<a>> \in Seq(EventType)
  OBVIOUS
<1>2. \A a, b \in EventType : <<a, b>> \in Seq(EventType)
  OBVIOUS
<1>3. <<>> \in Seq(EventType)
  OBVIOUS
<1>4. PlanEvents \in Seq(EventType)
  <2>1. CASE Quarantining
    <3>1. "recovery_plan_execute" \in EventType /\ "recovery_plan_complete" \in EventType
      BY DEF EventType
    <3>2. QED
      BY <2>1, <3>1, <1>2 DEF PlanEvents
  <2>2. CASE ~Quarantining
    BY <2>2, <1>3 DEF PlanEvents
  <2>3. QED
    BY <2>1, <2>2
<1>5. <<"snapshot_create", "rollback_start">> \in Seq(EventType)
  <2>1. "snapshot_create" \in EventType /\ "rollback_start" \in EventType
    BY DEF EventType
  <2>2. QED
    BY <2>1, <1>2
<1>6. QED
  BY <1>1, <1>2, <1>4, <1>5

\* AutoQuarantine records one event per region.
LEMMA QuarantineEvents ==
    ASSUME NEW S \in SUBSET Region
    PROVE  /\ Cardinality(S) \in Nat
           /\ [i \in 1 .. Cardinality(S) |-> "quarantine_activate"] \in Seq(EventType)
<1>1. IsFiniteSet(S)
  BY ServerAssumption, FS_Subset
<1>2. Cardinality(S) \in Nat
  BY <1>1, FS_CardinalityType
<1>3. "quarantine_activate" \in EventType
  BY DEF EventType
<1>4. QED
  BY <1>2, <1>3

-----------------------------------------------------------------------------
(***************************************************************************)
(* Type correctness.                                                       *)
(***************************************************************************)

\* Percent has a first stage, and each of its stages is a percentage.
LEMMA Stages ==
    /\ Len(Percent) \in Nat /\ Len(Percent) >= 1
    /\ \A i \in 1 .. Len(Percent) : Percent[i] \in 1 .. 100
<1>1. Percent \in Seq(1 .. 100)
  BY PercentAssumption
<1>2. Len(Percent) \in Nat /\ DOMAIN Percent = 1 .. Len(Percent)
  BY <1>1
<1>3. \A i \in 1 .. Len(Percent) : Percent[i] \in 1 .. 100
  BY <1>1, ElementOfSeq
<1>4. Len(Percent) # 0
  BY <1>1, EmptySeq, PercentAssumption
<1>5. QED
  BY <1>2, <1>3, <1>4

\* A rollout starts well typed.
LEMMA InitType == Init => TypeOK
<1> SUFFICES ASSUME Init PROVE TypeOK
  OBVIOUS
<1>1. server \in [Server -> ServerRecord]
  BY InitialAssumption DEF Init
<1>2. before \in [Server -> Version]
  BY <1>1 DEF Init, ServerRecord
<1>3. quarantined \in SUBSET Region
  BY DEF Init
<1>4. trail \in Seq(EventType)
  BY DEF Init
<1>5. retriesLeft \in 0 .. MaxHealthRetries /\ injections \in 0 .. MaxInjections /\ lost \in 0 .. MaxLost
  BY RetryAssumption, BoundAssumption DEF Init
<1>6. stage \in 0 .. Len(Percent)
  BY Stages DEF Init
<1>7. QED
  BY <1>1, <1>2, <1>3, <1>4, <1>5, <1>6
     DEF Init, TypeOK, Control, DeploymentStatus, Fault, StageError

\* The trail keeps its type: the events each action records.
LEMMA TypeOfTrail ==
    ASSUME TypeOK, Next
    PROVE  trail' \in Seq(EventType)
PROOF
<1> USE DEF TypeOK
<1> DEFINE One(e) == e \in EventType /\ Record(<<e>>)
           Two(e, f) == e \in EventType /\ f \in EventType /\ Record(<<e, f>>)
<1>1. ASSUME NEW e, One(e) PROVE trail' \in Seq(EventType)
  BY <1>1, RecordSeq, Literals
<1>2. ASSUME NEW e, NEW f, Two(e, f) PROVE trail' \in Seq(EventType)
  BY <1>2, RecordSeq, Literals
<1>3. CASE UNCHANGED trail
  BY <1>3
<1>4. CASE Begin
  <2>1. Two("deployment_start", "snapshot_create")
    BY <1>4 DEF Begin, EventType
  <2>2. QED
    BY <2>1, <1>2
<1>5. CASE HandleAbort
  <2>1. Two("abort_received", "rollback_initiated")
    BY <1>5 DEF HandleAbort, EventType
  <2>2. QED
    BY <2>1, <1>2
<1>6. CASE Checkpoint
  <2>1. UNCHANGED trail \/ One("policy_violation") \/ One("snapshot_create")
                        \/ One("rollback_initiated")
    BY <1>6 DEF Checkpoint, EvaluateStart, EvaluateStageStart,
                EvaluateStageComplete, EvaluateRollback, Block, EventType
  <2>2. QED
    BY <2>1, <1>1, <1>3
<1>7. CASE StageResult \/ (\E ok \in BOOLEAN : HealthCheck(ok)) \/ StageDone
           \/ HandleUnrecoverable \/ FinishRollback
  <2>1. UNCHANGED trail \/ One("stage_transition") \/ One("health_check")
                        \/ One("deployment_completed") \/ One("deployment_failed")
                        \/ One("rollback_complete")
    BY <1>7 DEF StageResult, HealthCheck, StageDone, HandleUnrecoverable,
                FinishRollback, EventType
  <2>2. QED
    BY <2>1, <1>1, <1>3
<1>8. CASE AutoQuarantine
  <2>1. PICK S \in SUBSET Region :
            Record([i \in 1 .. Cardinality(S) |-> "quarantine_activate"])
    <3>1. (IF Quarantining THEN UnstableRegions \ quarantined ELSE {}) \in SUBSET Region
      BY DEF UnstableRegions
    <3>2. QED
      BY <3>1, <1>8 DEF AutoQuarantine
  <2>2. QED
    BY <2>1, QuarantineEvents, RecordSeq
<1>9. CASE RollbackUpdatedServers
  BY <1>9, Literals, RecordSeq DEF RollbackUpdatedServers
<1>10. CASE RepeatRollback
  BY <1>10, Literals, RecordSeq DEF RepeatRollback
<1>11. QED
  BY <1>3, <1>4, <1>5, <1>6, <1>7, <1>8, <1>9, <1>10
     DEF Next, Workflow, Environment, Terminated, ExecuteStage, ComputeQuota,
         StageRaises, SelectServers, CheckAbort, UpdateServer, LoseStageResult,
         StageRecorded, RetryHealthCheck, HealthPassed, AbortWait, WaitTimeout,
         MarkServersHealthy, HandleRecoverable, Return, SetAbortEvent,
         AbortSignal, InjectFailure, QuarantineRegion, vars, dataVars,
         outsideVars, stageVars, clusterVars, envVars, histVars

\* A server record keeps its type: the steps that write to the cluster.
LEMMA TypeOfServers ==
    ASSUME TypeOK, Next
    PROVE  server' \in [Server -> ServerRecord]
<1>1. server \in [Server -> ServerRecord]
  BY DEF TypeOK
<1>2. CASE UNCHANGED server
  BY <1>1, <1>2
<1>3. ASSUME NEW s \in Server, UpdateServer(s)
      PROVE  server' \in [Server -> ServerRecord]
  <2>1. UpdateVersion(server[s], Target) \in ServerRecord
    BY <1>1, RecordTypes, TargetAssumption DEF ServerStatus
  <2>2. QED
    BY <1>1, <1>3, <2>1 DEF UpdateServer
<1>4. ASSUME NEW s \in Server, InjectFailure(s)
      PROVE  server' \in [Server -> ServerRecord]
  <2>1. PICK new \in {"degraded", "failed"} :
            server' = [server EXCEPT ![s] = UpdateStatus(@, new)]
    BY <1>4 DEF InjectFailure
  <2>2. UpdateStatus(server[s], new) \in ServerRecord
    BY <1>1, RecordTypes, TargetAssumption DEF ServerStatus
  <2>3. QED
    BY <1>1, <2>1, <2>2
<1>5. CASE MarkServersHealthy
  <2>1. \A s \in Server : UpdateStatus(server[s], "healthy") \in ServerRecord
    BY <1>1, RecordTypes, TargetAssumption DEF ServerStatus
  <2>2. QED
    BY <1>1, <1>5, <2>1 DEF MarkServersHealthy
<1>6. CASE RollbackUpdatedServers \/ RepeatRollback
  <2>1. \A s \in Server : RollbackServer(server[s]) \in ServerRecord
    BY <1>1, RecordTypes, TargetAssumption DEF ServerStatus
  <2>2. QED
    BY <1>1, <1>6, <2>1 DEF RollbackUpdatedServers, RepeatRollback, RevertServers
<1>7. QED
  BY <1>2, <1>3, <1>4, <1>5, <1>6
     DEF Next, Workflow, Environment, Terminated, Checkpoint, ExecuteStage,
         Begin, EvaluateStart, EvaluateStageStart, EvaluateStageComplete,
         EvaluateRollback, ComputeQuota, StageRaises, SelectServers, CheckAbort,
         StageResult, LoseStageResult, StageRecorded, HealthCheck,
         RetryHealthCheck, HealthPassed, AutoQuarantine, StageDone, AbortWait,
         WaitTimeout, HandleAbort, HandleRecoverable, HandleUnrecoverable,
         FinishRollback, Return, SetAbortEvent, AbortSignal, QuarantineRegion,
         vars, outsideVars, clusterVars

\* Arithmetic of the quota: both counts of a stage are natural numbers.
LEMMA QuotaType ==
    ASSUME TypeOK, stage > 0
    PROVE  TargetCount - Cardinality(updated \cap Eligible) \in Int
<1>1. IsFiniteSet(Eligible) /\ IsFiniteSet(updated \cap Eligible)
  BY ServerAssumption, FS_Subset DEF Eligible
<1>2. Cardinality(Eligible) \in Nat /\ Cardinality(updated \cap Eligible) \in Nat
  BY <1>1, FS_CardinalityType
<1>3. stage \in 1 .. Len(Percent)
  BY Stages DEF TypeOK
<1>4. Percent[stage] \in 1 .. 100
  BY <1>3, Stages
<1>5. TargetCount \in Int
  BY <1>2, <1>4 DEF TargetCount
<1>6. QED
  BY <1>2, <1>5

\* The type invariant is inductive together with the range of the stages.
LEMMA TypeStep ==
    ASSUME TypeOK, StageInRange, Next
    PROVE  TypeOK' /\ StageInRange'
<1> USE DEF TypeOK, StageInRange, Control, DeploymentStatus, Fault, StageError,
            dataVars, outsideVars, stageVars, clusterVars, envVars, histVars
<1>1. trail' \in Seq(EventType) /\ server' \in [Server -> ServerRecord]
  BY TypeOfTrail, TypeOfServers
<1>2. CASE Begin
  BY <1>1, <1>2 DEF Begin
<1>3. ASSUME NEW d \in Decision, EvaluateStart(d)
      PROVE  TypeOK' /\ StageInRange'
  BY <1>1, <1>3, Stages DEF EvaluateStart, Block, EnterStage, Raise
<1>4. ASSUME NEW d \in Decision, EvaluateStageStart(d)
      PROVE  TypeOK' /\ StageInRange'
  BY <1>1, <1>4 DEF EvaluateStageStart, Block
<1>5. ASSUME NEW d \in Decision, EvaluateStageComplete(d)
      PROVE  TypeOK' /\ StageInRange'
  BY <1>1, <1>5 DEF EvaluateStageComplete, Block, Raise
<1>6. ASSUME NEW d \in Decision, EvaluateRollback(d)
      PROVE  TypeOK' /\ StageInRange'
  BY <1>1, <1>6 DEF EvaluateRollback, Block
<1>7. CASE ComputeQuota
  BY <1>1, <1>7, QuotaType DEF ComputeQuota
<1>8. CASE StageRaises
  BY <1>1, <1>8 DEF StageRaises
<1>9. CASE SelectServers
  BY <1>1, <1>9 DEF SelectServers, Shortfall, Candidates, Eligible
<1>10. CASE CheckAbort
  BY <1>1, <1>10 DEF CheckAbort
<1>11. ASSUME NEW s \in Server, UpdateServer(s)
      PROVE  TypeOK' /\ StageInRange'
  BY <1>1, <1>11 DEF UpdateServer, Shortfall
<1>12. CASE StageResult
  BY <1>1, <1>12 DEF StageResult, Raise
<1>13. CASE LoseStageResult
  BY <1>1, <1>13, BoundAssumption DEF LoseStageResult
<1>14. CASE StageRecorded
  BY <1>1, <1>14, RetryAssumption DEF StageRecorded, Raise
<1>15. ASSUME NEW ok \in BOOLEAN, HealthCheck(ok)
      PROVE  TypeOK' /\ StageInRange'
  BY <1>1, <1>15 DEF HealthCheck
<1>16. CASE RetryHealthCheck
  BY <1>1, <1>16, RetryAssumption DEF RetryHealthCheck
<1>17. CASE HealthPassed
  BY <1>1, <1>17 DEF HealthPassed, Raise
<1>18. CASE AutoQuarantine
  BY <1>1, <1>18 DEF AutoQuarantine, Raise, UnstableRegions
<1>19. CASE StageDone
  BY <1>1, <1>19, Stages DEF StageDone
<1>20. CASE AbortWait
  BY <1>1, <1>20 DEF AbortWait, Raise
<1>21. CASE WaitTimeout
  BY <1>1, <1>21, Stages DEF WaitTimeout, Raise, EnterStage
<1>22. CASE MarkServersHealthy
  BY <1>1, <1>22 DEF MarkServersHealthy
<1>23. CASE HandleAbort
  BY <1>1, <1>23 DEF HandleAbort
<1>24. CASE HandleRecoverable
  BY <1>1, <1>24 DEF HandleRecoverable, Recoverable
<1>25. CASE HandleUnrecoverable
  BY <1>1, <1>25 DEF HandleUnrecoverable
<1>26. CASE RollbackUpdatedServers
  BY <1>1, <1>26 DEF RollbackUpdatedServers, RevertServers
<1>27. CASE RepeatRollback
  BY <1>1, <1>27, BoundAssumption DEF RepeatRollback, RevertServers
<1>28. CASE FinishRollback
  BY <1>1, <1>28 DEF FinishRollback
<1>29. CASE Return
  BY <1>1, <1>29 DEF Return
<1>30. CASE SetAbortEvent
  BY <1>1, <1>30 DEF SetAbortEvent
<1>31. CASE AbortSignal
  BY <1>1, <1>31 DEF AbortSignal
<1>32. ASSUME NEW s \in Server, InjectFailure(s)
      PROVE  TypeOK' /\ StageInRange'
  BY <1>1, <1>32, BoundAssumption DEF InjectFailure
<1>33. ASSUME NEW r \in Region, QuarantineRegion(r)
      PROVE  TypeOK' /\ StageInRange'
  BY <1>1, <1>33 DEF QuarantineRegion
<1>34. CASE Terminated
  BY <1>1, <1>34 DEF Terminated, vars
<1>35. QED
  BY <1>2, <1>3, <1>4, <1>5, <1>6, <1>7, <1>8, <1>9, <1>10, <1>11, <1>12,
     <1>13, <1>14, <1>15, <1>16, <1>17, <1>18, <1>19, <1>20, <1>21, <1>22,
     <1>23, <1>24, <1>25, <1>26, <1>27, <1>28, <1>29, <1>30, <1>31, <1>32,
     <1>33, <1>34
     DEF Next, Workflow, Environment, ExecuteStage, Checkpoint

TypeInv == TypeOK /\ StageInRange

\* The inductive form of the type invariant holds throughout a rollout.
LEMMA TypeInvariant == Spec => []TypeInv
<1>1. Init => TypeInv
  BY InitType DEF Init, TypeInv, StageInRange
<1>2. TypeInv /\ [Next]_vars => TypeInv'
  <2>1. ASSUME TypeInv, Next PROVE TypeInv'
    BY <2>1, TypeStep DEF TypeInv
  <2>2. ASSUME TypeInv, UNCHANGED vars PROVE TypeInv'
    BY <2>2 DEF TypeInv, TypeOK, StageInRange, vars, dataVars, outsideVars,
                stageVars, clusterVars, envVars, histVars
  <2>3. QED
    BY <2>1, <2>2
<1>3. QED
  BY <1>1, <1>2, PTL DEF Spec

\* Every state of a rollout is well typed, whatever the cluster, the stages,
\* the governance decisions, the failures and the timing of the abort.
THEOREM TypeCorrect == Spec => []TypeOK
<1>1. TypeInv => TypeOK
  BY DEF TypeInv
<1>2. QED
  BY <1>1, TypeInvariant, PTL

-----------------------------------------------------------------------------
(***************************************************************************)
(* The abort.                                                              *)
(***************************************************************************)

\* Every step keeps the order of an abort: event, then signal, then handler.
LEMMA AbortOrderStep ==
    ASSUME TypeOK, AbortOrder, [Next]_vars
    PROVE  AbortOrder'
<1> USE DEF AbortOrder, dataVars, outsideVars, stageVars, clusterVars, envVars,
            histVars
<1>1. ASSUME NEW s \in Server, UpdateServer(s)
      PROVE  AbortOrder'
  \* The server was checked before the event was set, or late is still 0.
  <2>1. late = 0
    BY <1>1 DEF UpdateServer, TypeOK
  <2>2. QED
    BY <1>1, <2>1 DEF UpdateServer
<1>2. CASE CheckAbort
  BY <1>2 DEF CheckAbort
<1>3. CASE AbortSignal
  BY <1>3 DEF AbortSignal, InsideStage
<1>4. CASE SetAbortEvent
  BY <1>4 DEF SetAbortEvent, TypeOK
<1>5. CASE Terminated \/ UNCHANGED vars
  BY <1>5 DEF Terminated, vars
<1>6. CASE \/ Begin \/ Checkpoint \/ ComputeQuota \/ StageRaises \/ SelectServers
           \/ StageResult \/ LoseStageResult \/ StageRecorded
           \/ (\E ok \in BOOLEAN : HealthCheck(ok))
           \/ RetryHealthCheck \/ HealthPassed \/ AutoQuarantine
           \/ StageDone \/ AbortWait \/ WaitTimeout \/ MarkServersHealthy
           \/ HandleAbort \/ HandleRecoverable \/ HandleUnrecoverable
           \/ RollbackUpdatedServers \/ RepeatRollback \/ FinishRollback \/ Return
           \/ (\E s \in Server : InjectFailure(s))
           \/ (\E r \in Region : QuarantineRegion(r))
  \* None of these deploys, sets or signals an abort, or leads to "update".
  <2>1. UNCHANGED <<aborted, abortEvent, late>>
    BY <1>6
       DEF Begin, Checkpoint, EvaluateStart, EvaluateStageStart,
           EvaluateStageComplete, EvaluateRollback, ComputeQuota, StageRaises,
           SelectServers, StageResult, LoseStageResult, StageRecorded, HealthCheck,
           RetryHealthCheck, HealthPassed, AutoQuarantine, StageDone, AbortWait,
           WaitTimeout, MarkServersHealthy, HandleAbort, HandleRecoverable,
           HandleUnrecoverable, RollbackUpdatedServers, RepeatRollback,
           FinishRollback, Return, InjectFailure, QuarantineRegion
  <2>2. pc' = pc \/ pc' # "update"
    BY <1>6
       DEF Begin, Checkpoint, EvaluateStart, EvaluateStageStart,
           EvaluateStageComplete, EvaluateRollback, ComputeQuota, StageRaises,
           SelectServers, StageResult, LoseStageResult, StageRecorded, HealthCheck,
           RetryHealthCheck, HealthPassed, AutoQuarantine, StageDone, AbortWait,
           WaitTimeout, MarkServersHealthy, HandleAbort, HandleRecoverable,
           HandleUnrecoverable, RollbackUpdatedServers, RepeatRollback,
           FinishRollback, Return, InjectFailure, QuarantineRegion, Block,
           EnterStage, Raise
  <2>3. QED
    BY <2>1, <2>2
<1>7. QED
  BY <1>1, <1>2, <1>3, <1>4, <1>5, <1>6
     DEF Next, Workflow, Environment, ExecuteStage

\* ... so the order of an abort holds throughout a rollout.
LEMMA AbortOrdered == Spec => []AbortOrder
<1>1. Init => AbortOrder
  BY DEF Init, AbortOrder
<1>2. TypeOK /\ AbortOrder /\ [Next]_vars => AbortOrder'
  BY AbortOrderStep
<1>3. QED
  BY <1>1, <1>2, TypeCorrect, PTL DEF Spec

\* However many servers the stage holds, at most one is updated after the
\* operator's abort.
THEOREM PromptAbortHolds == Spec => []PromptAbort
<1>1. AbortOrder => PromptAbort
  BY DEF AbortOrder, PromptAbort
<1>2. QED
  BY <1>1, AbortOrdered, PTL

\* Once the signal is delivered no step deploys to a server.
THEOREM NoGrowth == Spec => NoGrowthAfterAbort
<1>1. AbortOrder /\ [Next]_vars => [aborted => touched' = touched]_vars
  <2> SUFFICES ASSUME AbortOrder, Next, aborted
               PROVE  touched' = touched
    OBVIOUS
  <2>1. pc # "update"
    BY DEF AbortOrder
  <2>2. UNCHANGED touched
    BY <2>1
       DEF Next, Workflow, Environment, ExecuteStage, Terminated, UpdateServer,
           Begin, Checkpoint, EvaluateStart, EvaluateStageStart,
           EvaluateStageComplete, EvaluateRollback, ComputeQuota, StageRaises,
           SelectServers, CheckAbort, StageResult, LoseStageResult, StageRecorded,
           HealthCheck, RetryHealthCheck, HealthPassed, AutoQuarantine, StageDone,
           AbortWait, WaitTimeout, MarkServersHealthy, HandleAbort,
           HandleRecoverable, HandleUnrecoverable, RollbackUpdatedServers,
           RepeatRollback, FinishRollback, Return, SetAbortEvent, AbortSignal,
           InjectFailure, QuarantineRegion, vars, outsideVars, histVars
  <2>3. QED
    BY <2>2
<1>2. QED
  BY <1>1, AbortOrdered, PTL DEF Spec, NoGrowthAfterAbort

-----------------------------------------------------------------------------
(***************************************************************************)
(* The rollback.                                                           *)
(***************************************************************************)

\* Only the end of a rollback records ROLLBACK_COMPLETE, and only the end of the
\* last stage DEPLOYMENT_COMPLETED.
LEMMA EndRecorded ==
    ASSUME TypeOK, Next, NEW end, end \in Events',
           \/ end = "rollback_complete" /\ ~FinishRollback
           \/ end = "deployment_completed" /\ ~StageDone
    PROVE  end \in Events
<1> USE DEF TypeOK
<1> DEFINE Quiet(e) == /\ e \in Seq(EventType)
                       /\ \A i \in DOMAIN e : e[i] # end
                       /\ Record(e)
<1>1. ASSUME NEW e, Quiet(e) PROVE end \in Events
  BY <1>1, EventsOf
<1>2. CASE UNCHANGED trail
  BY <1>2 DEF Events
<1>3. ASSUME NEW a \in EventType, NEW b \in EventType,
             a # end, b # end,
             Record(<<a>>) \/ Record(<<a, b>>)
      PROVE  end \in Events
  <2>1. CASE Record(<<a>>)
    <3>1. Quiet(<<a>>)
      BY <1>3, <2>1, Literals
    <3>2. QED
      BY <3>1, <1>1
  <2>2. CASE Record(<<a, b>>)
    <3>1. Quiet(<<a, b>>)
      BY <1>3, <2>2, Literals
    <3>2. QED
      BY <3>1, <1>1
  <2>3. QED
    BY <1>3, <2>1, <2>2
<1>4. CASE Begin \/ HandleAbort
  <2>1. \/ Record(<<"deployment_start", "snapshot_create">>)
        \/ Record(<<"abort_received", "rollback_initiated">>)
    BY <1>4 DEF Begin, HandleAbort
  <2>2. QED
    BY <2>1, <1>3 DEF EventType
<1>5. CASE Checkpoint
  <2>1. UNCHANGED trail \/ Record(<<"policy_violation">>)
           \/ Record(<<"snapshot_create">>) \/ Record(<<"rollback_initiated">>)
    BY <1>5 DEF Checkpoint, EvaluateStart, EvaluateStageStart,
                EvaluateStageComplete, EvaluateRollback, Block
  <2>2. QED
    BY <2>1, <1>2, <1>3 DEF EventType
<1>6. CASE StageResult \/ (\E ok \in BOOLEAN : HealthCheck(ok)) \/ HandleUnrecoverable
  <2>1. UNCHANGED trail \/ Record(<<"stage_transition">>)
           \/ Record(<<"health_check">>) \/ Record(<<"deployment_failed">>)
    BY <1>6 DEF StageResult, HealthCheck, HandleUnrecoverable
  <2>2. QED
    BY <2>1, <1>2, <1>3 DEF EventType
<1>7. CASE StageDone
  <2>1. end = "rollback_complete"
    BY <1>7
  <2>2. UNCHANGED trail \/ Record(<<"deployment_completed">>)
    BY <1>7 DEF StageDone
  <2>3. QED
    BY <2>1, <2>2, <1>2, <1>3 DEF EventType
<1>8. CASE FinishRollback
  <2>1. end = "deployment_completed"
    BY <1>8
  <2>2. Record(<<"rollback_complete">>)
    BY <1>8 DEF FinishRollback
  <2>3. QED
    BY <2>1, <2>2, <1>3 DEF EventType
<1>9. CASE AutoQuarantine
  <2>1. PICK S \in SUBSET Region :
            Record([i \in 1 .. Cardinality(S) |-> "quarantine_activate"])
    <3>1. (IF Quarantining THEN UnstableRegions \ quarantined ELSE {}) \in SUBSET Region
      BY DEF UnstableRegions
    <3>2. QED
      BY <3>1, <1>9 DEF AutoQuarantine
  <2>2. Quiet([i \in 1 .. Cardinality(S) |-> "quarantine_activate"])
    BY <2>1, QuarantineEvents
  <2>3. QED
    BY <2>2, <1>1
<1>10. CASE RollbackUpdatedServers \/ RepeatRollback
  <2>1. \A i \in DOMAIN PlanEvents : PlanEvents[i] # end
    BY DEF PlanEvents
  <2>2. \A i \in DOMAIN (<<"snapshot_create", "rollback_start">> \o PlanEvents) :
           (<<"snapshot_create", "rollback_start">> \o PlanEvents)[i]
               # end
    BY DEF PlanEvents
  <2>3. Quiet(PlanEvents) \/ Quiet(<<"snapshot_create", "rollback_start">> \o PlanEvents)
    BY <1>10, <2>1, <2>2, Literals DEF RollbackUpdatedServers, RepeatRollback
  <2>4. QED
    BY <2>3, <1>1
<1>11. QED
  BY <1>2, <1>4, <1>5, <1>6, <1>7, <1>8, <1>9, <1>10
     DEF Next, Workflow, Environment, Terminated, ExecuteStage, ComputeQuota,
         StageRaises, SelectServers, CheckAbort, UpdateServer, LoseStageResult,
         StageRecorded, RetryHealthCheck, HealthPassed, AbortWait, WaitTimeout,
         MarkServersHealthy, HandleRecoverable, Return, SetAbortEvent,
         AbortSignal, InjectFailure, QuarantineRegion, vars, dataVars,
         outsideVars, stageVars, clusterVars, envVars, histVars

\* In particular nothing else records ROLLBACK_COMPLETE.
LEMMA CompleteRecorded ==
    ASSUME TypeOK, Next, ~FinishRollback, "rollback_complete" \in Events'
    PROVE  "rollback_complete" \in Events
BY EndRecorded

\* rollback_server on a server the rollout deployed to takes it back.
LEMMA RevertDeployed ==
    ASSUME TypeOK, NEW s \in Server, Deployed(s)
    PROVE  /\ CanRollBack(server[s])
           /\ RollbackServer(server[s]).version = before[s]
           /\ RollbackServer(server[s]).previous = Target
           /\ RollbackServer(server[s]).last
                 = [action |-> "rollback", version |-> before[s]]
BY NoVersionAssumption
   DEF TypeOK, Deployed, RollbackServer, CanRollBack, AlreadyRolledBack

\* Steps that touch neither the cluster nor its history keep what is known of
\* each server.
LEMMA SameServers ==
    ASSUME UNCHANGED <<server, before>>, NEW s
    PROVE  /\ Restored(s)' = Restored(s)
           /\ Deployed(s)' = Deployed(s)
           /\ Reverted(s)' = Reverted(s)
BY DEF Restored, Deployed, Reverted

\* Neither does a change of status.
LEMMA StatusOnly ==
    ASSUME TypeOK, UNCHANGED before, NEW s \in Server,
           server'[s] = server[s]
             \/ \E st \in ServerStatus : server'[s] = UpdateStatus(server[s], st)
    PROVE  /\ Restored(s)' = Restored(s)
           /\ Deployed(s)' = Deployed(s)
           /\ Reverted(s)' = Reverted(s)
<1>1. /\ server'[s].version = server[s].version
      /\ server'[s].previous = server[s].previous
      /\ server'[s].last = server[s].last
  BY DEF UpdateStatus, TypeOK, ServerRecord
<1>2. QED
  BY <1>1 DEF Restored, Deployed, Reverted

\* Every step of a rollout that loses no activity result keeps its books.
LEMMA BooksStep ==
    ASSUME MaxLost = 0, TypeOK, Books, Next
    PROVE  Books'
<1> USE DEF Deploying, dataVars, outsideVars, stageVars, clusterVars, envVars,
            histVars
<1>a. ~LoseStageResult /\ ~RepeatRollback
  BY DEF TypeOK, LoseStageResult, RepeatRollback
<1>b. touched \subseteq Server /\ updated \subseteq Server
  BY DEF TypeOK
<1>c. ASSUME ~FinishRollback PROVE "rollback_complete" \in Events' => "rollback_complete" \in Events
  BY <1>c, CompleteRecorded
<1>1. CASE Begin
  <2>1. ~FinishRollback
    BY <1>1 DEF Begin, FinishRollback
  <2>2. QED
    BY <1>1, <1>b, <1>c, <2>1, SameServers
       DEF Books, Begin
<1>2. ASSUME NEW d \in Decision, EvaluateStart(d) PROVE Books'
  <2>1. ~FinishRollback
    BY <1>2 DEF EvaluateStart, Block, EnterStage, Raise, FinishRollback
  <2>2. QED
    BY <1>2, <1>b, <1>c, <2>1, SameServers
       DEF Books, EvaluateStart, Block, EnterStage, Raise
<1>3. ASSUME NEW d \in Decision, EvaluateStageStart(d) PROVE Books'
  <2>1. ~FinishRollback
    BY <1>3 DEF EvaluateStageStart, Block, FinishRollback
  <2>2. QED
    BY <1>3, <1>b, <1>c, <2>1, SameServers
       DEF Books, EvaluateStageStart, Block
<1>4. ASSUME NEW d \in Decision, EvaluateStageComplete(d) PROVE Books'
  <2>1. ~FinishRollback
    BY <1>4 DEF EvaluateStageComplete, Block, Raise, FinishRollback
  <2>2. QED
    BY <1>4, <1>b, <1>c, <2>1, SameServers
       DEF Books, EvaluateStageComplete, Block, Raise
<1>5. ASSUME NEW d \in Decision, EvaluateRollback(d) PROVE Books'
  <2>1. ~FinishRollback
    BY <1>5 DEF EvaluateRollback, Block, FinishRollback
  <2>2. QED
    BY <1>5, <1>b, <1>c, <2>1, SameServers
       DEF Books, EvaluateRollback, Block
<1>6. CASE ComputeQuota
  <2>1. ~FinishRollback
    BY <1>6 DEF ComputeQuota, FinishRollback
  <2>2. QED
    BY <1>6, <1>b, <1>c, <2>1, SameServers
       DEF Books, ComputeQuota
<1>7. CASE StageRaises
  <2>1. ~FinishRollback
    BY <1>7 DEF StageRaises, FinishRollback
  <2>2. QED
    BY <1>7, <1>b, <1>c, <2>1, SameServers
       DEF Books, StageRaises
<1>8. CASE SelectServers
  <2>1. ~FinishRollback
    BY <1>8 DEF SelectServers, Candidates, Eligible, FinishRollback
  <2>2. QED
    BY <1>8, <1>b, <1>c, <2>1, SameServers
       DEF Books, SelectServers, Candidates, Eligible
<1>9. CASE CheckAbort
  <2>1. ~FinishRollback
    BY <1>9 DEF CheckAbort, FinishRollback
  <2>2. QED
    BY <1>9, <1>b, <1>c, <2>1, SameServers
       DEF Books, CheckAbort
<1>10. CASE StageResult
  <2>1. ~FinishRollback
    BY <1>10 DEF StageResult, Raise, FinishRollback
  <2>2. QED
    BY <1>10, <1>b, <1>c, <2>1, SameServers
       DEF Books, StageResult, Raise
<1>11. CASE StageRecorded
  <2>1. ~FinishRollback
    BY <1>11 DEF StageRecorded, Raise, FinishRollback
  <2>2. QED
    BY <1>11, <1>b, <1>c, <2>1, SameServers
       DEF Books, StageRecorded, Raise
<1>12. ASSUME NEW ok \in BOOLEAN, HealthCheck(ok) PROVE Books'
  <2>1. ~FinishRollback
    BY <1>12 DEF HealthCheck, FinishRollback
  <2>2. QED
    BY <1>12, <1>b, <1>c, <2>1, SameServers
       DEF Books, HealthCheck
<1>13. CASE RetryHealthCheck
  <2>1. ~FinishRollback
    BY <1>13 DEF RetryHealthCheck, FinishRollback
  <2>2. QED
    BY <1>13, <1>b, <1>c, <2>1, SameServers
       DEF Books, RetryHealthCheck
<1>14. CASE HealthPassed
  <2>1. ~FinishRollback
    BY <1>14 DEF HealthPassed, Raise, FinishRollback
  <2>2. QED
    BY <1>14, <1>b, <1>c, <2>1, SameServers
       DEF Books, HealthPassed, Raise
<1>15. CASE AutoQuarantine
  <2>1. ~FinishRollback
    BY <1>15 DEF AutoQuarantine, Raise, FinishRollback
  <2>2. QED
    BY <1>15, <1>b, <1>c, <2>1, SameServers
       DEF Books, AutoQuarantine, Raise
<1>16. CASE StageDone
  <2>1. ~FinishRollback
    BY <1>16 DEF StageDone, FinishRollback
  <2>2. QED
    BY <1>16, <1>b, <1>c, <2>1, SameServers
       DEF Books, StageDone
<1>17. CASE AbortWait
  <2>1. ~FinishRollback
    BY <1>17 DEF AbortWait, Raise, FinishRollback
  <2>2. QED
    BY <1>17, <1>b, <1>c, <2>1, SameServers
       DEF Books, AbortWait, Raise
<1>18. CASE WaitTimeout
  <2>1. ~FinishRollback
    BY <1>18 DEF WaitTimeout, Raise, EnterStage, FinishRollback
  <2>2. QED
    BY <1>18, <1>b, <1>c, <2>1, SameServers
       DEF Books, WaitTimeout, Raise, EnterStage
<1>19. CASE HandleAbort
  <2>1. ~FinishRollback
    BY <1>19 DEF HandleAbort, FinishRollback
  <2>2. QED
    BY <1>19, <1>b, <1>c, <2>1, SameServers
       DEF Books, HandleAbort
<1>20. CASE HandleRecoverable
  <2>1. ~FinishRollback
    BY <1>20 DEF HandleRecoverable, FinishRollback
  <2>2. QED
    BY <1>20, <1>b, <1>c, <2>1, SameServers
       DEF Books, HandleRecoverable
<1>21. CASE HandleUnrecoverable
  <2>1. ~FinishRollback
    BY <1>21 DEF HandleUnrecoverable, FinishRollback
  <2>2. QED
    BY <1>21, <1>b, <1>c, <2>1, SameServers
       DEF Books, HandleUnrecoverable
<1>22. CASE Return
  <2>1. ~FinishRollback
    BY <1>22 DEF Return, FinishRollback
  <2>2. QED
    BY <1>22, <1>b, <1>c, <2>1, SameServers
       DEF Books, Return
<1>23. CASE SetAbortEvent
  <2>1. ~FinishRollback
    BY <1>23 DEF SetAbortEvent, FinishRollback
  <2>2. QED
    BY <1>23, <1>b, <1>c, <2>1, SameServers
       DEF Books, SetAbortEvent
<1>24. CASE AbortSignal
  <2>1. ~FinishRollback
    BY <1>24 DEF AbortSignal, InsideStage, FinishRollback
  <2>2. QED
    BY <1>24, <1>b, <1>c, <2>1, SameServers
       DEF Books, AbortSignal, InsideStage
<1>25. ASSUME NEW r \in Region, QuarantineRegion(r) PROVE Books'
  <2>1. ~FinishRollback
    BY <1>25 DEF QuarantineRegion, FinishRollback
  <2>2. QED
    BY <1>25, <1>b, <1>c, <2>1, SameServers
       DEF Books, QuarantineRegion
<1>26. ASSUME NEW s \in Server, UpdateServer(s) PROVE Books'
  <2>1. ~FinishRollback /\ pc = "update" /\ s \in todo /\ s \notin touched
    BY <1>26 DEF UpdateServer, FinishRollback, Books
  <2>2. Deployed(s)'
    <3>1. Restored(s)
      BY <2>1 DEF Books
    <3>2. server'[s] = UpdateVersion(server[s], Target) /\ UNCHANGED before
      BY <1>26 DEF UpdateServer, TypeOK
    <3>3. QED
      BY <3>1, <3>2 DEF Deployed, Restored, UpdateVersion
  <2>3. ASSUME NEW q \in Server, q # s
        PROVE  Restored(q)' = Restored(q) /\ Deployed(q)' = Deployed(q)
    <3>1. server'[q] = server[q] /\ UNCHANGED before
      BY <1>26, <2>3 DEF UpdateServer, TypeOK
    <3>2. QED
      BY <3>1 DEF Restored, Deployed
  <2>4. /\ touched' = touched \cup {s} /\ newly' = newly \cup {s}
        /\ todo' = todo \ {s} /\ UNCHANGED <<updated, status, aborted, trail>>
        /\ pc' \in {"check", "result"}
    BY <1>26 DEF UpdateServer
  <2>5. QED
    BY <2>1, <2>2, <2>3, <2>4, <1>b, <1>c DEF Books, Events
<1>27. ASSUME NEW s \in Server, InjectFailure(s) PROVE Books'
  <2>1. ~FinishRollback /\ pc # "done"
    BY <1>27 DEF InjectFailure, FinishRollback
  <2>2. \A q \in Server : \/ server'[q] = server[q]
                          \/ \E st \in ServerStatus : server'[q] = UpdateStatus(server[q], st)
    BY <1>27 DEF InjectFailure, TypeOK, ServerStatus
  <2>3. /\ UNCHANGED <<before, touched, updated, status, aborted, trail>>
        /\ UNCHANGED <<pc, newly, todo>>
    BY <1>27 DEF InjectFailure
  <2>4. \A q \in Server : /\ Restored(q)' = Restored(q)
                          /\ Deployed(q)' = Deployed(q)
                          /\ Reverted(q)' = Reverted(q)
    BY <2>2, <2>3, StatusOnly
  <2>5. QED
    BY <2>1, <2>3, <2>4, <1>b, <1>c DEF Books
<1>28. CASE MarkServersHealthy
  <2>1. ~FinishRollback /\ pc = "completing"
    BY <1>28 DEF MarkServersHealthy, FinishRollback
  <2>2. \A q \in Server : \/ server'[q] = server[q]
                          \/ \E st \in ServerStatus : server'[q] = UpdateStatus(server[q], st)
    BY <1>28 DEF MarkServersHealthy, TypeOK, ServerStatus
  <2>3. /\ UNCHANGED <<before, touched, updated, status, aborted, trail>>
        /\ UNCHANGED <<newly, todo>> /\ pc' = "returning"
    BY <1>28 DEF MarkServersHealthy
  <2>4. \A q \in Server : /\ Restored(q)' = Restored(q)
                          /\ Deployed(q)' = Deployed(q)
    BY <2>2, <2>3, StatusOnly
  <2>5. QED
    BY <2>1, <2>3, <2>4, <1>b, <1>c DEF Books
<1>29. CASE RollbackUpdatedServers
  <2>1. ~FinishRollback /\ pc = "rollback" /\ pc' = "rolled"
    BY <1>29 DEF RollbackUpdatedServers, FinishRollback
  <2>2. UNCHANGED <<before, touched, updated, status, aborted>>
    BY <1>29 DEF RollbackUpdatedServers
  \* Before the rollback every server deployed to is still deployed.
  <2>3. ASSUME NEW q \in updated PROVE Reverted(q)'
    <3>1. q \in Server /\ Deployed(q)
      BY <2>1, <1>b DEF Books
    <3>2. server'[q] = RollbackServer(server[q])
      BY <3>1, <1>29 DEF RollbackUpdatedServers, RevertServers
    <3>3. /\ server'[q].version = before[q]
          /\ server'[q].previous = Target
          /\ server'[q].last = [action |-> "rollback", version |-> before[q]]
      BY <3>1, <3>2, RevertDeployed
    <3>4. QED
      BY <3>3, <2>2 DEF Reverted, Restored
  <2>4. ASSUME NEW q \in Server \ updated
        PROVE  Restored(q)' = Restored(q) /\ Deployed(q)' = Deployed(q)
    <3>1. server'[q] = server[q] /\ UNCHANGED before
      BY <1>29 DEF RollbackUpdatedServers, RevertServers, TypeOK
    <3>2. QED
      BY <3>1 DEF Restored, Deployed
  <2>5. QED
    BY <2>1, <2>2, <2>3, <2>4, <1>b, <1>c DEF Books
<1>30. CASE FinishRollback
  <2>1. /\ pc = "rolled" /\ pc' = "done"
        /\ UNCHANGED <<server, before, touched, updated, aborted, newly, todo>>
        /\ status' = "rolled_back" => ~aborted
    BY <1>30 DEF FinishRollback
  <2>2. QED
    BY <2>1, <1>b, SameServers DEF Books
<1>31. CASE Terminated
  <2>1. UNCHANGED vars
    BY <1>31 DEF Terminated
  <2>2. QED
    BY <2>1, SameServers DEF Books, vars, Events
<1>32. QED
  BY <1>a, <1>1, <1>2, <1>3, <1>4, <1>5, <1>6, <1>7, <1>8, <1>9, <1>10,
     <1>11, <1>12, <1>13, <1>14, <1>15, <1>16, <1>17, <1>18, <1>19, <1>20,
     <1>21, <1>22, <1>23, <1>24, <1>25, <1>26, <1>27, <1>28, <1>29, <1>30,
     <1>31
     DEF Next, Workflow, Environment, ExecuteStage, Checkpoint

\* ... so the books are kept throughout such a rollout.
LEMMA BooksInvariant == MaxLost = 0 => (Spec => []Books)
<1> SUFFICES ASSUME MaxLost = 0 PROVE Spec => []Books
  OBVIOUS
<1>1. Init => Books
  BY DEF Init, Books, Restored, Events, Deploying
<1>2. TypeOK /\ Books /\ [Next]_vars => Books'
  <2>1. ASSUME TypeOK, Books, Next PROVE Books'
    BY <2>1, BooksStep
  <2>2. ASSUME Books, UNCHANGED vars PROVE Books'
    BY <2>2, SameServers
       DEF Books, Events, vars, dataVars, outsideVars, stageVars, clusterVars,
           envVars, histVars
  <2>3. QED
    BY <2>1, <2>2
<1>3. QED
  BY <1>1, <1>2, TypeCorrect, PTL DEF Spec

\* While no activity result is lost, a server the rollout deployed to remembers
\* the version to go back to, whichever stages, failures and quarantines came
\* between.
THEOREM RollbackAnchorHolds == MaxLost = 0 => (Spec => []RollbackAnchor)
<1> SUFFICES ASSUME MaxLost = 0 PROVE Spec => []RollbackAnchor
  OBVIOUS
<1>1. \A s \in touched : Reverted(s) => server[s].last.action = "rollback"
  BY DEF Reverted
<1>2. Books => RollbackAnchor
  BY <1>1 DEF Books, RollbackAnchor, Deployed
<1>3. QED
  BY <1>2, BooksInvariant, PTL

\* ... no server is deployed to behind the workflow's back, unless an abort
\* made it drop a stage's report.
THEOREM AccountedHolds == MaxLost = 0 => (Spec => []Accounted)
<1> SUFFICES ASSUME MaxLost = 0 PROVE Spec => []Accounted
  OBVIOUS
<1>1. Books => Accounted
  BY DEF Books, Accounted, Deploying
<1>2. QED
  BY <1>1, BooksInvariant, PTL

\* ... and a rollout that says it is rolled back is: every server it deployed
\* to runs the version it ran before.
THEOREM RolledBackRestoresHolds == MaxLost = 0 => (Spec => []RolledBackRestores)
<1> SUFFICES ASSUME MaxLost = 0 PROVE Spec => []RolledBackRestores
  OBVIOUS
<1>1. Books => RolledBackRestores
  BY DEF Books, RolledBackRestores, Reverted
<1>2. QED
  BY <1>1, BooksInvariant, PTL

\* ... and the ROLLBACK_COMPLETE event tells the truth of every server on the
\* rollout's books, aborted or not.
THEOREM RollbackCompleteHolds == MaxLost = 0 => (Spec => []RollbackCompleteTrue)
<1> SUFFICES ASSUME MaxLost = 0 PROVE Spec => []RollbackCompleteTrue
  OBVIOUS
<1>1. Books => RollbackCompleteTrue
  BY DEF Books, RollbackCompleteTrue, Reverted
<1>2. QED
  BY <1>1, BooksInvariant, PTL


-----------------------------------------------------------------------------
(***************************************************************************)
(* One outcome.                                                            *)
(***************************************************************************)

Outcome == {"deployment_completed", "deployment_failed", "policy_violation",
            "rollback_initiated"}

\* Where the workflow stands once it has told how the rollout ends.
Decided == {"completing", "returning", "rollback", "rolled", "done"}

\* The trail tells the outcome from then on, once, and nothing before.
Verdict == /\ pc \notin Decided => Outcomes = {}
           /\ pc \in Decided => \E i \in DOMAIN trail : Outcomes = {i}

\* Events that are no outcome leave those on the trail where they are.
LEMMA QuietEvents ==
    ASSUME trail \in Seq(EventType), NEW e \in Seq(EventType), Record(e),
           \A i \in DOMAIN e : e[i] \notin Outcome
    PROVE  Outcomes' = Outcomes /\ DOMAIN trail \subseteq DOMAIN trail'
<1>1. trail' = trail \o e
  BY DEF Record
<1>2. /\ DOMAIN trail = 1 .. Len(trail) /\ Len(trail) \in Nat
      /\ DOMAIN e = 1 .. Len(e) /\ Len(e) \in Nat
      /\ DOMAIN (trail \o e) = 1 .. Len(trail) + Len(e)
  OBVIOUS
<1>3. \A i \in 1 .. Len(trail) : (trail \o e)[i] = trail[i]
  OBVIOUS
<1>4. \A i \in 1 .. Len(trail) + Len(e) :
         i > Len(trail) => (trail \o e)[i] = e[i - Len(trail)] /\ i - Len(trail) \in DOMAIN e
  BY <1>2
<1>5. \A i \in 1 .. Len(trail) + Len(e) :
         (trail \o e)[i] \in Outcome <=> i <= Len(trail) /\ trail[i] \in Outcome
  BY <1>2, <1>3, <1>4
<1>6. Outcomes = {i \in DOMAIN trail : trail[i] \in Outcome}
  BY DEF Outcomes, Outcome
<1>7. Outcomes' = {i \in DOMAIN trail' : trail'[i] \in Outcome}
  BY DEF Outcomes, Outcome
<1>8. QED
  BY <1>1, <1>2, <1>5, <1>6, <1>7

\* One that is an outcome, after none or one that is not, is the only one on a
\* trail that told none.
LEMMA FirstOutcome ==
    ASSUME trail \in Seq(EventType), Outcomes = {}, NEW a \in Outcome,
           \/ Record(<<a>>)
           \/ \E b \in EventType \ Outcome : Record(<<b, a>>)
    PROVE  \E i \in DOMAIN trail' : Outcomes' = {i}
<1>1. \A i \in DOMAIN trail : trail[i] \notin Outcome
  BY DEF Outcomes, Outcome
<1>2. Outcomes' = {i \in DOMAIN trail' : trail'[i] \in Outcome}
  BY DEF Outcomes, Outcome
<1>3. DOMAIN trail = 1 .. Len(trail) /\ Len(trail) \in Nat
  OBVIOUS
<1>4. CASE Record(<<a>>)
  <2>1. trail' = trail \o <<a>>
    BY <1>4 DEF Record
  <2>2. /\ DOMAIN trail' = 1 .. Len(trail) + 1
        /\ \A i \in 1 .. Len(trail) : trail'[i] = trail[i]
        /\ trail'[Len(trail) + 1] = a
    BY <2>1
  <2>3. Outcomes' = {Len(trail) + 1}
    BY <1>1, <1>2, <1>3, <2>2
  <2>4. QED
    BY <1>3, <2>2, <2>3
<1>5. ASSUME NEW b \in EventType \ Outcome, Record(<<b, a>>)
      PROVE  \E i \in DOMAIN trail' : Outcomes' = {i}
  <2>1. trail' = trail \o <<b, a>>
    BY <1>5 DEF Record
  <2>2. /\ DOMAIN trail' = 1 .. Len(trail) + 2
        /\ \A i \in 1 .. Len(trail) : trail'[i] = trail[i]
        /\ trail'[Len(trail) + 1] = b
        /\ trail'[Len(trail) + 2] = a
    BY <2>1
  <2>3. Outcomes' = {Len(trail) + 2}
    BY <1>1, <1>2, <1>3, <1>5, <2>2
  <2>4. QED
    BY <1>3, <2>2, <2>3
<1>6. QED
  BY <1>4, <1>5

\* Every step keeps the verdict: it tells the outcome exactly when it decides.
LEMMA VerdictStep ==
    ASSUME TypeOK, Verdict, Next
    PROVE  Verdict'
<1> DEFINE Quiet == /\ Outcomes' = Outcomes /\ DOMAIN trail \subseteq DOMAIN trail'
                    /\ pc' \in Decided <=> pc \in Decided
           Tells == pc \notin Decided /\ \E i \in DOMAIN trail' : Outcomes' = {i}
                       /\ pc' \in Decided
<1>a. CASE Quiet
  BY <1>a DEF Verdict
<1>b. CASE Tells
  BY <1>b DEF Verdict
<1>c. trail \in Seq(EventType) /\ pc \in Control
  BY DEF TypeOK
<1>d. \A e \in EventType \ Outcome : Record(<<e>>)
         => Outcomes' = Outcomes /\ DOMAIN trail \subseteq DOMAIN trail'
  <2> SUFFICES ASSUME NEW e \in EventType \ Outcome, Record(<<e>>)
               PROVE  Outcomes' = Outcomes /\ DOMAIN trail \subseteq DOMAIN trail'
    OBVIOUS
  <2>1. <<e>> \in Seq(EventType) /\ \A i \in DOMAIN <<e>> : <<e>>[i] \notin Outcome
    OBVIOUS
  <2>2. QED
    BY <1>c, <2>1, QuietEvents
<1>e. \A e \in Outcome : pc \notin Decided /\ Record(<<e>>)
         => \E i \in DOMAIN trail' : Outcomes' = {i}
  BY <1>c, FirstOutcome DEF Verdict
<1>1. CASE UNCHANGED trail /\ (pc' \in Decided <=> pc \in Decided)
  BY <1>1, <1>a DEF Outcomes
<1>2. CASE Begin
  <2>1. <<"deployment_start", "snapshot_create">> \in Seq(EventType)
    BY Literals DEF EventType
  <2>2. Record(<<"deployment_start", "snapshot_create">>)
    BY <1>2 DEF Begin
  <2>3. \A i \in DOMAIN <<"deployment_start", "snapshot_create">> :
           <<"deployment_start", "snapshot_create">>[i] \notin Outcome
    BY DEF Outcome
  <2>4. pc \notin Decided /\ pc' \notin Decided
    BY <1>2 DEF Begin, Decided
  <2>5. QED
    BY <1>c, <2>1, <2>2, <2>3, <2>4, <1>a, QuietEvents
<1>3. CASE Checkpoint
  <2>1. /\ pc \notin Decided
        /\ \/ UNCHANGED trail /\ pc' \notin Decided
           \/ Record(<<"snapshot_create">>) /\ pc' \notin Decided
           \/ Record(<<"policy_violation">>) /\ pc' \in Decided
           \/ Record(<<"rollback_initiated">>) /\ pc' \in Decided
    BY <1>3 DEF Checkpoint, EvaluateStart, EvaluateStageStart, EvaluateStageComplete,
                EvaluateRollback, Block, EnterStage, Raise, Decided
  <2>2. /\ "snapshot_create" \in EventType \ Outcome
        /\ "policy_violation" \in Outcome /\ "rollback_initiated" \in Outcome
    BY DEF EventType, Outcome
  <2>3. QED
    BY <2>1, <2>2, <1>1, <1>a, <1>b, <1>d, <1>e
<1>4. CASE StageResult \/ (\E ok \in BOOLEAN : HealthCheck(ok)) \/ FinishRollback
  <2>1. /\ pc' \in Decided <=> pc \in Decided
        /\ UNCHANGED trail \/ Record(<<"stage_transition">>)
              \/ Record(<<"health_check">>) \/ Record(<<"rollback_complete">>)
    BY <1>4 DEF StageResult, HealthCheck, FinishRollback, Raise, Decided
  <2>2. {"stage_transition", "health_check", "rollback_complete"}
           \subseteq EventType \ Outcome
    BY DEF EventType, Outcome
  <2>3. QED
    BY <2>1, <2>2, <1>1, <1>a, <1>d
<1>5. CASE StageDone \/ HandleUnrecoverable
  <2>1. /\ pc \notin Decided
        /\ \/ UNCHANGED trail /\ pc' \notin Decided
           \/ Record(<<"deployment_completed">>) /\ pc' \in Decided
           \/ Record(<<"deployment_failed">>) /\ pc' \in Decided
    BY <1>5 DEF StageDone, HandleUnrecoverable, Decided
  <2>2. "deployment_completed" \in Outcome /\ "deployment_failed" \in Outcome
    BY DEF Outcome
  <2>3. QED
    BY <2>1, <2>2, <1>1, <1>b, <1>e
<1>6. CASE HandleAbort
  <2>1. pc \notin Decided /\ pc' \in Decided
    BY <1>6 DEF HandleAbort, Decided
  <2>2. Record(<<"abort_received", "rollback_initiated">>)
    BY <1>6 DEF HandleAbort
  <2>3. "abort_received" \in EventType \ Outcome /\ "rollback_initiated" \in Outcome
    BY DEF EventType, Outcome
  <2>4. Outcomes = {}
    BY <2>1 DEF Verdict
  <2>5. \E i \in DOMAIN trail' : Outcomes' = {i}
    BY <1>c, <2>2, <2>3, <2>4, FirstOutcome
  <2>6. QED
    BY <2>1, <2>5, <1>b
<1>7. CASE AutoQuarantine
  <2>1. PICK S \in SUBSET Region :
            Record([i \in 1 .. Cardinality(S) |-> "quarantine_activate"])
    <3>1. (IF Quarantining THEN UnstableRegions \ quarantined ELSE {}) \in SUBSET Region
      BY DEF UnstableRegions
    <3>2. QED
      BY <3>1, <1>7 DEF AutoQuarantine
  <2>2. "quarantine_activate" \notin Outcome
    BY DEF Outcome
  <2>3. Outcomes' = Outcomes /\ DOMAIN trail \subseteq DOMAIN trail'
    BY <1>c, <2>1, <2>2, QuarantineEvents, QuietEvents
  <2>4. pc \notin Decided /\ pc' \notin Decided
    BY <1>7 DEF AutoQuarantine, Raise, Decided
  <2>5. QED
    BY <2>3, <2>4, <1>a
<1>8. CASE RollbackUpdatedServers \/ RepeatRollback
  <2>1. \A i \in DOMAIN PlanEvents : PlanEvents[i] \notin Outcome
    BY DEF PlanEvents, Outcome
  <2>2. \A i \in DOMAIN (<<"snapshot_create", "rollback_start">> \o PlanEvents) :
           (<<"snapshot_create", "rollback_start">> \o PlanEvents)[i] \notin Outcome
    BY DEF PlanEvents, Outcome
  <2>3. Outcomes' = Outcomes /\ DOMAIN trail \subseteq DOMAIN trail'
    <3>1. CASE RollbackUpdatedServers
      BY <1>c, <3>1, <2>2, Literals, QuietEvents DEF RollbackUpdatedServers
    <3>2. CASE RepeatRollback
      BY <1>c, <3>2, <2>1, Literals, QuietEvents DEF RepeatRollback
    <3>3. QED
      BY <1>8, <3>1, <3>2
  <2>4. pc \in Decided /\ pc' \in Decided
    BY <1>8 DEF RollbackUpdatedServers, RepeatRollback, Decided
  <2>5. QED
    BY <2>3, <2>4, <1>a
<1>9. CASE ExecuteStage \/ LoseStageResult \/ StageRecorded \/ RetryHealthCheck
           \/ HealthPassed \/ AbortWait \/ WaitTimeout \/ MarkServersHealthy
           \/ HandleRecoverable \/ Return
  <2>1. UNCHANGED trail /\ (pc' \in Decided <=> pc \in Decided)
    BY <1>9 DEF ExecuteStage, ComputeQuota, StageRaises, SelectServers, CheckAbort,
                UpdateServer, LoseStageResult, StageRecorded, RetryHealthCheck,
                HealthPassed, AbortWait, WaitTimeout, MarkServersHealthy, EnterStage,
                HandleRecoverable, Return, Raise, Decided
  <2>2. QED
    BY <2>1, <1>1
<1>10. CASE Environment \/ Terminated
  <2>1. UNCHANGED <<trail, pc>>
    BY <1>10 DEF Environment, SetAbortEvent, AbortSignal, InjectFailure, QuarantineRegion,
                 Terminated, vars
  <2>2. QED
    BY <2>1, <1>1
<1>11. QED
  BY <1>2, <1>3, <1>4, <1>5, <1>6, <1>7, <1>8, <1>9, <1>10 DEF Next, Workflow

\* However a rollout ends, through whatever aborts, blocks, errors and retries,
\* its trail tells one outcome.
THEOREM OneOutcomeHolds == Spec => []OneOutcome
<1>1. Init => Verdict
  BY DEF Init, Verdict, Outcomes, Decided
<1>2. TypeOK /\ Verdict /\ [Next]_vars => Verdict'
  <2>1. ASSUME Verdict, UNCHANGED vars PROVE Verdict'
    BY <2>1 DEF Verdict, Outcomes, vars
  <2>2. QED
    BY <2>1, VerdictStep
<1>3. Verdict => OneOutcome
  <2> SUFFICES ASSUME Verdict PROVE OneOutcome
    OBVIOUS
  <2>1. CASE pc \in Decided
    <3>1. PICK i \in DOMAIN trail : Outcomes = {i}
      BY <2>1 DEF Verdict
    <3>2. Cardinality(Outcomes) = 1
      BY <3>1, FS_Singleton
    <3>3. QED
      BY <3>1, <3>2 DEF OneOutcome
  <2>2. CASE pc \notin Decided
    <3>1. Outcomes = {} /\ pc # "done"
      BY <2>2 DEF Verdict, Decided
    <3>2. QED
      BY <3>1, FS_EmptySet DEF OneOutcome
  <2>3. QED
    BY <2>1, <2>2
<1>4. QED
  BY <1>1, <1>2, <1>3, TypeCorrect, PTL DEF Spec

-----------------------------------------------------------------------------
(***************************************************************************)
(* A completed rollout covers the cluster.                                 *)
(***************************************************************************)

Uncovered == Eligible \ updated

\* What the last stage owes the cluster, from its quota to its end: the servers
\* it asks for are no fewer than those still to be covered; those it selects are
\* all of these, or too few, which it reports.
Covering ==
    /\ CompletedCovers
    /\ pc = "select" => newly = {}
    /\ pc \in InsideStage => stageError = "none"
    /\ stage = Len(Percent) =>
          /\ pc = "select" => Cardinality(Uncovered) <= needed
          /\ pc \in {"check", "update"} => \/ Uncovered \subseteq newly \cup todo
                                           \/ Cardinality(newly \cup todo) < needed
          /\ pc = "result" /\ stageError = "none" => Uncovered \subseteq newly
          /\ pc = "recorded" /\ stageError = "none" => Uncovered = {}
          /\ pc \in {"health", "healthy", "unhealthy", "gate_complete", "callback"}
                => Uncovered = {}

\* A server is never released from quarantine, nor taken off the books.
LEMMA UncoveredShrinks ==
    ASSUME TypeOK, Next
    PROVE  /\ quarantined \subseteq quarantined' /\ updated \subseteq updated'
           /\ Eligible' \subseteq Eligible /\ Uncovered' \subseteq Uncovered
<1>1. quarantined \subseteq quarantined' /\ updated \subseteq updated'
  BY DEF Next, Workflow, Environment, ExecuteStage, Terminated, UpdateServer,
         Begin, Checkpoint, EvaluateStart, EvaluateStageStart,
         EvaluateStageComplete, EvaluateRollback, ComputeQuota, StageRaises,
         SelectServers, CheckAbort, StageResult, LoseStageResult, StageRecorded,
         HealthCheck, RetryHealthCheck, HealthPassed, AutoQuarantine, StageDone,
         AbortWait, WaitTimeout, MarkServersHealthy, HandleAbort,
         HandleRecoverable, HandleUnrecoverable, RollbackUpdatedServers,
         RepeatRollback, FinishRollback, Return, SetAbortEvent, AbortSignal,
         InjectFailure, QuarantineRegion, vars, dataVars, outsideVars, clusterVars
<1>2. QED
  BY <1>1 DEF Eligible, Uncovered

LEMMA UncoveredFinite ==
    ASSUME TypeOK
    PROVE  /\ IsFiniteSet(Eligible) /\ IsFiniteSet(Uncovered)
           /\ Cardinality(Uncovered) \in Nat
<1>1. IsFiniteSet(Eligible) /\ IsFiniteSet(Uncovered)
  BY ServerAssumption, FS_Subset DEF Eligible, Uncovered
<1>2. QED
  BY <1>1, FS_CardinalityType

\* The quota of the last stage is the number of servers still to be covered.
LEMMA LastQuota ==
    ASSUME TypeOK, stage = Len(Percent)
    PROVE  TargetCount - Cardinality(updated \cap Eligible) = Cardinality(Uncovered)
<1> DEFINE E == Cardinality(Eligible)
<1>1. E \in Nat
  BY UncoveredFinite, FS_CardinalityType
<1>2. TargetCount = E
  <2>1. TargetCount = (E * 100 + 99) \div 100
    BY PercentAssumption DEF TargetCount
  <2>2. \A n \in Nat : (n * 100 + 99) \div 100 = n
    OBVIOUS
  <2>3. QED
    BY <1>1, <2>1, <2>2
<1>3. Cardinality(Eligible \ updated) = E - Cardinality(Eligible \cap updated)
  BY UncoveredFinite, FS_Difference
<1>4. Eligible \cap updated = updated \cap Eligible
  OBVIOUS
<1>5. QED
  BY <1>2, <1>3, <1>4 DEF Uncovered

\* Every step keeps what the last stage owes.
LEMMA CoveringStep ==
    ASSUME TypeOK, Covering, Next
    PROVE  Covering'
<1> USE DEF TypeOK, InsideStage
<1>a. Uncovered' \subseteq Uncovered /\ updated \subseteq updated'
  BY UncoveredShrinks
<1>b. CompletedCovers <=> ("deployment_completed" \in Events => Uncovered = {})
  BY DEF CompletedCovers, Uncovered
<1>c. CompletedCovers' <=> ("deployment_completed" \in Events' => Uncovered' = {})
  BY DEF CompletedCovers, Uncovered
<1>d. CompletedCovers'
  <2>1. CASE ~StageDone
    <3>1. "deployment_completed" \in Events' => "deployment_completed" \in Events
      BY <2>1, EndRecorded
    <3>2. QED
      BY <3>1, <1>a, <1>b, <1>c DEF Covering
  <2>2. CASE StageDone
    <3>1. CASE UNCHANGED trail
      BY <3>1, <1>a, <1>b, <1>c DEF Covering, Events
    <3>2. CASE stage = Len(Percent)
      BY <2>2, <3>2, <1>a, <1>c DEF Covering, StageDone
    <3>3. QED
      BY <2>2, <3>1, <3>2 DEF StageDone
  <2>3. QED
    BY <2>1, <2>2
<1>e. IsFiniteSet(Uncovered) /\ Cardinality(Uncovered) \in Nat
  BY UncoveredFinite
\* What another thread does to the cluster only shrinks what is owed.
<1>1. CASE UNCHANGED <<pc, stage, newly, todo, needed, stageError>>
  <2>1. Cardinality(Uncovered') <= Cardinality(Uncovered) /\ Cardinality(Uncovered') \in Nat
    BY <1>a, <1>e, FS_Subset, FS_CardinalityType
  <2>2. \A n \in Nat : Cardinality(Uncovered) <= n => Cardinality(Uncovered') <= n
    BY <1>e, <2>1
  <2>3. needed' \in Nat /\ Cardinality(newly \cup todo) = Cardinality(newly' \cup todo')
    BY <1>1
  <2>4. QED
    BY <1>1, <1>a, <1>d, <2>2, <2>3 DEF Covering
<1>2. CASE ComputeQuota
  <2>1. CASE stage = Len(Percent)
    <3>1. TargetCount - Cardinality(updated \cap Eligible) = Cardinality(Uncovered)
      BY <2>1, LastQuota
    <3>2. UNCHANGED <<stage, updated, quarantined>>
      BY <1>2 DEF ComputeQuota, dataVars, clusterVars
    <3>3. Uncovered' = Uncovered
      BY <3>2 DEF Uncovered, Eligible
    <3>4. \/ Cardinality(Uncovered) <= 0 /\ pc' = "result"
          \/ needed' = Cardinality(Uncovered) /\ pc' = "select"
      BY <1>2, <3>1 DEF ComputeQuota
    <3>5. pc' = "result" => Uncovered = {}
      BY <3>4, <1>e, FS_EmptySet
    <3>6. newly' = {} /\ stageError' = "none"
      BY <1>2 DEF ComputeQuota
    <3>7. pc' = "select" => Cardinality(Uncovered') <= needed'
      BY <1>e, <3>3, <3>4
    <3>8. pc' \in {"select", "result"} /\ Uncovered' = Uncovered
      BY <3>3, <3>4
    <3>9. QED
      BY <1>d, <3>5, <3>6, <3>7, <3>8 DEF Covering
  <2>2. CASE stage # Len(Percent)
    BY <1>2, <1>d, <2>2 DEF ComputeQuota, Covering, dataVars
  <2>3. QED
    BY <2>1, <2>2
<1>3. CASE SelectServers
  <2>1. PICK S \in SUBSET Candidates :
           /\ Cardinality(S) <= needed
           /\ Cardinality(S) = needed \/ S = Candidates
           /\ todo' = S
           /\ \/ S = {} /\ stageError' = Shortfall({}) /\ pc' = "result"
              \/ S # {} /\ UNCHANGED stageError /\ pc' = "check"
    BY <1>3 DEF SelectServers
  <2>2. /\ pc = "select" /\ newly = {} /\ newly' = {} /\ UNCHANGED <<needed, stage>>
        /\ stageError = "none"
    BY <1>3 DEF SelectServers, Covering, dataVars
  <2>3. S \subseteq Uncovered
    BY <2>1 DEF Candidates, Uncovered
  <2>4. IsFiniteSet(S) /\ Cardinality(S) \in Nat
    BY <2>3, <1>e, FS_Subset, FS_CardinalityType
  \* A selection that is no shortfall is everything still to be covered.
  <2>5. stage = Len(Percent) => Cardinality(S) < needed \/ S = Uncovered
    <3> SUFFICES ASSUME stage = Len(Percent), ~(Cardinality(S) < needed)
                 PROVE  S = Uncovered
      OBVIOUS
    <3>1. Cardinality(Uncovered) <= needed
      BY <2>2 DEF Covering
    <3>2. Cardinality(Uncovered) <= Cardinality(S) /\ Cardinality(S) <= Cardinality(Uncovered)
      BY <3>1, <1>e, <2>3, <2>4, FS_Subset
    <3>3. Cardinality(S) = Cardinality(Uncovered)
      BY <3>2, <1>e, <2>4
    <3>4. QED
      BY <3>3, <1>e, <2>3, FS_Subset
  <2>6. CASE S = {}
    <3>1. pc' = "result" /\ stageError' = Shortfall({})
      BY <2>1, <2>6
    <3>2. stageError' = "none" => ~(Cardinality({}) < needed)
      BY <3>1 DEF Shortfall
    <3>3. stage = Len(Percent) /\ stageError' = "none" => Uncovered = {}
      BY <2>5, <2>6, <3>2
    <3>4. QED
      BY <1>a, <1>d, <2>2, <3>1, <3>3 DEF Covering
  <2>7. CASE S # {}
    <3>1. pc' = "check" /\ todo' = S /\ newly' \cup todo' = S /\ stageError' = "none"
      BY <2>1, <2>2, <2>7
    <3>2. QED
      BY <1>a, <1>d, <2>2, <2>5, <3>1 DEF Covering
  <2>8. QED
    BY <2>6, <2>7
<1>4. ASSUME NEW s \in Server, UpdateServer(s) PROVE Covering'
  <2>1. /\ pc = "update" /\ newly' \cup todo' = newly \cup todo
        /\ UNCHANGED <<stage, needed, updated>> /\ stageError = "none"
        /\ \/ todo' # {} /\ pc' = "check" /\ UNCHANGED stageError
           \/ todo' = {} /\ pc' = "result" /\ stageError' = Shortfall(newly')
    BY <1>4 DEF UpdateServer, Covering, dataVars
  <2>2. pc' = "result" /\ stageError' = "none" => ~(Cardinality(newly \cup todo) < needed)
    <3> SUFFICES ASSUME pc' = "result", stageError' = "none"
                 PROVE  ~(Cardinality(newly \cup todo) < needed)
      OBVIOUS
    <3>1. newly' = newly \cup todo /\ stageError' = Shortfall(newly')
      BY <2>1
    <3>2. QED
      BY <3>1 DEF Shortfall
  <2>3. pc' = "result" => newly' = newly \cup todo
    BY <2>1
  <2>4. QED
    BY <1>a, <1>d, <2>1, <2>2, <2>3 DEF Covering
<1>5. CASE StageResult
  <2>1. CASE pc' = "handler"
    BY <1>d, <2>1 DEF Covering
  <2>2. CASE pc' # "handler"
    <3>1. /\ pc = "result" /\ pc' = "recorded" /\ updated' = updated \cup newly
          /\ UNCHANGED <<stage, stageError, quarantined>>
      BY <1>5, <2>2 DEF StageResult, Raise, outsideVars, stageVars, clusterVars
    <3>2. Uncovered' = Uncovered \ newly
      BY <3>1 DEF Uncovered, Eligible
    <3>3. QED
      BY <1>d, <3>1, <3>2 DEF Covering
  <2>3. QED
    BY <2>1, <2>2
<1>6. CASE CheckAbort
  BY <1>6, <1>a, <1>d DEF CheckAbort, Covering, dataVars
<1>7. CASE StageRecorded \/ (\E ok \in BOOLEAN : HealthCheck(ok)) \/ RetryHealthCheck
           \/ HealthPassed \/ AutoQuarantine
  <2>1. /\ UNCHANGED stage
        /\ \/ pc' = "handler"
           \/ /\ pc' \in {"health", "healthy", "unhealthy", "gate_complete"}
              /\ \/ pc = "recorded" /\ stageError = "none"
                 \/ pc \in {"health", "healthy", "unhealthy"}
    BY <1>7 DEF StageRecorded, HealthCheck, RetryHealthCheck, HealthPassed, AutoQuarantine,
                Raise, dataVars
  <2>2. QED
    BY <1>a, <1>d, <2>1 DEF Covering
<1>8. CASE Checkpoint
  <2>1. \/ pc' \in {"handler", "gate_stage", "execute", "returning", "rollback"}
        \/ pc = "gate_complete" /\ pc' = "callback" /\ UNCHANGED stage
    BY <1>8 DEF Checkpoint, EvaluateStart, EvaluateStageStart, EvaluateStageComplete,
                EvaluateRollback, Block, EnterStage, Raise, dataVars
  <2>2. QED
    BY <1>a, <1>d, <2>1 DEF Covering
<1>9. CASE StageRaises
  BY <1>9, <1>d DEF StageRaises, Covering
<1>10. CASE Begin \/ LoseStageResult \/ StageDone \/ AbortWait \/ WaitTimeout
            \/ MarkServersHealthy \/ HandleAbort \/ HandleRecoverable \/ HandleUnrecoverable
            \/ RollbackUpdatedServers \/ RepeatRollback \/ FinishRollback \/ Return
  <2>1. pc' \in {"gate_start", "execute", "paused", "completing", "handler", "gate_stage",
                 "returning", "rollback", "gate_rollback", "rolled", "done"}
    BY <1>10 DEF Begin, LoseStageResult, StageDone, AbortWait, WaitTimeout, EnterStage,
                 MarkServersHealthy, HandleAbort, HandleRecoverable, HandleUnrecoverable,
                 RollbackUpdatedServers, RepeatRollback, FinishRollback, Return, Raise
  <2>2. QED
    BY <1>d, <2>1 DEF Covering
<1>11. CASE Environment \/ Terminated
  BY <1>11, <1>1 DEF Environment, SetAbortEvent, AbortSignal, InjectFailure,
                     QuarantineRegion, Terminated, vars, dataVars, outsideVars, stageVars
<1>12. QED
  BY <1>2, <1>3, <1>4, <1>5, <1>6, <1>7, <1>8, <1>9, <1>10, <1>11
     DEF Next, Workflow, ExecuteStage

\* A rollout that reports completion has updated every server outside the
\* quarantined regions, though activities ran twice, servers failed and regions
\* were quarantined between any two of its reads.
THEOREM CompletedCoversHolds == Spec => []CompletedCovers
<1>1. Init => Covering
  <2> SUFFICES ASSUME Init PROVE Covering
    OBVIOUS
  <2>1. Events = {}
    BY DEF Init, Events
  <2>2. pc = "start" /\ stage = 0
    BY DEF Init
  <2>3. QED
    BY <2>1, <2>2 DEF Covering, CompletedCovers, InsideStage
<1>2. TypeOK /\ Covering /\ [Next]_vars => Covering'
  <2>1. ASSUME Covering, UNCHANGED vars PROVE Covering'
    BY <2>1 DEF Covering, CompletedCovers, Uncovered, Eligible, Events, vars, dataVars,
                outsideVars, stageVars, clusterVars
  <2>2. QED
    BY <2>1, CoveringStep
<1>3. Covering => CompletedCovers
  BY DEF Covering
<1>4. QED
  BY <1>1, <1>2, <1>3, TypeCorrect, PTL DEF Spec

-----------------------------------------------------------------------------
(***************************************************************************)
(* No stage reaches more than its share.                                   *)
(***************************************************************************)

\* The servers T and n more are within the share of stage i, rounded up.
Within(T, n, i) == 100 * (Cardinality(T) + n - 1) < Cardinality(Server) * Percent[i]

Reached == touched \cap Eligible

\* A stage stays within its share with the servers it has still to update.
Share ==
    /\ stage = 0 => touched = {} /\ pc \in {"start", "gate_start", "returning", "done"}
    /\ pc \in {"start", "gate_start"} => stage = 0
    /\ stage > 0 =>
          /\ Within(Reached, 0, stage)
          /\ pc = "select" => Within(Reached, needed, stage)
          /\ pc \in {"check", "update"} => Within(Reached, Cardinality(todo), stage)

LEMMA ServersFinite ==
    /\ Cardinality(Server) \in Nat
    /\ \A T \in SUBSET Server : IsFiniteSet(T) /\ Cardinality(T) \in Nat
                                  /\ Cardinality(T) <= Cardinality(Server)
BY ServerAssumption, FS_Subset, FS_CardinalityType

\* Products of natural numbers grow with their factors.
LEMMA ProductGrows ==
    \A a, b, c \in Nat : b <= c => a * b \in Nat /\ a * b <= a * c /\ b * a <= c * a
<1> SUFFICES ASSUME NEW a \in Nat, NEW b \in Nat, NEW c \in Nat, b <= c
             PROVE  a * b \in Nat /\ a * b <= a * c /\ b * a <= c * a
  OBVIOUS
<1>1. PICK k \in Nat : c = b + k
  <2>1. c - b \in Nat /\ c = b + (c - b)
    OBVIOUS
  <2>2. QED
    BY <2>1
<1>2. a * c = a * b + a * k /\ a * k \in Nat /\ a * b \in Nat
  BY <1>1
<1>3. c * a = b * a + k * a /\ k * a \in Nat /\ b * a \in Nat
  BY <1>1
<1>4. QED
  BY <1>2, <1>3

\* Percentages are natural numbers ...
LEMMA PercentType == \A i \in 1 .. Len(Percent) : Percent[i] \in Nat
<1> SUFFICES ASSUME NEW i \in 1 .. Len(Percent) PROVE Percent[i] \in Nat
  OBVIOUS
<1>1. Percent[i] \in 1 .. 100
  BY Stages
<1>2. \A n \in 1 .. 100 : n \in Nat
  OBVIOUS
<1>3. QED
  BY <1>1, <1>2

\* ... and so are the shares they make.
LEMMA ShareType == \A i \in 1 .. Len(Percent) : Cardinality(Server) * Percent[i] \in Nat
<1> SUFFICES ASSUME NEW i \in 1 .. Len(Percent)
             PROVE  Cardinality(Server) * Percent[i] \in Nat
  OBVIOUS
<1> DEFINE p == Percent[i]
<1>1. p \in Nat /\ p <= p
  BY PercentType
<1>2. Cardinality(Server) \in Nat
  BY ServersFinite
<1> HIDE DEF p
<1>3. Cardinality(Server) * p \in Nat
  BY <1>1, <1>2, ProductGrows
<1>4. QED
  BY <1>3 DEF p

\* Fewer servers are within the share as well ...
LEMMA WithinLess ==
    ASSUME NEW T \in SUBSET Server, NEW U \in SUBSET T, NEW n \in Nat, NEW m \in Nat,
           m <= n, NEW i \in 1 .. Len(Percent), Within(T, n, i)
    PROVE  Within(U, m, i)
<1>1. Cardinality(U) <= Cardinality(T) /\ Cardinality(U) \in Nat /\ Cardinality(T) \in Nat
  BY ServersFinite, FS_Subset
<1>2. Cardinality(Server) * Percent[i] \in Nat
  BY ShareType
<1>3. QED
  BY <1>1, <1>2 DEF Within

\* ... so are the same at a later stage ...
LEMMA WithinNext ==
    ASSUME NEW T \in SUBSET Server, NEW i \in 1 .. Len(Percent) - 1, Within(T, 0, i)
    PROVE  Within(T, 0, i + 1)
<1>1. Percent[i] < Percent[i + 1]
  BY PercentAssumption
<1>2. Percent[i] \in Nat /\ Percent[i + 1] \in Nat
  <2>1. i \in 1 .. Len(Percent) /\ i + 1 \in 1 .. Len(Percent)
    BY Stages
  <2>2. QED
    BY <2>1, PercentType
<1>3. Cardinality(Server) * Percent[i] <= Cardinality(Server) * Percent[i + 1]
      /\ Cardinality(Server) * Percent[i] \in Nat
      /\ Cardinality(Server) * Percent[i + 1] \in Nat
  BY <1>1, <1>2, ServersFinite, ProductGrows
<1>4. Cardinality(T) \in Nat
  BY ServersFinite
<1>5. QED
  BY <1>3, <1>4 DEF Within

\* ... and those of which one more has been updated.
LEMMA WithinOne ==
    ASSUME NEW T \in SUBSET Server, NEW s \in Server, NEW D \in SUBSET Server, s \in D,
           NEW i \in 1 .. Len(Percent), Within(T, Cardinality(D), i)
    PROVE  Within(T \cup {s}, Cardinality(D \ {s}), i)
<1>1. Cardinality(D \ {s}) = Cardinality(D) - 1
  BY ServersFinite, FS_RemoveElement
<1>2. Cardinality(T \cup {s}) <= Cardinality(T) + 1 /\ Cardinality(T \cup {s}) \in Nat
  BY ServersFinite, FS_AddElement
<1>3. Cardinality(D) \in Nat /\ Cardinality(T) \in Nat
  BY ServersFinite
<1>4. Cardinality(Server) * Percent[i] \in Nat
  BY ShareType
<1>5. QED
  BY <1>1, <1>2, <1>3, <1>4 DEF Within

\* A rollout that has deployed to no server is within any share.
LEMMA WithinNone == \A i \in 1 .. Len(Percent) : Within({}, 0, i)
<1> SUFFICES ASSUME NEW i \in 1 .. Len(Percent) PROVE Within({}, 0, i)
  OBVIOUS
<1>1. Cardinality(Server) * Percent[i] \in Nat
  BY ShareType
<1>2. QED
  BY <1>1, FS_EmptySet DEF Within

\* The quota brings a stage to its share exactly.
LEMMA QuotaWithin ==
    ASSUME TypeOK, stage > 0, NEW T \in SUBSET Eligible,
           TargetCount - Cardinality(T) > 0
    PROVE  Within(T, TargetCount - Cardinality(T), stage)
<1> DEFINE m == Cardinality(Eligible) * Percent[stage]
<1>1. stage \in 1 .. Len(Percent) /\ Percent[stage] \in Nat
  <2>1. stage \in 1 .. Len(Percent)
    BY Stages DEF TypeOK
  <2>2. QED
    BY <2>1, PercentType
<1>2. /\ Cardinality(Eligible) \in Nat /\ Cardinality(Eligible) <= Cardinality(Server)
      /\ Cardinality(T) \in Nat
  BY ServersFinite DEF Eligible
<1>3. m \in Nat /\ m <= Cardinality(Server) * Percent[stage]
      /\ Cardinality(Server) * Percent[stage] \in Nat
  BY <1>1, <1>2, ServersFinite, ProductGrows
<1>4. TargetCount = (m + 99) \div 100
  BY DEF TargetCount
<1>5. \A k \in Nat : /\ (k + 99) \div 100 \in Nat
                     /\ 100 * ((k + 99) \div 100 - 1) < k
  OBVIOUS
<1>6. TargetCount \in Nat /\ 100 * (TargetCount - 1) < m
  BY <1>3, <1>4, <1>5
<1>7. QED
  BY <1>2, <1>3, <1>6 DEF Within

\* Every step of a rollout that loses no activity result keeps to its shares.
LEMMA ShareStep ==
    ASSUME TypeInv, Books, Share, Next
    PROVE  Share'
<1> USE DEF TypeInv, TypeOK
<1>a. Eligible' \subseteq Eligible /\ touched \subseteq Server
  BY UncoveredShrinks
<1>b. stage > 0 => stage \in 1 .. Len(Percent) /\ stage \in Nat
  BY Stages
\* A step that deploys to no server, in the stage it finds.
<1>c. ASSUME UNCHANGED <<touched, stage>>, stage > 0, NEW n \in Nat, NEW m \in Nat, m <= n,
             Within(Reached, n, stage)
      PROVE  Within(Reached', m, stage')
  <2>1. Reached' \subseteq Reached /\ Reached \subseteq Server
    BY <1>c, <1>a DEF Reached
  <2>2. Within(Reached', m, stage)
    BY <1>b, <1>c, <2>1, WithinLess
  <2>3. QED
    BY <1>c, <2>2
<1>d. CASE /\ UNCHANGED <<touched, stage>>
           /\ stage = 0 => pc' \in {"start", "gate_start", "returning", "done"}
           /\ pc' \in {"start", "gate_start"} => stage = 0
           /\ pc' \notin InsideStage
  <2>1. stage > 0 => Within(Reached', 0, stage')
    BY <1>d, <1>c DEF Share
  <2>2. QED
    BY <1>d, <2>1 DEF Share, InsideStage
<1>1. CASE Begin \/ Return
  BY <1>1, <1>d DEF Begin, Return, Share, dataVars, outsideVars, histVars, InsideStage
<1>2. ASSUME NEW d \in Decision, EvaluateStart(d) PROVE Share'
  <2>1. stage = 0 /\ touched = {} /\ touched' = {}
    <3>1. pc = "gate_start" /\ touched' = touched
      BY <1>2 DEF EvaluateStart, outsideVars, histVars
    <3>2. stage = 0
      BY <3>1 DEF Share
    <3>3. QED
      BY <3>1, <3>2 DEF Share
  <2>2. CASE d = "BLOCK"
    BY <1>2, <2>1, <2>2 DEF EvaluateStart, Block, Share
  <2>3. CASE d # "BLOCK"
    <3>1. stage' = 1 /\ pc' \in {"handler", "gate_stage"}
      BY <1>2, <2>3 DEF EvaluateStart, EnterStage, Raise
    <3>2. Reached' = {} /\ Within({}, 0, 1)
      BY <2>1, WithinNone, Stages DEF Reached
    <3>3. QED
      BY <3>1, <3>2 DEF Share
  <2>4. QED
    BY <2>2, <2>3
<1>3. CASE WaitTimeout
  <2>1. /\ stage \in 1 .. Len(Percent) - 1 /\ stage' = stage + 1 /\ touched' = touched
        /\ pc' \in {"handler", "gate_stage"} /\ UNCHANGED quarantined
    BY <1>3, Stages DEF WaitTimeout, EnterStage, Raise, StageInRange, outsideVars, histVars,
                        clusterVars
  <2>2. Reached' = Reached /\ Reached \subseteq Server
    BY <2>1, <1>a DEF Reached, Eligible
  <2>3. Within(Reached, 0, stage + 1)
    BY <2>1, <2>2, WithinNext DEF Share
  <2>4. QED
    BY <2>1, <2>2, <2>3 DEF Share
<1>4. CASE ComputeQuota
  <2>1. /\ stage > 0 /\ touched = updated /\ pc = "execute"
        /\ UNCHANGED <<touched, stage, quarantined>>
    BY <1>4 DEF ComputeQuota, StageInRange, Books, Deploying, dataVars, histVars, clusterVars
  <2>2. CASE pc' = "result"
    BY <2>1, <2>2, <1>d DEF InsideStage
  <2>3. CASE pc' # "result"
    <3>1. /\ needed' = TargetCount - Cardinality(updated \cap Eligible) /\ needed' > 0
          /\ pc' = "select"
      BY <1>4, <2>3 DEF ComputeQuota
    <3>2. Reached = updated \cap Eligible /\ Reached' = Reached /\ Reached \in SUBSET Eligible
      BY <2>1 DEF Reached, Eligible
    <3>3. Within(Reached, needed', stage)
      BY <2>1, <3>1, <3>2, QuotaWithin
    <3>4. Within(Reached', needed', stage') /\ Within(Reached', 0, stage')
      BY <2>1, <3>2, <3>3 DEF Share
    <3>5. QED
      BY <2>1, <3>1, <3>4 DEF Share
  <2>4. QED
    BY <2>2, <2>3
<1>5. CASE SelectServers
  <2>1. /\ stage > 0 /\ pc = "select" /\ Within(Reached, needed, stage) /\ needed \in Nat
        /\ UNCHANGED <<touched, stage>>
    BY <1>5 DEF SelectServers, StageInRange, Share, dataVars, histVars
  <2>2. /\ pc' \in {"result", "check"} /\ Cardinality(todo') <= needed
        /\ todo' \in SUBSET Server
    BY <1>5 DEF SelectServers, Candidates, Eligible
  <2>3. Cardinality(todo') \in Nat
    BY <2>2, ServersFinite
  <2>4. Within(Reached', Cardinality(todo'), stage') /\ Within(Reached', 0, stage')
    BY <2>1, <2>2, <2>3, <1>c
  <2>5. QED
    BY <2>1, <2>2, <2>4 DEF Share
<1>6. CASE CheckAbort
  <2>1. /\ stage > 0 /\ pc = "check" /\ Within(Reached, Cardinality(todo), stage)
        /\ UNCHANGED <<touched, stage, todo>> /\ pc' \in {"result", "update"}
    BY <1>6 DEF CheckAbort, StageInRange, Share, dataVars, histVars
  <2>2. Cardinality(todo) \in Nat
    BY ServersFinite
  <2>3. Within(Reached', Cardinality(todo'), stage') /\ Within(Reached', 0, stage')
    BY <2>1, <2>2, <1>c
  <2>4. QED
    BY <2>1, <2>3 DEF Share
<1>7. ASSUME NEW s \in Server, UpdateServer(s) PROVE Share'
  <2>1. /\ stage > 0 /\ s \in todo /\ Within(Reached, Cardinality(todo), stage)
        /\ UNCHANGED <<stage, quarantined>> /\ touched' = touched \cup {s}
        /\ todo' = todo \ {s} /\ pc' \in {"result", "check"}
    BY <1>7 DEF UpdateServer, StageInRange, Share, dataVars
  <2>2. Reached \subseteq Server /\ Reached \cup {s} \subseteq Server
        /\ Reached' \subseteq Reached \cup {s}
    BY <2>1, <1>a DEF Reached, Eligible
  <2>3. Within(Reached \cup {s}, Cardinality(todo'), stage)
    BY <2>1, <2>2, <1>b, WithinOne
  <2>4. Cardinality(todo') \in Nat
    BY <2>1, ServersFinite
  <2>5. Within(Reached', Cardinality(todo'), stage) /\ Within(Reached', 0, stage)
    BY <2>1, <2>2, <2>3, <2>4, <1>b, WithinLess
  <2>6. QED
    BY <2>1, <2>5 DEF Share
<1>8. CASE Environment \/ Terminated
  <2>1. UNCHANGED <<pc, touched, stage, todo, needed>>
    BY <1>8 DEF Environment, SetAbortEvent, AbortSignal, InjectFailure, QuarantineRegion,
                Terminated, vars, dataVars, outsideVars, stageVars, histVars
  <2>2. stage = 0 => Share'
    BY <2>1 DEF Share
  <2>3. ASSUME stage > 0 PROVE Share'
    <3>1. Cardinality(todo) \in Nat /\ needed \in Nat
      BY ServersFinite
    <3>2. /\ Within(Reached', 0, stage')
          /\ pc = "select" => Within(Reached', needed, stage')
          /\ pc \in {"check", "update"} => Within(Reached', Cardinality(todo), stage')
      BY <2>1, <2>3, <3>1, <1>c DEF Share
    <3>3. QED
      BY <2>1, <2>3, <3>2 DEF Share
  <2>4. QED
    BY <2>2, <2>3
<1>9. CASE \/ \E d \in Decision : \/ EvaluateStageStart(d) \/ EvaluateStageComplete(d)
                                  \/ EvaluateRollback(d)
           \/ StageRaises \/ StageResult \/ LoseStageResult \/ StageRecorded
           \/ \E ok \in BOOLEAN : HealthCheck(ok)
           \/ RetryHealthCheck \/ HealthPassed \/ AutoQuarantine \/ StageDone \/ AbortWait
           \/ MarkServersHealthy \/ HandleAbort \/ HandleRecoverable \/ HandleUnrecoverable
           \/ RollbackUpdatedServers \/ RepeatRollback \/ FinishRollback
  <2>1. /\ UNCHANGED <<touched, stage>>
        /\ pc' \notin InsideStage \cup {"start", "gate_start"}
        /\ pc \notin {"start", "gate_start", "returning", "done"}
    BY <1>9 DEF EvaluateStageStart, EvaluateStageComplete, EvaluateRollback, Block, StageRaises,
                StageResult, LoseStageResult, StageRecorded, HealthCheck, RetryHealthCheck,
                HealthPassed, AutoQuarantine, StageDone, AbortWait, MarkServersHealthy,
                HandleAbort, HandleRecoverable, HandleUnrecoverable, RollbackUpdatedServers,
                RepeatRollback, FinishRollback, Raise, InsideStage, dataVars, outsideVars,
                histVars
  <2>2. stage # 0
    BY <2>1 DEF Share
  <2>3. QED
    BY <2>1, <2>2, <1>d
<1>10. QED
  BY <1>1, <1>2, <1>3, <1>4, <1>5, <1>6, <1>7, <1>8, <1>9
     DEF Next, Workflow, ExecuteStage, Checkpoint

\* While no activity result is lost, a version reaches no more servers outside the
\* quarantined regions than the share of the running stage, rounded up.
THEOREM BlastRadiusHolds == MaxLost = 0 => (Spec => []BlastRadius)
<1> SUFFICES ASSUME MaxLost = 0 PROVE Spec => []BlastRadius
  OBVIOUS
<1>1. Init => Share
  BY DEF Init, Share
<1>2. TypeInv /\ Books /\ Share /\ [Next]_vars => Share'
  <2>1. ASSUME Share, UNCHANGED vars PROVE Share'
    BY <2>1 DEF Share, Reached, Eligible, vars, dataVars, outsideVars, stageVars, clusterVars,
                histVars
  <2>2. QED
    BY <2>1, ShareStep
<1>3. TypeInv /\ Share => BlastRadius
  <2> SUFFICES ASSUME TypeInv, Share, stage > 0
               PROVE  100 * (Cardinality(Reached) - 1) < Cardinality(Server) * Percent[stage]
    BY DEF BlastRadius, Reached
  <2>1. Cardinality(Reached) \in Nat
    BY ServersFinite DEF Reached, TypeInv, TypeOK
  <2>2. Cardinality(Reached) + 0 - 1 = Cardinality(Reached) - 1
    BY <2>1
  <2>3. QED
    BY <2>2 DEF Share, Within
<1>4. QED
  BY <1>1, <1>2, <1>3, TypeInvariant, BooksInvariant, PTL DEF Spec

-----------------------------------------------------------------------------
(***************************************************************************)
(* The abstract rollout.                                                   *)
(***************************************************************************)

\* The events that tell the abstract phase, and those of them on the trail.
Telling == Outcome \cup {"rollback_start"}
Told    == Events \cap Telling

\* What the trail has told by the time the workflow stands at pc.
PhaseInv ==
    /\ pc \notin Decided => Told = {}
    /\ pc = "rollback" => Told = {"rollback_initiated"}

\* The phase is a function of what is told.
PhaseTold ==
    /\ Told = {} => Phase = "growing"
    /\ Told = {"rollback_initiated"} => Phase = "reverting"
    /\ Told = {"rollback_initiated", "rollback_start"} => Phase = "reverted"
    /\ Told = {"deployment_completed"} => Phase = "kept"
    /\ Told = {"deployment_failed"} \/ Told = {"policy_violation"} => Phase = "frozen"

LEMMA PhaseOf == PhaseTold
<1>1. /\ "rollback_start" \in Events <=> "rollback_start" \in Told
      /\ "deployment_completed" \in Events <=> "deployment_completed" \in Told
      /\ Events \cap {"deployment_failed", "policy_violation"}
            = Told \cap {"deployment_failed", "policy_violation"}
      /\ Events \cap {"rollback_start", "rollback_initiated"}
            = Told \cap {"rollback_start", "rollback_initiated"}
  BY DEF Told, Telling, Outcome
<1> DEFINE Frozen == Events \cap {"deployment_failed", "policy_violation"}
           Reverts == Events \cap {"rollback_start", "rollback_initiated"}
<1>2. ASSUME Told = {} PROVE Phase = "growing"
  <2>1. /\ "rollback_start" \notin Events /\ "deployment_completed" \notin Events
        /\ Frozen = {} /\ Reverts # {"rollback_initiated"}
    BY <1>1, <1>2
  <2>2. QED
    BY <2>1 DEF Phase
<1>3. ASSUME Told = {"rollback_initiated"} PROVE Phase = "reverting"
  <2>1. /\ "rollback_start" \notin Events /\ "deployment_completed" \notin Events
        /\ Frozen = {} /\ Reverts = {"rollback_initiated"}
    BY <1>1, <1>3
  <2>2. QED
    BY <2>1 DEF Phase
<1>4. ASSUME Told = {"rollback_initiated", "rollback_start"} PROVE Phase = "reverted"
  <2>1. /\ "rollback_start" \in Events /\ "deployment_completed" \notin Events
        /\ Frozen = {} /\ Reverts # {"rollback_initiated"}
    BY <1>1, <1>4
  <2>2. QED
    BY <2>1 DEF Phase
<1>5. ASSUME Told = {"deployment_completed"} PROVE Phase = "kept"
  <2>1. /\ "rollback_start" \notin Events /\ "deployment_completed" \in Events
        /\ Frozen = {} /\ Reverts # {"rollback_initiated"}
    BY <1>1, <1>5
  <2>2. QED
    BY <2>1 DEF Phase
<1>6. ASSUME Told = {"deployment_failed"} \/ Told = {"policy_violation"}
      PROVE  Phase = "frozen"
  <2>1. /\ "rollback_start" \notin Events /\ "deployment_completed" \notin Events
        /\ Frozen # {} /\ Reverts # {"rollback_initiated"}
    BY <1>1, <1>6
  <2>2. QED
    BY <2>1 DEF Phase
<1>7. QED
  BY <1>2, <1>3, <1>4, <1>5, <1>6 DEF PhaseTold

LEMMA PhaseOfNext == PhaseTold'
BY PhaseOf, PTL

LEMMA SamePhase == ASSUME Told' = Told PROVE Phase' = Phase
<1>1. /\ "rollback_start" \in Events' <=> "rollback_start" \in Events
      /\ "deployment_completed" \in Events' <=> "deployment_completed" \in Events
      /\ Events' \cap {"deployment_failed", "policy_violation"}
            = Events \cap {"deployment_failed", "policy_violation"}
      /\ Events' \cap {"rollback_start", "rollback_initiated"}
            = Events \cap {"rollback_start", "rollback_initiated"}
  BY DEF Told, Telling, Outcome
<1>2. QED
  BY <1>1 DEF Phase

\* What an action that records events adds to what is told.
LEMMA ToldOf ==
    ASSUME TypeOK, NEW e \in Seq(EventType), Record(e)
    PROVE  Told' = Told \cup ({e[i] : i \in DOMAIN e} \cap Telling)
<1>1. Events' = Events \cup {e[i] : i \in DOMAIN e}
  BY EventsOf DEF TypeOK
<1>2. QED
  BY <1>1 DEF Told

LEMMA ToldOne ==
    ASSUME TypeOK, NEW a \in EventType, Record(<<a>>)
    PROVE  Told' = Told \cup ({a} \cap Telling)
<1>1. <<a>> \in Seq(EventType) /\ {<<a>>[i] : i \in DOMAIN <<a>>} = {a}
  OBVIOUS
<1>2. QED
  BY <1>1, ToldOf

LEMMA ToldTwo ==
    ASSUME TypeOK, NEW a \in EventType, NEW b \in EventType, Record(<<a, b>>)
    PROVE  Told' = Told \cup ({a, b} \cap Telling)
<1>1. <<a, b>> \in Seq(EventType)
  OBVIOUS
<1>2. {<<a, b>>[i] : i \in DOMAIN <<a, b>>} = {a, b}
  <2>1. DOMAIN <<a, b>> = {1, 2} /\ <<a, b>>[1] = a /\ <<a, b>>[2] = b
    OBVIOUS
  <2>2. QED
    BY <2>1
<1>3. QED
  BY <1>1, <1>2, ToldOf

LEMMA RollbackTells ==
    ASSUME TypeOK, RollbackUpdatedServers
    PROVE  Told' = Told \cup {"rollback_start"}
<1> DEFINE e == <<"snapshot_create", "rollback_start">> \o PlanEvents
<1>1. Record(e) /\ e \in Seq(EventType)
  BY Literals DEF RollbackUpdatedServers
<1>2. e[2] = "rollback_start" /\ 2 \in DOMAIN e
      /\ \A i \in DOMAIN e : e[i] \in Telling => e[i] = "rollback_start"
  BY DEF PlanEvents, Telling, Outcome
<1>3. {e[i] : i \in DOMAIN e} \cap Telling = {"rollback_start"}
  BY <1>2 DEF Telling
<1>4. QED
  BY <1>1, <1>3, ToldOf

\* What a step tells: nothing, its decision, or that the rollback has begun.
LEMMA ToldStep ==
    ASSUME TypeOK, PhaseInv, Next, ~RepeatRollback
    PROVE  \/ Told' = Told /\ (pc' \in Decided <=> pc \in Decided) /\ pc' # "rollback"
           \/ Told' = Told /\ UNCHANGED pc
           \/ RollbackUpdatedServers /\ Told' = Told \cup {"rollback_start"}
           \/ /\ Checkpoint \/ StageDone \/ HandleAbort \/ HandleUnrecoverable
              /\ pc \notin Decided /\ pc' \in Decided
              /\ \E a \in Outcome : /\ Told' = {a}
                                    /\ pc' = "rollback" => a = "rollback_initiated"
<1> DEFINE Decides == /\ pc \notin Decided /\ pc' \in Decided
                      /\ \E a \in Outcome : /\ Told' = {a}
                                            /\ pc' = "rollback" => a = "rollback_initiated"
           Keeps == Told' = Told /\ (pc' \in Decided <=> pc \in Decided) /\ pc' # "rollback"
<1>a. \A a \in EventType \ Telling : Record(<<a>>) => Told' = Told
  <2> SUFFICES ASSUME NEW a \in EventType \ Telling, Record(<<a>>) PROVE Told' = Told
    OBVIOUS
  <2>1. Told' = Told \cup ({a} \cap Telling)
    BY ToldOne
  <2>2. QED
    BY <2>1
<1>b. \A a \in Outcome : Record(<<a>>) /\ Told = {} => Told' = {a}
  <2> SUFFICES ASSUME NEW a \in Outcome, Record(<<a>>), Told = {} PROVE Told' = {a}
    OBVIOUS
  <2>1. a \in EventType /\ a \in Telling
    BY DEF Outcome, EventType, Telling
  <2>2. Told' = Told \cup ({a} \cap Telling)
    BY <2>1, ToldOne
  <2>3. QED
    BY <2>1, <2>2
<1>c. UNCHANGED trail => Told' = Told
  BY DEF Told, Events
<1>d. pc \notin Decided => Told = {}
  BY DEF PhaseInv
<1>1. CASE Begin
  <2>1. Record(<<"deployment_start", "snapshot_create">>) /\ pc \notin Decided
        /\ pc' = "gate_start"
    BY <1>1 DEF Begin, Decided
  <2>2. Told' = Told \cup ({"deployment_start", "snapshot_create"} \cap Telling)
    BY <2>1, ToldTwo DEF EventType
  <2>3. Told' = Told
    BY <2>2 DEF Telling, Outcome
  <2>4. QED
    BY <2>1, <2>3 DEF Decided
<1>2. CASE Checkpoint
  <2>1. /\ pc \notin Decided
        /\ \/ UNCHANGED trail /\ pc' \notin Decided
           \/ Record(<<"snapshot_create">>) /\ pc' \notin Decided
           \/ Record(<<"policy_violation">>) /\ pc' = "returning"
           \/ Record(<<"rollback_initiated">>) /\ pc' = "rollback"
    BY <1>2 DEF Checkpoint, EvaluateStart, EvaluateStageStart, EvaluateStageComplete,
                EvaluateRollback, Block, EnterStage, Raise, Decided
  <2>2. /\ "snapshot_create" \in EventType \ Telling
        /\ "policy_violation" \in Outcome /\ "rollback_initiated" \in Outcome
        /\ "rollback" \in Decided /\ "returning" \in Decided
    BY DEF EventType, Telling, Outcome, Decided
  <2>3. Keeps \/ Decides
    BY <2>1, <2>2, <1>a, <1>b, <1>c, <1>d
  <2>4. QED
    BY <1>2, <2>3
<1>3. CASE StageResult \/ (\E ok \in BOOLEAN : HealthCheck(ok)) \/ FinishRollback
  <2>1. /\ pc' \in Decided <=> pc \in Decided
        /\ pc' # "rollback"
        /\ UNCHANGED trail \/ Record(<<"stage_transition">>)
              \/ Record(<<"health_check">>) \/ Record(<<"rollback_complete">>)
    BY <1>3 DEF StageResult, HealthCheck, FinishRollback, Raise, Decided
  <2>2. {"stage_transition", "health_check", "rollback_complete"}
           \subseteq EventType \ Telling
    BY DEF EventType, Telling, Outcome
  <2>3. QED
    BY <2>1, <2>2, <1>a, <1>c
<1>4. CASE StageDone \/ HandleUnrecoverable
  <2>1. /\ pc \notin Decided
        /\ \/ UNCHANGED trail /\ pc' \notin Decided
           \/ Record(<<"deployment_completed">>) /\ pc' = "completing"
           \/ Record(<<"deployment_failed">>) /\ pc' = "returning"
    BY <1>4 DEF StageDone, HandleUnrecoverable, Decided
  <2>2. /\ "deployment_completed" \in Outcome /\ "deployment_failed" \in Outcome
        /\ "completing" \in Decided /\ "returning" \in Decided /\ "rollback" \in Decided
    BY DEF Outcome, Decided
  <2>3. Keeps \/ Decides
    BY <2>1, <2>2, <1>b, <1>c, <1>d
  <2>4. QED
    BY <1>4, <2>3
<1>5. CASE HandleAbort
  <2>1. /\ pc \notin Decided /\ pc' = "rollback"
        /\ Record(<<"abort_received", "rollback_initiated">>)
    BY <1>5 DEF HandleAbort, Decided
  <2>2. Told' = Told \cup ({"abort_received", "rollback_initiated"} \cap Telling)
    BY <2>1, ToldTwo DEF EventType
  <2>3. Told' = {"rollback_initiated"} /\ "rollback_initiated" \in Outcome
    BY <2>1, <2>2, <1>d DEF Telling, Outcome
  <2>4. Decides
    BY <2>1, <2>3 DEF Decided
  <2>5. QED
    BY <1>5, <2>4
<1>6. CASE AutoQuarantine
  <2>1. PICK S \in SUBSET Region :
            Record([i \in 1 .. Cardinality(S) |-> "quarantine_activate"])
    <3>1. (IF Quarantining THEN UnstableRegions \ quarantined ELSE {}) \in SUBSET Region
      BY DEF UnstableRegions
    <3>2. QED
      BY <3>1, <1>6 DEF AutoQuarantine
  <2> DEFINE e == [i \in 1 .. Cardinality(S) |-> "quarantine_activate"]
  <2>2. e \in Seq(EventType) /\ {e[i] : i \in DOMAIN e} \cap Telling = {}
    BY QuarantineEvents DEF Telling, Outcome
  <2>3. Told' = Told
    BY <2>1, <2>2, ToldOf
  <2>4. pc \notin Decided /\ pc' = "handler"
    BY <1>6 DEF AutoQuarantine, Raise, Decided
  <2>5. QED
    BY <2>3, <2>4 DEF Decided
<1>7. CASE RollbackUpdatedServers
  BY <1>7, RollbackTells
<1>8. CASE ExecuteStage \/ LoseStageResult \/ StageRecorded \/ RetryHealthCheck
           \/ HealthPassed \/ AbortWait \/ WaitTimeout \/ MarkServersHealthy
           \/ HandleRecoverable \/ Return
  <2>1. UNCHANGED trail /\ (pc' \in Decided <=> pc \in Decided) /\ pc' # "rollback"
    BY <1>8 DEF ExecuteStage, ComputeQuota, StageRaises, SelectServers, CheckAbort,
                UpdateServer, LoseStageResult, StageRecorded, RetryHealthCheck,
                HealthPassed, AbortWait, WaitTimeout, MarkServersHealthy, EnterStage,
                HandleRecoverable, Return, Raise, Decided
  <2>2. QED
    BY <2>1, <1>c
<1>9. CASE Environment \/ Terminated
  <2>1. UNCHANGED <<trail, pc>>
    BY <1>9 DEF Environment, SetAbortEvent, AbortSignal, InjectFailure, QuarantineRegion,
                Terminated, vars
  <2>2. QED
    BY <2>1, <1>c
<1>10. QED
  BY <1>1, <1>2, <1>3, <1>4, <1>5, <1>6, <1>7, <1>8, <1>9 DEF Next, Workflow

LEMMA PhaseInvStep ==
    ASSUME TypeOK, PhaseInv, Next, ~RepeatRollback
    PROVE  PhaseInv'
<1>1. CASE RollbackUpdatedServers
  <2>1. pc' = "rolled"
    BY <1>1 DEF RollbackUpdatedServers
  <2>2. QED
    BY <2>1 DEF PhaseInv, Decided
<1>2. CASE ~RollbackUpdatedServers
  <2>1. \/ Told' = Told /\ (pc' \in Decided <=> pc \in Decided) /\ pc' # "rollback"
        \/ Told' = Told /\ UNCHANGED pc
        \/ /\ pc' \in Decided
           /\ \E a \in Outcome : Told' = {a} /\ (pc' = "rollback" => a = "rollback_initiated")
    BY <1>2, ToldStep
  <2>2. QED
    BY <2>1 DEF PhaseInv
<1>3. QED
  BY <1>1, <1>2

\* The servers deployed to and not taken back.
Live == {s \in touched : server[s].last.action = "deploy"}

\* Nothing but a deployment and a rollback changes which servers are live.
LEMMA SameLive ==
    ASSUME TypeOK, UNCHANGED touched,
           \A s \in Server : \/ server'[s] = server[s]
                             \/ \E st \in ServerStatus : server'[s] = UpdateStatus(server[s], st)
    PROVE  Live' = Live
<1>1. \A s \in Server : server'[s].last = server[s].last
  BY DEF UpdateStatus, TypeOK, ServerRecord
<1>2. QED
  BY <1>1 DEF Live, TypeOK

\* Every step of a rollout that loses no activity result is a step of the
\* abstract one, or none.
LEMMA RefinementStep ==
    ASSUME TypeOK, Books, AbortOrder, PhaseInv, Next, ~RepeatRollback
    PROVE  [Abstract!RolloutNext]_(Abstract!rolloutVars)
<1> USE DEF TypeOK
<1>a. ASSUME UNCHANGED <<Live, Phase, aborted>>
      PROVE  [Abstract!RolloutNext]_(Abstract!rolloutVars)
  BY <1>a DEF Abstract!rolloutVars, Live
<1>1. ASSUME NEW s \in Server, UpdateServer(s)
      PROVE  [Abstract!RolloutNext]_(Abstract!rolloutVars)
  <2>1. /\ pc = "update" /\ s \in todo /\ UNCHANGED <<aborted, trail>>
        /\ touched' = touched \cup {s}
        /\ server' = [server EXCEPT ![s] = UpdateVersion(@, Target)]
    BY <1>1 DEF UpdateServer, dataVars
  <2>2. ~aborted /\ Phase = "growing"
    BY <2>1, PhaseOf DEF PhaseTold, AbortOrder, PhaseInv, Decided
  <2>3. Phase' = Phase
    BY <2>1, SamePhase DEF Told, Events
  <2>4. Live' = Live \cup {s}
    BY <2>1 DEF Live, UpdateVersion
  <2>5. Abstract!Grow(s)
    BY <2>1, <2>2, <2>3, <2>4 DEF Abstract!Grow, Live
  <2>6. QED
    BY <2>5 DEF Abstract!RolloutNext
<1>2. CASE AbortSignal
  <2>1. UNCHANGED <<touched, server, trail>> /\ aborted' = TRUE
    BY <1>2 DEF AbortSignal, outsideVars, clusterVars, histVars
  <2>2. Live' = Live /\ Phase' = Phase
    BY <2>1, SamePhase DEF Live, Told, Events
  <2>3. Abstract!Interrupt
    BY <2>1, <2>2 DEF Abstract!Interrupt, Live
  <2>4. QED
    BY <2>3 DEF Abstract!RolloutNext
<1>3. CASE RollbackUpdatedServers
  <2>1. /\ pc = "rollback" /\ UNCHANGED <<touched, updated, before, aborted>>
        /\ Told' = {"rollback_initiated", "rollback_start"}
    <3>1. pc = "rollback" /\ pc' = "rolled" /\ UNCHANGED <<touched, updated, before, aborted>>
      BY <1>3 DEF RollbackUpdatedServers, histVars
    <3>2. Told = {"rollback_initiated"}
      BY <3>1 DEF PhaseInv
    <3>3. Told' = Told \cup {"rollback_start"}
      BY <1>3, RollbackTells
    <3>4. QED
      BY <3>1, <3>2, <3>3
  <2>2. Phase = "reverting" /\ Phase' = "reverted"
    BY <2>1, PhaseOf, PhaseOfNext DEF PhaseTold, PhaseInv
  <2>3. \A s \in Server : server'[s] = IF s \in updated THEN RollbackServer(server[s])
                                                         ELSE server[s]
    BY <1>3 DEF RollbackUpdatedServers, RevertServers
  \* A server on the books is taken back; those that are not an abort left out.
  <2>4. \A s \in updated : server'[s].last.action = "rollback"
    <3> SUFFICES ASSUME NEW s \in updated PROVE server'[s].last.action = "rollback"
      OBVIOUS
    <3>1. s \in Server /\ Deployed(s)
      BY <2>1 DEF Books
    <3>2. server'[s].last = [action |-> "rollback", version |-> before[s]]
      BY <3>1, <2>3, RevertDeployed
    <3>3. QED
      BY <3>2
  <2>5. Live' = Live \ updated
    BY <2>1, <2>3, <2>4 DEF Live
  <2>6. Live' = {} \/ aborted
    BY <2>1, <2>5 DEF Books, Deploying, Live
  <2>7. Abstract!Revert
    BY <2>1, <2>2, <2>5, <2>6 DEF Abstract!Revert, Live
  <2>8. QED
    BY <2>7 DEF Abstract!RolloutNext
<1>4. CASE Checkpoint \/ StageDone \/ HandleAbort \/ HandleUnrecoverable
  <2>1. UNCHANGED <<touched, server, aborted>> /\ ~RollbackUpdatedServers
    BY <1>4 DEF Checkpoint, EvaluateStart, EvaluateStageStart, EvaluateStageComplete,
                EvaluateRollback, StageDone, HandleAbort, HandleUnrecoverable, dataVars,
                outsideVars, clusterVars, histVars, RollbackUpdatedServers
  <2>2. Live' = Live
    BY <2>1 DEF Live
  <2>3. CASE Told' = Told
    BY <2>1, <2>2, <2>3, <1>a, SamePhase
  <2>4. CASE Told' # Told
    <3>1. pc \notin Decided /\ \E a \in Outcome : Told' = {a}
      BY <2>1, <2>4, ToldStep
    <3>2. Phase = "growing"
      BY <3>1, PhaseOf DEF PhaseTold, PhaseInv
    <3>3. Phase' \in {"kept", "frozen", "reverting"}
      BY <3>1, PhaseOfNext DEF PhaseTold, Outcome
    <3>4. Abstract!Decide
      BY <2>1, <2>2, <3>2, <3>3 DEF Abstract!Decide, Live
    <3>5. QED
      BY <3>4 DEF Abstract!RolloutNext
  <2>5. QED
    BY <2>3, <2>4
<1>5. CASE MarkServersHealthy \/ \E s \in Server : InjectFailure(s)
  <2>1. UNCHANGED <<touched, aborted, trail>>
    BY <1>5 DEF MarkServersHealthy, InjectFailure, dataVars, histVars
  <2>2. \A q \in Server : \/ server'[q] = server[q]
                          \/ \E st \in ServerStatus : server'[q] = UpdateStatus(server[q], st)
    BY <1>5 DEF MarkServersHealthy, InjectFailure, ServerStatus
  <2>3. Live' = Live /\ Phase' = Phase
    BY <2>1, <2>2, SameLive, SamePhase DEF Told, Events
  <2>4. QED
    BY <2>1, <2>3, <1>a
<1>6. CASE Begin \/ ComputeQuota \/ StageRaises \/ SelectServers \/ CheckAbort \/ StageResult
           \/ LoseStageResult \/ StageRecorded \/ (\E ok \in BOOLEAN : HealthCheck(ok))
           \/ RetryHealthCheck \/ HealthPassed \/ AutoQuarantine \/ AbortWait \/ WaitTimeout
           \/ HandleRecoverable \/ FinishRollback \/ Return \/ SetAbortEvent
           \/ (\E r \in Region : QuarantineRegion(r)) \/ Terminated
  <2>1. UNCHANGED <<touched, server, aborted>> /\ Told' = Told
    <3>1. UNCHANGED <<touched, server, aborted>>
      BY <1>6 DEF Begin, ComputeQuota, StageRaises, SelectServers, CheckAbort, StageResult,
                  LoseStageResult, StageRecorded, HealthCheck, RetryHealthCheck, HealthPassed,
                  AutoQuarantine, AbortWait, WaitTimeout, HandleRecoverable, FinishRollback,
                  Return, SetAbortEvent, QuarantineRegion, Terminated, vars, dataVars,
                  outsideVars, clusterVars, histVars
    <3>2. ~RollbackUpdatedServers /\ ~(pc \notin Decided /\ pc' \in Decided)
      BY <1>6 DEF Begin, ComputeQuota, StageRaises, SelectServers, CheckAbort, StageResult,
                  LoseStageResult, StageRecorded, HealthCheck, RetryHealthCheck, HealthPassed,
                  AutoQuarantine, AbortWait, WaitTimeout, HandleRecoverable, FinishRollback,
                  Return, SetAbortEvent, QuarantineRegion, Terminated, vars, Raise,
                  EnterStage, RollbackUpdatedServers, Decided
    <3>3. QED
      BY <3>1, <3>2, ToldStep
  <2>2. Live' = Live /\ Phase' = Phase
    BY <2>1, SamePhase DEF Live
  <2>3. QED
    BY <2>1, <2>2, <1>a
<1>7. QED
  BY <1>1, <1>2, <1>3, <1>4, <1>5, <1>6 DEF Next, Workflow, Environment, ExecuteStage

\* While no activity result is lost, the workflow does what the abstract rollout
\* promises, step by step: no server joins after the decision or an abort, it is
\* decided once, and a revert misses no server unless an abort interrupted it.
THEOREM RefinesRollout ==
    MaxLost = 0 => (Spec => /\ Abstract!RolloutInit
                            /\ [][Abstract!RolloutNext]_(Abstract!rolloutVars))
<1> SUFFICES ASSUME MaxLost = 0
             PROVE  Spec => /\ Abstract!RolloutInit
                            /\ [][Abstract!RolloutNext]_(Abstract!rolloutVars)
  OBVIOUS
<1>1. Init => PhaseInv
  BY DEF Init, PhaseInv, Told, Events
<1>2. Init => Abstract!RolloutInit
  <2> SUFFICES ASSUME Init PROVE Abstract!RolloutInit
    OBVIOUS
  <2>1. Told = {} /\ touched = {} /\ aborted = FALSE
    BY DEF Init, Told, Events
  <2>2. Phase = "growing"
    BY <2>1, PhaseOf DEF PhaseTold
  <2>3. QED
    BY <2>1, <2>2 DEF Abstract!RolloutInit
<1>3. TypeOK /\ Next => ~RepeatRollback
  BY DEF TypeOK, RepeatRollback
<1>4. ASSUME UNCHANGED vars
      PROVE  UNCHANGED <<Live, Phase, aborted>> /\ Told' = Told /\ pc' = pc
  <2>1. Told' = Told
    BY <1>4 DEF Told, Events, vars
  <2>2. QED
    BY <1>4, <2>1, SamePhase DEF Live, vars, dataVars, outsideVars, clusterVars, histVars
<1>5. TypeOK /\ PhaseInv /\ [Next]_vars => PhaseInv'
  BY <1>3, <1>4, PhaseInvStep DEF PhaseInv
<1>6. TypeOK /\ Books /\ AbortOrder /\ PhaseInv /\ [Next]_vars
         => [Abstract!RolloutNext]_(Abstract!rolloutVars)
  BY <1>3, <1>4, RefinementStep DEF Abstract!rolloutVars, Live
<1>7. QED
  BY <1>1, <1>2, <1>5, <1>6, TypeCorrect, BooksInvariant, AbortOrdered, PTL DEF Spec

=============================================================================
