-------------------------- MODULE Resilience_proofs --------------------------
(***************************************************************************)
(* Theorems about Resilience: what a restore answers is what it did, and   *)
(* plans, restores and undos keep the books of the deployment anchored in  *)
(* the cluster.                                                            *)
(***************************************************************************)
EXTENDS Resilience, FiniteSetTheorems, TLAPS

-----------------------------------------------------------------------------
(***************************************************************************)
(* Types.                                                                  *)
(***************************************************************************)

Records == UNION {[S -> ServerRecord] : S \in SUBSET Server}

SnapshotType ==
    [taken : BOOLEAN, servers : Records, matches : BOOLEAN,
     updated : SUBSET Server, status : Status, broken : SUBSET Server,
     depBroken : BOOLEAN, astray : SUBSET Server]

BackupType == [servers : Records, updated : SUBSET Server, status : Status,
               given : BOOLEAN]

StepType == [action : Action, targets : SUBSET Server]

PlanType ==
    [strategy : Strategy \cup {"none"}, region : Region \cup {NoRegion},
     steps : Seq(StepType), index : Nat,
     status : {"none", "pending", "executing", "completed", "failed"}]

\* The cluster, and what the calls hold of it.
ClusterTypes ==
    /\ pc \in {"idle", "apply", "deployment", "undo", "next", "step"}
    /\ server \in Records
    /\ updated \in SUBSET Server
    /\ status \in Status
    /\ snapshot \in SnapshotType
    /\ snapshot.broken \subseteq DOMAIN snapshot.servers
    /\ backup \in BackupType
    /\ answer \in {"none", "true", "false"}

\* A step that runs is one of the plan.
PlanTypes == /\ plan \in PlanType
             /\ plan.index <= Len(plan.steps)
             /\ pc = "step" => plan.index < Len(plan.steps)
             /\ left \in SUBSET Server

OtherTypes ==
    /\ quarantine \in [Region -> {"none", "active", "released"}]
    /\ suspects \in SUBSET Region
    /\ calls \in 0 .. MaxCalls /\ writes \in 0 .. MaxWrites
    /\ written \in SUBSET Server /\ astray \in SUBSET Server
    /\ stale \in SUBSET Server

\* TypeOK, with the records closed.
Types == ClusterTypes /\ PlanTypes /\ OtherTypes

\* A function on some servers to records is a set of records, and the other
\* way around.
LEMMA RecordsFunctions ==
    \A f : f \in Records <=> DOMAIN f \subseteq Server /\ f \in [DOMAIN f -> ServerRecord]
BY DEF Records

LEMMA FunctionRecords ==
    ASSUME NEW S \in SUBSET Server, NEW f \in [S -> ServerRecord]
    PROVE  f \in Records /\ DOMAIN f = S
BY DEF Records

\* No records.
LEMMA NoRecords == <<>> \in Records /\ DOMAIN <<>> = {}
<1>1. <<>> \in [{} -> ServerRecord]
  OBVIOUS
<1>2. QED
  BY <1>1 DEF Records

\* The operations of the cluster make records of records.
LEMMA RecordOps ==
    ASSUME NEW r \in ServerRecord
    PROVE  /\ \A st \in ServerStatus : UpdateStatus(r, st) \in ServerRecord
           /\ \A v \in Version : OverrideVersion(r, v) \in ServerRecord
           /\ UpdateVersion(r, Target) \in ServerRecord
           /\ RollbackServer(r) \in ServerRecord
BY TargetAssumption
   DEF ServerRecord, HistoryEntry, UpdateStatus, OverrideVersion, UpdateVersion,
       RollbackServer, CanRollBack, ServerStatus

\* The steps of a plan are a sequence of steps.
LEMMA PlanStepsType ==
    ASSUME Types, NEW st \in Strategy, NEW r \in Region \cup {NoRegion},
           NEW steps \in PlanSteps(st, r)
    PROVE  steps \in Seq(StepType)
<1>a. /\ \A T \in SUBSET Server : Step("rollback", T) \in StepType
      /\ Step("quarantine_region", {}) \in StepType
      /\ Step("release_quarantine", {}) \in StepType
      /\ Step("resume_deployment", {}) \in StepType
  BY DEF Step, StepType, Action
<1>b. ASSUME NEW S \in SUBSET Server, NEW size \in Nat \ {0}, NEW b \in Batches(S, size)
      PROVE  RollbackSteps(b) \in Seq(StepType)
  <2> DEFINE n == (Cardinality(S) + size - 1) \div size
  <2>1. IsFiniteSet(S) /\ Cardinality(S) \in Nat
    BY ServerAssumption, FS_Subset, FS_CardinalityType
  <2>2. n \in Nat
    BY <2>1
  <2>3. b \in [1 .. n -> SUBSET S]
    BY DEF Batches
  <2>4. \A i \in 1 .. n : Step("rollback", b[i]) \in StepType
    BY <2>3, <1>a
  <2>5. RollbackSteps(b) \in [1 .. n -> StepType]
    BY <2>3, <2>4 DEF RollbackSteps
  <2> HIDE DEF n
  <2>6. QED
    BY <2>2, <2>5
<1>1. CASE st = "partial_rollback"
  <2> DEFINE S == {s \in Present \cap updated : IsUnstable(server[s])}
  <2>1. S \in SUBSET Server
    BY DEF Types, ClusterTypes
  <2>2. PICK b \in Batches(S, 1) : steps = RollbackSteps(b)
    BY <1>1 DEF PlanSteps, PartialRollbacks
  <2>3. QED
    BY <2>1, <2>2, <1>b
<1>2. CASE st = "staged_recovery"
  <2>1. PICK b \in Batches(updated, BatchSize) : steps = RollbackSteps(b)
    BY <1>2 DEF PlanSteps, StagedRecoveries
  <2>2. QED
    BY <2>1, <1>b, BatchAssumption DEF Types, ClusterTypes
<1>3. CASE st = "region_quarantine" /\ r = NoRegion
  <2>1. steps = <<>>
    BY <1>3 DEF PlanSteps, RegionQuarantines
  <2>2. QED
    BY <2>1
<1>4. CASE st = "region_quarantine" /\ r # NoRegion
  <2> DEFINE inside == updated \cap ServersIn(r)
             others == (updated \cap Present) \ inside
  <2>1. inside \in SUBSET Server /\ others \in SUBSET Server
    BY DEF Types, ClusterTypes
  <2>2. steps = <<Step("quarantine_region", {}), Step("rollback", inside)>>
                   \o (IF others = {} THEN <<>> ELSE <<Step("rollback", others)>>)
    BY <1>4 DEF PlanSteps, RegionQuarantines
  <2> HIDE DEF inside, others
  <2>3. /\ <<Step("quarantine_region", {}), Step("rollback", inside)>> \in Seq(StepType)
        /\ <<Step("rollback", others)>> \in Seq(StepType)
        /\ <<>> \in Seq(StepType)
    BY <2>1, <1>a
  <2>4. QED
    BY <2>2, <2>3
<1>5. CASE st = "safe_resume"
  <2>1. steps = (IF r = NoRegion THEN <<>> ELSE <<Step("release_quarantine", {})>>)
                  \o <<Step("resume_deployment", {})>>
    BY <1>5 DEF PlanSteps, SafeResumes
  <2>2. /\ <<Step("release_quarantine", {})>> \in Seq(StepType)
        /\ <<Step("resume_deployment", {})>> \in Seq(StepType)
        /\ <<>> \in Seq(StepType)
    BY <1>a
  <2>3. QED
    BY <2>1, <2>2
<1>6. QED
  BY <1>1, <1>2, <1>3, <1>4, <1>5 DEF Strategy

-----------------------------------------------------------------------------

\* Some records changed, none added.
LEMMA RecordsChanged ==
    ASSUME server \in Records, NEW S \in SUBSET DOMAIN server,
           NEW f \in [S -> ServerRecord]
    PROVE  [s \in DOMAIN server |-> IF s \in S THEN f[s] ELSE server[s]] \in Records
<1>1. DOMAIN server \subseteq Server /\ server \in [DOMAIN server -> ServerRecord]
  BY RecordsFunctions
<1>2. [s \in DOMAIN server |-> IF s \in S THEN f[s] ELSE server[s]]
         \in [DOMAIN server -> ServerRecord]
  BY <1>1
<1>3. QED
  BY <1>1, <1>2, FunctionRecords

\* Laying records over those at hand makes records.
LEMMA OverlayType ==
    ASSUME server \in Records, NEW K \in SUBSET DOMAIN server, NEW f \in Records
    PROVE  /\ Overlay(K, f) \in Records
           /\ DOMAIN Overlay(K, f) = K \cup DOMAIN f
<1>1. /\ DOMAIN server \subseteq Server /\ server \in [DOMAIN server -> ServerRecord]
      /\ DOMAIN f \subseteq Server /\ f \in [DOMAIN f -> ServerRecord]
  BY RecordsFunctions
<1>2. Overlay(K, f) \in [K \cup DOMAIN f -> ServerRecord]
  BY <1>1 DEF Overlay
<1>3. QED
  BY <1>1, <1>2, FunctionRecords

\* The operator's calls, and the snapshots', keep the types of the cluster.
LEMMA SnapshotTypes ==
    ASSUME Types,
           \/ \E S \in (SUBSET Server) \ {{}} : Deploy(S)
           \/ \E given \in BOOLEAN : CreateSnapshot(given) \/ TakeBackup(given)
           \/ \E S, bad \in SUBSET Server, depBad \in BOOLEAN : LoadSnapshot(S, bad, depBad)
           \/ ApplyServers
           \/ \E b \in Server, done \in SUBSET Server : ApplyBroken(b, done)
           \/ RestoreDeployment \/ Undo
    PROVE  Types'
<1> USE DEF Types, Present, clusterVars, restoreVars, planVars, regionVars, histVars
<1>a. /\ DOMAIN server \subseteq Server /\ server \in [DOMAIN server -> ServerRecord]
      /\ DOMAIN snapshot.servers \subseteq Server
      /\ snapshot.servers \in [DOMAIN snapshot.servers -> ServerRecord]
      /\ DOMAIN backup.servers \subseteq Server
      /\ backup.servers \in [DOMAIN backup.servers -> ServerRecord]
  BY RecordsFunctions DEF ClusterTypes, SnapshotType, BackupType
<1>b. NoBackup \in BackupType
  BY NoRecords DEF NoBackup, BackupType, Status
<1>c. ASSUME Call PROVE /\ answer' = "none" /\ pc = "idle"
                        /\ calls' \in 0 .. MaxCalls
  BY <1>c, BoundAssumption DEF Call, OtherTypes
<1>1. ASSUME NEW S \in SUBSET Server, Deploy(S) PROVE Types'
  <2>1. \A s \in S : UpdateVersion(server[s], Target) \in ServerRecord
    BY <1>1, <1>a, RecordOps DEF Deploy
  <2>2. server' \in [DOMAIN server -> ServerRecord]
    BY <1>1, <1>a, <2>1 DEF Deploy
  <2>3. server' \in Records
    BY <1>a, <2>2, FunctionRecords
  <2>4. ClusterTypes'
    BY <1>1, <1>b, <1>c, <2>3 DEF Deploy, ClusterTypes, Forget, Status
  <2>5. PlanTypes' /\ OtherTypes'
    BY <1>1, <1>c DEF Deploy, PlanTypes, OtherTypes, Forget
  <2>6. QED
    BY <2>4, <2>5
<1>2. ASSUME NEW given \in BOOLEAN, CreateSnapshot(given) PROVE Types'
  <2>1. snapshot' \in SnapshotType /\ snapshot'.broken = {}
    BY <1>2 DEF CreateSnapshot, SnapshotType, ClusterTypes, OtherTypes, Status
  <2>2. ClusterTypes'
    BY <1>2, <1>b, <1>c, <2>1 DEF CreateSnapshot, ClusterTypes, Forget
  <2>3. PlanTypes' /\ OtherTypes'
    BY <1>2, <1>c DEF CreateSnapshot, PlanTypes, OtherTypes, Forget
  <2>4. QED
    BY <2>2, <2>3
<1>3. ASSUME NEW given \in BOOLEAN, TakeBackup(given) PROVE Types'
  <2>1. backup' \in BackupType
    BY <1>3 DEF TakeBackup, BackupType, ClusterTypes
  <2>2. ClusterTypes'
    BY <1>3, <1>c, <2>1 DEF TakeBackup, ClusterTypes
  <2>3. PlanTypes' /\ OtherTypes'
    BY <1>3, <1>c DEF TakeBackup, PlanTypes, OtherTypes
  <2>4. QED
    BY <2>2, <2>3
<1>4. ASSUME NEW S \in SUBSET Server, NEW bad \in SUBSET Server, NEW depBad \in BOOLEAN,
             LoadSnapshot(S, bad, depBad)
      PROVE  Types'
  <2>1. [s \in S |-> snapshot.servers[s]] \in [S -> ServerRecord]
    BY <1>4, <1>a DEF LoadSnapshot
  <2>2. [s \in S |-> snapshot.servers[s]] \in Records
    BY <2>1, FunctionRecords
  <2>3. /\ snapshot' = [snapshot EXCEPT !.servers = [s \in S |-> snapshot.servers[s]],
                                        !.broken = bad, !.depBroken = depBad]
        /\ bad \subseteq S
    BY <1>4 DEF LoadSnapshot
  <2> DEFINE f == [s \in S |-> snapshot.servers[s]]
  <2>4. DOMAIN f = S
    OBVIOUS
  <2> HIDE DEF f
  <2>5. snapshot' \in SnapshotType /\ snapshot'.broken \subseteq DOMAIN snapshot'.servers
    BY <2>2, <2>3, <2>4 DEF SnapshotType, ClusterTypes, f
  <2>6. ClusterTypes'
    BY <1>4, <1>b, <1>c, <2>5 DEF LoadSnapshot, ClusterTypes, Forget
  <2>7. PlanTypes' /\ OtherTypes'
    BY <1>4, <1>c DEF LoadSnapshot, PlanTypes, OtherTypes, Forget
  <2>8. QED
    BY <2>6, <2>7
<1>5. CASE ApplyServers
  <2>1. server' \in Records
    BY <1>5, OverlayType DEF ApplyServers, Kept, ClusterTypes, SnapshotType
  <2>2. ClusterTypes'
    BY <1>5, <2>1 DEF ApplyServers, ClusterTypes
  <2>3. PlanTypes' /\ OtherTypes'
    BY <1>5 DEF ApplyServers, PlanTypes, OtherTypes
  <2>4. QED
    BY <2>2, <2>3
<1>6. ASSUME NEW b \in Server, NEW done \in SUBSET Server, ApplyBroken(b, done) PROVE Types'
  <2> DEFINE good == [s \in done |-> snapshot.servers[s]]
             most(half) == [s \in done \cup {b} |-> IF s = b THEN half ELSE good[s]]
  <2>1. b \in DOMAIN snapshot.servers /\ done \subseteq DOMAIN snapshot.servers
    BY <1>6 DEF ApplyBroken, ClusterTypes
  <2>2. HalfWritten(b) \subseteq ServerRecord
    <3>1. /\ snapshot.servers[b] \in ServerRecord
          /\ b \in Present => server[b] \in ServerRecord
      BY <2>1, <1>a
    <3>2. PICK entry \in ServerRecord : entry = snapshot.servers[b]
      BY <3>1
    <3>3. PICK found : found = IF b \in Present THEN server[b]
                               ELSE [entry EXCEPT !.previous = NoVersion, !.last = NoEntry]
      OBVIOUS
    <3>4. found \in ServerRecord
      BY <3>1, <3>3 DEF ServerRecord, NoEntry, HistoryEntry
    <3>5. PICK marked : marked = [found EXCEPT !.status = entry.status]
      OBVIOUS
    <3>6. PICK moved : moved = [marked EXCEPT !.version = entry.version]
      OBVIOUS
    <3>7. HalfWritten(b) = {marked, moved, [moved EXCEPT !.previous = entry.previous]}
      BY <3>2, <3>3, <3>5, <3>6 DEF HalfWritten
    <3>8. marked \in ServerRecord
      BY <3>4, <3>5 DEF ServerRecord
    <3>9. moved \in ServerRecord
      BY <3>6, <3>8 DEF ServerRecord
    <3>10. [moved EXCEPT !.previous = entry.previous] \in ServerRecord
      BY <3>9 DEF ServerRecord
    <3>11. QED
      BY <3>7, <3>8, <3>9, <3>10
  <2>3. good \in [done -> ServerRecord]
    BY <2>1, <1>a
  <2>4. good \in Records
    BY <2>3, FunctionRecords
  <2>5. ASSUME NEW half \in HalfWritten(b) PROVE most(half) \in Records
    <3>1. most(half) \in [done \cup {b} -> ServerRecord]
      BY <2>2, <2>3
    <3>2. done \cup {b} \subseteq Server
      OBVIOUS
    <3> HIDE DEF most
    <3>3. QED
      BY <3>1, <3>2, FunctionRecords
  <2>6. \/ server' = server
        \/ \E f \in Records : server' = Overlay(Kept, f)
    <3>1. \/ server' = server
          \/ server' = Overlay(Kept, good)
          \/ \E half \in HalfWritten(b) : server' = Overlay(Kept, most(half))
      BY <1>6 DEF ApplyBroken
    <3> HIDE DEF good, most
    <3>2. QED
      BY <3>1, <2>4, <2>5
  <2>7. server' \in Records
    <3>1. Kept \in SUBSET DOMAIN server
      BY DEF Kept
    <3>2. server \in Records
      BY DEF ClusterTypes
    <3>3. QED
      BY <2>6, <3>1, <3>2, OverlayType
  <2>8. ClusterTypes'
    BY <1>6, <2>7 DEF ApplyBroken, ClusterTypes
  <2>9. PlanTypes' /\ OtherTypes'
    BY <1>6 DEF ApplyBroken, PlanTypes, OtherTypes
  <2>10. QED
    BY <2>8, <2>9
<1>7. CASE RestoreDeployment
  <2>1. ClusterTypes'
    BY <1>7 DEF RestoreDeployment, RestoredBooks, ClusterTypes, SnapshotType
  <2>2. PlanTypes' /\ OtherTypes'
    BY <1>7 DEF RestoreDeployment, PlanTypes, OtherTypes, ClusterTypes, SnapshotType
  <2>3. QED
    BY <2>1, <2>2
<1>8. CASE Undo
  <2>1. server' \in [DOMAIN server -> ServerRecord]
    BY <1>8, <1>a DEF Undo, Undone
  <2>2. server' \in Records
    BY <1>a, <2>1, FunctionRecords
  <2>3. ClusterTypes'
    BY <1>8, <2>2 DEF Undo, ClusterTypes, BackupType
  <2>4. PlanTypes' /\ OtherTypes'
    BY <1>8, <1>a DEF Undo, PlanTypes, OtherTypes
  <2>5. QED
    BY <2>3, <2>4
<1>9. QED
  BY <1>1, <1>2, <1>3, <1>4, <1>5, <1>6, <1>7, <1>8

\* Making, running and finishing plans keeps them.
LEMMA PlanningTypes ==
    ASSUME Types,
           \/ \E strategy \in Strategy, r \in Region \cup {NoRegion} : GeneratePlan(strategy, r)
           \/ Execute \/ Approve \/ Reject
           \/ \E s \in Server : RollBackTarget(s)
           \/ FinishStep \/ CompletePlan
    PROVE  Types'
<1> USE DEF Types, Present, clusterVars, restoreVars, planVars, regionVars, histVars
<1>b. NoBackup \in BackupType
  BY NoRecords DEF NoBackup, BackupType, Status
<1>c. ASSUME Call PROVE /\ answer' = "none" /\ pc = "idle"
                        /\ calls' \in 0 .. MaxCalls
  BY <1>c, BoundAssumption DEF Call, OtherTypes
<1>d. plan \in PlanType /\ plan.steps \in Seq(StepType) /\ Len(plan.steps) \in Nat
  BY DEF PlanTypes, PlanType
<1>1. ASSUME NEW strategy \in Strategy, NEW r \in Region \cup {NoRegion},
             GeneratePlan(strategy, r)
      PROVE  Types'
  <2>1. PICK steps \in PlanSteps(strategy, r) :
           plan' = [strategy |-> strategy, region |-> r, steps |-> steps,
                    index |-> 0, status |-> "pending"]
    BY <1>1 DEF GeneratePlan
  <2>2. steps \in Seq(StepType)
    BY PlanStepsType
  <2>3. PlanTypes'
    <3>1. pc' = "idle" /\ left' = left
      BY <1>1, <1>c DEF GeneratePlan
    <3>2. plan' \in PlanType /\ plan'.index = 0 /\ plan'.steps = steps
      BY <2>1, <2>2 DEF PlanType
    <3>3. Len(steps) \in Nat
      BY <2>2
    <3>4. QED
      BY <3>1, <3>2, <3>3 DEF PlanTypes
  <2>4. ClusterTypes'
    BY <1>1, <1>b, <1>c DEF GeneratePlan, ClusterTypes, Forget
  <2>5. OtherTypes'
    BY <1>1, <1>c DEF GeneratePlan, OtherTypes, Forget
  <2>6. QED
    BY <2>3, <2>4, <2>5
<1>2. CASE Execute
  <2>1. PlanTypes'
    BY <1>2, <1>d DEF Execute, PlanTypes, PlanType
  <2>2. ClusterTypes'
    BY <1>2, <1>b, <1>c DEF Execute, ClusterTypes, Forget
  <2>3. OtherTypes'
    BY <1>2, <1>c DEF Execute, OtherTypes, Forget
  <2>4. QED
    BY <2>1, <2>2, <2>3
<1>3. CASE Approve
  <2>1. Current \in StepType
    BY <1>3, <1>d DEF Approve, Current, StepsLeft, PlanTypes, PlanType
  <2>2. PlanTypes'
    BY <1>3, <1>d, <2>1 DEF Approve, PlanTypes, StepType, StepsLeft
  <2>3. ClusterTypes' /\ OtherTypes'
    BY <1>3 DEF Approve, ClusterTypes, OtherTypes
  <2>4. QED
    BY <2>2, <2>3
<1>4. CASE Reject \/ CompletePlan
  <2>1. PlanTypes'
    BY <1>4, <1>d DEF Reject, CompletePlan, PlanTypes, PlanType
  <2>2. ClusterTypes' /\ OtherTypes'
    BY <1>4 DEF Reject, CompletePlan, ClusterTypes, OtherTypes
  <2>3. QED
    BY <2>1, <2>2
<1>5. ASSUME NEW s \in Server, RollBackTarget(s) PROVE Types'
  <2>1. DOMAIN server \subseteq Server /\ server \in [DOMAIN server -> ServerRecord]
    BY RecordsFunctions DEF ClusterTypes
  <2>2. \A x \in DOMAIN server : RollbackServer(server[x]) \in ServerRecord
    BY <2>1, RecordOps
  <2>3. server' \in [DOMAIN server -> ServerRecord]
    BY <1>5, <2>1, <2>2 DEF RollBackTarget
  <2>4. server' \in Records
    BY <2>1, <2>3, FunctionRecords
  <2>5. ClusterTypes'
    BY <1>5, <2>4 DEF RollBackTarget, ClusterTypes
  <2>6. PlanTypes' /\ OtherTypes'
    BY <1>5 DEF RollBackTarget, PlanTypes, OtherTypes
  <2>7. QED
    BY <2>5, <2>6
<1>6. CASE FinishStep
  <2>1. /\ plan.index \in Nat /\ plan.index < Len(plan.steps)
        /\ plan' = [plan EXCEPT !.index = plan.index + 1]
    BY <1>6, <1>d DEF FinishStep, PlanTypes, PlanType
  <2>2. plan' \in PlanType /\ plan'.index = plan.index + 1 /\ plan'.steps = plan.steps
    BY <2>1, <1>d DEF PlanType
  <2>3. PlanTypes'
    BY <1>6, <2>1, <2>2, <1>d DEF FinishStep, PlanTypes
  <2>4. ClusterTypes'
    BY <1>6 DEF FinishStep, ClusterTypes, Status
  <2>5. quarantine' \in [Region -> {"none", "active", "released"}]
    BY <1>6 DEF FinishStep, OtherTypes
  <2>6. OtherTypes'
    BY <1>6, <2>5 DEF FinishStep, OtherTypes
  <2>7. QED
    BY <2>3, <2>4, <2>6
<1>7. QED
  BY <1>1, <1>2, <1>3, <1>4, <1>5, <1>6

\* So does what the other threads do.
LEMMA OthersTypes ==
    ASSUME Types, Others \/ Rest
    PROVE  Types'
<1> USE DEF Types, Present, clusterVars, restoreVars, planVars, regionVars, histVars
<1>a. DOMAIN server \subseteq Server /\ server \in [DOMAIN server -> ServerRecord]
  BY RecordsFunctions DEF ClusterTypes
<1>b. ASSUME NEW s \in DOMAIN server, NEW r \in ServerRecord, Write(s, r),
             astray' \in SUBSET Server
      PROVE  Types'
  <2>1. server' \in [DOMAIN server -> ServerRecord]
    BY <1>a, <1>b DEF Write
  <2>2. server' \in Records
    BY <1>a, <2>1, FunctionRecords
  <2>3. ClusterTypes' /\ PlanTypes'
    BY <1>b, <2>2 DEF Write, ClusterTypes, PlanTypes
  <2>4. OtherTypes'
    BY <1>a, <1>b, BoundAssumption DEF Write, OtherTypes
  <2>5. QED
    BY <2>3, <2>4
<1>1. ASSUME NEW s \in Present, ChangeStatus(s) PROVE Types'
  <2>1. PICK st \in ServerStatus : Write(s, UpdateStatus(server[s], st))
    BY <1>1 DEF ChangeStatus, ServerStatus
  <2>2. UpdateStatus(server[s], st) \in ServerRecord
    BY <1>a, RecordOps
  <2>3. QED
    BY <1>1, <1>b, <2>1, <2>2 DEF ChangeStatus, OtherTypes
<1>2. ASSUME NEW s \in Present, Drift(s) PROVE Types'
  <2>1. PICK v \in Version : Write(s, OverrideVersion(server[s], v))
    BY <1>2 DEF Drift
  <2>2. OverrideVersion(server[s], v) \in ServerRecord
    BY <1>a, RecordOps
  <2>3. QED
    BY <1>a, <1>2, <1>b, <2>1, <2>2 DEF Drift, OtherTypes
<1>3. ASSUME NEW s \in Present, RollBackByHand(s) PROVE Types'
  <2>1. RollbackServer(server[s]) \in ServerRecord
    BY <1>a, RecordOps
  <2>2. QED
    BY <1>3, <1>b, <2>1 DEF RollBackByHand, OtherTypes
<1>4. CASE ExamineRegions
  <2>1. UnstableRegions \in SUBSET Region
    BY DEF UnstableRegions
  <2>2. ClusterTypes' /\ PlanTypes'
    BY <1>4 DEF ExamineRegions, ClusterTypes, PlanTypes
  <2>3. OtherTypes'
    BY <1>4, <2>1, BoundAssumption DEF ExamineRegions, OtherTypes
  <2>4. QED
    BY <2>2, <2>3
<1>5. ASSUME NEW r \in Region, QuarantineSuspect(r) PROVE Types'
  BY <1>5 DEF QuarantineSuspect, ClusterTypes, PlanTypes, OtherTypes
<1>6. CASE Rest
  BY <1>6 DEF Rest, vars, ClusterTypes, PlanTypes, OtherTypes
<1>7. QED
  BY <1>1, <1>2, <1>3, <1>4, <1>5, <1>6 DEF Others

\* The program starts with the types it keeps.
LEMMA InitTypes == Init => Types
<1> SUFFICES ASSUME Init PROVE Types
  OBVIOUS
<1>1. PICK before \in [Server -> InitialRecords] :
         server = [s \in Server |-> IF s \in updated THEN UpdateVersion(before[s], Target)
                                                     ELSE before[s]]
  BY DEF Init
<1>2. \A s \in Server : before[s] \in ServerRecord
  BY InitialAssumption
<1>3. server \in [Server -> ServerRecord]
  BY <1>1, <1>2, RecordOps
<1>4. server \in Records
  BY <1>3, FunctionRecords
<1>5. snapshot \in SnapshotType /\ backup \in BackupType
  BY NoRecords DEF Init, NoSnapshot, NoBackup, SnapshotType, BackupType, Status
<1>6. ClusterTypes
  BY <1>4, <1>5 DEF Init, ClusterTypes, NoSnapshot, Status
<1>7. PlanTypes
  <2>1. <<>> \in Seq(StepType) /\ Len(<<>>) = 0
    OBVIOUS
  <2>2. QED
    BY <2>1 DEF Init, PlanTypes, PlanType, NoPlan
<1>8. OtherTypes
  BY BoundAssumption DEF Init, OtherTypes
<1>9. QED
  BY <1>6, <1>7, <1>8 DEF Types

LEMMA TypesStep == Types /\ [Next]_vars => Types'
<1>1. Types /\ UNCHANGED vars => Types'
  BY DEF Types, ClusterTypes, PlanTypes, OtherTypes, vars, clusterVars, restoreVars,
         planVars, regionVars, histVars
<1>2. QED
  BY <1>1, SnapshotTypes, PlanningTypes, OthersTypes DEF Next, Operator

LEMMA TypesInvariant == Spec => []Types
BY InitTypes, TypesStep, PTL DEF Spec

\* Types says all that TypeOK does.
LEMMA TypesGive == Types => TypeOK
<1> SUFFICES ASSUME Types PROVE TypeOK
  OBVIOUS
<1>1. \A f \in Records : RecordsOf(f)
  BY RecordsFunctions DEF RecordsOf
<1>2. plan.index \in 0 .. Len(plan.steps)
  BY DEF Types, PlanTypes, PlanType
<1>3. QED
  BY <1>1, <1>2 DEF Types, ClusterTypes, PlanTypes, OtherTypes, TypeOK, SnapshotType,
     BackupType, PlanType, StepType

\* Every variable keeps to the values its Python counterpart can hold.
THEOREM ResilienceTypeCorrect == Spec => []TypeOK
BY TypesInvariant, TypesGive, PTL

-----------------------------------------------------------------------------
(***************************************************************************)
(* What a restore answers.                                                 *)
(***************************************************************************)

\* While the call has applied the servers and not decided on the deployment,
\* the cluster is the snapshot's but for what others wrote since.
Answered ==
    /\ answer # "none" => pc = "idle"
    /\ pc = "deployment" =>
          /\ Present = DOMAIN snapshot.servers
          /\ \A s \in Present \ written : server[s] = snapshot.servers[s]
    /\ RestoreExact
    /\ UndoKeeps

\* What a writer does to the cluster.
LEMMA WriteEffect ==
    ASSUME server \in Records, NEW s \in Present, NEW r, Write(s, r)
    PROVE  /\ Present' = Present
           /\ \A x \in Present : server'[x] = IF x = s THEN r ELSE server[x]
           /\ written' = written \cup {s}
           /\ UNCHANGED <<pc, updated, status, snapshot, backup, answer, plan, left, stale>>
<1>1. server \in [DOMAIN server -> ServerRecord]
  BY RecordsFunctions
<1>2. QED
  BY <1>1 DEF Write, Present, restoreVars, planVars

LEMMA AnsweredStep ==
    ASSUME Types, Answered, [Next]_vars
    PROVE  Answered'
<1> USE DEF Present, clusterVars, restoreVars, planVars, regionVars, histVars
<1>1. ASSUME answer' = "none", pc' # "deployment"
      PROVE  Answered'
  BY <1>1 DEF Answered, RestoreExact, UndoKeeps
<1>2. CASE \/ \E S \in (SUBSET Server) \ {{}} : Deploy(S)
           \/ \E given \in BOOLEAN : CreateSnapshot(given) \/ TakeBackup(given)
           \/ \E S, bad \in SUBSET Server, depBad \in BOOLEAN : LoadSnapshot(S, bad, depBad)
           \/ \E strategy \in Strategy, r \in Region \cup {NoRegion} : GeneratePlan(strategy, r)
           \/ Execute
  BY <1>2, <1>1 DEF Deploy, CreateSnapshot, TakeBackup, LoadSnapshot, GeneratePlan, Execute, Call
<1>3. CASE \/ \E b \in Server, done \in SUBSET Server : ApplyBroken(b, done)
           \/ Approve \/ Reject
           \/ \E s \in Server : RollBackTarget(s)
           \/ FinishStep \/ CompletePlan
  <2>1. pc # "idle" /\ pc' # "deployment" /\ answer' = answer
    BY <1>3 DEF ApplyBroken, Approve, Reject, RollBackTarget, FinishStep, CompletePlan
  <2>2. QED
    BY <2>1, <1>1 DEF Answered
<1>4. CASE ApplyServers
  <2>1. server' = Overlay(Kept, snapshot.servers)
    BY <1>4 DEF ApplyServers
  <2>2. /\ DOMAIN server' = DOMAIN snapshot.servers
        /\ \A s \in DOMAIN snapshot.servers : server'[s] = snapshot.servers[s]
    BY <2>1 DEF Overlay, Kept
  <2>3. answer' = answer /\ pc = "apply" /\ pc' = "deployment" /\ snapshot' = snapshot
    BY <1>4 DEF ApplyServers
  <2>4. answer' = "none"
    BY <2>3 DEF Answered
  <2>5. QED
    BY <2>2, <2>3, <2>4 DEF Answered, RestoreExact, UndoKeeps
<1>5. CASE RestoreDeployment
  <2>1. /\ pc = "deployment" /\ UNCHANGED <<server, snapshot, backup, written>>
        /\ Matched' = Matched
    BY <1>5 DEF RestoreDeployment, Matched
  <2>2. CASE pc' = "undo"
    BY <2>1, <2>2, <1>1, <1>5 DEF RestoreDeployment, Answered
  <2>3. CASE pc' # "undo"
    <3>1. /\ pc' = "idle" /\ answer' = "true"
          /\ Matched => updated' = snapshot.updated /\ status' = snapshot.status
      BY <1>5, <2>3 DEF RestoreDeployment, RestoredBooks
    <3>2. QED
      BY <2>1, <3>1 DEF Answered, RestoreExact, UndoKeeps
  <2>4. QED
    BY <2>2, <2>3
<1>6. CASE Undo
  <2>1. /\ DOMAIN server' = DOMAIN server
        /\ \A s \in DOMAIN server \cap DOMAIN backup.servers : server'[s] = backup.servers[s]
    BY <1>6 DEF Undo, Undone
  <2>2. /\ pc' = "idle" /\ answer' = "false" /\ backup' = backup
        /\ backup.given => updated' = backup.updated /\ status' = backup.status
    BY <1>6 DEF Undo
  <2>3. QED
    BY <2>1, <2>2 DEF Answered, RestoreExact, UndoKeeps
<1>7. ASSUME NEW s \in Present, NEW r, Write(s, r)
      PROVE  Answered'
  <2>1. /\ DOMAIN server' = DOMAIN server
        /\ \A x \in DOMAIN server \ {s} : server'[x] = server[x]
        /\ written' = written \cup {s}
        /\ UNCHANGED <<pc, updated, status, snapshot, backup, answer>>
    BY <1>7, WriteEffect DEF Types, ClusterTypes
  <2>2. QED
    BY <2>1 DEF Answered, RestoreExact, UndoKeeps, Matched
<1>8. CASE \E s \in Present : ChangeStatus(s) \/ Drift(s) \/ RollBackByHand(s)
  BY <1>7, <1>8 DEF ChangeStatus, Drift, RollBackByHand
<1>9. CASE ExamineRegions \/ (\E r \in Region : QuarantineSuspect(r)) \/ Rest \/ UNCHANGED vars
  <2>1. UNCHANGED <<pc, server, updated, status, snapshot, backup, answer, written>>
    BY <1>9 DEF ExamineRegions, QuarantineSuspect, Rest, vars
  <2>2. QED
    BY <2>1 DEF Answered, RestoreExact, UndoKeeps, Matched
<1>10. QED
  BY <1>2, <1>3, <1>4, <1>5, <1>6, <1>8, <1>9 DEF Next, Operator, Others

LEMMA AnsweredInvariant == Spec => []Answered
<1>1. Init => Answered
  BY DEF Init, Answered, RestoreExact, UndoKeeps
<1>2. QED
  BY <1>1, AnsweredStep, TypesInvariant, PTL DEF Spec

\* A restore that answers True leaves the cluster with the snapshot's servers,
\* as they were, and the deployment as it was if both have one.
THEOREM RestoreExactHolds == Spec => []RestoreExact
<1>1. Answered => RestoreExact
  BY DEF Answered
<1>2. QED
  BY <1>1, AnsweredInvariant, PTL

\* A restore that answers False leaves every server that is still there, and
\* the deployment, as the call found them, wherever it failed.
THEOREM UndoKeepsHolds == Spec => []UndoKeeps
<1>1. Answered => UndoKeeps
  BY DEF Answered
<1>2. QED
  BY <1>1, AnsweredInvariant, PTL

-----------------------------------------------------------------------------
(***************************************************************************)
(* The books and the cluster.                                              *)
(***************************************************************************)

\* A server no rollback brings to the new version: it is not on it, and has
\* not come from it, or was rolled back last.
Settled(r) == r.version # Target /\ (r.previous # Target \/ AlreadyRolledBack(r))

\* A server as the deployment leaves it, and one taken back from there.
Deployed(r) == /\ r.version = Target
               /\ r.previous \in Version \ {Target}
               /\ r.last.action = "deploy"
TakenBack(r) == r.version # Target /\ CanRollBack(r) /\ AlreadyRolledBack(r)

Sound(r, booked) == IF booked THEN Deployed(r) \/ TakenBack(r) ELSE Settled(r)

\* Cluster and books agree, and so do those a restore or an undo puts in their
\* place.  No plan is current while a restore is under way.
Ledger ==
    /\ pc \notin {"deployment", "undo"} =>
          \A s \in Present \ astray : Sound(server[s], s \in updated)
    /\ snapshot.matches =>
          \A s \in DOMAIN snapshot.servers \ snapshot.astray :
              Sound(snapshot.servers[s], s \in snapshot.updated)
    /\ pc \in {"apply", "deployment", "undo"} =>
          /\ stale = Server
          /\ backup.given \/ updated = backup.updated
          /\ \A s \in DOMAIN backup.servers \ astray :
                Sound(backup.servers[s], s \in backup.updated)

\* No server comes from the new version before the deployment, unless an
\* earlier rollback took it back from there.
SettledBefore == \A r \in InitialRecords : Settled(r)

LEMMA SoundOps ==
    ASSUME NEW r \in ServerRecord
    PROVE  /\ \A st, b : Sound(r, b) => Sound(UpdateStatus(r, st), b)
           /\ r.version # Target => Sound(UpdateVersion(r, Target), TRUE)
           /\ Sound(r, TRUE) => /\ Sound(RollbackServer(r), TRUE)
                                /\ Sound(RollbackServer(r), FALSE)
           /\ Sound(r, FALSE) => Sound(RollbackServer(r), FALSE)
<1> USE DEF ServerRecord, HistoryEntry, Sound, Settled, Deployed, TakenBack, CanRollBack,
            AlreadyRolledBack
<1>1. \A st, b : Sound(r, b) => Sound(UpdateStatus(r, st), b)
  BY DEF UpdateStatus
<1>2. r.version # Target => Sound(UpdateVersion(r, Target), TRUE)
  BY DEF UpdateVersion
<1>3. Sound(r, TRUE) => TakenBack(RollbackServer(r))
  BY NoVersionAssumption, TargetAssumption DEF RollbackServer
<1>4. Sound(r, FALSE) => Settled(RollbackServer(r))
  BY DEF RollbackServer
<1>5. \A q : TakenBack(q) => Settled(q)
  OBVIOUS
<1>6. QED
  BY <1>1, <1>2, <1>3, <1>4, <1>5

LEMMA LedgerInit == SettledBefore /\ Init => Ledger
<1> SUFFICES ASSUME SettledBefore, Init PROVE Ledger
  OBVIOUS
<1>1. PICK before \in [Server -> InitialRecords] :
         server = [s \in Server |-> IF s \in updated THEN UpdateVersion(before[s], Target)
                                                     ELSE before[s]]
  BY DEF Init
<1>2. \A s \in Server : /\ before[s] \in ServerRecord /\ before[s].version # Target
                        /\ Settled(before[s])
  BY InitialAssumption DEF SettledBefore
<1>3. \A s \in Server : Sound(server[s], s \in updated)
  <2> SUFFICES ASSUME NEW s \in Server PROVE Sound(server[s], s \in updated)
    OBVIOUS
  <2>1. CASE s \in updated
    BY <2>1, <1>1, <1>2, SoundOps DEF Sound
  <2>2. CASE s \notin updated
    BY <2>2, <1>1, <1>2 DEF Sound
  <2>3. QED
    BY <2>1, <2>2
<1>4. DOMAIN server = Server
  BY <1>1
<1>5. pc = "idle" /\ ~snapshot.matches
  BY DEF Init, NoSnapshot
<1>6. QED
  BY <1>3, <1>4, <1>5 DEF Ledger, Present

\* The deployment and its snapshots keep the ledger.
LEMMA LedgerSnapshots ==
    ASSUME Types, Answered, Ledger,
           \/ \E S \in (SUBSET Server) \ {{}} : Deploy(S)
           \/ \E given \in BOOLEAN : CreateSnapshot(given) \/ TakeBackup(given)
           \/ \E S, bad \in SUBSET Server, depBad \in BOOLEAN : LoadSnapshot(S, bad, depBad)
           \/ ApplyServers
           \/ \E b \in Server, done \in SUBSET Server : ApplyBroken(b, done)
           \/ RestoreDeployment \/ Undo
    PROVE  Ledger'
<1> USE DEF Present, clusterVars, restoreVars, planVars, regionVars, histVars
<1>a. DOMAIN server \subseteq Server /\ server \in [DOMAIN server -> ServerRecord]
  BY RecordsFunctions DEF Types, ClusterTypes
<1>b. snapshot \in SnapshotType
  BY DEF Types, ClusterTypes
<1>1. ASSUME NEW S \in SUBSET Server, Deploy(S) PROVE Ledger'
  <2>1. /\ S \subseteq DOMAIN server \ updated
        /\ server' = [s \in DOMAIN server |-> IF s \in S THEN UpdateVersion(server[s], Target)
                                                         ELSE server[s]]
        /\ updated' = updated \cup S
        /\ astray' = astray \ {s \in S : server[s].version # Target}
        /\ pc = "idle" /\ pc' = "idle" /\ snapshot' = snapshot
    BY <1>1 DEF Deploy, Call
  <2>2. ASSUME NEW s \in DOMAIN server' \ astray'
        PROVE  Sound(server'[s], s \in updated')
    <3>1. s \in DOMAIN server
      BY <2>1
    <3>2. CASE s \in S
      <4>1. server[s].version # Target
        BY <2>1, <2>2, <3>1, <3>2 DEF Ledger, Sound, Settled
      <4>2. Sound(UpdateVersion(server[s], Target), TRUE)
        BY <4>1, <3>1, <1>a, SoundOps
      <4>3. server'[s] = UpdateVersion(server[s], Target) /\ s \in updated'
        BY <2>1, <3>1, <3>2
      <4>4. QED
        BY <4>2, <4>3 DEF Sound
    <3>3. CASE s \notin S
      BY <2>1, <2>2, <3>1, <3>3 DEF Ledger, Sound
    <3>4. QED
      BY <3>2, <3>3
  <2>3. QED
    BY <2>1, <2>2 DEF Ledger
<1>2. ASSUME NEW given \in BOOLEAN, CreateSnapshot(given) PROVE Ledger'
  <2>1. /\ UNCHANGED <<pc, server, updated, astray>> /\ pc = "idle"
        /\ snapshot'.matches => /\ snapshot'.servers = server /\ snapshot'.updated = updated
                                /\ snapshot'.astray = astray
    BY <1>2 DEF CreateSnapshot, Call
  <2>2. QED
    BY <2>1 DEF Ledger, Sound
<1>3. ASSUME NEW given \in BOOLEAN, TakeBackup(given) PROVE Ledger'
  <2>1. /\ UNCHANGED <<server, updated, astray, snapshot>> /\ pc = "idle" /\ pc' = "apply"
        /\ stale' = Server /\ backup'.servers = server /\ backup'.updated = updated
    BY <1>3 DEF TakeBackup, Call
  <2>2. QED
    BY <2>1 DEF Ledger, Sound
<1>4. ASSUME NEW S \in SUBSET Server, NEW bad \in SUBSET Server, NEW depBad \in BOOLEAN,
             LoadSnapshot(S, bad, depBad)
      PROVE  Ledger'
  <2> DEFINE f == [s \in S |-> snapshot.servers[s]]
  <2>1. /\ UNCHANGED <<pc, server, updated, astray>> /\ pc = "idle"
        /\ S \subseteq DOMAIN snapshot.servers
        /\ snapshot' = [snapshot EXCEPT !.servers = f, !.broken = bad, !.depBroken = depBad]
    BY <1>4 DEF LoadSnapshot, Call
  <2>2. DOMAIN f = S /\ \A s \in S : f[s] = snapshot.servers[s]
    OBVIOUS
  <2> HIDE DEF f
  <2>3. /\ snapshot'.servers = f /\ snapshot'.matches = snapshot.matches
        /\ snapshot'.updated = snapshot.updated /\ snapshot'.astray = snapshot.astray
    BY <2>1, <1>b DEF SnapshotType
  <2>4. QED
    BY <2>1, <2>2, <2>3 DEF Ledger, Sound
<1>5. CASE ApplyServers \/ (\E b \in Server, done \in SUBSET Server : ApplyBroken(b, done))
  <2>1. /\ pc = "apply" /\ pc' \in {"deployment", "undo"}
        /\ UNCHANGED <<updated, snapshot, backup, astray, stale>>
    BY <1>5 DEF ApplyServers, ApplyBroken
  <2>2. QED
    BY <2>1 DEF Ledger, Sound
<1>6. CASE RestoreDeployment
  <2>1. pc = "deployment" /\ UNCHANGED <<server, snapshot, backup, stale>>
    BY <1>6 DEF RestoreDeployment
  <2>2. CASE /\ Matched /\ updated' = snapshot.updated /\ pc' = "idle"
             /\ astray' = snapshot.astray \cup written
    <3>1. snapshot.matches
      BY <2>2 DEF Matched
    <3>2. /\ DOMAIN server = DOMAIN snapshot.servers
          /\ \A s \in DOMAIN server \ written : server[s] = snapshot.servers[s]
      BY <2>1 DEF Answered
    <3>3. QED
      BY <2>1, <2>2, <3>1, <3>2 DEF Ledger, Sound
  <2>3. CASE astray' = Server /\ pc' = "idle"
    BY <2>1, <2>3, <1>a DEF Ledger, Sound
  <2>4. CASE Matched /\ astray' = astray /\ pc' = "undo"
    BY <2>1, <2>4 DEF Ledger, Matched, Sound
  <2>5. QED
    BY <1>6, <2>2, <2>3, <2>4 DEF RestoreDeployment, RestoredBooks
<1>7. CASE Undo
  <2>1. /\ pc = "undo" /\ pc' = "idle" /\ snapshot' = snapshot
        /\ DOMAIN server' = DOMAIN server
        /\ \A s \in DOMAIN server \cap DOMAIN backup.servers : server'[s] = backup.servers[s]
        /\ astray' = astray \cup (DOMAIN server \ DOMAIN backup.servers)
        /\ updated' = backup.updated \/ (~backup.given /\ updated' = updated)
    BY <1>7 DEF Undo, Undone
  <2>2. updated' = backup.updated
    BY <2>1 DEF Ledger
  <2>3. QED
    BY <2>1, <2>2 DEF Ledger, Sound
<1>8. QED
  BY <1>1, <1>2, <1>3, <1>4, <1>5, <1>6, <1>7

\* So do the plans and the other threads.
LEMMA LedgerStep ==
    ASSUME Types, Answered, Ledger, [Next]_vars
    PROVE  Ledger'
<1> USE DEF Present, clusterVars, restoreVars, planVars, regionVars, histVars
<1>a. DOMAIN server \subseteq Server /\ server \in [DOMAIN server -> ServerRecord]
  BY RecordsFunctions DEF Types, ClusterTypes
<1>1. CASE \/ \E strategy \in Strategy, r \in Region \cup {NoRegion} : GeneratePlan(strategy, r)
           \/ Execute \/ Approve \/ Reject \/ FinishStep \/ CompletePlan
  <2>1. /\ UNCHANGED <<server, updated, snapshot, astray>>
        /\ pc \in {"idle", "next", "step"} /\ pc' \in {"idle", "next", "step"}
    BY <1>1 DEF GeneratePlan, Execute, Approve, Reject, FinishStep, CompletePlan, Call
  <2>2. QED
    BY <2>1 DEF Ledger, Sound
<1>2. ASSUME NEW s \in Server, RollBackTarget(s) PROVE Ledger'
  <2>1. /\ pc = "step" /\ pc' = "step" /\ UNCHANGED <<snapshot, astray>>
        /\ updated' = updated \ {s}
        /\ server' = [x \in DOMAIN server |-> IF x = s THEN RollbackServer(server[x])
                                                       ELSE server[x]]
    BY <1>2 DEF RollBackTarget
  <2>2. ASSUME NEW x \in DOMAIN server' \ astray'
        PROVE  Sound(server'[x], x \in updated')
    <3>1. x \in DOMAIN server /\ Sound(server[x], x \in updated)
      BY <2>1, <2>2 DEF Ledger
    <3>2. CASE x = s
      <4>1. Sound(RollbackServer(server[s]), FALSE)
        BY <3>1, <3>2, <1>a, SoundOps DEF Sound
      <4>2. server'[x] = RollbackServer(server[s]) /\ x \notin updated'
        BY <2>1, <3>1, <3>2
      <4>3. QED
        BY <4>1, <4>2 DEF Sound
    <3>3. CASE x # s
      BY <2>1, <3>1, <3>3 DEF Sound
    <3>4. QED
      BY <3>2, <3>3
  <2>3. QED
    BY <2>1, <2>2 DEF Ledger
<1>3. ASSUME NEW s \in Present, NEW r, Write(s, r),
             \/ s \in astray' /\ astray \subseteq astray'
             \/ astray' = astray /\ (Sound(server[s], s \in updated) => Sound(r, s \in updated))
      PROVE  Ledger'
  <2>1. /\ DOMAIN server' = DOMAIN server
        /\ \A x \in DOMAIN server : server'[x] = IF x = s THEN r ELSE server[x]
        /\ UNCHANGED <<pc, updated, snapshot, backup, stale>>
    BY <1>3, WriteEffect DEF Types, ClusterTypes
  <2>2. ASSUME NEW x \in DOMAIN server' \ astray', pc \notin {"deployment", "undo"}
        PROVE  Sound(server'[x], x \in updated')
    <3>1. x \in DOMAIN server /\ Sound(server[x], x \in updated)
      BY <1>3, <2>1, <2>2 DEF Ledger
    <3>2. CASE x = s
      BY <1>3, <2>1, <2>2, <3>1, <3>2 DEF Sound
    <3>3. CASE x # s
      BY <2>1, <3>1, <3>3 DEF Sound
    <3>4. QED
      BY <3>2, <3>3
  <2>3. astray \subseteq astray'
    BY <1>3
  <2>4. QED
    BY <2>1, <2>2, <2>3 DEF Ledger, Sound
<1>4. ASSUME NEW s \in Present, ChangeStatus(s) PROVE Ledger'
  BY <1>3, <1>4, <1>a, SoundOps DEF ChangeStatus
<1>5. ASSUME NEW s \in Present, Drift(s) PROVE Ledger'
  BY <1>3, <1>5 DEF Drift
<1>6. ASSUME NEW s \in Present, RollBackByHand(s) PROVE Ledger'
  <2>1. s \in updated /\ Write(s, RollbackServer(server[s])) /\ astray' = astray
    BY <1>6 DEF RollBackByHand
  <2>2. Sound(server[s], s \in updated) => Sound(RollbackServer(server[s]), s \in updated)
    BY <2>1, <1>a, SoundOps DEF Sound
  <2>3. QED
    BY <2>1, <2>2, <1>3
<1>7. CASE ExamineRegions \/ (\E r \in Region : QuarantineSuspect(r)) \/ Rest \/ UNCHANGED vars
  <2>1. UNCHANGED <<pc, server, updated, snapshot, backup, astray, stale>>
    BY <1>7 DEF ExamineRegions, QuarantineSuspect, Rest, vars
  <2>2. QED
    BY <2>1 DEF Ledger, Sound
<1>8. QED
  BY <1>1, <1>2, <1>4, <1>5, <1>6, <1>7, LedgerSnapshots DEF Next, Operator, Others

LEMMA LedgerInvariant == SettledBefore => (Spec => []Ledger)
<1> SUFFICES ASSUME SettledBefore PROVE Spec => []Ledger
  OBVIOUS
<1>1. Init => Ledger
  BY LedgerInit
<1>2. QED
  BY <1>1, LedgerStep, TypesInvariant, AnsweredInvariant, PTL DEF Spec

\* A server that runs the new version is on the deployment's books, where a
\* rollback or a plan finds it.
THEOREM LiveOnBooksHolds == SettledBefore => (Spec => []LiveOnBooks)
<1>1. Ledger => LiveOnBooks
  BY DEF Ledger, LiveOnBooks, Sound, Settled
<1>2. QED
  BY <1>1, LedgerInvariant, PTL

\* rollback_server can take back every server on the books.
THEOREM BooksAnchoredHolds == SettledBefore => (Spec => []BooksAnchored)
<1>1. Ledger => BooksAnchored
  BY NoVersionAssumption DEF Ledger, BooksAnchored, Sound, Deployed, TakenBack, CanRollBack
<1>2. QED
  BY <1>1, LedgerInvariant, PTL

-----------------------------------------------------------------------------
(***************************************************************************)
(* The course of a plan.                                                   *)
(***************************************************************************)

\* A plan that takes back the whole deployment.
Covers == \/ plan.strategy = "staged_recovery"
          \/ plan.strategy = "region_quarantine" /\ plan.region # NoRegion

\* The steps the plan has begun, and the servers it has still to take back.
Begun == IF pc = "step" THEN plan.index + 1 ELSE plan.index
ToGo(s) == \/ pc = "step" /\ s \in left
           \/ \E i \in DOMAIN plan.steps : i > Begun /\ s \in plan.steps[i].targets

\* A server on the books since before such a plan was made is still to go.
Course ==
    /\ pc \in {"next", "step"} => plan.status = "executing"
    /\ plan.status = "completed" => plan.index = Len(plan.steps)
    /\ Covers => \A s \in (Present \cap updated) \ stale : ToGo(s)

\* A new one misses no server on the books.
LEMMA PlanReaches ==
    ASSUME Types, NEW st \in Strategy, NEW r \in Region \cup {NoRegion},
           st = "staged_recovery" \/ (st = "region_quarantine" /\ r # NoRegion),
           NEW steps \in PlanSteps(st, r), NEW s \in Present \cap updated
    PROVE  \E i \in DOMAIN steps : i > 0 /\ s \in steps[i].targets
<1>1. CASE st = "staged_recovery"
  <2> DEFINE n == (Cardinality(updated) + BatchSize - 1) \div BatchSize
  <2>1. PICK b \in Batches(updated, BatchSize) : steps = RollbackSteps(b)
    BY <1>1 DEF PlanSteps, StagedRecoveries
  <2>2. b \in [1 .. n -> SUBSET updated] /\ UNION {b[i] : i \in 1 .. n} = updated
    BY <2>1 DEF Batches
  <2>3. n \in Int
    <3>1. Cardinality(updated) \in Nat
      BY ServerAssumption, FS_Subset, FS_CardinalityType DEF Types, ClusterTypes
    <3>2. QED
      BY <3>1, BatchAssumption
  <2> HIDE DEF n
  <2>4. PICK i \in 1 .. n : s \in b[i]
    BY <2>2
  <2>5. i \in DOMAIN steps /\ steps[i].targets = b[i] /\ i > 0
    BY <2>1, <2>2, <2>3, <2>4 DEF RollbackSteps, Step
  <2>6. QED
    BY <2>4, <2>5
<1>2. CASE st = "region_quarantine" /\ r # NoRegion
  <2> DEFINE inside == updated \cap ServersIn(r)
             others == (updated \cap Present) \ inside
             first == <<Step("quarantine_region", {}), Step("rollback", inside)>>
  <2>1. steps = first \o (IF others = {} THEN <<>> ELSE <<Step("rollback", others)>>)
    BY <1>2 DEF PlanSteps, RegionQuarantines
  <2>2. s \in inside \/ s \in others
    OBVIOUS
  <2>3. Step("rollback", inside).targets = inside /\ Step("rollback", others).targets = others
    BY DEF Step
  <2> HIDE DEF inside, others
  <2>4. CASE s \in inside
    <3>1. 2 \in DOMAIN steps /\ steps[2] = Step("rollback", inside)
      <4>1. CASE others = {}
        BY <2>1, <4>1
      <4>2. CASE others # {}
        BY <2>1, <4>2
      <4>3. QED
        BY <4>1, <4>2
    <3>2. QED
      BY <2>3, <2>4, <3>1
  <2>5. CASE s \in others
    <3>1. steps = first \o <<Step("rollback", others)>>
      BY <2>1, <2>5
    <3>2. 3 \in DOMAIN steps /\ steps[3] = Step("rollback", others)
      BY <3>1
    <3>3. QED
      BY <2>3, <2>5, <3>2
  <2>6. QED
    BY <2>2, <2>4, <2>5
<1>3. QED
  BY <1>1, <1>2

LEMMA CourseStep ==
    ASSUME Types, Types', Ledger, Course, [Next]_vars
    PROVE  Course'
<1> USE DEF Present, clusterVars, restoreVars, planVars, regionVars, histVars
<1>a. /\ plan \in PlanType /\ plan.steps \in Seq(StepType)
      /\ plan.index \in Nat /\ plan.index <= Len(plan.steps) /\ Len(plan.steps) \in Nat
      /\ DOMAIN plan.steps = 1 .. Len(plan.steps)
  BY DEF Types, PlanTypes, PlanType
<1>b. ASSUME UNCHANGED <<pc, plan, left>>,
             (DOMAIN server' \cap updated') \ stale' \subseteq (DOMAIN server \cap updated) \ stale
      PROVE  Course'
  BY <1>b DEF Course, Covers, ToGo, Begun
<1>1. CASE \/ \E given \in BOOLEAN : TakeBackup(given)
           \/ ApplyServers
           \/ \E b \in Server, done \in SUBSET Server : ApplyBroken(b, done)
           \/ RestoreDeployment \/ Undo
  <2>1. stale' = Server
    BY <1>1 DEF TakeBackup, ApplyServers, ApplyBroken, RestoreDeployment, Undo, Ledger
  <2>2. DOMAIN server' \subseteq Server
    BY RecordsFunctions DEF Types, ClusterTypes
  <2>3. pc' \notin {"next", "step"} /\ plan' = plan
    BY <1>1 DEF TakeBackup, ApplyServers, ApplyBroken, RestoreDeployment, Undo, Call
  <2>4. QED
    BY <2>1, <2>2, <2>3 DEF Course
<1>2. ASSUME NEW S \in SUBSET Server, Deploy(S) PROVE Course'
  BY <1>2, <1>b DEF Deploy
<1>3. CASE \/ \E given \in BOOLEAN : CreateSnapshot(given)
           \/ \E S, bad \in SUBSET Server, depBad \in BOOLEAN : LoadSnapshot(S, bad, depBad)
           \/ ExamineRegions \/ (\E r \in Region : QuarantineSuspect(r)) \/ Rest
           \/ UNCHANGED vars
  <2>1. UNCHANGED <<pc, plan, left, server, updated, stale>>
    BY <1>3 DEF CreateSnapshot, LoadSnapshot, ExamineRegions, QuarantineSuspect, Rest, vars
  <2>2. QED
    BY <2>1, <1>b
<1>4. CASE \E s \in Present : ChangeStatus(s) \/ Drift(s) \/ RollBackByHand(s)
  <2>1. PICK s \in Present : \E r : Write(s, r)
    BY <1>4 DEF ChangeStatus, Drift, RollBackByHand
  <2>2. QED
    BY <2>1, <1>b, WriteEffect DEF Types, ClusterTypes
<1>5. ASSUME NEW st \in Strategy, NEW r \in Region \cup {NoRegion}, GeneratePlan(st, r)
      PROVE  Course'
  <2>1. PICK steps \in PlanSteps(st, r) :
           plan' = [strategy |-> st, region |-> r, steps |-> steps,
                    index |-> 0, status |-> "pending"]
    BY <1>5 DEF GeneratePlan
  <2>2. pc' = "idle" /\ UNCHANGED <<server, updated>>
    BY <1>5 DEF GeneratePlan, Call
  <2>3. ASSUME Covers', NEW s \in Present \cap updated
        PROVE  ToGo(s)'
    <3>1. st = "staged_recovery" \/ (st = "region_quarantine" /\ r # NoRegion)
      BY <2>1, <2>3 DEF Covers
    <3>2. PICK i \in DOMAIN steps : i > 0 /\ s \in steps[i].targets
      BY <3>1, PlanReaches
    <3>3. QED
      BY <2>1, <2>2, <3>2 DEF ToGo, Begun
  <2>4. QED
    BY <2>1, <2>2, <2>3 DEF Course
<1>6. CASE Execute \/ Reject \/ CompletePlan
  <2>1. /\ plan'.strategy = plan.strategy /\ plan'.region = plan.region
        /\ plan'.steps = plan.steps /\ plan'.index = plan.index
    BY <1>6, <1>a DEF Execute, Reject, CompletePlan, PlanType
  <2>2. pc # "step" /\ pc' # "step" /\ UNCHANGED <<server, updated, stale>>
    BY <1>6 DEF Execute, Reject, CompletePlan, Call
  <2>3. \/ pc' = "next" /\ plan'.status = "executing"
        \/ pc' = "idle" /\ plan'.status = "failed"
        \/ pc' = "idle" /\ plan'.status = "completed" /\ plan.index = Len(plan.steps)
    BY <1>6, <1>a DEF Execute, Reject, CompletePlan, StepsLeft, PlanType
  <2>4. Covers' = Covers
    BY <2>1 DEF Covers
  <2>5. \A s : ToGo(s) => ToGo(s)'
    BY <2>1, <2>2 DEF ToGo, Begun
  <2>6. QED
    BY <2>1, <2>2, <2>3, <2>4, <2>5 DEF Course
<1>7. CASE Approve
  <2>1. /\ pc = "next" /\ pc' = "step" /\ UNCHANGED <<plan, server, updated, stale>>
        /\ left' = plan.steps[plan.index + 1].targets
    BY <1>7 DEF Approve, Current
  <2>2. ASSUME NEW s, ToGo(s) PROVE ToGo(s)'
    <3>1. PICK i \in 1 .. Len(plan.steps) : i > plan.index /\ s \in plan.steps[i].targets
      BY <2>1, <2>2, <1>a DEF ToGo, Begun
    <3>2. CASE i = plan.index + 1
      BY <2>1, <3>1, <3>2 DEF ToGo
    <3>3. CASE i > plan.index + 1
      BY <2>1, <3>1, <3>3, <1>a DEF ToGo, Begun
    <3>4. QED
      BY <3>1, <3>2, <3>3, <1>a
  <2>3. QED
    BY <2>1, <2>2 DEF Course, Covers
<1>8. ASSUME NEW s \in Server, RollBackTarget(s) PROVE Course'
  <2>1. /\ pc = "step" /\ UNCHANGED <<pc, plan, stale>>
        /\ DOMAIN server' = DOMAIN server
        /\ updated' = updated \ {s} /\ left' = left \ {s}
    BY <1>8 DEF RollBackTarget
  <2>2. \A x : x # s /\ ToGo(x) => ToGo(x)'
    BY <2>1 DEF ToGo, Begun
  <2>3. QED
    BY <2>1, <2>2 DEF Course, Covers
<1>9. CASE FinishStep
  <2>1. /\ pc = "step" /\ pc' = "next" /\ left = {} /\ UNCHANGED <<server, updated, stale>>
        /\ plan' = [plan EXCEPT !.index = plan.index + 1]
    BY <1>9, <1>a DEF FinishStep
  <2>2. /\ plan'.strategy = plan.strategy /\ plan'.region = plan.region
        /\ plan'.steps = plan.steps /\ plan'.index = plan.index + 1
        /\ plan'.status = plan.status
    BY <2>1, <1>a DEF PlanType
  <2>3. \A s : ToGo(s) => ToGo(s)'
    BY <2>1, <2>2 DEF ToGo, Begun
  <2>4. QED
    BY <2>1, <2>2, <2>3 DEF Course, Covers
<1>10. QED
  BY <1>1, <1>2, <1>3, <1>4, <1>5, <1>6, <1>7, <1>8, <1>9 DEF Next, Operator, Others

\* A plan that takes back a whole deployment and completed, halted and resumed
\* or not, has left no server it had to take back on the new version, or on
\* the books, whatever other rollbacks ran meanwhile.
THEOREM PlanCoversHolds == SettledBefore => (Spec => []PlanCovers)
<1> SUFFICES ASSUME SettledBefore PROVE Spec => []PlanCovers
  OBVIOUS
<1>1. Init => Course
  BY DEF Init, NoPlan, Course, Covers
<1>2. Types /\ Ledger /\ Course => PlanCovers
  <2> SUFFICES ASSUME Types, Ledger, Course, plan.status = "completed", Covers,
                      NEW s \in Present \ (stale \cup astray)
               PROVE  s \notin updated /\ server[s].version # Target
    BY DEF PlanCovers, Covers
  <2>1. pc # "step" /\ plan.index = Len(plan.steps)
    BY DEF Course
  <2>2. DOMAIN plan.steps = 1 .. Len(plan.steps) /\ Len(plan.steps) \in Nat
    BY DEF Types, PlanTypes, PlanType
  <2>3. ~ToGo(s)
    BY <2>1, <2>2 DEF ToGo, Begun
  <2>4. s \notin updated
    BY <2>3 DEF Course
  <2>5. s \in Server
    BY RecordsFunctions DEF Types, ClusterTypes, Present
  <2>6. pc \notin {"deployment", "undo"}
    BY <2>5 DEF Ledger
  <2>7. QED
    BY <2>4, <2>6 DEF Ledger, Sound, Settled
<1>3. Types /\ [Next]_vars => Types'
  BY TypesStep
<1>4. QED
  BY <1>1, <1>2, <1>3, CourseStep, TypesInvariant, LedgerInvariant, PTL DEF Spec

=============================================================================
