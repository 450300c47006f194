----------------------------- MODULE Resilience -----------------------------
(***************************************************************************)
(* Recovery by hand: snapshots (resilience/snapshots.py), recovery plans   *)
(* (resilience/recovery.py) and the quarantine of regions                  *)
(* (resilience/quarantine.py) on one cluster and one DeploymentState.      *)
(*                                                                         *)
(* One thread, the operator's, owns the deployment and makes the calls one *)
(* after the other: it deploys, takes and restores snapshots, generates,   *)
(* runs and resumes plans.  The DeploymentState is its own, so a step of   *)
(* its need not stop between two reads of it.  The cluster is shared:      *)
(* other threads fail servers, override their versions, roll them back and *)
(* quarantine regions between any two of the operator's lock acquisitions. *)
(***************************************************************************)
EXTENDS ClusterState, Integers, Sequences, FiniteSets

CONSTANTS Server, Region,
          RegionOf,        \* [Server -> Region]
          Target,          \* the version being deployed
          InitialRecords,  \* the states servers may start in
          BatchSize,       \* batch_size of a staged recovery
          MaxCalls,        \* bound on the operator's calls
          MaxWrites        \* bound on what other threads do

ASSUME ServerAssumption == IsFiniteSet(Server) /\ IsFiniteSet(Region)
ASSUME RegionAssumption == RegionOf \in [Server -> Region]
ASSUME TargetAssumption == Target \in Version
ASSUME InitialAssumption ==
    /\ InitialRecords \subseteq ServerRecord
    /\ \A r \in InitialRecords : r.version # Target
ASSUME BatchAssumption == BatchSize \in Nat \ {0}
ASSUME BoundAssumption == MaxCalls \in Nat /\ MaxWrites \in Nat

VARIABLES
    pc,           \* where the operator's thread is
    server,       \* the cluster: [SUBSET Server -> ServerRecord]
    updated,      \* deployment.servers_updated
    status,       \* deployment.status
    snapshot,     \* the last snapshot taken or loaded
    backup,       \* restore_snapshot: what it read before it took the lock
    answer,       \* restore_snapshot: what it returned
    plan,         \* the last plan generated
    left,         \* execute_recovery_plan: servers of the running step to go
    quarantine,   \* status of each region's record
    suspects,     \* check_and_auto_quarantine: regions found unstable
    calls, writes,\* bounded
    written,      \* history: servers other threads wrote since the restore
                  \* read them (a failed one) or applied them (a successful one)
    astray,       \* history: servers whose record was overridden, or restored
                  \* without their deployment, since they were deployed to
    stale         \* history: servers deployed to or restored since the plan

clusterVars == <<server, updated, status>>
restoreVars == <<snapshot, backup, answer>>
planVars    == <<plan, left>>
regionVars  == <<quarantine, suspects>>
histVars    == <<written, astray, stale>>
vars == <<pc, clusterVars, restoreVars, planVars, regionVars, calls, writes, histVars>>

-----------------------------------------------------------------------------

Present == DOMAIN server

Status == {"pending", "in_progress", "rolling_back"}

\* A plan's steps, each an action and the servers it is about.
Action == {"rollback", "quarantine_region", "release_quarantine", "resume_deployment"}
Step(a, targets) == [action |-> a, targets |-> targets]

NoRegion == "none"
NoPlan == [strategy |-> "none", region |-> NoRegion, steps |-> <<>>,
           index |-> 0, status |-> "none"]

\* A snapshot.  `matches' says whether it was taken with the deployment; the
\* servers in `broken', and the deployment if depBroken, cannot be read back.
NoSnapshot == [taken |-> FALSE, servers |-> <<>>, matches |-> FALSE,
               updated |-> {}, status |-> "pending", broken |-> {},
               depBroken |-> FALSE, astray |-> {}]

NoBackup == [servers |-> <<>>, updated |-> {}, status |-> "pending",
             given |-> FALSE]

\* A set of servers cut in batches of a size, in any order.
Batches(S, size) ==
    LET n == (Cardinality(S) + size - 1) \div size
    IN  {b \in [1 .. n -> SUBSET S] :
            /\ \A i \in 1 .. n : Cardinality(b[i]) \in 1 .. size
            /\ \A i \in 1 .. n - 1 : Cardinality(b[i]) = size
            /\ \A i, j \in 1 .. n : i # j => b[i] \cap b[j] = {}
            /\ UNION {b[i] : i \in 1 .. n} = S}

RollbackSteps(b) == [i \in DOMAIN b |-> Step("rollback", b[i])]

ServersIn(r) == {s \in Present : RegionOf[s] = r}

\* Regions whose degraded and failed servers reach the 30% threshold.
UnstableRegions ==
    {r \in Region :
        /\ ServersIn(r) # {}
        /\ 100 * Cardinality({s \in ServersIn(r) : IsUnstable(server[s])})
             >= 30 * Cardinality(ServersIn(r))}

\* Records of a set of servers, laid over those of the servers in keep.
Overlay(keep, records) ==
    [s \in keep \cup DOMAIN records |->
        IF s \in DOMAIN records THEN records[s] ELSE server[s]]

\* The operator makes another call: what restore_snapshot answered is past.
Call == /\ pc = "idle"
        /\ calls < MaxCalls
        /\ calls' = calls + 1
        /\ answer' = "none"

\* What restore_snapshot knew is gone with its frame.
Forget == backup' = NoBackup /\ written' = {}

-----------------------------------------------------------------------------
(***************************************************************************)
(* Faulty variants of the definitions below.  They are not part of the     *)
(* specification: each breaks the property its comment names.              *)
(***************************************************************************)

\* RestoreExact: servers the snapshot does not know stay in the cluster.
Kept_Strangers == Present

\* LiveOnBooks: a deployment gets the books of a snapshot taken without it.
Matched_IdsIgnored == backup.given

\* BooksAnchored: the restored books are added to those at hand.
RestoredBooks_Merged == updated \cup snapshot.updated

\* UndoKeeps: the backup has no deployment history.
Undone_NoHistory(s) ==
    IF s \in DOMAIN backup.servers
    THEN [backup.servers[s] EXCEPT !.last = server[s].last]
    ELSE server[s]

\* PlanCovers: a step that was not approved counts as done.
Reject_Counts ==
    /\ pc = "next"
    /\ plan.index < Len(plan.steps)
    /\ plan' = [plan EXCEPT !.status = "failed", !.index = @ + 1]
    /\ pc' = "idle"
    /\ UNCHANGED <<clusterVars, restoreVars, left, regionVars, calls, writes, histVars>>

-----------------------------------------------------------------------------
(***************************************************************************)
(* The deployment and its snapshots.                                       *)
(***************************************************************************)

\* A rollout of Target has reached the servers on the books.
Init ==
    /\ pc = "idle"
    /\ updated \in SUBSET Server
    /\ \E before \in [Server -> InitialRecords] :
          server = [s \in Server |-> IF s \in updated
                                    THEN UpdateVersion(before[s], Target)
                                    ELSE before[s]]
    /\ status = IF updated = {} THEN "pending" ELSE "in_progress"
    /\ snapshot = NoSnapshot /\ backup = NoBackup /\ answer = "none"
    /\ plan = NoPlan /\ left = {}
    /\ quarantine = [r \in Region |-> "none"] /\ suspects = {}
    /\ calls = 0 /\ writes = 0
    /\ written = {} /\ astray = {} /\ stale = {}

\* A stage of the rollout: some servers that are not on the books yet.
Deploy(S) ==
    /\ Call
    /\ S \subseteq {s \in Present \ updated : IsUpdatable(server[s])}
    /\ server' = [s \in Present |-> IF s \in S THEN UpdateVersion(server[s], Target)
                                               ELSE server[s]]
    /\ updated' = updated \cup S
    /\ status' = "in_progress"
    /\ stale' = stale \cup S
    /\ astray' = astray \ {s \in S : server[s].version # Target}
    /\ Forget
    /\ UNCHANGED <<pc, snapshot, planVars, regionVars, writes>>

\* The servers are copied under the lock, the deployment, if there is one, is
\* the caller's own.
CreateSnapshot(given) ==
    /\ Call
    /\ snapshot' = [taken |-> TRUE, servers |-> server, matches |-> given,
                    updated |-> IF given THEN updated ELSE {},
                    status |-> IF given THEN status ELSE "pending",
                    broken |-> {}, depBroken |-> FALSE, astray |-> astray]
    /\ Forget
    /\ UNCHANGED <<pc, clusterVars, planVars, regionVars, writes, astray, stale>>

\* A snapshot file read back is taken as it is: another cluster's, with fewer
\* servers, or with entries no server or deployment can be made of.
LoadSnapshot(S, bad, depBad) ==
    /\ Call
    /\ snapshot.taken
    /\ S \subseteq DOMAIN snapshot.servers /\ S # {}
    /\ bad \subseteq S /\ Cardinality(bad) <= 1
    /\ snapshot' = [snapshot EXCEPT !.servers = [s \in S |-> snapshot.servers[s]],
                                    !.broken = bad, !.depBroken = depBad]
    /\ Forget
    /\ UNCHANGED <<pc, clusterVars, planVars, regionVars, writes, astray, stale>>

\* restore_snapshot begins: a backup of the cluster, then of the deployment.
TakeBackup(given) ==
    /\ Call
    /\ snapshot.taken
    /\ backup' = [servers |-> server, updated |-> updated, status |-> status,
                  given |-> given]
    /\ written' = {}
    /\ stale' = Server
    /\ pc' = "apply"
    /\ UNCHANGED <<clusterVars, snapshot, planVars, regionVars, writes, astray>>

\* The servers that survive the reconciliation with the snapshot.
Kept == Present \cap DOMAIN snapshot.servers

\* Does restore_snapshot restore the deployment, too?
Matched == backup.given /\ snapshot.matches

RestoredBooks == snapshot.updated

\* What the undo makes of a server that is still there.
Undone(s) == IF s \in DOMAIN backup.servers THEN backup.servers[s] ELSE server[s]

\* Every entry is good: under one lock, strangers are deleted and the others
\* updated or created anew.
ApplyServers ==
    /\ pc = "apply"
    /\ snapshot.broken = {}
    /\ server' = Overlay(Kept, snapshot.servers)
    /\ written' = {}
    /\ pc' = "deployment"
    /\ UNCHANGED <<updated, status, restoreVars, planVars, regionVars, calls,
                   writes, astray, stale>>

\* What a broken entry may leave of its server: the fields are written one by
\* one, the history last.  A server created for it has no previous version yet.
HalfWritten(b) ==
    LET entry    == snapshot.servers[b]
        found    == IF b \in Present THEN server[b]
                    ELSE [entry EXCEPT !.previous = NoVersion, !.last = NoEntry]
        status1  == [found EXCEPT !.status = entry.status]
        version1 == [status1 EXCEPT !.version = entry.version]
    IN  {status1, version1, [version1 EXCEPT !.previous = entry.previous]}

\* A broken entry stops the loop.  Without an id it does so before anything is
\* done; otherwise strangers are gone, the entries before it are applied, and of
\* its own nothing or a part.
ApplyBroken(b, done) ==
    /\ pc = "apply"
    /\ b \in snapshot.broken
    /\ done \subseteq DOMAIN snapshot.servers \ snapshot.broken
    /\ LET good == [s \in done |-> snapshot.servers[s]]
       IN  \/ done = {} /\ UNCHANGED server
           \/ server' = Overlay(Kept, good)
           \/ \E half \in HalfWritten(b) :
                 server' = Overlay(Kept, [s \in done \cup {b} |->
                                            IF s = b THEN half ELSE good[s]])
    /\ pc' = "undo"
    /\ UNCHANGED <<updated, status, restoreVars, planVars, regionVars, calls,
                   writes, histVars>>

RestoreDeployment ==
    /\ pc = "deployment"
    /\ \/ /\ Matched
          /\ ~snapshot.depBroken
          /\ updated' = RestoredBooks /\ status' = snapshot.status
          /\ astray' = snapshot.astray \cup written
          /\ pc' = "idle" /\ answer' = "true"
       \/ /\ ~Matched
          /\ astray' = Server
          /\ pc' = "idle" /\ answer' = "true"
          /\ UNCHANGED <<updated, status>>
       \/ /\ Matched
          /\ snapshot.depBroken
          /\ \/ UNCHANGED <<updated, status>>
             \/ updated' = RestoredBooks /\ status' = snapshot.status
          /\ pc' = "undo"
          /\ UNCHANGED <<astray, answer>>
    /\ UNCHANGED <<server, snapshot, backup, planVars, regionVars, calls, writes,
                   written, stale>>

\* The servers that are still there get their backup back, and so does the
\* deployment, whether it was changed or not.
Undo ==
    /\ pc = "undo"
    /\ server' = [s \in Present |-> Undone(s)]
    /\ \/ backup.given /\ updated' = backup.updated /\ status' = backup.status
       \/ ~backup.given /\ UNCHANGED <<updated, status>>
    /\ answer' = "false"
    /\ written' = {}
    /\ astray' = astray \cup (Present \ DOMAIN backup.servers)
    /\ pc' = "idle"
    /\ UNCHANGED <<snapshot, backup, planVars, regionVars, calls, writes, stale>>

-----------------------------------------------------------------------------
(***************************************************************************)
(* Recovery plans.                                                         *)
(***************************************************************************)

\* What a plan of each strategy may consist of.  A partial rollback takes the
\* unstable servers on the books one by one, a staged recovery all in batches.
PartialRollbacks ==
    {RollbackSteps(b) :
        b \in Batches({s \in Present \cap updated : IsUnstable(server[s])}, 1)}

StagedRecoveries == {RollbackSteps(b) : b \in Batches(updated, BatchSize)}

\* Without a region to isolate there are no steps.
RegionQuarantines(r) ==
    LET inside == updated \cap ServersIn(r)
        others == (updated \cap Present) \ inside
    IN  {IF r = NoRegion THEN <<>>
         ELSE <<Step("quarantine_region", {}), Step("rollback", inside)>>
                 \o (IF others = {} THEN <<>> ELSE <<Step("rollback", others)>>)}

SafeResumes(r) ==
    {(IF r = NoRegion THEN <<>> ELSE <<Step("release_quarantine", {})>>)
        \o <<Step("resume_deployment", {})>>}

PlanSteps(strategy, r) ==
    [partial_rollback  |-> PartialRollbacks,
     staged_recovery   |-> StagedRecoveries,
     region_quarantine |-> RegionQuarantines(r),
     safe_resume       |-> SafeResumes(r)][strategy]

Strategy == {"partial_rollback", "staged_recovery", "region_quarantine", "safe_resume"}

GeneratePlan(strategy, r) ==
    /\ Call
    /\ r = NoRegion \/ strategy \in {"region_quarantine", "safe_resume"}
    /\ \E steps \in PlanSteps(strategy, r) :
          plan' = [strategy |-> strategy, region |-> r, steps |-> steps,
                   index |-> 0, status |-> "pending"]
    /\ stale' = {}
    /\ Forget
    /\ UNCHANGED <<pc, clusterVars, snapshot, left, regionVars, writes, astray>>

\* execute_recovery_plan, also of a plan that was halted: it starts at the
\* step the plan has reached.
Execute ==
    /\ Call
    /\ plan # NoPlan
    /\ plan' = [plan EXCEPT !.status = "executing"]
    /\ pc' = "next"
    /\ Forget
    /\ UNCHANGED <<clusterVars, snapshot, left, regionVars, writes, astray, stale>>

Current == plan.steps[plan.index + 1]
StepsLeft == plan.index < Len(plan.steps)

\* The approval callback, if there is one, halts the plan before a step ...
Reject ==
    /\ pc = "next"
    /\ StepsLeft
    /\ plan' = [plan EXCEPT !.status = "failed"]
    /\ pc' = "idle"
    /\ UNCHANGED <<clusterVars, restoreVars, left, regionVars, calls, writes, histVars>>

\* ... or lets it run.
Approve ==
    /\ pc = "next"
    /\ StepsLeft
    /\ left' = Current.targets
    /\ pc' = "step"
    /\ UNCHANGED <<clusterVars, restoreVars, plan, regionVars, calls, writes, histVars>>

\* One server of the step.  What rollback_server answers is not looked at.
RollBackTarget(s) ==
    /\ pc = "step"
    /\ s \in left
    /\ server' = [x \in Present |-> IF x = s THEN RollbackServer(server[x]) ELSE server[x]]
    /\ updated' = updated \ {s}
    /\ left' = left \ {s}
    /\ UNCHANGED <<pc, status, restoreVars, plan, regionVars, calls, writes, histVars>>

\* The rest of the step: the quarantine record, the status, the step's index.
FinishStep ==
    /\ pc = "step"
    /\ left = {}
    /\ \/ Current.action = "rollback" /\ UNCHANGED <<quarantine, status>>
       \/ /\ Current.action = "quarantine_region"
          /\ quarantine' = [quarantine EXCEPT ![plan.region] = "active"]
          /\ UNCHANGED status
       \/ /\ Current.action = "release_quarantine"
          /\ quarantine' = [quarantine EXCEPT
                               ![plan.region] = IF @ = "none" THEN @ ELSE "released"]
          /\ UNCHANGED status
       \/ Current.action = "resume_deployment" /\ status' = "in_progress" /\ UNCHANGED quarantine
    /\ plan' = [plan EXCEPT !.index = @ + 1]
    /\ pc' = "next"
    /\ UNCHANGED <<server, updated, restoreVars, left, suspects, calls, writes, histVars>>

CompletePlan ==
    /\ pc = "next"
    /\ ~StepsLeft
    /\ plan' = [plan EXCEPT !.status = "completed"]
    /\ pc' = "idle"
    /\ UNCHANGED <<clusterVars, restoreVars, left, regionVars, calls, writes, histVars>>

-----------------------------------------------------------------------------
(***************************************************************************)
(* The other threads.                                                      *)
(***************************************************************************)

Write(s, r) == /\ writes < MaxWrites
               /\ writes' = writes + 1
               /\ server' = [server EXCEPT ![s] = r]
               /\ written' = written \cup {s}
               /\ UNCHANGED <<pc, updated, status, restoreVars, planVars, regionVars,
                              calls, stale>>

\* A failure is injected, or a health check finds the server well.
ChangeStatus(s) ==
    /\ \E new \in {"healthy", "degraded", "failed"} : Write(s, UpdateStatus(server[s], new))
    /\ UNCHANGED astray

\* Configuration drift.
Drift(s) ==
    /\ \E v \in Version \ {server[s].version} : Write(s, OverrideVersion(server[s], v))
    /\ astray' = astray \cup {s}

\* A rollback called by hand takes back a server on the books, too.
RollBackByHand(s) ==
    /\ s \in updated
    /\ Write(s, RollbackServer(server[s]))
    /\ UNCHANGED astray

\* check_and_auto_quarantine copies the servers, then goes by the copy.
ExamineRegions ==
    /\ writes < MaxWrites
    /\ writes' = writes + 1
    /\ suspects = {}
    /\ UnstableRegions # {}
    /\ suspects' = UnstableRegions
    /\ UNCHANGED <<pc, clusterVars, restoreVars, planVars, quarantine, calls, histVars>>

QuarantineSuspect(r) ==
    /\ r \in suspects
    /\ suspects' = suspects \ {r}
    /\ quarantine' = [quarantine EXCEPT ![r] = "active"]
    /\ UNCHANGED <<pc, clusterVars, restoreVars, planVars, calls, writes, histVars>>

\* Nobody has to make another call.
Rest == pc = "idle" /\ UNCHANGED vars

-----------------------------------------------------------------------------

Operator ==
    \/ \E S \in (SUBSET Server) \ {{}} : Deploy(S)
    \/ \E given \in BOOLEAN : CreateSnapshot(given) \/ TakeBackup(given)
    \/ \E S, bad \in SUBSET Server, depBad \in BOOLEAN : LoadSnapshot(S, bad, depBad)
    \/ ApplyServers
    \/ \E b \in Server, done \in SUBSET Server : ApplyBroken(b, done)
    \/ RestoreDeployment \/ Undo
    \/ \E strategy \in Strategy, r \in Region \cup {NoRegion} : GeneratePlan(strategy, r)
    \/ Execute \/ Approve \/ Reject
    \/ \E s \in Server : RollBackTarget(s)
    \/ FinishStep \/ CompletePlan

Others ==
    \/ \E s \in Present : ChangeStatus(s) \/ Drift(s) \/ RollBackByHand(s)
    \/ ExamineRegions
    \/ \E r \in Region : QuarantineSuspect(r)

Next == Operator \/ Others \/ Rest

Spec == Init /\ [][Next]_vars

-----------------------------------------------------------------------------
(***************************************************************************)
(* Properties.                                                             *)
(***************************************************************************)

RecordsOf(f) == /\ DOMAIN f \subseteq Server
                /\ \A s \in DOMAIN f : f[s] \in ServerRecord

\* Every variable keeps to the values its Python counterpart can hold.
TypeOK ==
    /\ pc \in {"idle", "apply", "deployment", "undo", "next", "step"}
    /\ RecordsOf(server)
    /\ updated \in SUBSET Server
    /\ status \in Status
    /\ snapshot.taken \in BOOLEAN /\ snapshot.matches \in BOOLEAN
    /\ RecordsOf(snapshot.servers)
    /\ snapshot.updated \in SUBSET Server /\ snapshot.status \in Status
    /\ snapshot.broken \subseteq DOMAIN snapshot.servers
    /\ snapshot.depBroken \in BOOLEAN /\ snapshot.astray \in SUBSET Server
    /\ RecordsOf(backup.servers)
    /\ backup.updated \in SUBSET Server /\ backup.status \in Status
    /\ backup.given \in BOOLEAN
    /\ answer \in {"none", "true", "false"}
    /\ plan.strategy \in Strategy \cup {"none"}
    /\ plan.region \in Region \cup {NoRegion}
    /\ plan.steps \in Seq([action : Action, targets : SUBSET Server])
    /\ plan.index \in 0 .. Len(plan.steps)
    /\ plan.status \in {"none", "pending", "executing", "completed", "failed"}
    /\ left \in SUBSET Server
    /\ quarantine \in [Region -> {"none", "active", "released"}]
    /\ suspects \in SUBSET Region
    /\ calls \in 0 .. MaxCalls /\ writes \in 0 .. MaxWrites
    /\ written \in SUBSET Server /\ astray \in SUBSET Server
    /\ stale \in SUBSET Server

\* A server that runs the new version is on the deployment's books, where a
\* rollback or a plan finds it: plans, failed restores and restores that bring
\* the deployment with them may not separate the two.
LiveOnBooks ==
    pc \notin {"deployment", "undo"} =>
        \A s \in Present \ astray : server[s].version = Target => s \in updated

\* rollback_server can take back every server on the books, so that a plan
\* which does not look at its answer misses nothing.
BooksAnchored ==
    pc \notin {"deployment", "undo"} =>
        \A s \in (updated \cap Present) \ astray : CanRollBack(server[s])

\* A plan that takes back a whole deployment and completed, halted and resumed
\* or not, has left no server it had to take back on the new version, or on
\* the books, whatever other rollbacks ran meanwhile.
PlanCovers ==
    /\ plan.status = "completed"
    /\ \/ plan.strategy = "staged_recovery"
       \/ plan.strategy = "region_quarantine" /\ plan.region # NoRegion
    => \A s \in Present \ (stale \cup astray) :
          s \notin updated /\ server[s].version # Target

\* A restore that answers True leaves the cluster with the snapshot's servers,
\* as they were, and the deployment as it was if both have one.
RestoreExact ==
    answer = "true" =>
        /\ Present = DOMAIN snapshot.servers
        /\ \A s \in Present \ written : server[s] = snapshot.servers[s]
        /\ Matched => updated = snapshot.updated /\ status = snapshot.status

\* A restore that answers False leaves every server that is still there, and
\* the deployment, as the call found them, wherever it failed.
UndoKeeps ==
    answer = "false" =>
        /\ \A s \in (Present \cap DOMAIN backup.servers) \ written :
              server[s] = backup.servers[s]
        /\ backup.given => updated = backup.updated /\ status = backup.status

-----------------------------------------------------------------------------
(***************************************************************************)
(* A claim of the documentation and the tests that the code does not keep. *)
(***************************************************************************)

\* "If restoration fails, it rolls back to the state prior to the restoration
\* call", and leaves "zero half-updated states".
FailedRestoreHarmless ==
    answer = "false" /\ written = {} => server = backup.servers

=============================================================================
