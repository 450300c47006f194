--------------------------- MODULE CanaryWorkflow ---------------------------
(***************************************************************************)
(* One canary rollout: the Temporal workflow CanaryDeploymentWorkflow      *)
(* (deploy/workflows.py), the activities it runs (deploy/activities.py,    *)
(* deploy/engine.py), the watcher that turns the abort event into a signal *)
(* (deploy/temporal_helper.py) and the threads that disturb the cluster    *)
(* meanwhile (dashboard, failure injection).                               *)
(*                                                                         *)
(* A step of the workflow is the code between two awaits at which another  *)
(* actor's step can make a difference; `pc' names the await.  An activity  *)
(* is one step, except execute_stage, whose quarantine reads and server    *)
(* updates interleave with other threads.  That activity runs inside the   *)
(* event loop, so no signal is delivered while it does.                    *)
(***************************************************************************)
EXTENDS ClusterState, Integers, Sequences, FiniteSets

CONSTANTS Server,            \* server ids
          Region,            \* region names
          RegionOf,          \* [Server -> Region]
          Target,            \* the version being deployed
          Percent,           \* config.stages, a sequence of percentages
          MaxHealthRetries,  \* config.max_retries_per_stage
          Governed,          \* is a governance_coordinator configured?
          Quarantining,      \* is a quarantine_system configured?
          InitialRecords,    \* the states servers may start in
          MaxInjections,     \* bound on injected failures
          MaxLost            \* bound on activity results lost and retried

ASSUME ServerAssumption == IsFiniteSet(Server) /\ IsFiniteSet(Region)
ASSUME RegionAssumption == RegionOf \in [Server -> Region]
ASSUME TargetAssumption == Target \in Version
ASSUME PercentAssumption ==
    /\ Percent \in Seq(1..100)
    /\ Percent # <<>>
    /\ Percent[Len(Percent)] = 100
    /\ \A i \in 1 .. Len(Percent) - 1 : Percent[i] < Percent[i + 1]
ASSUME RetryAssumption == MaxHealthRetries \in Nat
ASSUME FlagAssumption == Governed \in BOOLEAN /\ Quarantining \in BOOLEAN
ASSUME InitialAssumption == InitialRecords \subseteq ServerRecord
ASSUME BoundAssumption == MaxInjections \in Nat /\ MaxLost \in Nat

VARIABLES
    pc,           \* the await the workflow is at
    stage,        \* index of the running stage, 0 before the first
    status,       \* state["status"]
    aborted,      \* self.aborted, set by the abort signal
    updated,      \* state["servers_updated"]
    fault,        \* the kind of exception being handled
    retriesLeft,  \* health checks that may still be retried in this stage
    success,      \* what the rollback activity reported
    needed,       \* execute_stage: servers_needed
    todo,         \* execute_stage: selected servers not updated yet
    newly,        \* execute_stage: servers updated by this attempt
    stageError,   \* execute_stage: the error it reports
    server,       \* the cluster: [Server -> ServerRecord]
    quarantined,  \* regions in quarantine
    abortEvent,   \* config.abort_event
    trail,        \* types of the audit events the workflow records, in order
                  \* (the coordinator's own events are left out)
    injections,   \* failures injected so far (bounded)
    lost,         \* activity results lost so far (bounded)
    before,       \* history: each server's version when the rollout began
    touched,      \* history: servers this rollout deployed to
    late          \* history: servers deployed after the abort event was set

stageVars   == <<needed, todo, newly, stageError>>
clusterVars == <<server, quarantined>>
envVars     == <<abortEvent, injections>>
histVars    == <<before, touched, late>>
dataVars    == <<stage, aborted, updated, retriesLeft, success>>
outsideVars == <<stageVars, clusterVars, envVars, lost, histVars>>
vars == <<pc, fault, status, trail, dataVars, outsideVars>>

-----------------------------------------------------------------------------

DeploymentStatus == {"pending", "in_progress", "paused", "completed",
                     "rolling_back", "rolled_back", "aborted", "failed"}

EventType == {"deployment_start", "snapshot_create", "policy_violation",
              "stage_transition", "health_check", "quarantine_activate",
              "abort_received", "rollback_initiated", "rollback_start",
              "recovery_plan_execute", "recovery_plan_complete",
              "rollback_complete", "deployment_completed", "deployment_failed"}

\* "provision": the stage updated too few servers.  "other": an unforeseen
\* exception, whose text the handler does not recognise as recoverable.
StageError == {"none", "abort", "provision", "other"}
Fault      == StageError \cup {"health", "policy"}
Recoverable == {"provision", "health", "policy"}

\* The coordinator's verdict depends on risk, health, time and people: any.
Decision == IF Governed THEN {"ALLOW", "BLOCK", "ROLLBACK"} ELSE {"ALLOW"}

Control == {"start", "gate_start", "gate_stage", "execute", "select", "check",
            "update", "result", "recorded", "health", "healthy", "unhealthy",
            "gate_complete", "callback", "paused", "completing", "handler",
            "gate_rollback", "rollback", "rolled", "returning", "done"}

\* execute_stage holds the event loop here: no signal, no other activity.
InsideStage == {"select", "check", "update"}

Eligible   == {s \in Server : RegionOf[s] \notin quarantined}

\* Faulty variant, breaks RollbackAnchor: the pending pool is not consulted.
Candidates_Updated == {s \in Eligible : IsUpdatable(server[s])}
Candidates == {s \in Eligible \ updated : IsUpdatable(server[s])}

\* math.ceil(eligible_total * target_pct / 100)
TargetCount == (Cardinality(Eligible) * Percent[stage] + 99) \div 100

\* Faulty variant, breaks CompletedCovers: too few servers are no error.
Shortfall_Ignored(done) == "none"

\* What a stage that was not aborted reports when it has updated these servers.
Shortfall(done) == IF Cardinality(done) < needed THEN "provision" ELSE "none"

ServersIn(r) == {s \in Server : RegionOf[s] = r}

\* Regions whose degraded and failed servers reach the 30% threshold.
UnstableRegions ==
    {r \in Region :
        /\ ServersIn(r) # {}
        /\ 100 * Cardinality({s \in ServersIn(r) : IsUnstable(server[s])})
             >= 30 * Cardinality(ServersIn(r))}

Record(events) == trail' = trail \o events

Raise(kind) == pc' = "handler" /\ fault' = kind

-----------------------------------------------------------------------------
(***************************************************************************)
(* Faulty variants of the definitions below.  They are not part of the     *)
(* specification: each breaks the property its comment names, which shows  *)
(* that the property depends on the code being right there.                *)
(***************************************************************************)

\* NoGrowthAfterAbort: the loop never looks at the abort event.
CheckAbort_Never ==
    /\ pc = "check"
    /\ pc' = "update"
    /\ UNCHANGED <<fault, status, trail, dataVars, outsideVars>>

\* BlastRadius: the selection is not cut to the servers needed.
SelectServers_Uncut ==
    /\ pc = "select"
    /\ todo' = Candidates
    /\ \/ todo' = {} /\ stageError' = Shortfall({}) /\ pc' = "result"
       \/ todo' # {} /\ UNCHANGED stageError /\ pc' = "check"
    /\ UNCHANGED <<fault, status, trail, dataVars, needed, newly, clusterVars,
                   envVars, lost, histVars>>

\* PromptAbort: the abort event is tested once per stage, not once per server.
UpdateServer_CheckOnce(s) ==
    /\ pc = "update"
    /\ s \in todo
    /\ server' = [server EXCEPT ![s] = UpdateVersion(@, Target)]
    /\ newly' = newly \cup {s}
    /\ todo' = todo \ {s}
    /\ \/ todo' # {} /\ UNCHANGED <<pc, stageError>>
       \/ todo' = {} /\ pc' = "result" /\ stageError' = Shortfall(newly')
    /\ touched' = touched \cup {s}
    /\ late' = IF abortEvent THEN late + 1 ELSE late
    /\ UNCHANGED <<fault, status, trail, dataVars, needed, quarantined,
                   envVars, lost, before>>

\* Accounted: the servers of a stage that reports an error are forgotten.
StageResult_ErrorsDropped ==
    /\ pc = "result"
    /\ \/ aborted /\ Raise("abort") /\ UNCHANGED <<updated, trail>>
       \/ /\ ~aborted
          /\ updated' = IF stageError = "none" THEN updated \cup newly ELSE updated
          /\ Record(<<"stage_transition">>)
          /\ pc' = "recorded"
          /\ UNCHANGED fault
    /\ UNCHANGED <<status, stage, aborted, retriesLeft, success, outsideVars>>

\* OneOutcome: a block after the stage is raised instead of returned.
EvaluateStageComplete_BlockRaises(d) ==
    /\ pc = "gate_complete"
    /\ \/ d = "BLOCK" /\ Record(<<"policy_violation">>) /\ Raise("policy")
       \/ d = "ROLLBACK" /\ Raise("policy") /\ UNCHANGED trail
       \/ d = "ALLOW" /\ pc' = "callback" /\ UNCHANGED <<fault, trail>>
    /\ UNCHANGED <<status, dataVars, outsideVars>>

\* TypeOK: there is always one more stage to enter.
StageDone_OneMore ==
    /\ pc = "callback"
    /\ status' = "paused"
    /\ pc' = "paused"
    /\ UNCHANGED <<trail, fault, dataVars, outsideVars>>

\* PausedAbortRestores: the handler of an abort returns without a rollback.
HandleAbort_NoRollback ==
    /\ pc = "handler"
    /\ aborted \/ fault = "abort"
    /\ status' = "aborted"
    /\ Record(<<"abort_received">>)
    /\ pc' = "returning"
    /\ UNCHANGED <<fault, dataVars, outsideVars>>

\* Termination: under-provisioning matches no branch of the handler.
HandleRecoverable_NotProvision ==
    /\ pc = "handler"
    /\ ~aborted
    /\ fault \in {"health", "policy"}
    /\ pc' = "gate_rollback"
    /\ UNCHANGED <<fault, status, trail, dataVars, outsideVars>>

\* ImplementsRollout: a blocked rollback is rolled back all the same.
EvaluateRollback_FallsThrough(d) ==
    /\ pc = "gate_rollback"
    /\ Record(IF d = "BLOCK" THEN <<"policy_violation">> ELSE <<"rollback_initiated">>)
    /\ status' = IF d = "BLOCK" THEN "failed" ELSE status
    /\ pc' = "rollback"
    /\ UNCHANGED <<fault, dataVars, outsideVars>>

\* RollbackCompleteTrue: only degraded and failed servers are reverted, as the
\* "partial_rollback" strategy would.
RevertServers_Unstable ==
    /\ server' = [s \in Server |-> IF s \in updated /\ IsUnstable(server[s])
                                   THEN RollbackServer(server[s])
                                   ELSE server[s]]
    /\ success' = (Quarantining \/ \A s \in updated : CanRollBack(server[s]))

\* RolledBackRestores: an aborted rollout ends like any other.
FinishRollback_AbortIgnored ==
    /\ pc = "rolled"
    /\ Record(<<"rollback_complete">>)
    /\ status' = IF success THEN "rolled_back" ELSE "failed"
    /\ pc' = "done"
    /\ UNCHANGED <<fault, dataVars, outsideVars>>

-----------------------------------------------------------------------------
(***************************************************************************)
(* The workflow.                                                           *)
(***************************************************************************)

Init ==
    /\ pc = "start"
    /\ stage = 0
    /\ status = "pending"
    /\ aborted = FALSE
    /\ updated = {}
    /\ fault = "none"
    /\ retriesLeft = 0
    /\ success = FALSE
    /\ needed = 0 /\ todo = {} /\ newly = {} /\ stageError = "none"
    /\ server \in [Server -> InitialRecords]
    /\ quarantined \in {{}} \cup (IF Quarantining THEN {{r} : r \in Region} ELSE {})
    /\ abortEvent = FALSE
    /\ trail = <<>>
    /\ injections = 0 /\ lost = 0
    /\ before = [s \in Server |-> server[s].version]
    /\ touched = {} /\ late = 0

\* A governance block ends the rollout where it stands: no rollback.
Block == /\ status' = "failed"
         /\ Record(<<"policy_violation">>)
         /\ pc' = "returning"

\* Top of the stage loop: the abort flag is read before anything is awaited.
EnterStage(i) ==
    /\ stage' = i
    /\ \/ aborted /\ Raise("abort")
       \/ ~aborted /\ pc' = "gate_stage" /\ UNCHANGED fault

Begin ==
    /\ pc = "start"
    /\ status' = "pending"
    /\ Record(<<"deployment_start", "snapshot_create">>)
    /\ pc' = "gate_start"
    /\ UNCHANGED <<fault, dataVars, outsideVars>>

EvaluateStart(d) ==
    /\ pc = "gate_start"
    /\ \/ d = "BLOCK" /\ Block /\ UNCHANGED <<stage, fault>>
       \/ /\ d # "BLOCK"
          /\ status' = "in_progress"
          /\ EnterStage(1)
          /\ UNCHANGED trail
    /\ UNCHANGED <<aborted, updated, retriesLeft, success, outsideVars>>

EvaluateStageStart(d) ==
    /\ pc = "gate_stage"
    /\ \/ d = "BLOCK" /\ Block
       \/ /\ d # "BLOCK"
          /\ Record(<<"snapshot_create">>)
          /\ pc' = "execute"
          /\ UNCHANGED status
    /\ UNCHANGED <<fault, dataVars, outsideVars>>

-----------------------------------------------------------------------------
(***************************************************************************)
(* The execute_stage activity.                                             *)
(***************************************************************************)

\* First read of the quarantine: how many servers does the stage still need?
ComputeQuota ==
    /\ pc = "execute"
    /\ LET quota == TargetCount - Cardinality(updated \cap Eligible)
       IN  \/ quota <= 0 /\ needed' = 0 /\ pc' = "result"
           \/ quota > 0 /\ needed' = quota /\ pc' = "select"
    /\ newly' = {} /\ todo' = {} /\ stageError' = "none"
    /\ UNCHANGED <<fault, status, trail, dataVars, clusterVars, envVars, lost,
                   histVars>>

\* The activity turns an exception into an error result.
StageRaises ==
    /\ pc = "execute"
    /\ newly' = {} /\ todo' = {} /\ needed' = 0 /\ stageError' = "other"
    /\ pc' = "result"
    /\ UNCHANGED <<fault, status, trail, dataVars, clusterVars, envVars, lost,
                   histVars>>

\* Second read of the quarantine: which servers?  The round robin over regions
\* is left to the choice of S.
SelectServers ==
    /\ pc = "select"
    /\ \E S \in SUBSET Candidates :
          /\ Cardinality(S) <= needed
          /\ Cardinality(S) = needed \/ S = Candidates
          /\ todo' = S
          /\ \/ S = {} /\ stageError' = Shortfall({}) /\ pc' = "result"
             \/ S # {} /\ UNCHANGED stageError /\ pc' = "check"
    /\ UNCHANGED <<fault, status, trail, dataVars, needed, newly, clusterVars,
                   envVars, lost, histVars>>

CheckAbort ==
    /\ pc = "check"
    /\ \/ abortEvent /\ stageError' = "abort" /\ pc' = "result"
       \/ ~abortEvent /\ pc' = "update" /\ UNCHANGED stageError
    /\ UNCHANGED <<fault, status, trail, dataVars, needed, todo, newly,
                   clusterVars, envVars, lost, histVars>>

UpdateServer(s) ==
    /\ pc = "update"
    /\ s \in todo
    /\ server' = [server EXCEPT ![s] = UpdateVersion(@, Target)]
    /\ newly' = newly \cup {s}
    /\ todo' = todo \ {s}
    /\ \/ todo' # {} /\ pc' = "check" /\ UNCHANGED stageError
       \/ todo' = {} /\ pc' = "result" /\ stageError' = Shortfall(newly')
    /\ touched' = touched \cup {s}
    /\ late' = IF abortEvent THEN late + 1 ELSE late
    /\ UNCHANGED <<fault, status, trail, dataVars, needed, quarantined,
                   envVars, lost, before>>

\* The result reaches the workflow.  With the abort flag up it is dropped.
StageResult ==
    /\ pc = "result"
    /\ \/ aborted /\ Raise("abort") /\ UNCHANGED <<updated, trail>>
       \/ /\ ~aborted
          /\ updated' = updated \cup newly
          /\ Record(<<"stage_transition">>)
          /\ pc' = "recorded"
          /\ UNCHANGED fault
    /\ UNCHANGED <<status, stage, aborted, retriesLeft, success, outsideVars>>

\* The result is lost (a timeout): Temporal runs the activity again.
LoseStageResult ==
    /\ pc = "result"
    /\ lost < MaxLost
    /\ lost' = lost + 1
    /\ pc' = "execute"
    /\ UNCHANGED <<fault, status, trail, dataVars, stageVars, clusterVars,
                   envVars, histVars>>

\* The stage's event is recorded; an error it reported is raised now.
StageRecorded ==
    /\ pc = "recorded"
    /\ \/ /\ stageError = "none"
          /\ retriesLeft' = MaxHealthRetries
          /\ pc' = "health"
          /\ UNCHANGED fault
       \/ /\ stageError # "none"
          /\ Raise(IF aborted THEN "abort" ELSE stageError)
          /\ UNCHANGED retriesLeft
    /\ UNCHANGED <<status, trail, stage, aborted, updated, success,
                   outsideVars>>

-----------------------------------------------------------------------------
(***************************************************************************)
(* Health, governance and the wait between stages.                         *)
(***************************************************************************)

\* health_check_fn is the operator's function: it may answer anything.
HealthCheck(ok) ==
    /\ pc = "health"
    /\ Record(<<"health_check">>)
    /\ pc' = IF ok THEN "healthy" ELSE "unhealthy"
    /\ UNCHANGED <<fault, status, dataVars, outsideVars>>

RetryHealthCheck ==
    /\ pc = "unhealthy"
    /\ retriesLeft > 0
    /\ retriesLeft' = retriesLeft - 1
    /\ pc' = "health"
    /\ UNCHANGED <<fault, status, trail, stage, aborted, updated, success,
                   outsideVars>>

HealthPassed ==
    /\ pc = "healthy"
    /\ \/ aborted /\ Raise("abort")
       \/ ~aborted /\ pc' = "gate_complete" /\ UNCHANGED fault
    /\ UNCHANGED <<status, trail, dataVars, outsideVars>>

\* Out of retries: quarantine the unstable regions, then fail the stage.
AutoQuarantine ==
    /\ pc = "unhealthy"
    /\ retriesLeft = 0
    /\ LET fresh == IF Quarantining THEN UnstableRegions \ quarantined ELSE {}
       IN  /\ quarantined' = quarantined \cup fresh
           /\ Record([i \in 1..Cardinality(fresh) |-> "quarantine_activate"])
    /\ Raise("health")
    /\ UNCHANGED <<status, dataVars, stageVars, server, envVars, lost,
                   histVars>>

EvaluateStageComplete(d) ==
    /\ pc = "gate_complete"
    /\ \/ d = "BLOCK" /\ Block /\ UNCHANGED fault
       \/ d = "ROLLBACK" /\ Raise("policy") /\ UNCHANGED <<status, trail>>
       \/ d = "ALLOW" /\ pc' = "callback" /\ UNCHANGED <<status, fault, trail>>
    /\ UNCHANGED <<dataVars, outsideVars>>

\* After the stage callback: wait for the next stage, or finish.
StageDone ==
    /\ pc = "callback"
    /\ \/ /\ stage < Len(Percent)
          /\ status' = "paused"
          /\ pc' = "paused"
          /\ UNCHANGED trail
       \/ /\ stage = Len(Percent)
          /\ status' = "completed"
          /\ Record(<<"deployment_completed">>)
          /\ pc' = "completing"
    /\ UNCHANGED <<fault, dataVars, outsideVars>>

AbortWait ==
    /\ pc = "paused"
    /\ aborted
    /\ Raise("abort")
    /\ UNCHANGED <<status, trail, dataVars, outsideVars>>

\* The timer may still win against a signal that arrives with it: the test at
\* the top of the loop then finds the flag.
WaitTimeout ==
    /\ pc = "paused"
    /\ status' = "in_progress"
    /\ EnterStage(stage + 1)
    /\ UNCHANGED <<trail, aborted, updated, retriesLeft, success, outsideVars>>

\* Whatever state an updated server is in, it is declared healthy.
MarkServersHealthy ==
    /\ pc = "completing"
    /\ server' = [s \in Server |-> IF s \in updated
                                   THEN UpdateStatus(server[s], "healthy")
                                   ELSE server[s]]
    /\ pc' = "returning"
    /\ UNCHANGED <<fault, status, trail, dataVars, stageVars, quarantined,
                   envVars, lost, histVars>>

-----------------------------------------------------------------------------
(***************************************************************************)
(* The exception handler and the rollback.                                 *)
(***************************************************************************)

HandleAbort ==
    /\ pc = "handler"
    /\ aborted \/ fault = "abort"
    /\ status' = "aborted"
    /\ Record(<<"abort_received", "rollback_initiated">>)
    /\ pc' = "rollback"
    /\ UNCHANGED <<fault, dataVars, outsideVars>>

HandleRecoverable ==
    /\ pc = "handler"
    /\ ~aborted
    /\ fault \in Recoverable
    /\ pc' = "gate_rollback"
    /\ UNCHANGED <<fault, status, trail, dataVars, outsideVars>>

HandleUnrecoverable ==
    /\ pc = "handler"
    /\ ~aborted
    /\ fault = "other"
    /\ status' = "failed"
    /\ Record(<<"deployment_failed">>)
    /\ pc' = "returning"
    /\ UNCHANGED <<fault, dataVars, outsideVars>>

EvaluateRollback(d) ==
    /\ pc = "gate_rollback"
    /\ \/ d = "BLOCK" /\ Block
       \/ /\ d # "BLOCK"
          /\ Record(<<"rollback_initiated">>)
          /\ pc' = "rollback"
          /\ UNCHANGED status
    /\ UNCHANGED <<fault, dataVars, outsideVars>>

\* The recovery plan of a quarantining rollout covers the same servers in
\* batches, and reports success whatever rollback_server answers.
RevertServers ==
    /\ server' = [s \in Server |-> IF s \in updated THEN RollbackServer(server[s])
                                                    ELSE server[s]]
    /\ success' = (Quarantining \/ \A s \in updated : CanRollBack(server[s]))

PlanEvents == IF Quarantining
              THEN <<"recovery_plan_execute", "recovery_plan_complete">>
              ELSE <<>>

RollbackUpdatedServers ==
    /\ pc = "rollback"
    /\ RevertServers
    /\ Record(<<"snapshot_create", "rollback_start">> \o PlanEvents)
    /\ pc' = "rolled"
    /\ UNCHANGED <<fault, status, stage, aborted, updated, retriesLeft,
                   stageVars, quarantined, envVars, lost, histVars>>

\* The rollback's result is lost: the activity runs a second time.
RepeatRollback ==
    /\ pc = "rolled"
    /\ lost < MaxLost
    /\ lost' = lost + 1
    /\ RevertServers
    /\ Record(PlanEvents)
    /\ UNCHANGED <<pc, fault, status, stage, aborted, updated, retriesLeft,
                   stageVars, quarantined, envVars, histVars>>

FinishRollback ==
    /\ pc = "rolled"
    /\ Record(<<"rollback_complete">>)
    /\ status' = IF aborted THEN "aborted"
                 ELSE IF success THEN "rolled_back" ELSE "failed"
    /\ pc' = "done"
    /\ UNCHANGED <<fault, dataVars, outsideVars>>

Return ==
    /\ pc = "returning"
    /\ pc' = "done"
    /\ UNCHANGED <<fault, status, trail, dataVars, outsideVars>>

-----------------------------------------------------------------------------
(***************************************************************************)
(* The other actors.                                                       *)
(***************************************************************************)

\* The console listener or the dashboard asks for an abort.
SetAbortEvent ==
    /\ pc # "done"
    /\ ~abortEvent
    /\ abortEvent' = TRUE
    /\ UNCHANGED <<pc, fault, status, trail, dataVars, stageVars, clusterVars,
                   injections, lost, histVars>>

\* The watcher finds the event set and signals the workflow, once.  The signal
\* handler overwrites the status wherever the workflow is.
AbortSignal ==
    /\ pc \notin InsideStage \cup {"done"}
    /\ abortEvent
    /\ ~aborted
    /\ aborted' = TRUE
    /\ status' = "aborted"
    /\ UNCHANGED <<pc, fault, trail, stage, updated, retriesLeft, success,
                   outsideVars>>

\* A dashboard thread injects a failure into a server.
InjectFailure(s) ==
    /\ pc # "done"
    /\ injections < MaxInjections
    /\ injections' = injections + 1
    /\ \E new \in {"degraded", "failed"} :
          server' = [server EXCEPT ![s] = UpdateStatus(@, new)]
    /\ UNCHANGED <<pc, fault, status, trail, dataVars, stageVars, quarantined,
                   abortEvent, lost, histVars>>

\* Another thread quarantines a region (what it saw of it may be stale).
QuarantineRegion(r) ==
    /\ pc # "done"
    /\ Quarantining
    /\ r \notin quarantined
    /\ quarantined' = quarantined \cup {r}
    /\ UNCHANGED <<pc, fault, status, trail, dataVars, stageVars, server,
                   envVars, lost, histVars>>

Terminated == pc = "done" /\ UNCHANGED vars

-----------------------------------------------------------------------------

ExecuteStage ==
    \/ ComputeQuota \/ StageRaises \/ SelectServers \/ CheckAbort
    \/ \E s \in Server : UpdateServer(s)

Checkpoint ==
    \E d \in Decision : \/ EvaluateStart(d) \/ EvaluateStageStart(d)
                        \/ EvaluateStageComplete(d) \/ EvaluateRollback(d)

Workflow ==
    \/ Begin \/ Checkpoint
    \/ ExecuteStage \/ StageResult \/ LoseStageResult \/ StageRecorded
    \/ \E ok \in BOOLEAN : HealthCheck(ok)
    \/ RetryHealthCheck \/ HealthPassed \/ AutoQuarantine
    \/ StageDone \/ AbortWait \/ WaitTimeout \/ MarkServersHealthy
    \/ HandleAbort \/ HandleRecoverable \/ HandleUnrecoverable
    \/ RollbackUpdatedServers \/ RepeatRollback \/ FinishRollback \/ Return

Environment ==
    \/ SetAbortEvent \/ AbortSignal
    \/ \E s \in Server : InjectFailure(s)
    \/ \E r \in Region : QuarantineRegion(r)

Next == Workflow \/ Environment \/ Terminated

Spec == Init /\ [][Next]_vars

\* The Temporal server keeps scheduling a workflow that can take a step, and
\* the watcher's poll loop keeps running until the workflow is done.
FairSpec == Spec /\ WF_vars(Workflow) /\ WF_vars(AbortSignal)

-----------------------------------------------------------------------------
(***************************************************************************)
(* Properties.                                                             *)
(***************************************************************************)

Events      == {trail[i] : i \in DOMAIN trail}
Restored(s) == server[s].version = before[s]

\* Every variable keeps to the values its Python counterpart can hold.
TypeOK ==
    /\ pc \in Control
    /\ stage \in 0 .. Len(Percent)
    /\ status \in DeploymentStatus
    /\ aborted \in BOOLEAN
    /\ updated \in SUBSET Server
    /\ fault \in Fault
    /\ retriesLeft \in 0 .. MaxHealthRetries
    /\ success \in BOOLEAN
    /\ needed \in Nat
    /\ todo \in SUBSET Server
    /\ newly \in SUBSET Server
    /\ stageError \in StageError
    /\ server \in [Server -> ServerRecord]
    /\ quarantined \in SUBSET Region
    /\ abortEvent \in BOOLEAN
    /\ trail \in Seq(EventType)
    /\ injections \in 0 .. MaxInjections
    /\ lost \in 0 .. MaxLost
    /\ before \in [Server -> Version]
    /\ touched \in SUBSET Server
    /\ late \in Nat

\* A server the rollout deployed to, and has not taken back, remembers the
\* version it ran before: rollback_server would restore that version, and no
\* stage has deployed to it twice and so lost it.
RollbackAnchor ==
    \A s \in touched :
        server[s].last.action = "deploy" => server[s].previous = before[s]

\* A server the rollout deployed to is in servers_updated, where a rollback
\* finds it, except while its stage is still reporting, or if an abort made
\* the workflow drop the report.
Accounted ==
    \A s \in touched \ updated :
        aborted \/ (s \in newly /\ pc \in {"check", "update", "result"})

\* A rollout that reports completion has updated every server outside the
\* quarantined regions, whatever was quarantined or failed on the way.
CompletedCovers == "deployment_completed" \in Events => Eligible \subseteq updated

\* A rollout that ends "rolled_back" leaves every server it deployed to on the
\* version it ran before.
RolledBackRestores == status = "rolled_back" => \A s \in touched : Restored(s)

\* Once ROLLBACK_COMPLETE is on the trail, every server on the rollout's books
\* is back, and stays back, on the version it ran before: also when the
\* rollout was aborted.
RollbackCompleteTrue ==
    "rollback_complete" \in Events => \A s \in updated : Restored(s)

\* Outside the quarantined regions no more servers have been deployed to than
\* the running stage's share of the cluster: a bad version reaches no more.
BlastRadius ==
    stage > 0 => 100 * (Cardinality(touched \cap Eligible) - 1)
                   < Cardinality(Server) * Percent[stage]

\* At most one server is updated after the operator's abort: the one whose
\* turn had passed the check of the abort event.
PromptAbort == late <= 1

\* The trail tells one outcome: completed, failed, blocked by policy or rolled
\* back.  It tells none twice, and a finished rollout has told one.
Outcomes == {i \in DOMAIN trail :
                trail[i] \in {"deployment_completed", "deployment_failed",
                              "policy_violation", "rollback_initiated"}}
OneOutcome == /\ Cardinality(Outcomes) <= 1
              /\ pc = "done" => Outcomes # {}

\* Once the abort signal is delivered the rollout deploys to no server.
NoGrowthAfterAbort == [][aborted => touched' = touched]_vars

\* The rollout ends, one way or another.
Termination == <>(pc = "done")

\* An abort that arrives in the wait between two stages undoes the rollout.
PausedAbortRestores ==
    (pc = "paused" /\ aborted) ~>
        (pc = "done" /\ status = "aborted" /\ \A s \in touched : Restored(s))

Phase == CASE "rollback_start" \in Events       -> "reverted"
           [] "deployment_completed" \in Events -> "kept"
           [] Events \cap {"deployment_failed", "policy_violation"} # {} -> "frozen"
           [] Events \cap {"rollback_start", "rollback_initiated"} =
                  {"rollback_initiated"}        -> "reverting"
           [] OTHER                             -> "growing"

Abstract == INSTANCE Rollout
            WITH live <- {s \in touched : server[s].last.action = "deploy"},
                 phase <- Phase,
                 interrupted <- aborted

\* The workflow does what the abstract rollout promises: one decision, no
\* server joining after it or after an abort, and a revert that misses no
\* server unless an abort interrupted the rollout.
ImplementsRollout == Abstract!RolloutSpec

-----------------------------------------------------------------------------
(***************************************************************************)
(* The inductive invariants behind the properties.                         *)
(***************************************************************************)

\* A step of a stage runs in a stage, and the wait is never after the last one.
StageInRange ==
    /\ pc \in {"gate_stage", "execute", "select", "check", "update", "result",
               "recorded", "health", "healthy", "unhealthy", "gate_complete",
               "callback", "paused"} => stage >= 1
    /\ pc = "paused" => stage < Len(Percent)

Deployed(s) == /\ server[s].version = Target
               /\ server[s].previous = before[s]
               /\ server[s].last.action = "deploy"

Reverted(s) == /\ Restored(s)
               /\ server[s].previous = Target
               /\ server[s].last = [action |-> "rollback", version |-> before[s]]

\* Where servers are deployed to and servers_updated lags behind.
Deploying == {"check", "update", "result"}

\* The books a rollback works from, while no activity result is lost: which
\* servers are deployed to, which of them the workflow knows of, and what each
\* remembers.
Books ==
    /\ \A s \in Server \ touched : Restored(s)
    /\ \A s \in touched :
          Deployed(s) \/ (pc \in {"rolled", "done"} /\ s \in updated /\ Reverted(s))
    /\ updated \subseteq touched
    /\ pc = "select" => newly = {}
    /\ pc \in Deploying => touched = updated \cup newly
    /\ pc \notin Deploying =>
          \/ touched = updated
          \/ aborted /\ pc \in {"handler", "rollback", "rolled", "done"}
    /\ pc \in {"check", "update"} => todo \cap touched = {}
    /\ pc = "rolled" => \A s \in updated : Reverted(s)
    /\ status = "rolled_back" => pc = "done" /\ \A s \in touched : Reverted(s)
    /\ "rollback_complete" \in Events =>
          pc = "done" /\ \A s \in updated : Reverted(s)

\* What makes an abort prompt: the signal comes after the event and never
\* inside a stage, and a server update that follows the event was checked first.
AbortOrder ==
    /\ aborted => abortEvent
    /\ pc = "update" => ~aborted
    /\ late > 0 => abortEvent /\ pc # "update"
    /\ late <= 1

-----------------------------------------------------------------------------
(***************************************************************************)
(* A claim of the tests that the code does not keep.                       *)
(***************************************************************************)

\* "Aborted deployment rolls back servers that were already updated."
AbortRestores ==
    pc = "done" /\ status = "aborted" => \A s \in touched : Restored(s)

=============================================================================
