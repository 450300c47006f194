----------------------------- MODULE Dashboard -----------------------------
(***************************************************************************)
(* The simulator state behind the dashboard's API (dashboard/state.py): a  *)
(* series of rollouts started, aborted and taken back by hand.  A rollout  *)
(* runs in DeploymentEngine.deploy, on a thread of its own or, for the     *)
(* governance scenario, in an API thread that holds the lock; the          *)
(* Temporal workflow does the work, and the helper copies the workflow's   *)
(* state to the DeploymentState the dashboard looks at.                    *)
(***************************************************************************)
EXTENDS Naturals

CONSTANTS
    Server,
    MaxRollouts,          \* bound on the calls of deploy
    MaxResets             \* bound on resets

Rollouts == 1 .. MaxRollouts

ASSUME BoundAssumption == MaxRollouts \in Nat /\ MaxResets \in Nat

VARIABLES
    lock,         \* who holds _lock over several steps, if anyone
    thread,       \* the rollout of _rollout_thread, 0 for None
    abortEvent,   \* _abort_event, named by the rollout it was made for, 0 for None
    current,      \* engine._current_deployment, 0 for None
    cluster,      \* the clusters made by _init_subsystems are numbered
    last,         \* number of rollouts so far
    pc,           \* where deploy is
    home,         \* the cluster it was called for
    eventOf,      \* the event of its config
    isSet,        \* the events that are set
    wf,           \* state["status"] of the workflow
    aborted,      \* the workflow's flag
    touched,      \* the servers the rollout deployed to and nobody took back
    unreported,   \* of those, the ones the workflow has not been told of
    books,        \* state["servers_updated"]
    copy,         \* the DeploymentState
    asked         \* history: the rollouts that were to be aborted

workflowVars == <<wf, aborted, touched, unreported, books>>
stateVars    == <<lock, thread, abortEvent, cluster, last>>
configVars   == <<home, eventOf>>
vars == <<stateVars, current, pc, configVars, isSet, workflowVars, copy, asked>>

-----------------------------------------------------------------------------

Busy == {d \in Rollouts : pc[d] \in {"called", "starting", "workflow", "returned"}}

Working(d) == pc[d] = "workflow" /\ wf[d] = "in_progress"

IsRolloutActive == thread # 0 /\ pc[thread] # "ended"

Fresh == [status |-> "pending", updated |-> {}]

Init ==
    /\ lock = "free" /\ thread = 0 /\ abortEvent = 0 /\ current = 0
    /\ cluster = 0 /\ last = 0
    /\ pc = [d \in Rollouts |-> "none"]
    /\ home = [d \in Rollouts |-> 0] /\ eventOf = [d \in Rollouts |-> 0]
    /\ isSet = {}
    /\ wf = [d \in Rollouts |-> "pending"]
    /\ aborted = [d \in Rollouts |-> FALSE]
    /\ touched = [d \in Rollouts |-> {}]
    /\ unreported = [d \in Rollouts |-> {}]
    /\ books = [d \in Rollouts |-> {}]
    /\ copy = [d \in Rollouts |-> Fresh]
    /\ asked = {}

-----------------------------------------------------------------------------
(***************************************************************************)
(* The API.                                                                *)
(***************************************************************************)

Call(d) ==
    /\ lock = "free"
    /\ d = last + 1
    /\ last' = d
    /\ pc' = [pc EXCEPT ![d] = "called"]
    /\ home' = [home EXCEPT ![d] = cluster]
    /\ UNCHANGED <<current, cluster, isSet, workflowVars, copy, asked>>

\* Faulty variant for NoStrayAbort: the event of the last rollout is used again.
start_rollout_OldEvent(d) ==
    /\ Call(d)
    /\ ~IsRolloutActive
    /\ thread' = d
    /\ abortEvent' = IF abortEvent = 0 THEN d ELSE abortEvent
    /\ eventOf' = [eventOf EXCEPT ![d] = abortEvent']
    /\ UNCHANGED lock

start_rollout(d) ==
    /\ Call(d)
    /\ ~IsRolloutActive
    /\ thread' = d
    /\ abortEvent' = d
    /\ eventOf' = [eventOf EXCEPT ![d] = d]
    /\ UNCHANGED lock

\* Faulty variant for OneAtATime: no look at the active rollout.
governance_block_Unguarded(d) ==
    /\ Call(d)
    /\ lock' = "scenario"
    /\ UNCHANGED <<thread, abortEvent, eventOf>>

\* The scenario calls deploy itself and keeps the lock until it returns.  Its
\* config has no abort event.
governance_block(d) ==
    /\ Call(d)
    /\ ~IsRolloutActive
    /\ lock' = "scenario"
    /\ UNCHANGED <<thread, abortEvent, eventOf>>

\* A rollout that still runs is told to abort.
AbortRollout ==
    /\ lock = "free"
    /\ IsRolloutActive /\ abortEvent # 0
    /\ isSet' = isSet \cup {abortEvent}
    /\ asked' = asked \cup {thread}
    /\ UNCHANGED <<stateVars, current, pc, configVars, workflowVars, copy>>

\* Otherwise the dashboard rolls the last deployment back, under the lock.
RollBackByHand ==
    /\ lock = "free"
    /\ ~(IsRolloutActive /\ abortEvent # 0)
    /\ current # 0
    /\ lock' = "rollback"
    /\ copy' = [copy EXCEPT ![current].status = "rolling_back"]
    /\ UNCHANGED <<thread, abortEvent, cluster, last, current, pc, configVars,
                   isSet, workflowVars, asked>>

\* Nobody else changes versions meanwhile (OneAtATime), so the loop over the
\* servers is one step.
RollbackReturns ==
    /\ lock = "rollback"
    /\ lock' = "free"
    /\ touched' = [touched EXCEPT ![current] = @ \ copy[current].updated]
    /\ copy' = [copy EXCEPT ![current].status = "rolled_back"]
    /\ UNCHANGED <<thread, abortEvent, cluster, last, current, pc, configVars,
                   isSet, wf, aborted, unreported, books, asked>>

\* Faulty variant for OnLiveCluster: an active rollout does not prevent a reset.
reset_Unguarded ==
    /\ lock = "free"
    /\ cluster < MaxResets
    /\ cluster' = cluster + 1
    /\ current' = 0 /\ abortEvent' = 0
    /\ UNCHANGED <<lock, thread, last, pc, configVars, isSet, workflowVars, copy,
                   asked>>

\* A new cluster and a new engine, which has no deployment.
reset ==
    /\ lock = "free"
    /\ ~IsRolloutActive
    /\ cluster < MaxResets
    /\ cluster' = cluster + 1
    /\ current' = 0 /\ abortEvent' = 0
    /\ UNCHANGED <<lock, thread, last, pc, configVars, isSet, workflowVars, copy,
                   asked>>

shutdown ==
    /\ lock = "free"
    /\ abortEvent # 0
    /\ isSet' = isSet \cup {abortEvent}
    /\ asked' = asked \cup {thread}
    /\ UNCHANGED <<stateVars, current, pc, configVars, workflowVars, copy>>

API == \/ \E d \in Rollouts : start_rollout(d) \/ governance_block(d)
       \/ AbortRollout \/ RollBackByHand \/ reset \/ shutdown

-----------------------------------------------------------------------------
(***************************************************************************)
(* DeploymentEngine.deploy and the Temporal helper.                        *)
(***************************************************************************)

InitDeployment(d) ==
    /\ pc[d] = "called"
    /\ current' = d
    /\ pc' = [pc EXCEPT ![d] = "starting"]
    /\ UNCHANGED <<stateVars, configVars, isSet, workflowVars, copy, asked>>

StartWorkflow(d) ==
    /\ pc[d] = "starting"
    /\ pc' = [pc EXCEPT ![d] = "workflow"]
    /\ wf' = [wf EXCEPT ![d] = "in_progress"]
    /\ UNCHANGED <<stateVars, current, configVars, isSet, aborted, touched,
                   unreported, books, copy, asked>>

\* The server cannot be started, or refuses the workflow: deploy returns another
\* DeploymentState, which knows no server.
DeployRaises(d) ==
    /\ pc[d] = "starting"
    /\ pc' = [pc EXCEPT ![d] = "returned"]
    /\ copy' = [copy EXCEPT ![d] = [status |-> "failed", updated |-> {}]]
    /\ UNCHANGED <<stateVars, current, configVars, isSet, workflowVars, asked>>

\* _watch_abort_event, and the signal, which overwrites the status.
AbortSignal(d) ==
    /\ pc[d] = "workflow"
    /\ eventOf[d] \in isSet
    /\ ~aborted[d]
    /\ aborted' = [aborted EXCEPT ![d] = TRUE]
    /\ wf' = [wf EXCEPT ![d] = IF @ = "in_progress" THEN @ ELSE "aborted"]
    /\ UNCHANGED <<stateVars, current, pc, configVars, isSet, touched, unreported,
                   books, copy, asked>>

\* The poller.  The signal has overwritten the status of a workflow that goes on.
Poll(d) ==
    /\ pc[d] = "workflow"
    /\ copy' = [copy EXCEPT ![d] = [status |-> IF aborted[d] /\ Working(d) THEN "aborted"
                                                                      ELSE wf[d],
                                    updated |-> books[d]]]
    /\ UNCHANGED <<stateVars, current, pc, configVars, isSet, workflowVars, asked>>

\* Faulty variant for ManualCovers: the poller is relied on.
CopyResult_PollerOnly(d) ==
    /\ pc[d] = "workflow"
    /\ wf[d] # "in_progress"
    /\ pc' = [pc EXCEPT ![d] = "returned"]
    /\ UNCHANGED <<stateVars, current, configVars, isSet, workflowVars, copy,
                   asked>>

\* The workflow has returned: the poller and the watcher are cancelled, and the
\* result is copied.
CopyResult(d) ==
    /\ pc[d] = "workflow"
    /\ wf[d] # "in_progress"
    /\ pc' = [pc EXCEPT ![d] = "returned"]
    /\ copy' = [copy EXCEPT ![d] = [status |-> wf[d], updated |-> books[d]]]
    /\ UNCHANGED <<stateVars, current, configVars, isSet, workflowVars, asked>>

\* Faulty variant for Responsive: the scenario keeps the lock.
Return_LockKept(d) ==
    /\ pc[d] = "returned"
    /\ pc' = [pc EXCEPT ![d] = "ended"]
    /\ UNCHANGED <<stateVars, current, configVars, isSet, workflowVars, copy,
                   asked>>

\* The worker is shut down and deploy returns: the thread ends, or the scenario
\* gives the lock back.
Return(d) ==
    /\ pc[d] = "returned"
    /\ pc' = [pc EXCEPT ![d] = "ended"]
    /\ lock' = IF d # thread THEN "free" ELSE lock
    /\ UNCHANGED <<thread, abortEvent, cluster, last, current, configVars, isSet,
                   workflowVars, copy, asked>>

-----------------------------------------------------------------------------
(***************************************************************************)
(* The workflow, as far as the dashboard can tell.                         *)
(***************************************************************************)

Undisturbed == <<stateVars, current, pc, configVars, isSet, copy, asked>>

\* A stage: its servers are deployed to before the workflow knows.
Stage(d) ==
    /\ Working(d) /\ d = thread
    /\ unreported[d] = {} /\ ~aborted[d]
    /\ \E S \in SUBSET (Server \ books[d]) :
          /\ S # {}
          /\ touched' = [touched EXCEPT ![d] = @ \cup S]
          /\ unreported' = [unreported EXCEPT ![d] = S]
    /\ UNCHANGED <<wf, aborted, books, Undisturbed>>

Report(d) ==
    /\ Working(d)
    /\ unreported[d] # {} /\ ~aborted[d]
    /\ books' = [books EXCEPT ![d] = @ \cup unreported[d]]
    /\ unreported' = [unreported EXCEPT ![d] = {}]
    /\ UNCHANGED <<wf, aborted, touched, Undisturbed>>

\* A rollout that asks for nothing more ends well, is blocked, or is rolled back.
\* The weekend scenario is always blocked.
WorkflowEnds(d) ==
    /\ Working(d)
    /\ unreported[d] = {}
    /\ \/ /\ d = thread
          /\ wf' = [wf EXCEPT ![d] = "completed"]
          /\ UNCHANGED touched
       \/ /\ wf' = [wf EXCEPT ![d] = "failed"]
          /\ UNCHANGED touched
       \/ /\ d = thread
          /\ wf' = [wf EXCEPT ![d] = "rolled_back"]
          /\ touched' = [touched EXCEPT ![d] = @ \ books[d]]
    /\ UNCHANGED <<aborted, unreported, books, Undisturbed>>

\* What a stage has not reported when the signal comes is not taken back.
WorkflowAborts(d) ==
    /\ Working(d)
    /\ aborted[d]
    /\ wf' = [wf EXCEPT ![d] = "aborted"]
    /\ touched' = [touched EXCEPT ![d] = @ \ books[d]]
    /\ UNCHANGED <<aborted, unreported, books, Undisturbed>>

Workflow(d) == Stage(d) \/ Report(d) \/ WorkflowEnds(d) \/ WorkflowAborts(d)

Deploy(d) == \/ InitDeployment(d) \/ StartWorkflow(d) \/ DeployRaises(d)
             \/ CopyResult(d) \/ Return(d) \/ Workflow(d)

Next == \/ API \/ RollbackReturns
        \/ \E d \in Rollouts : Deploy(d) \/ AbortSignal(d) \/ Poll(d)

\* Threads go on and the workflow's activities are retried; nobody has to call
\* the API.
Spec == /\ Init /\ [][Next]_vars
        /\ WF_vars(RollbackReturns) /\ \A d \in Rollouts : WF_vars(Deploy(d))

-----------------------------------------------------------------------------
(***************************************************************************)
(* Properties.                                                             *)
(***************************************************************************)

Statuses == {"pending", "in_progress", "completed", "failed", "rolled_back",
             "aborted", "rolling_back"}

TypeOK ==
    /\ lock \in {"free", "scenario", "rollback"}
    /\ {thread, abortEvent, current, last} \subseteq 0 .. MaxRollouts
    /\ cluster \in 0 .. MaxResets
    /\ pc \in [Rollouts -> {"none", "called", "starting", "workflow", "returned", "ended"}]
    /\ home \in [Rollouts -> 0 .. MaxResets]
    /\ eventOf \in [Rollouts -> 0 .. MaxRollouts]
    /\ isSet \in SUBSET Rollouts
    /\ wf \in [Rollouts -> Statuses \ {"rolling_back"}]
    /\ aborted \in [Rollouts -> BOOLEAN]
    /\ {touched, unreported, books} \subseteq [Rollouts -> SUBSET Server]
    /\ copy \in [Rollouts -> [status : Statuses, updated : SUBSET Server]]
    /\ asked \in SUBSET Rollouts

\* The lock and the look at the active rollout keep everything that changes
\* versions apart: two deployments, and a deployment and a rollback by hand.
OneAtATime ==
    /\ \A d, e \in Busy : d = e
    /\ lock = "rollback" => Busy = {}

\* An abort reaches no rollout but the one that was running when it was asked for.
NoStrayAbort == \A d \in Rollouts : aborted[d] => d \in asked

\* No deployment or rollback works on a cluster the dashboard has thrown away.
OnLiveCluster ==
    /\ \A d \in Busy : home[d] = cluster
    /\ lock = "rollback" => home[current] = cluster

\* A rollback by hand takes back every server of the last deployment, but what an
\* abort kept from being reported.  It relies on what the model leaves out: a
\* connection lost once the workflow has started makes deploy() replace the current
\* deployment by an empty one (engine.py:122-135), and nothing is taken back.
ManualCovers ==
    lock = "rollback" => touched[current] \subseteq copy[current].updated \cup unreported[current]

\* Every call of the API gets the lock in the end, and every deployment ends.
Responsive == /\ lock # "free" ~> lock = "free"
              /\ \A d \in Rollouts : d \in Busy ~> pc[d] = "ended"

=============================================================================
