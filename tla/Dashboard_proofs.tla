-------------------------- MODULE Dashboard_proofs --------------------------
(***************************************************************************)
(* Theorems about Dashboard, for any cluster and any number of rollouts    *)
(* and resets.                                                             *)
(***************************************************************************)
EXTENDS Dashboard, TLAPS

(***************************************************************************)
(* The invariant.  What keeps rollouts apart is that at most one is busy:  *)
(* the one of the thread, or the scenario's while the scenario has the     *)
(* lock.                                                                   *)
(***************************************************************************)

Types ==
    /\ thread \in 0 .. MaxRollouts /\ last \in 0 .. MaxRollouts
    /\ current \in 0 .. MaxRollouts /\ cluster \in 0 .. MaxResets
    /\ pc \in [Rollouts -> {"none", "called", "starting", "workflow", "returned", "ended"}]
    /\ home \in [Rollouts -> 0 .. MaxResets]
    /\ eventOf \in [Rollouts -> 0 .. MaxRollouts]
    /\ aborted \in [Rollouts -> BOOLEAN]
    /\ isSet \in SUBSET Rollouts

\* The busy rollout is the thread's, but for a scenario's.
OneBusy ==
    /\ \A d \in Busy : d = IF lock = "scenario" THEN last ELSE thread
    /\ lock = "scenario" => last # thread /\ last \in Busy
    /\ lock = "rollback" => Busy = {} /\ current # 0
    /\ \A d \in Rollouts : d > last => pc[d] = "none"
    /\ thread <= last
    /\ thread # 0 => pc[thread] # "none"

\* The event to be set is the thread's, and it is there while the thread runs.
EventOfThread ==
    /\ abortEvent \in {0, thread}
    /\ IsRolloutActive => abortEvent = thread

\* What is busy, and the engine's last deployment, are on the cluster in use.
Homes ==
    /\ \A d \in Busy : home[d] = cluster
    /\ current # 0 => home[current] = cluster

\* An event is seen by its own rollout only, and set only when that is asked for.
Events ==
    /\ isSet \subseteq asked
    /\ \A d \in Rollouts : eventOf[d] \in {0, d}
    /\ \A d \in Rollouts : aborted[d] => d \in asked

IInv == Types /\ OneBusy /\ EventOfThread /\ Homes /\ Events

(***************************************************************************)
(* The lock and the look at the active rollout: they tell that nothing is  *)
(* busy.                                                                   *)
(***************************************************************************)

LEMMA IdleWhenFree ==
    ASSUME IInv, lock = "free", ~IsRolloutActive
    PROVE  Busy = {}
<1> SUFFICES ASSUME NEW d \in Busy PROVE FALSE
  OBVIOUS
<1>1. d = thread /\ d \in Rollouts
  BY DEF IInv, OneBusy, Busy
<1>2. thread # 0 /\ pc[thread] # "ended"
  BY <1>1, BoundAssumption DEF Busy, Rollouts
<1>3. QED
  BY <1>2 DEF IsRolloutActive

\* A thread that is active is busy.
LEMMA ActiveIsBusy ==
    ASSUME IInv, IsRolloutActive
    PROVE  thread \in Busy
BY BoundAssumption DEF IInv, Types, OneBusy, IsRolloutActive, Busy, Rollouts

\* What of the state the invariant is about.
ivars == <<lock, thread, abortEvent, cluster, last, current, pc, home, eventOf, isSet,
           aborted, asked>>

\* A new call of deploy, by either way.
LEMMA CallStep ==
    ASSUME IInv, NEW d \in Rollouts, start_rollout(d) \/ governance_block(d)
    PROVE  IInv'
<1> USE BoundAssumption DEF Rollouts
<1>1. Busy = {}
  BY IdleWhenFree DEF start_rollout, governance_block, Call
<1>2. /\ lock = "free" /\ d = last + 1 /\ last' = d /\ ~IsRolloutActive
      /\ pc' = [pc EXCEPT ![d] = "called"] /\ home' = [home EXCEPT ![d] = cluster]
      /\ UNCHANGED <<current, cluster, isSet, aborted, asked>>
  BY DEF start_rollout, governance_block, Call, workflowVars
<1>3. \/ thread' = d /\ abortEvent' = d /\ eventOf' = [eventOf EXCEPT ![d] = d] /\ lock' = lock
      \/ UNCHANGED <<thread, abortEvent, eventOf>> /\ lock' = "scenario"
  BY DEF start_rollout, governance_block
<1>4. Types'
  <2>1. /\ thread' \in 0 .. MaxRollouts /\ last' \in 0 .. MaxRollouts
        /\ current' \in 0 .. MaxRollouts /\ cluster' \in 0 .. MaxResets
    BY <1>2, <1>3 DEF IInv, Types
  <2>2. /\ pc' \in [Rollouts -> {"none", "called", "starting", "workflow", "returned",
                                 "ended"}]
        /\ home' \in [Rollouts -> 0 .. MaxResets]
    BY <1>2 DEF IInv, Types
  <2>3. eventOf' \in [Rollouts -> 0 .. MaxRollouts]
    <3>1. eventOf \in [Rollouts -> 0 .. MaxRollouts] /\ d \in 0 .. MaxRollouts
      BY DEF IInv, Types
    <3>2. CASE eventOf' = [eventOf EXCEPT ![d] = d]
      BY <3>1, <3>2
    <3>3. CASE UNCHANGED eventOf
      BY <3>1, <3>3
    <3>4. QED
      BY <1>3, <3>2, <3>3
  <2>4. aborted' \in [Rollouts -> BOOLEAN] /\ isSet' \in SUBSET Rollouts
    BY <1>2 DEF IInv, Types
  <2>5. QED
    BY <2>1, <2>2, <2>3, <2>4 DEF Types
<1>5. Busy' = {d}
  BY <1>1, <1>2 DEF Busy, IInv, Types
<1>6. OneBusy'
  <2>1. \A e \in Busy' : e = IF lock' = "scenario" THEN last' ELSE thread'
    BY <1>2, <1>3, <1>5
  <2>2. lock' = "scenario" => last' # thread' /\ last' \in Busy'
    BY <1>2, <1>3, <1>5 DEF IInv, OneBusy, Types
  <2>3. lock' # "rollback"
    BY <1>2, <1>3
  <2>4. \A e \in Rollouts : e > last' => pc'[e] = "none"
    BY <1>2 DEF IInv, OneBusy, Types
  <2>5. thread' <= last' /\ (thread' # 0 => pc'[thread'] # "none")
    BY <1>2, <1>3 DEF IInv, OneBusy, Types
  <2>6. QED
    BY <2>1, <2>2, <2>3, <2>4, <2>5 DEF OneBusy
<1>7. EventOfThread'
  <2>1. CASE thread' = d /\ abortEvent' = d
    BY <2>1 DEF EventOfThread
  <2>2. CASE UNCHANGED <<thread, abortEvent>>
    <3>1. thread # d
      BY <1>2 DEF IInv, OneBusy, Types
    <3>2. ~IsRolloutActive'
      BY <1>2, <2>2, <3>1 DEF IsRolloutActive, IInv, Types, OneBusy
    <3>3. QED
      BY <2>2, <3>2 DEF EventOfThread, IInv
  <2>3. QED
    BY <1>3, <2>1, <2>2
<1>8. Homes'
  <2>1. home'[d] = cluster'
    BY <1>2 DEF IInv, Types
  <2>2. current' # 0 => home'[current'] = cluster'
    BY <1>2, <2>1 DEF IInv, Types, Homes
  <2>3. QED
    BY <1>5, <2>1, <2>2 DEF Homes
<1>9. Events'
  BY <1>2, <1>3 DEF IInv, Types, Events
<1>10. QED
  BY <1>4, <1>6, <1>7, <1>8, <1>9 DEF IInv

\* Setting the event, for an abort or at the end.
LEMMA SetStep ==
    ASSUME IInv, AbortRollout \/ shutdown
    PROVE  IInv'
<1> USE BoundAssumption DEF Rollouts
<1>1. /\ abortEvent # 0 /\ isSet' = isSet \cup {abortEvent} /\ asked' = asked \cup {thread}
      /\ UNCHANGED <<lock, thread, abortEvent, cluster, last, current, pc, home, eventOf,
                     aborted>>
  BY DEF AbortRollout, shutdown, stateVars, configVars, workflowVars
<1>2. abortEvent = thread /\ thread \in Rollouts
  BY <1>1 DEF IInv, EventOfThread, Types
<1>3. Types' /\ Events'
  BY <1>1, <1>2 DEF IInv, Types, Events
<1>4. OneBusy' /\ EventOfThread' /\ Homes'
  BY <1>1 DEF IInv, OneBusy, EventOfThread, Homes, Busy, IsRolloutActive
<1>5. QED
  BY <1>3, <1>4 DEF IInv

\* A rollback by hand starts only when nothing is busy.
LEMMA ManualStep == ASSUME IInv, RollBackByHand PROVE IInv'
<1>1. /\ lock = "free" /\ lock' = "rollback" /\ current # 0
      /\ UNCHANGED <<thread, abortEvent, cluster, last, current, pc, home, eventOf, isSet,
                     aborted, asked>>
  BY DEF RollBackByHand, configVars, workflowVars
<1>2. ~IsRolloutActive
  BY DEF RollBackByHand, IInv, EventOfThread, IsRolloutActive
<1>3. Busy = {} /\ Busy' = Busy
  BY <1>1, <1>2, IdleWhenFree DEF Busy
<1>4. Types' /\ EventOfThread' /\ Homes' /\ Events'
  BY <1>1, <1>3 DEF IInv, Types, EventOfThread, Homes, Events, IsRolloutActive
<1>5. OneBusy'
  BY <1>1, <1>3 DEF IInv, OneBusy
<1>6. QED
  BY <1>4, <1>5 DEF IInv

\* It ends by giving the lock back.
LEMMA RollbackReturnsStep == ASSUME IInv, RollbackReturns PROVE IInv'
<1>1. /\ lock = "rollback" /\ lock' = "free"
      /\ UNCHANGED <<thread, abortEvent, cluster, last, current, pc, home, eventOf, isSet,
                     aborted, asked>>
  BY DEF RollbackReturns, configVars
<1>2. Busy = {} /\ Busy' = Busy
  BY <1>1 DEF Busy, IInv, OneBusy
<1>3. Types' /\ EventOfThread' /\ Homes' /\ Events'
  BY <1>1, <1>2 DEF IInv, Types, EventOfThread, Homes, Events, IsRolloutActive
<1>4. OneBusy'
  BY <1>1, <1>2 DEF IInv, OneBusy
<1>5. QED
  BY <1>3, <1>4 DEF IInv

\* A reset finds nothing busy, so nothing is left on the cluster it throws away.
LEMMA ResetStep == ASSUME IInv, reset PROVE IInv'
<1> USE BoundAssumption
<1>1. /\ lock = "free" /\ cluster < MaxResets /\ cluster' = cluster + 1
      /\ current' = 0 /\ abortEvent' = 0
      /\ UNCHANGED <<lock, thread, last, pc, home, eventOf, isSet, aborted, asked>>
  BY DEF reset, configVars, workflowVars
<1>2. ~IsRolloutActive /\ ~IsRolloutActive'
  BY <1>1 DEF reset, IsRolloutActive
<1>3. Busy = {} /\ Busy' = Busy
  BY <1>1, <1>2, IdleWhenFree DEF Busy
<1>4. Types' /\ EventOfThread' /\ Homes' /\ Events'
  BY <1>1, <1>2, <1>3 DEF IInv, Types, EventOfThread, Homes, Events
<1>5. OneBusy'
  BY <1>1, <1>3 DEF IInv, OneBusy
<1>6. QED
  BY <1>4, <1>5 DEF IInv

\* The steps of a deployment that stays busy.
LEMMA BusyStep ==
    ASSUME IInv, NEW d \in Rollouts,
           InitDeployment(d) \/ StartWorkflow(d) \/ DeployRaises(d) \/ CopyResult(d)
    PROVE  IInv'
<1> USE BoundAssumption DEF Rollouts
<1>1. /\ UNCHANGED <<lock, thread, abortEvent, cluster, last, home, eventOf, isSet, aborted,
                     asked>>
      /\ d \in Busy
      /\ \E p \in {"starting", "workflow", "returned"} : pc' = [pc EXCEPT ![d] = p]
      /\ current' \in {current, d}
  BY DEF InitDeployment, StartWorkflow, DeployRaises, CopyResult, stateVars, configVars,
         workflowVars, Busy
<1>2. PICK p \in {"starting", "workflow", "returned"} : pc' = [pc EXCEPT ![d] = p]
  BY <1>1
<1>3. Busy' = Busy
  BY <1>1, <1>2 DEF Busy, IInv, Types
<1>4. Types'
  BY <1>1, <1>2 DEF IInv, Types
<1>5. OneBusy'
  <2>1. \A e \in Rollouts : e > last' => pc'[e] = "none"
    <3>1. d <= last
      BY <1>1 DEF Busy, IInv, OneBusy, Types
    <3>2. QED
      BY <1>1, <1>2, <3>1 DEF IInv, OneBusy, Types
  <2>2. thread' # 0 => pc'[thread'] # "none"
    BY <1>1, <1>2 DEF IInv, OneBusy, Types
  <2>3. QED
    BY <1>1, <1>3, <2>1, <2>2 DEF IInv, OneBusy
<1>6. EventOfThread'
  <2>1. IsRolloutActive' => IsRolloutActive
    BY <1>1, <1>2 DEF IsRolloutActive, Busy, IInv, Types
  <2>2. QED
    BY <1>1, <2>1 DEF IInv, EventOfThread
<1>7. Homes' /\ Events'
  BY <1>1, <1>3 DEF IInv, Homes, Events
<1>8. QED
  BY <1>4, <1>5, <1>6, <1>7 DEF IInv

\* A deployment that ends is the busy one; a scenario gives the lock back.
LEMMA ReturnStep == ASSUME IInv, NEW d \in Rollouts, Return(d) PROVE IInv'
<1> USE BoundAssumption DEF Rollouts
<1>1. /\ UNCHANGED <<thread, abortEvent, cluster, last, current, home, eventOf, isSet,
                     aborted, asked>>
      /\ d \in Busy
      /\ pc' = [pc EXCEPT ![d] = "ended"]
      /\ lock' = IF d # thread THEN "free" ELSE lock
  BY DEF Return, configVars, workflowVars, Busy
<1>2. d = IF lock = "scenario" THEN last ELSE thread
  BY <1>1 DEF IInv, OneBusy
<1>3. lock' # "rollback" /\ lock' # "scenario"
  <2>1. lock # "rollback"
    BY <1>1 DEF IInv, OneBusy
  <2>2. QED
    BY <1>1, <1>2, <2>1 DEF IInv, OneBusy
<1>4. Busy' = {}
  <2>1. Busy = {d}
    BY <1>1, <1>2 DEF IInv, OneBusy
  <2>2. QED
    BY <1>1, <2>1 DEF Busy, IInv, Types
<1>5. Types'
  BY <1>1 DEF IInv, Types
<1>6. OneBusy'
  BY <1>1, <1>3, <1>4 DEF IInv, OneBusy, Types, Busy
<1>7. EventOfThread'
  <2>1. IsRolloutActive' => IsRolloutActive
    BY <1>1 DEF IsRolloutActive, IInv, Types
  <2>2. QED
    BY <1>1, <2>1 DEF IInv, EventOfThread
<1>8. Homes' /\ Events'
  BY <1>1, <1>4 DEF IInv, Homes, Events
<1>9. QED
  BY <1>5, <1>6, <1>7, <1>8 DEF IInv

\* The signal reaches the workflow of the event that was set.
LEMMA AbortSignalStep == ASSUME IInv, NEW d \in Rollouts, AbortSignal(d) PROVE IInv'
<1>1. /\ eventOf[d] \in isSet /\ aborted' = [aborted EXCEPT ![d] = TRUE]
      /\ UNCHANGED <<lock, thread, abortEvent, cluster, last, current, pc, home, eventOf,
                     isSet, asked>>
  BY DEF AbortSignal, stateVars, configVars
<1>2. d \in asked
  <2>1. eventOf[d] \in {0, d} /\ isSet \subseteq asked
    BY DEF IInv, Events
  <2>2. eventOf[d] # 0
    BY <1>1, BoundAssumption DEF IInv, Types, Rollouts
  <2>3. QED
    BY <1>1, <2>1, <2>2
<1>3. Types' /\ Events'
  BY <1>1, <1>2 DEF IInv, Types, Events
<1>4. OneBusy' /\ EventOfThread' /\ Homes'
  BY <1>1 DEF IInv, OneBusy, EventOfThread, Homes, Busy, IsRolloutActive
<1>5. QED
  BY <1>3, <1>4 DEF IInv

\* Nothing else touches what the invariant is about.
LEMMA QuietStep == ASSUME IInv, UNCHANGED ivars PROVE IInv'
BY DEF ivars, IInv, Types, OneBusy, EventOfThread, Homes, Events, Busy, IsRolloutActive

\* The invariant is inductive.
LEMMA InvStep == IInv /\ [Next]_vars => IInv'
<1> SUFFICES ASSUME IInv, [Next]_vars PROVE IInv'
  OBVIOUS
<1>1. CASE API
  BY <1>1, CallStep, SetStep, ManualStep, ResetStep DEF API
<1>2. CASE RollbackReturns
  BY <1>2, RollbackReturnsStep
<1>3. ASSUME NEW d \in Rollouts, Deploy(d) PROVE IInv'
  <2>1. CASE Workflow(d)
    <3>1. UNCHANGED ivars
      BY <2>1 DEF Workflow, Stage, Report, WorkflowEnds, WorkflowAborts, Undisturbed,
                  stateVars, configVars, ivars
    <3>2. QED
      BY <3>1, QuietStep
  <2>2. QED
    BY <1>3, <2>1, BusyStep, ReturnStep DEF Deploy
<1>4. ASSUME NEW d \in Rollouts, AbortSignal(d) PROVE IInv'
  BY <1>4, AbortSignalStep
<1>5. ASSUME NEW d \in Rollouts, Poll(d) PROVE IInv'
  <2>1. UNCHANGED ivars
    BY <1>5 DEF Poll, stateVars, configVars, workflowVars, ivars
  <2>2. QED
    BY <2>1, QuietStep
<1>6. CASE UNCHANGED vars
  <2>1. UNCHANGED ivars
    BY <1>6 DEF vars, stateVars, configVars, workflowVars, ivars
  <2>2. QED
    BY <2>1, QuietStep
<1>7. QED
  BY <1>1, <1>2, <1>3, <1>4, <1>5, <1>6 DEF Next

\* It holds at first.
LEMMA InvInit == Init => IInv
BY BoundAssumption DEF Init, IInv, Types, OneBusy, EventOfThread, Homes, Events, Busy,
                       IsRolloutActive, Rollouts

\* So it always holds.
LEMMA InvHolds == Spec => []IInv
BY InvInit, InvStep, PTL DEF Spec

(***************************************************************************)
(* Type correctness: Types, and what the steps keep to themselves.         *)
(***************************************************************************)

WorkflowTypes ==
    /\ lock \in {"free", "scenario", "rollback"}
    /\ wf \in [Rollouts -> Statuses \ {"rolling_back"}]
    /\ touched \in [Rollouts -> SUBSET Server]
    /\ unreported \in [Rollouts -> SUBSET Server]
    /\ books \in [Rollouts -> SUBSET Server]
    /\ copy \in [Rollouts -> [status : Statuses, updated : SUBSET Server]]
    /\ asked \in SUBSET Rollouts

LEMMA ApiTypes == ASSUME IInv, WorkflowTypes, API PROVE WorkflowTypes'
<1>1. CASE \E d \in Rollouts : start_rollout(d) \/ governance_block(d)
  BY <1>1 DEF start_rollout, governance_block, Call, workflowVars, WorkflowTypes
<1>2. CASE AbortRollout \/ shutdown
  <2>1. thread \in Rollouts
    BY <1>2, BoundAssumption DEF AbortRollout, shutdown, IInv, EventOfThread, Types, Rollouts
  <2>2. QED
    BY <1>2, <2>1 DEF AbortRollout, shutdown, stateVars, workflowVars, WorkflowTypes
<1>3. CASE RollBackByHand
  BY <1>3 DEF RollBackByHand, workflowVars, WorkflowTypes, Statuses
<1>4. CASE reset
  BY <1>4 DEF reset, workflowVars, WorkflowTypes
<1>5. QED
  BY <1>1, <1>2, <1>3, <1>4 DEF API

LEMMA DeployTypes ==
    ASSUME WorkflowTypes, NEW d \in Rollouts, Deploy(d)
    PROVE  WorkflowTypes'
<1> USE DEF WorkflowTypes, Statuses, stateVars, workflowVars, Undisturbed
<1>1. CASE InitDeployment(d) \/ StartWorkflow(d) \/ DeployRaises(d)
  BY <1>1 DEF InitDeployment, StartWorkflow, DeployRaises
<1>2. CASE CopyResult(d)
  BY <1>2 DEF CopyResult
<1>3. CASE Return(d)
  BY <1>3 DEF Return
<1>4. CASE Stage(d)
  BY <1>4 DEF Stage
<1>5. CASE Report(d)
  BY <1>5 DEF Report
<1>6. CASE WorkflowEnds(d)
  BY <1>6 DEF WorkflowEnds
<1>7. CASE WorkflowAborts(d)
  BY <1>7 DEF WorkflowAborts
<1>8. QED
  BY <1>1, <1>2, <1>3, <1>4, <1>5, <1>6, <1>7 DEF Deploy, Workflow

LEMMA TypesStep == IInv /\ WorkflowTypes /\ [Next]_vars => WorkflowTypes'
<1> SUFFICES ASSUME IInv, WorkflowTypes, [Next]_vars PROVE WorkflowTypes'
  OBVIOUS
<1>1. CASE API
  BY <1>1, ApiTypes
<1>2. CASE RollbackReturns
  BY <1>2 DEF RollbackReturns, WorkflowTypes, Statuses
<1>3. ASSUME NEW d \in Rollouts, Deploy(d) PROVE WorkflowTypes'
  BY <1>3, DeployTypes
<1>4. ASSUME NEW d \in Rollouts, AbortSignal(d) \/ Poll(d) PROVE WorkflowTypes'
  BY <1>4 DEF AbortSignal, Poll, WorkflowTypes, Statuses, stateVars, workflowVars
<1>5. CASE UNCHANGED vars
  BY <1>5 DEF vars, stateVars, workflowVars, WorkflowTypes
<1>6. QED
  BY <1>1, <1>2, <1>3, <1>4, <1>5 DEF Next

\* Every reachable state of the dashboard and its deployments is well typed.
THEOREM DashboardTypeCorrect == Spec => []TypeOK
<1>1. Init => WorkflowTypes
  BY DEF Init, WorkflowTypes, Fresh, Statuses
<1>2. IInv /\ WorkflowTypes => TypeOK
  <2> SUFFICES ASSUME IInv, WorkflowTypes PROVE TypeOK
    OBVIOUS
  <2>1. {thread, abortEvent, current, last} \subseteq 0 .. MaxRollouts
    BY BoundAssumption DEF IInv, Types, EventOfThread
  <2>2. {touched, unreported, books} \subseteq [Rollouts -> SUBSET Server]
    BY DEF WorkflowTypes
  <2>3. QED
    BY <2>1, <2>2 DEF IInv, Types, WorkflowTypes, TypeOK
<1>3. QED
  BY <1>1, <1>2, TypesStep, InvHolds, PTL DEF Spec

(***************************************************************************)
(* What a rollback by hand relies on: the books and the copy of them.      *)
(***************************************************************************)

\* A server deployed to is on the books or still to be reported; a workflow that
\* was never started has no books; one that has ended was copied.
Copied ==
    \A d \in Rollouts :
        /\ touched[d] \subseteq books[d] \cup unreported[d]
        /\ pc[d] \in {"none", "called", "starting"} => books[d] = {} /\ unreported[d] = {}
        /\ pc[d] \in {"returned", "ended"} => copy[d].updated = books[d]

\* What Copied is about, for one deployment.
copied(d) == <<pc[d], touched[d], unreported[d], books[d], copy[d].updated>>

\* A step that is about one deployment has to keep Copied for that one only.
LEMMA CopiedLocally ==
    ASSUME Copied, NEW d \in Rollouts,
           \A e \in Rollouts \ {d} : UNCHANGED copied(e),
           /\ touched'[d] \subseteq books'[d] \cup unreported'[d]
           /\ pc'[d] \in {"none", "called", "starting"} => books'[d] = {} /\ unreported'[d] = {}
           /\ pc'[d] \in {"returned", "ended"} => copy'[d].updated = books'[d]
    PROVE  Copied'
<1> SUFFICES ASSUME NEW e \in Rollouts
             PROVE  /\ touched'[e] \subseteq books'[e] \cup unreported'[e]
                    /\ pc'[e] \in {"none", "called", "starting"}
                          => books'[e] = {} /\ unreported'[e] = {}
                    /\ pc'[e] \in {"returned", "ended"} => copy'[e].updated = books'[e]
  BY DEF Copied
<1>1. CASE e = d
  BY <1>1
<1>2. CASE e # d
  BY <1>2 DEF Copied, copied
<1>3. QED
  BY <1>1, <1>2

LEMMA ApiCopied == ASSUME IInv, WorkflowTypes, Copied, API PROVE Copied'
<1>1. ASSUME NEW d \in Rollouts, start_rollout(d) \/ governance_block(d)
      PROVE  Copied'
  <2>1. pc[d] = "none"
    BY <1>1, BoundAssumption DEF start_rollout, governance_block, Call, IInv, OneBusy, Types,
                                 Rollouts
  <2>2. pc' = [pc EXCEPT ![d] = "called"] /\ UNCHANGED <<touched, unreported, books, copy>>
    BY <1>1 DEF start_rollout, governance_block, Call, workflowVars
  <2>3. QED
    BY <2>1, <2>2, CopiedLocally DEF Copied, copied, IInv, Types
<1>2. CASE AbortRollout \/ shutdown \/ reset
  BY <1>2 DEF AbortRollout, shutdown, reset, workflowVars, Copied
<1>3. CASE RollBackByHand
  <2>1. UNCHANGED <<pc, touched, unreported, books>>
    BY <1>3 DEF RollBackByHand, workflowVars
  <2>2. \A e \in Rollouts : copy'[e].updated = copy[e].updated
    BY <1>3 DEF RollBackByHand, WorkflowTypes
  <2>3. QED
    BY <2>1, <2>2 DEF Copied
<1>4. QED
  BY <1>1, <1>2, <1>3 DEF API

LEMMA DeployCopied ==
    ASSUME IInv, WorkflowTypes, Copied, NEW d \in Rollouts, Deploy(d)
    PROVE  Copied'
<1> USE DEF WorkflowTypes, IInv, Types, copied, stateVars, workflowVars, Undisturbed
<1>1. CASE InitDeployment(d) \/ StartWorkflow(d) \/ DeployRaises(d)
  <2>1. UNCHANGED <<touched, unreported, books>>
    BY <1>1 DEF InitDeployment, StartWorkflow, DeployRaises
  <2>2. books[d] = {} /\ unreported[d] = {}
    BY <1>1 DEF InitDeployment, StartWorkflow, DeployRaises, Copied
  <2>3. \A e \in Rollouts \ {d} : pc'[e] = pc[e] /\ copy'[e] = copy[e]
    BY <1>1 DEF InitDeployment, StartWorkflow, DeployRaises
  <2>4. pc'[d] \in {"returned", "ended"} => copy'[d].updated = {}
    BY <1>1 DEF InitDeployment, StartWorkflow, DeployRaises
  <2>5. QED
    BY <2>1, <2>2, <2>3, <2>4, CopiedLocally DEF Copied
<1>2. CASE CopyResult(d)
  BY <1>2, CopiedLocally DEF CopyResult, Copied
<1>3. CASE Return(d)
  BY <1>3, CopiedLocally DEF Return, Copied
<1>4. CASE Stage(d)
  BY <1>4, CopiedLocally DEF Stage, Working, Copied
<1>5. CASE Report(d)
  BY <1>5, CopiedLocally DEF Report, Working, Copied
<1>6. CASE WorkflowEnds(d)
  BY <1>6, CopiedLocally DEF WorkflowEnds, Working, Copied
<1>7. CASE WorkflowAborts(d)
  BY <1>7, CopiedLocally DEF WorkflowAborts, Working, Copied
<1>8. QED
  BY <1>1, <1>2, <1>3, <1>4, <1>5, <1>6, <1>7 DEF Deploy, Workflow

LEMMA CopiedStep == IInv /\ WorkflowTypes /\ Copied /\ [Next]_vars => Copied'
<1> SUFFICES ASSUME IInv, WorkflowTypes, Copied, [Next]_vars PROVE Copied'
  OBVIOUS
<1>1. CASE API
  BY <1>1, ApiCopied
<1>2. CASE RollbackReturns
  <2>1. UNCHANGED <<pc, unreported, books>>
    BY <1>2 DEF RollbackReturns
  <2>2. \A e \in Rollouts : /\ touched'[e] \subseteq touched[e]
                            /\ copy'[e].updated = copy[e].updated
    BY <1>2 DEF RollbackReturns, WorkflowTypes
  <2>3. QED
    BY <2>1, <2>2 DEF Copied
<1>3. ASSUME NEW d \in Rollouts, Deploy(d) PROVE Copied'
  BY <1>3, DeployCopied
<1>4. ASSUME NEW d \in Rollouts, AbortSignal(d) PROVE Copied'
  BY <1>4 DEF AbortSignal, Copied
<1>5. ASSUME NEW d \in Rollouts, Poll(d) PROVE Copied'
  BY <1>5, CopiedLocally DEF Poll, Copied, copied, WorkflowTypes, workflowVars
<1>6. CASE UNCHANGED vars
  BY <1>6 DEF vars, workflowVars, Copied
<1>7. QED
  BY <1>1, <1>2, <1>3, <1>4, <1>5, <1>6 DEF Next

(***************************************************************************)
(* The theorems.                                                           *)
(***************************************************************************)

\* Two deployments never run at once, nor does one during a rollback by hand.
THEOREM OneAtATimeHolds == Spec => []OneAtATime
<1>1. IInv => OneAtATime
  BY DEF IInv, OneBusy, OneAtATime
<1>2. QED
  BY <1>1, InvHolds, PTL

\* An abort reaches no rollout but the one that was running when it was asked for.
THEOREM NoStrayAbortHolds == Spec => []NoStrayAbort
<1>1. IInv => NoStrayAbort
  BY DEF IInv, Events, NoStrayAbort
<1>2. QED
  BY <1>1, InvHolds, PTL

\* No deployment and no rollback works on a cluster that has been thrown away.
THEOREM OnLiveClusterHolds == Spec => []OnLiveCluster
<1>1. IInv => OnLiveCluster
  BY DEF IInv, OneBusy, Homes, OnLiveCluster
<1>2. QED
  BY <1>1, InvHolds, PTL

\* A rollback by hand takes back every server of the last deployment, but what an
\* abort kept from being reported (dashboard/state.py, trigger_rollback;
\* deploy/temporal_helper.py, the copy of the result).
THEOREM ManualCoversHolds == Spec => []ManualCovers
<1>1. Init => WorkflowTypes /\ Copied
  BY DEF Init, WorkflowTypes, Copied, Fresh, Statuses
<1>2. IInv /\ WorkflowTypes /\ Copied => ManualCovers
  <2> SUFFICES ASSUME IInv, WorkflowTypes, Copied, lock = "rollback"
               PROVE  touched[current] \subseteq copy[current].updated \cup unreported[current]
    BY DEF ManualCovers
  <2>1. current \in Rollouts /\ current \notin Busy
    BY BoundAssumption DEF IInv, OneBusy, Types, Rollouts
  <2>2. pc[current] \in {"none", "ended"}
    BY <2>1 DEF Busy, IInv, Types
  <2>3. QED
    BY <2>1, <2>2 DEF Copied
<1>3. QED
  BY <1>1, <1>2, TypesStep, CopiedStep, InvHolds, PTL DEF Spec

=============================================================================
