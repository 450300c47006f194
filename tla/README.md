# Canary deployment: verification project

TLA+ models of the canary deployment system in `src/`, model-checked with TLC,
with theorems proved by TLAPS. `PROJECT.json` holds the machine-readable part:
which definition models which lines, which run checks which property, which
hazard is covered by what.

## 1. The system

A cluster of servers, grouped in regions, is moved from one version to another
in stages (for example 10, 25, 50, 75 and 100 percent). One process holds
everything; the rollout is a Temporal workflow, its worker and the threads of a
dashboard share the cluster object.

| Part | State | Operations | Talks to |
|---|---|---|---|
| Rollout workflow (`deploy/workflows.py`) | `state` dict (status, servers_updated, ...), `aborted` | `run_deployment`, signals `abort` and `approve`, query | activities, by Temporal calls with timeouts and retries |
| Activities (`deploy/activities.py`) | none of their own | `execute_stage`, `run_health_check`, `evaluate_*`, `rollback_updated_servers`, `record_event`, ... | engine, cluster, quarantine, governance, audit |
| Engine (`deploy/engine.py`) | `current_deployment`, `_current_config` | `deploy`, `_execute_stage`, `rollback` | cluster, quarantine |
| Temporal helper (`deploy/temporal_helper.py`) | the caller's `DeploymentState` | start the workflow, watch the abort event, poll the state | workflow (signal, query) |
| Cluster (`cluster/`) | servers under one lock | update, override, roll back, set status | everyone |
| Quarantine (`resilience/quarantine.py`) | one record per region, under a lock | quarantine, release, auto-quarantine | cluster (reads) |
| Recovery (`resilience/recovery.py`) | plans, with the step each has reached | generate, execute, resume | cluster, quarantine, `DeploymentState` |
| Manual rollback (`deploy/rollback.py`) | - | validate, rollback, save, load | cluster, `DeploymentState` |
| Governance (`governance/`, `resilience/policies.py`) | approvals, counters from the audit trail | four checkpoints | cluster, audit |
| Abort listener (`deploy/abort_listener.py`) | reader thread, stop flag, registered event, under a lock | start, stop, set and clear the event | the abort event, the console |
| Audit trail (`deploy/audit.py`) | a file of events, each with the id of a parent | log, read | everyone writes |
| Snapshots (`resilience/snapshots.py`) | stored snapshots | create, save, load, restore with undo | cluster, `DeploymentState` |
| Replay (`resilience/replay.py`) | none | timeline, lineage check, state at an event | audit trail (reads) |
| Dashboard (`dashboard/`) | rollout thread, abort event, lock | start, roll back, inject failures, scenarios | engine, cluster, quarantine |
| Failure injection, health (`health/`) | - | inject, analyse | cluster |

What makes each part correct:

- *Rollout.* A rollout reaches one outcome and says so once. A completed one
  covers every eligible server, a rolled back one leaves none behind. No stage
  reaches more servers than its share. An abort stops the growth at once.
- *Cluster.* `previous_version` is the only record of what to go back to, so
  nobody may deploy twice to a server, and repeating a rollback is harmless.
- *Quarantine.* No update in an isolated region that was seen as isolated.
- *Manual rollback.* A drifted server is not flipped by mistake or twice.
- *Recovery, snapshots.* A plan that reports success did its work; a restore
  leaves servers and books as they were together; a failed one changes nothing.
- *Governance.* The strictest verdict wins, the risk level is monotone in its
  inputs.
- *Abort listener, dashboard.* An abort reaches the rollout it was meant for.
- *Audit, replay.* The chain of events never breaks; a replay shows what the
  cluster is and was, whatever is written later.

What is hard about the code: the abort travels on two channels (the event, read
by the engine between two servers; the signal, delivered to the workflow while
it waits for an activity); activities run at least once but change the cluster;
other threads change servers and quarantine regions between a stage's reads;
governance may stop a rollout anywhere; an operator restores snapshots and
resumes plans beside all this; a console thread cannot be stopped while it waits
for a line. PROJECT.json lists the hazards one by
one, at their lines.

## 2. Modules

| Module | Models | Needs |
|---|---|---|
| `ClusterState` | the write operations of `cluster/state.py`, as operators on one server record | - |
| `CanaryWorkflow` | one rollout: workflow, activities, engine stage, abort watcher, disturbing threads | `ClusterState` |
| `Rollout` | the abstract rollout: grow, decide once, revert | - |
| `MCCanaryWorkflow` | small instances for TLC | `CanaryWorkflow` |
| `CanaryWorkflow_proofs` | the theorems and their proofs: the abort, the books, the outcome, the coverage, the share of a stage, the abstract rollout | `CanaryWorkflow` |
| `ManualRollback` | `rollback()` of `deploy/rollback.py`, called by several threads on one deployment | `ClusterState` |
| `MCManualRollback` | small instances for TLC | `ManualRollback` |
| `ManualRollback_proofs` | the theorems and their proofs | `ManualRollback` |
| `Governance` | the coordinator, its policies, the risk and the approval gate, over a series of rollouts | - |
| `MCGovernance` | small instances for TLC | `Governance` |
| `Governance_proofs` | the theorems and their proofs | `Governance` |
| `Dashboard` | a series of deployments as the dashboard starts, aborts, takes back and resets them; the engine's `deploy` and the Temporal helper | - |
| `MCDashboard` | a small instance for TLC | `Dashboard` |
| `Dashboard_proofs` | the theorems and their proofs | `Dashboard` |
| `Resilience` | snapshots, recovery plans and the quarantine as an operator uses them, beside other writers | `ClusterState` |
| `MCResilience` | a small instance for TLC | `Resilience` |
| `Resilience_proofs` | the theorems and their proofs | `Resilience` |
| `AuditReplay` | the rollout of `CanaryWorkflow` with the file of events it writes, and the replay of that file | `CanaryWorkflow` |
| `MCAuditReplay` | a small instance for TLC | `AuditReplay` |
| `AuditReplay_proofs` | the theorems and their proofs | `AuditReplay`, `CanaryWorkflow_proofs` |
| `AbortListener` | the console listener: its caller, its threads and the input | - |
| `MCAbortListener` | a small instance for TLC | `AbortListener` |
| `AbortListener_proofs` | the theorems and their proofs | `AbortListener` |
| `StageSelection` | the round robin over regions that picks the servers of a stage | - |
| `MCStageSelection` | a small instance for TLC | `StageSelection` |
| `StageSelection_proofs` | the theorems and their proofs | `StageSelection` |

### How `CanaryWorkflow` corresponds to the code

`pc` names the await at which the workflow stands; an action is the code from
there to the next await at which another actor's step can make a difference.
Between two such points signals can only set `aborted` and `status`, which the
code does not read there, so the events and snapshots a handler records are part
of its action. A lost activity result is an action of its own where repeating
the activity changes something (`LoseStageResult`, `RepeatRollback`).

| Code | Model |
|---|---|
| top of `run_deployment` to the first checkpoint | `Begin`, `EvaluateStart` |
| top of the stage loop | `EnterStage`, `EvaluateStageStart` |
| `engine._execute_stage` | `ComputeQuota`, `SelectServers`, then `CheckAbort` and `UpdateServer` per server |
| `execute_stage` turning an exception into an error | `StageRaises` |
| the code after `execute_stage` | `StageResult`, `StageRecorded` |
| health check and its retry loop | `HealthCheck`, `RetryHealthCheck`, `HealthPassed`, `AutoQuarantine` |
| checkpoint and callback after a stage | `EvaluateStageComplete`, `StageDone` |
| `wait_condition` with a timeout | `AbortWait`, `WaitTimeout` |
| end of the try block | `StageDone`, `MarkServersHealthy`, `Return` |
| exception handler | `HandleAbort`, `HandleRecoverable`, `HandleUnrecoverable`, `EvaluateRollback` |
| `_rollback_workflow` | `RollbackUpdatedServers`, `RepeatRollback`, `FinishRollback` |
| `_watch_abort_event` and the `abort` signal | `AbortSignal` |
| console listener, dashboard | `SetAbortEvent`, `InjectFailure`, `QuarantineRegion` |

Abstractions:

- `execute_stage` never awaits, so the worker's event loop delivers no signal
  while it runs; other *threads* do interleave with it, at its two reads of the
  quarantine and at every server.
- `state["servers_updated"]` is a set; the audit trail is the sequence of the
  event types the workflow records.
- The servers of a stage are any set of the right size: the round robin over
  regions decides which, and no property here depends on it. That it finds as
  many is `Filled` of `StageSelection`.
- Governance answers anything at each checkpoint (`Decision`), a health check
  too. Without a coordinator every checkpoint answers ALLOW.
- The text of an exception is its kind: `Fault`.
- A recovery plan is its effect on the servers of the rollout: both plans a
  rollout can generate cover `servers_updated` exactly.
- The version change of a server and its history are one record; of the history
  only the last entry is ever read.

`before`, `touched` and `late` are history variables: no action reads them.

### How `ManualRollback` corresponds to the code

Every look at a server and every `rollback_server` takes the cluster's lock for
itself, so each is an action; everything a caller does between two of them is
local to it, except its writes of the `DeploymentState`'s status, which nobody
locks.

| Code | Model |
|---|---|
| call of `rollback` | `Call` |
| one server in `validate_rollback_consistency` | `Validate` |
| consistency error, or logging ROLLBACK_START raises | `Refuse` |
| `mark_rolling_back` | `MarkRollingBack` |
| a pass of the loop up to `rollback_server` | `SkipMissing`, `LookAt` |
| `rollback_server` and its answer | `RollBack` |
| `mark_rolled_back`, return | `Finish` |
| logging ROLLBACK_COMPLETE raises, `mark_failed` | `FinishRaises` |
| another thread's `override_version` | `Drift` |
| another thread's `restore_snapshot` deleting a server | `Remove` |

The deployment may be loaded from a file, beside a cluster that has gone on, so
`Init` lets each server be as the deployment left it, already rolled back, or a
`Stranger` that runs the target version and has nothing to go back to. `home`
and `drifted` are history variables.

### How `Governance` corresponds to the code

`CanaryWorkflow` lets a checkpoint answer anything; `Governance` turns this
round: a checkpoint is evaluated step by step, and the rollout is kept to what it
does with the answers. Each policy takes the cluster's or the quarantine's lock
for itself, so each is an action, and other threads change servers and
quarantines between two of them.

| Code | Model |
|---|---|
| `calculate_risk` | `Score`, `Risk` |
| `_build_context`, the counters from the audit trail | `BuildContext`, `Count` |
| one pass of the loop over the policies | `EvaluatePolicy`, `PolicyRaises` |
| the policies, in the coordinator's default order | `Policies`, `Verdict` |
| precedence of the verdicts | `Stricter` |
| `ApprovalGate.evaluate_request`, the end of `_evaluate_checkpoint` | `GateAnswers`, `Decide` |
| a checkpoint activity timed out or retried | `LoseDecision` |
| `if decision == "BLOCK"` at the four checkpoints | `Blocked` |
| the other branches | `Started`, `StageStarted`, `StageCompleted`, `RollbackGranted` |
| a stage, with a health check of any answer | `DeployStage` |
| the abort path, which asks nobody | `Abort` |
| the next call of `run_deployment` | `NextDeployment` |
| failure injection, metrics, the quarantine's API | `ChangeStatus`, `Quarantine`, `Release` |

Points are scaled by the size of the cluster, so that the share of updated
servers needs no division; the rounding of floating-point numbers at a threshold
is left out, and so is the cap of the score at 100, above the last threshold.
`retry_count` and `previous_failures_count` are 0 in every call. Whether
RiskPolicy's calendar forbids a deployment (`restricted`) is any answer. A stage
deploys any set of servers it may select: its share is `CanaryWorkflow`'s
business. `seen` and `sick` are history variables.

### How `Dashboard` corresponds to the code

The other way round again: here the rollout is only what the dashboard can tell
of it, and the threads around it are modelled. A deployment `d` is one call of
`DeploymentEngine.deploy`; its state is indexed by `d`.

| Code | Model |
|---|---|
| `_lock`, where it is held over several steps | `lock`; a method that holds it for a moment is one action |
| `_rollout_thread`, `_is_rollout_active` | `thread`, `IsRolloutActive` |
| `_abort_event`, and the event in a deployment's config | `abortEvent`, `eventOf`, `isSet` |
| `engine.current_deployment` and its `DeploymentState` | `current`, `copy` |
| `start_rollout`, `_scenario_governance_block` | the same names, with `Call` |
| the two halves of `trigger_rollback` | `AbortRollout`; `RollBackByHand`, `RollbackReturns` |
| `reset`, `shutdown` | the same names |
| `deploy` up to the workflow, its `except` branch, its return | `InitDeployment`, `StartWorkflow`, `DeployRaises`, `Return` |
| `_watch_abort_event`, `_poll_workflow_state` | `AbortSignal`, `Poll` |
| the result copied into the `DeploymentState` | `CopyResult` |
| `run_deployment` | `Stage`, `Report`, `WorkflowEnds`, `WorkflowAborts` |

The scenario's config has no abort event and no `_rollout_thread`, and its clock
stands on a weekend, so its workflow ends `failed`. A cluster is a number, which
`reset` increments; `home` remembers the one a deployment was called for. A
rollback by hand is `ManualRollback`'s subject, and here one step. `asked`,
`home`, `touched` and `unreported` are history variables. The HTTP layer and the
views are left out, and so are the failure scenarios, which `CanaryWorkflow` has.

### How `Resilience` corresponds to the code

One thread, the operator's, owns the `DeploymentState` and makes one call after
the other; other threads write to the cluster between any two of its
acquisitions of the cluster's lock. `pc` names where the operator's thread is.

| Code | Model |
|---|---|
| a stage of a rollout, run by the operator | `Deploy` |
| `create_snapshot`, with or without the deployment | `CreateSnapshot` |
| `load_snapshot` of a file that need not fit the cluster | `LoadSnapshot` |
| `restore_snapshot` up to the lock | `TakeBackup` |
| servers deleted, updated and created, under the lock | `ApplyServers`; `ApplyBroken` if an entry cannot be read |
| the deployment, if its id is the snapshot's; return | `RestoreDeployment` |
| the `except` branch | `Undo` |
| `generate_plan` | `PlanSteps` (a set of plans for each strategy), `GeneratePlan` |
| `execute_recovery_plan`, the loop from `current_step_index` | `Execute`, `Approve`, `RollBackTarget`, `FinishStep`, `CompletePlan` |
| `approval_callback` says no | `Reject` |
| `check_and_auto_quarantine`: the copy, then one region at a time | `ExamineRegions`, `QuarantineSuspect` |
| other threads: failures, drift, a rollback by hand | `ChangeStatus`, `Drift`, `RollBackByHand` |

A snapshot is its servers' records, its books and whether it was taken with the
deployment. A broken entry (`broken`, `depBroken`) stands for one that raises
when it is read: a status no `ServerStatus` knows, a missing key, a bad date.
Without an id it raises before anything is deleted (`snapshots.py:153`);
otherwise it leaves its server untouched or with the fields that were written
before the bad one (`HalfWritten`), at most all but the history. The batches of a
staged recovery are any partition of the right sizes, for the code goes by the
order of a set. `written`, `astray` and `stale` are history variables: what the
properties except, because somebody else changed it or the operator asked for
it.

### How `AuditReplay` corresponds to the code

It extends `CanaryWorkflow`: every step of the rollout (`RolloutStep`) appends
the events it recorded to `file`, each with the id of its predecessor in
`last_event_id`'s chain; the coordinator's and the recovery plan's own events
have no parent. The file starts with the events of an earlier deployment.

| Code | Model |
|---|---|
| `record_event`, `last_event_id` | `Log` |
| `DeploymentEvent.__init__` taking the time | `Stamp`, `Ticks` |
| `_init_deployment` choosing the source version | `SourceIsCommonest` |
| `AuditLogger.log` raises, the activity is retried | `FailedWrite` |
| the activity's result is lost, it is retried | `LostResult` |
| `rollback()` of `deploy/rollback.py` on the rollout that is over | `RollBackByHand` |
| `_scope_to_deployment` | `Scope` |
| `reconstruct_timeline`: index, sort and `pop` | `Ids`, `Roots`, `Children`, `Earlier`, `OldestFirst` |
| its depth-first walk, one pass of the loop; all of them; the orphans | `Visit`; `Walk`; `Timeline`, `OrphansInOrder` |
| `_update_virtual_state` | `Apply` |
| `reconstruct_state_at_step` | `View`, `ReplayAlong`, `ReplayAt` |
| `build_causality_graph`, `verify_event_lineage` | `WithChildren`, `Rooted`, `VerifyLineage` |

An event is stamped when it is made (`audit.py:69`), before `log` takes the lock
(`audit.py:125`). One deployment's events have one writer at a time: the workflow
awaits each `record_event`, the activity does not await between the stamp and the
write, the coordinator and the recovery plan run inside activities that the
workflow awaits, and a rollback by hand begins when `deploy` has returned. So
stamps never decrease along the file, provided the clock is not set back, but
they may be equal. An event is one tick later than the one before it, or in the
same tick (`same`). A repeated write of `LostResult` is later than the first, for
the activity has timed out in between, and a rollback by hand than the rollout's
last event. `sorted` is stable, `reverse=True` keeps equal keys in the order of
the file, and `pop` takes from the end: of siblings with equal stamps the one
later in the file comes first (`Earlier`). The orphans are sorted once, without
`pop`, so there equal stamps keep the order of the file (`OrphansInOrder`).

A rollback by hand writes under the id of the engine's copy of the deployment
(`rollback.py:212`, `rollback.py:259`). That is the engine's own id
(`engine.py:543`) until the poller has read the workflow's state once
(`temporal_helper.py:46`); the final copy does not set it. `RollBackByHand`
allows either id (`"this"`, `"own"`).

The replay works on positions in the file. Its loops are recursive functions of
the number of passes made (`Walk`, `View`, `Rooted`), not recursive operators, so
that they can be proved about. The details of an event are the servers
it names. The health of a virtual server follows its version in the code and is
left out.

### How `AbortListener` corresponds to the code

A step is what the code does under one hold of the lock, or one `readline`. The
caller may call `start`, `stop`, `set_abort_event` and `clear_abort_event` in any
order, as often as it likes.

| Code | Model |
|---|---|
| `start` | `Start` |
| `stop` up to `join`, and from there | `Stop`, `StopReturns` |
| `set_abort_event`, `clear_abort_event` | `SetAbortEvent`, `ClearAbortEvent` |
| the top of the loop in `_run` | `CheckStop` |
| `readline`: a line; end of input or a closed stream | `ReadLine`, `ReadNothing` |
| the second test of the flag | `StoppedReading` |
| the comparison with "abort", the event set | `MatchAbort` or `SkipLine`, `SetEvent` |
| the `finally` of `_run` | `Leave` |
| the operator's console | `TypeLine`, `EndInput` |

`stream` tells `sys.stdin`, which `stop` must not close, from a stream given to
the constructor, which it does. `join` has a timeout, so `StopReturns` does not
wait for the thread. `over` and `restarted` are history variables.

### How `StageSelection` corresponds to the code

One pass of the `while` loop of `_select_servers_for_stage` is one `Take`.
Within a region servers are taken in the order of their ids, so only how many
are left matters (`left`), and a selected server is named by its region. The
order of the regions' names is `Place`, any order; a region's index in the list
of those with servers left is the number of those before it (`Index`).

| Code | Model |
|---|---|
| pending servers grouped by region, regions sorted | `Init` |
| `while len(selected) < count and any(by_region.values())` | the guards of `Take`, `Exhausted` |
| `regions[region_idx % len(regions)]`, `pop(0)` | `Take` |
| regions without servers leave the list | `WithServers`, `Index` |
| `region_idx += 1` | `NextTurn` |

### What is not modelled

`execute_stage`'s fallback for `engine = None` (the same algorithm without the
abort check), the engine's old synchronous helpers (nothing calls them), the
`approve` signal (nothing reads it), a worker crash (the environment is one
process, with no persistence to recover from). The health analysis is arithmetic
on floating-point readings, of which a rollout sees one bit; the metrics of
`resilience/observability.py` are counters for display; the generator and the
inspector of the cluster make random data and print; `main.py` is a script of
the calls modelled here. PROJECT.json lists each part with its status.

## 3. Properties and runs

`rollout.cfg`: three servers in two regions, stages 50 and 100 percent, one
injected failure, one retry of a health check; the servers are veterans, which
an earlier rollout deployed to and took back, so that each has a version to go
back to already, and it is the wrong one. Three servers make the stages' shares
round (50% of 3), two regions allow a quarantine that leaves something to do, and
two stages give a wait, a finished stage to roll back and a last one.

| Property | Says |
|---|---|
| `RollbackAnchor` | a server deployed to remembers the version it ran before the rollout |
| `Accounted` | a server deployed to is in `servers_updated`, or its stage is still reporting, or an abort dropped the report |
| `RolledBackRestores` | `rolled_back` means every server deployed to is back |
| `RollbackCompleteTrue` | ROLLBACK_COMPLETE is true of every server on the books, aborted or not |
| `BlastRadius` | no stage reaches more servers than its share of the cluster |
| `PromptAbort` | at most one server is updated after the abort event |
| `OneOutcome` | the trail tells exactly one outcome of a finished rollout |
| `NoGrowthAfterAbort` | no server is deployed to after the signal |
| `PausedAbortRestores` | an abort in the wait between two stages undoes the rollout |
| `ImplementsRollout` | it implements `Rollout`, fairness included: grow, decide once, revert, end |

`retries.cfg` has fresh servers, no governance and one retry of a health check, and lets one activity result be lost, so that Temporal runs the
activity again, and checks what must survive that: `CompletedCovers` (completion
means every server outside the quarantined regions was updated) and
`Termination`. The properties about the books do not survive it: see
`stage_rerun` below.

`manual_rollback.cfg` has two callers, two servers, two versions and one
disturbance (an override or a removal).

| Property | Says |
|---|---|
| `NoDoubleFlip` | a restored server is never flipped back by any caller, unless its version was overridden |
| `RolledBackTrue` | status `rolled_back`, whoever wrote it, is true of every server left, the overridden ones aside |
| `ReportTrue` | what a caller counts as rolled back is, and stays so while others work |
| `Progress` | every call returns or raises |

`governance.cfg` has two servers in two regions, one of them strict, two
rollouts of two stages, two changes by others and one lost answer, with every
ceiling at 1.

| Property | Says |
|---|---|
| `StrictestWins` | the answer is the strictest verdict, whatever raised or came after; a denied approval blocks |
| `NoUnattendedRisk` | no stage is deployed at high risk without an approval, and none at critical risk, unless the checkpoint decreed a rollback |
| `SickNeverAllowed` | an updated server sick in a strict region all through a checkpoint keeps it from allowing anything |
| `RiskMonotone` | no step that only worsens servers or adds updated ones lowers the risk category |

`dashboard.cfg` has two servers, two deployments and one reset.

| Property | Says |
|---|---|
| `OneAtATime` | two deployments never overlap, nor a deployment and a rollback by hand |
| `NoStrayAbort` | an abort reaches no rollout but the one that ran when it was asked for |
| `OnLiveCluster` | no deployment or rollback by hand works on a cluster that a reset has replaced |
| `ManualCovers` | a rollback by hand takes back every server of the last deployment, but what an abort kept from being reported |
| `Responsive` | the lock is always given back, and every deployment ends |

`ManualCovers` relies on something the model leaves out: a connection to the
Temporal server that is lost once the workflow has started. The `except` branch
of `deploy` (`engine.py:122-135`) then replaces `current_deployment` by an empty
one, and a rollback by hand takes nothing back. In the model `DeployRaises`
happens only while the workflow is being started.

`resilience.cfg` has two servers in two regions, fresh or failed, any of them
deployed to at the start, four calls of the operator and one write by others.

| Property | Says |
|---|---|
| `LiveOnBooks` | a server on the new version is on the deployment's books, where a rollback finds it |
| `BooksAnchored` | every server on the books can be rolled back, so that a plan which ignores the answer misses nothing |
| `PlanCovers` | a completed plan of a whole deployment, halted and resumed or not, left no server of it on the new version |
| `RestoreExact` | a restore that answers True left exactly the snapshot's servers, as they were, and the books with them |
| `UndoKeeps` | a restore that answers False left every server still there, and the books, as it found them |
| `TypeOK` | the type invariant |

The first three except servers whose version was overridden, or which were
restored without their deployment (`astray`); `PlanCovers` also those deployed
to or restored after the plan was made (`stale`).

`audit_replay.cfg` has two servers of one region, both on the deployment's source
version, stages 50 and 100 percent, governance, quarantine, an abort at any time,
a rollback by hand, and one failed write, one repeated write or one pair of
events with equal stamps. Servers of a third version are left to the theorems.

| Property | Says |
|---|---|
| `LineageSound` | every file the system writes passes the check of its own lineage |
| `TimelineCausal` | the timeline has each event once, parents first, siblings by stamp and those with equal stamps in reverse of the file's order |
| `ReplayNow` | a replay of the newest event shows the books, and which ordinary servers on them run the new version |
| `HistoryStable` | a replay of an earlier event of the chain shows what it showed when it was the newest |

`ReplayNow` is about ordinary servers (`Ordinary`): it does not hold of those that
ran another version than the deployment's source when a recovery plan rolls
back, since the activity reports only those it finds on the source version
(`activities.py:415`); nor, without a plan, of those that ran the target already,
which a replay shows on the source version once they are rolled back
(`replay.py:209`). It is about a newest event that comes after the deployment's
start in the timeline (`AfterStart`): a governance decision stamped in the same
tick as the start is replayed before it. And it says nothing of a rollback by
hand under the engine's own id: no other event has that id, so its replay shows
no server at all. `HistoryStable` is about events with a parent, see below.

`abort_listener.cfg` has two events, two threads, five calls and two lines.

| Property | Says |
|---|---|
| `SingleReader` | until `stop` is called, the input has one reader and the listener knows it |
| `NoLateAbort` | no thread sets an event that was cleared, replaced or stopped |
| `AbortDelivered` | while a thread listens, an abort line sets the registered event, unless that is taken back first |

`stage_selection.cfg` has four regions, as the repository's cluster has, with up
to four servers each in any combination, and a stage that asks for any number.

| Property | Says |
|---|---|
| `Filled` | a stage gets what it asks for, or every server that may be selected, and none twice |
| `Spread` | a region with servers left is behind no other by more than one server, and one more for each region that has run out |

Three runs show where the code does less than a test, a docstring or the README
says:

| Run | The claim | What happens |
|---|---|---|
| `abort_drops_stage` | "Aborted deployment rolls back servers that were already updated." (`tests/test_deploy.py:739`) | The signal is handled while `execute_stage` returns; the workflow raises before it books the stage's servers. They stay on the new version, status UPDATING. |
| `stage_rerun` | ROLLED_BACK "successfully completes the restoration of all target-version nodes" (`README.md:58`) | A repeated `execute_stage` starts from the old books: a server is deployed to twice and loses its anchor, or is left out of the books. |
| `restore_undo` | "if restoration fails, it rolls back to the state prior to the restoration call" (`resilience/snapshots.py:113`); "leave zero half-updated states" (`README.md:363`) | The undo writes only to servers that are still there: those the restore deleted stay deleted, those it created stay. |

Seen while modelling and not stated as a run:

- *Abort.* A stage that sees the event before the workflow sees the signal ends
  `rolled_back`, not `aborted`, for the status is chosen by `self.aborted`
  (`workflows.py:550`; `tests/test_deploy.py:764` wants `aborted`). A signal
  during `mark_servers_healthy` turns a completed rollout `aborted`, with every
  server on the new version (`workflows.py:25`; "COMPLETED --> [*]",
  `README.md:46`). One handled before the first stage is overwritten by
  `in_progress` (`workflows.py:137`), with no consequence, for the flag is what
  the code tests. An abort asked for when the workflow has finished and its thread
  has not is answered "engine is rolling back the active rollout"
  (`dashboard/state.py:402`), and nothing is.
- *Selection.* When a region runs out it leaves the list under `region_idx`, and
  the turn of another is passed over: of servers in regions A, A, B and C, three
  are A, B, A (`engine.py:279`; "Distributes selection across regions for maximum
  coverage", `engine.py:250`). `Spread` bounds what this can do. Each stage
  begins again with the first region, so the remainders of the stages add up.
- *Listener.* A thread blocked in `readline` on `sys.stdin` survives `stop`, whose
  docstring says it will end with the next line (`abort_listener.py:63`); after
  another `start`, which clears the flag, it goes on listening beside the new
  one, and when it ends it clears `_thread`, so that a third may be started. An
  abort line read while one deployment runs may set the event of the next, if
  that is registered before the thread gets the lock. `main.py` calls each once.
- *Governance.* Before a stage the workflow tests the decision for BLOCK only, so
  a ROLLBACK that HealthPolicy decrees is discarded and the stage is deployed, at
  a risk for which nobody was asked (`workflows.py:159`; "Actions decreed by the
  Governance Policy Engine", `governance/models.py:31`). The ceiling on rollbacks
  counts those of one deployment id (`coordinator.py:206`), every rollout has a
  new one and rolls back once, so a series of rollbacks is never seen
  (`README.md:248`).
- *Manual rollback.* `rollback_server` recognises a repeated rollback only while
  the version is the one of its last entry (`cluster/state.py:293`; `README.md:217`
  does not say so): a forced rollback of a rolled back and then overridden server
  installs the target version and reports success. A rollback that fails on
  some server leaves the status at `rolling_back` for good (`rollback.py:252`);
  the drift check (`README.md:249`) looks at every server before the first is
  rolled back, so it does not see what drifts after; the status never becomes
  `rolling_back` in the workflow (`README.md:42`).
- *Recovery.* A plan resumed after a restore skips the steps it had finished,
  whose servers the restore has put back on the new version. `region_quarantine`
  without a region is an empty plan, and completes. A restore without its
  deployment, as in `main.py:394`, separates servers and books. The undo of a
  failed restore also undoes what other threads wrote since its backup. An
  examination of the regions that began before a release may quarantine the
  region again (`quarantine.py:95`).
- *Replay.* Events without a parent (governance decisions, the events of a
  recovery plan, a rollback by hand) come after the whole chain in the timeline,
  so a replay of one of them shows the state at the end of the rollout rather
  than at its step (`replay.py:64`, docstring of `reconstruct_state_at_step`). A
  lost result of `record_event` leaves an event in the file twice. Events of one
  parent with equal stamps are replayed in reverse of the file's order
  (`replay.py:73-80`; "break ties by timestamp, which keeps the order stable",
  `replay.py:44`). A rollback by hand of a deployment the poller never read is
  recorded under an id that no other event has (`temporal_helper.py:174-189`).

### Bounds

`MaxInjections` and `MaxLost` bound the failures and lost results, by guards;
`MaxHealthRetries` is a parameter of the code. Nothing else is bounded: `pc`
never loops except through stages and retries. One injection suffices to fail,
or degrade a region of one or two servers past the 30% threshold; one lost
result to run an activity twice.

`MaxChanges` bounds overrides and removals in `ManualRollback`. One is enough to
put a drifted or missing server before, between or after the looks of either
caller; two callers are the least that can flip a server twice.

In `Governance`, `MaxDeployments`, `MaxChanges` and `MaxLost` bound the rollouts,
the changes by others and the lost answers. Two servers reach all four risk
categories; two changes let one server fall ill and recover, or get from degraded
to failed, within a checkpoint; the second rollout is the one that a counter of
the first would have to stop.

In `Dashboard`, `MaxRollouts` bounds the deployments and `MaxResets` the resets.
Two deployments are the least that can overlap, or see each other's event; the
second may be a scenario. One reset separates an old cluster from a new one. The
theorems below have no such bound.

In `Resilience`, `MaxCalls` bounds the operator's calls and `MaxWrites` the
writes by others. Four calls reach a snapshot that is loaded back and restored
after a deployment, and a plan that is generated, halted and resumed, with a
deployment or a restore between; one write falls before, between or after any
two holds of the lock. `BatchSize` is 1, so that two servers make two batches.

In `AuditReplay`, `MaxFaults` bounds the failed and repeated writes and the
events stamped in the tick of the one before: one fault can hit any event. Two servers in one region make a share of 50% round, and a stage
that leaves one out. The servers are symmetric: their names occur nowhere.

In `AbortListener`, two threads are the least that can read one input, two
events the least that can be confused, and five calls reach a start, a
registration, a stop, a second start and a second registration with the first
thread still reading.

In `StageSelection`, `MaxServers` bounds the servers of a region and `MaxNeeded`
what a stage asks for. Four regions can run out one after the other, with the
others' turns shifted each time. `Place` is one order of their names: which one
makes no difference, for every distribution of servers over the regions is an
initial state.

### Fairness

`WF_vars(Workflow)`: Temporal keeps scheduling a workflow that has something to
do; every activity has a timeout and is retried. It is weak fairness of the
whole workflow, so no branch is forced: not the health check's answer, not the
governance verdict, not the timer of the wait. `WF_vars(AbortSignal)`: the
watcher polls every 0.1 seconds until the workflow returns. Nothing is assumed of
operators, failures and quarantines. In `ManualRollback` it is `WF_vars(Step(c))`
for each caller: a thread inside `rollback()` keeps running, since nothing there
waits for anything but a lock held for a moment. No one has to call it. In
`Dashboard` it is weak fairness of each deployment's thread and workflow, and of
a rollback by hand; the poller, the watcher and whoever uses the API need not
act, so nobody is assumed to ask for anything. In `AbortListener` it is
`WF_vars(ReaderStep(r))` for each thread: one that is not blocked in `readline` is
scheduled, and nobody has to call or to type. `Resilience` and `AuditReplay` are
about safety only.

## 4. Proofs

`CanaryWorkflow_proofs` proves, for any finite set of servers and regions, any
strictly increasing list of percentages that ends at 100 and any bounds:

| Theorem | Assumes | Rests on |
|---|---|---|
| `TypeCorrect` | - | `TypeOK` with `StageInRange` is inductive |
| `PromptAbortHolds` | - | `AbortOrder` |
| `NoGrowth` | - | `AbortOrder` |
| `RollbackAnchorHolds`, `AccountedHolds`, `RolledBackRestoresHolds`, `RollbackCompleteHolds` | `MaxLost = 0` | `Books` |

`StageInRange` is needed because `WaitTimeout` enters the next stage: only in
the wait is there one. `AbortOrder` relates the two channels of an abort: the
signal comes after the event, and never while a stage has passed the check of
the event and not made the update; then at most one update can follow the
event. `Books` says what a rollback relies on: a server not touched runs its
old version, a touched one is deployed, with its anchor, or reverted; the books
equal the touched servers, except while a stage deploys (then they lack
exactly `newly`) and after an abort has dropped a report. None of the stated
properties is inductive alone: `RolledBackRestores`, for instance, needs that
the books are complete when the rollback starts.

`MaxLost = 0` says that Temporal delivers each activity's result the first time.
The assumption is necessary: `stage_rerun` refutes the conclusion without it.

Of the same module:

| Theorem | Assumes | Rests on |
|---|---|---|
| `OneOutcomeHolds` | - | `Verdict` |
| `CompletedCoversHolds` | - | `Covering` |
| `BlastRadiusHolds` | `MaxLost = 0` | `Share`, `Books` |
| `RefinesRollout` | `MaxLost = 0` | `PhaseInv`, `Books`, `AbortOrder` |

`Verdict` says that the trail tells no outcome before the workflow stands at a
place it reaches only by deciding, and exactly one from then on. `Covering`
follows the last stage: the quota it computes is no less than what is left to
cover, so what it selects is all of that, or too few servers, and then it reports
an error and the rollout does not complete; a retry of a stage whose result was
lost only finds less to do. `Share` bounds the servers reached and those still to
update by the stage's percentage of the cluster, rounded up, from the quota on;
its lemmas are about cardinalities. `RefinesRollout` is the safety part of
`ImplementsRollout`: the abstract phase is read off the trail (`PhaseOf`), so the
lemmas of its proof say which events a step may add (`ToldStep`) and that the
phase changes with them alone (`SamePhase`).

`ManualRollback_proofs` proves, for any finite set of servers, any callers and
any bound on the disturbances:

| Theorem | Assumes | Rests on |
|---|---|---|
| `RollbackTypeCorrect` | - | `TypeOK` is inductive |
| `NoFlip`, `MarkedTruly`, `ReportedTruly` | `Source # Target` | `Ledger` |

`Ledger` says that a server nobody overrode is in one of three conditions
(`Deployed`, `Back`, `Unknown`), and that a caller whose `all_success` still
stands has taken back every server it has passed. `RolledBackTrue` alone is not
inductive: when a caller finishes, it needs to know what its loop did, and that
the other caller undid none of it. The key lemma is `RollBackUndrifted`: from
any of the three conditions `rollback_server` ends in `Back`, or refuses an
`Unknown` server. With `Source = Target` the code counts a server still on the
target version as rolled back (`rollback.py:241`), so the assumption is needed.

`Governance_proofs` proves, for any finite set of servers and regions and any
limits:

| Theorem | Assumes | Rests on |
|---|---|---|
| `GovernanceTypeCorrect` | - | `TypeOK` is inductive |
| `StrictestWinsHolds`, `NoUnattendedRiskHolds`, `SickNeverAllowedHolds` | - | `Judgement` |
| `RiskMonotoneHolds` | - | `ScoreMonotone` |

`Judgement` follows the loop over the policies: what the fold has made of the
verdicts so far (`Summary`), and which verdict each of the first three policies
must have left behind once it has had its turn (`Marks`). `NoUnattendedRisk`
needs `Waiting` too: the risk a stage is deployed under is the one its checkpoint
computed, since the coordinator does not work meanwhile. For `RiskMonotone` the
points for sick servers are rewritten as 15 for each unstable server and 15 more
for each failed one: two counts of sets that only grow, where the number of
degraded servers alone may fall.

`Dashboard_proofs` proves, for any cluster and any number of deployments and
resets:

| Theorem | Assumes | Rests on |
|---|---|---|
| `OneAtATimeHolds`, `NoStrayAbortHolds`, `OnLiveClusterHolds` | - | `IInv` |
| `DashboardTypeCorrect` | - | `IInv`, `WorkflowTypes` |
| `ManualCoversHolds` | - | `IInv`, `Copied` |

`IInv` says that at most one deployment is busy, and which: the thread's, or the
scenario's while the scenario has the lock (`OneBusy`); that an active thread has
its own event at hand, so that `trigger_rollback` never takes the wrong half
(`EventOfThread`); and that a deployment that is busy, or the engine's last one,
belongs to the cluster in use (`Homes`). `OneAtATime` is not inductive: that a
free lock and an inactive thread mean nothing is busy (`IdleWhenFree`) needs the
scenario's part of `OneBusy`. `Copied` relates the workflow's books, the cluster
and the engine's copy: a server deployed to is on the books or still unreported,
a deployment that never started its workflow has none, and one that has ended
was copied in full. `ManualCovers` follows, since nothing is busy during a
rollback by hand.

`AbortListener_proofs` proves, for any number of events, threads, calls and
lines:

| Theorem | Assumes | Rests on |
|---|---|---|
| `ListenerTypeCorrect` | - | `TypeOK` is inductive |
| `SingleReaderHolds`, `NoLateAbortHolds` | - | `IInv` |

`IInv` adds that only who called `stop` is joining (`Joining`: so nothing else
clears the field under a live thread), and that the registered event is none
whose registration has ended (`Current`: a thread sets no other).

`Resilience_proofs` proves, for any finite set of servers and regions, any batch
size and any bounds on the calls and the writes:

| Theorem | Assumes | Rests on |
|---|---|---|
| `ResilienceTypeCorrect` | - | `Types` |
| `RestoreExactHolds`, `UndoKeepsHolds` | - | `Answered` |
| `LiveOnBooksHolds`, `BooksAnchoredHolds` | `SettledBefore` | `Ledger` |
| `PlanCoversHolds` | `SettledBefore` | `Ledger`, `Course` |

`Types` is `TypeOK` with the records closed, and with the step that runs being
one of the plan's. `Answered` carries what a restore has done to the servers over
to its decision on the deployment. `Ledger` says that a server on the books is
`Deployed` or `TakenBack`, and one that is not is `Settled`, in the cluster and
also in the snapshot and the backup, which may take the cluster's place later;
`LiveOnBooks` alone says nothing of those two. `Course` says that a server on the
books since before the plan was made is still among the targets of a step to
come, which is what makes a plan that was halted and resumed complete.
`SettledBefore` excludes a server that came from the target version before the
deployment and was not rolled back last: a plan halted, overtaken by a restore
and resumed would put it on that version off the books.

`StageSelection_proofs` proves, for any finite set of regions, any order of their
names, any numbers of servers and any stage:

| Theorem | Assumes | Rests on |
|---|---|---|
| `FilledHolds`, `SpreadHolds`, `AlwaysATurn` | - | `IInv` |

`Spread` compares regions by what they have given, while the loop knows only
positions in a list that shrinks. `Even` connects the two: it names a position at
which the lap under way began, and says that, this lap not counted, two regions
on the list differ by no more than the number of regions that have run out. A pass
that removes a region shifts those behind it under `region_idx`; the lap may then
begin elsewhere, and the difference grows by one, but so does the number of
regions run out (`TakeKeepsEvenOffTheList`). `Behind` extends this to regions that
are off the list. `Positions` and `NextRemainder` are the lemmas on the list and
on `turn % Cardinality(WithServers)`: the indices of the regions on it are the
numbers below its length, each once.

`AuditReplay_proofs` proves, for any rollout of `CanaryWorkflow` and any number of
failed and repeated writes:

| Theorem | Assumes | Rests on |
|---|---|---|
| `TimelineOfForest` | events with ids of their own, after their parents | `WalkInv` |
| `LineageSoundHolds`, `TimelineCausalHolds` | - | `AuditInv`, `TimelineOfForest` |
| `HistoryStableHolds` | - | `AuditInv`, `ChainFirst` |
| `ReplayNowHolds` | `MaxLost = 0` | `ReplayInv`, `ChainFirst` |

`TimelineOfForest` is about the code's algorithm alone, for events with any stamps:
`WalkInv` says what holds of the stack and the list of `reconstruct_timeline`
after any number of passes (nothing is on them twice, a child comes after its
parent, of siblings the earlier in the sense of `Earlier` is taken or lies on
top, what is not reached yet hangs from something on the stack), and `WalkEnds`
that as many passes as there are events empty the stack. That `Earlier` orders
any events strictly is `EarlierIsOrder`; `OldestFirstLists` says what the sort
makes of them.

`AuditInv` describes the file of a rollout. Ids ascend and parents come first
(`IdsInOrder`, `ParentsBefore`), `last_event_id` names an event of the file
(`LastKnown`), and stamps never decrease (`Stamped`): this is what `LineageSound`
and `TimelineCausal` need. `Comb` says that the events with a parent form one
chain with teeth: the parent of a later event is no older than any event before
it, unless it shares its parent, as the copy of an event whose result was lost
does, and then it is stamped later. `Unbroken` ties every such event to the
chain's first. From these follows `ChainFirst`: in the timeline the whole chain
comes in the order of the file, whatever stamps are equal, and before any other
event that is stamped later than its first. The events that may come before it
change no server, and so the view of an event of the chain depends on the chain
up to it, which no later event changes: `HistoryStable`.

`ReplayNow` needs the other direction too. `Book` applies the rollout's events in
the order of the file; `ReplayIsBook` shows that a replay of the newest event
ends in the same state although it goes through them in another order, because
the events off the chain change nothing (`Quiet`) or are the last. `Framed` is
what this needs: the rollout's first event is its start (`StartFirst`), and the
one event off the chain that moves servers ends a rollback by hand, is stamped
later than the whole chain and ends the file (`HandLast`). `ServersShown` then
relates that state to the cluster, unless a rollback by hand went astray under
the engine's own id (`Astray`), with the `Books` of `CanaryWorkflow_proofs`,
which this module shows a rollback by hand to keep. An event written twice
changes nothing the second time (`Again`). The assumption is that of `Books`.

The replay's loops are recursive functions of the number of passes. What they
compute is proved by least counterexample: the set of numbers for which the claim
fails has a least member (`Least`), and the step to it from the one before is an
ordinary leaf. `WalkUnfolds`, `ViewUnfolds`, `RootedUnfolds` and `BookUnfolds`
first show, in the same way, that the functions exist.

Of the type invariants only that of `Resilience` is in a run.

Every safety invariant and every action property of the passing runs has a
theorem. Only model-checked: liveness (`Termination`, `PausedAbortRestores`,
`Progress`, `Responsive`, `AbortDelivered`) and the fairness part of
`ImplementsRollout`, whose proofs need `ENABLED`, which is out of the prover's
reach; the other parts of `ImplementsRollout`, its initial states and its steps,
are `RefinesRollout`.

## 5. Plan

Done: the modules of section 2, their runs, and the theorems of section 4.

Left to prove: the theorems that take a bound as a hypothesis (`MaxLost = 0`)
hold of runs in which no result of an activity is lost; what remains true of
them when results are lost is worth a statement of its own, as are the safety
steps under the liveness properties (what each wait of the workflow needs to
end). Left unmodelled: the parts of section 1 that are not modelled, for the
reasons given there.
