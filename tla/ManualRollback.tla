--------------------------- MODULE ManualRollback ---------------------------
(***************************************************************************)
(* Rollbacks by hand of one finished deployment (deploy/rollback.py): any  *)
(* number of threads call rollback() on the same DeploymentState, forced   *)
(* or not, while operators override versions on servers and the restore of *)
(* a snapshot may remove some.  A caller first validates every server,     *)
(* then goes through them again; each look at a server and each call of    *)
(* rollback_server takes the cluster's lock for itself, so others act in   *)
(* between.                                                                *)
(***************************************************************************)
EXTENDS ClusterState, Integers, FiniteSets

CONSTANTS Server,     \* deployment_state.servers_updated
          Caller,     \* the threads that call rollback()
          Target,     \* deployment_state.target_version
          Source,     \* deployment_state.source_version
          MaxChanges  \* bound on overrides and removals by others

ASSUME VersionAssumption == Target \in Version /\ Source \in Version
ASSUME SetAssumption == IsFiniteSet(Server)
ASSUME BoundAssumption == MaxChanges \in Nat

VARIABLES
    server,      \* the cluster: [Server -> ServerRecord]
    present,     \* the servers the cluster still has
    status,      \* deployment_state.status
    pc,          \* where each caller is
    force,       \* its argument
    todo,        \* servers its current loop has not visited
    consistent,  \* has its validation found no error?
    picked,      \* the server it has looked at and is about to roll back
    allSuccess,  \* all_success
    rolledBack,  \* rolled_back_ids
    changes,     \* overrides and removals so far (bounded)
    home,        \* history: the version each server ran before the deployment
    drifted      \* history: servers whose version was overridden

clusterVars == <<server, present>>
resultVars  == <<allSuccess, rolledBack>>
histVars    == <<changes, home, drifted>>
vars == <<clusterVars, status, pc, force, todo, consistent, picked, resultVars,
          histVars>>

-----------------------------------------------------------------------------

Control == {"idle", "validate", "loop", "done", "refused", "raised"}
Ended   == {"done", "refused", "raised"}

\* A server the deployment updated from version v, and one already taken back.
AfterRollout(v) == UpdateVersion([version |-> v, previous |-> NoVersion,
                                  status |-> "healthy", last |-> NoEntry], Target)
AfterRollback(v) == RollbackServer(AfterRollout(v))

\* A saved state may be loaded beside a cluster that never saw the deployment:
\* a server on the target version with nothing to go back to.
Stranger == [version |-> Target, previous |-> NoVersion,
             status |-> "healthy", last |-> NoEntry]

StartRecord == {AfterRollout(v) : v \in Version}
                 \cup {AfterRollback(v) : v \in Version} \cup {Stranger}

Home(r) == CASE r.last.action = "deploy"   -> r.previous
             [] r.last.action = "rollback" -> r.version
             [] OTHER                      -> Source

Init ==
    /\ server \in [Server -> StartRecord]
    /\ present = Server
    /\ status = "completed"
    /\ pc = [c \in Caller |-> "idle"]
    /\ force = [c \in Caller |-> FALSE]
    /\ todo = [c \in Caller |-> {}]
    /\ consistent = [c \in Caller |-> TRUE]
    /\ picked = [c \in Caller |-> {}]
    /\ allSuccess = [c \in Caller |-> TRUE]
    /\ rolledBack = [c \in Caller |-> {}]
    /\ changes = 0
    /\ home = [s \in Server |-> Home(server[s])]
    /\ drifted = {}

-----------------------------------------------------------------------------
(***************************************************************************)
(* Faulty variants, each for the property its comment names.               *)
(***************************************************************************)

\* Progress: a server that is gone is looked up again and again.
SkipMissing_Again(c, s) ==
    /\ pc[c] = "loop" /\ picked[c] = {}
    /\ s \in todo[c] \ present
    /\ allSuccess' = [allSuccess EXCEPT ![c] = @ /\ force[c]]
    /\ UNCHANGED <<clusterVars, status, pc, force, todo, consistent, picked,
                   rolledBack, histVars>>

\* ReportTrue: the answer of rollback_server is not looked at.
RollBack_Blind(c, s) ==
    /\ pc[c] = "loop"
    /\ s \in picked[c]
    /\ picked' = [picked EXCEPT ![c] = {}]
    /\ IF s \in present
       THEN server' = [server EXCEPT ![s] = RollbackServer(@)]
       ELSE UNCHANGED server
    /\ rolledBack' = [rolledBack EXCEPT ![c] = @ \cup {s}]
    /\ UNCHANGED <<present, status, pc, force, todo, consistent, allSuccess,
                   histVars>>

\* RolledBackTrue: the deployment is marked whatever became of its servers.
Finish_Always(c) ==
    /\ pc[c] = "loop" /\ picked[c] = {} /\ todo[c] = {}
    /\ status' = "rolled_back"
    /\ pc' = [pc EXCEPT ![c] = "done"]
    /\ UNCHANGED <<clusterVars, force, todo, consistent, picked, resultVars,
                   histVars>>

-----------------------------------------------------------------------------
(***************************************************************************)
(* One call of rollback().                                                 *)
(***************************************************************************)

Call(c) ==
    /\ pc[c] = "idle"
    /\ pc' = [pc EXCEPT ![c] = "validate"]
    /\ \E f \in BOOLEAN : force' = [force EXCEPT ![c] = f]
    /\ todo' = [todo EXCEPT ![c] = Server]
    /\ UNCHANGED <<clusterVars, status, consistent, picked, resultVars, histVars>>

Validate(c, s) ==
    /\ pc[c] = "validate"
    /\ s \in todo[c]
    /\ todo' = [todo EXCEPT ![c] = @ \ {s}]
    /\ consistent' = [consistent EXCEPT
                        ![c] = @ /\ s \in present /\ server[s].version = Target]
    /\ UNCHANGED <<clusterVars, status, pc, force, picked, resultVars, histVars>>

\* An inconsistent deployment is refused unless the caller forces it.  Logging
\* ROLLBACK_START may raise too, before anything is changed.
Refuse(c) ==
    /\ pc[c] = "validate" /\ todo[c] = {}
    /\ \/ ~consistent[c] /\ ~force[c] /\ pc' = [pc EXCEPT ![c] = "refused"]
       \/ (consistent[c] \/ force[c]) /\ pc' = [pc EXCEPT ![c] = "raised"]
    /\ UNCHANGED <<clusterVars, status, force, todo, consistent, picked,
                   resultVars, histVars>>

MarkRollingBack(c) ==
    /\ pc[c] = "validate" /\ todo[c] = {}
    /\ consistent[c] \/ force[c]
    /\ status' = "rolling_back"
    /\ pc' = [pc EXCEPT ![c] = "loop"]
    /\ todo' = [todo EXCEPT ![c] = Server]
    /\ UNCHANGED <<clusterVars, force, consistent, picked, resultVars, histVars>>

\* A server that is gone is skipped; only a forced rollback calls that success.
SkipMissing(c, s) ==
    /\ pc[c] = "loop" /\ picked[c] = {}
    /\ s \in todo[c] \ present
    /\ todo' = [todo EXCEPT ![c] = @ \ {s}]
    /\ allSuccess' = [allSuccess EXCEPT ![c] = @ /\ force[c]]
    /\ UNCHANGED <<clusterVars, status, pc, force, consistent, picked, rolledBack,
                   histVars>>

\* A server that already runs the source version counts as rolled back.
LookAt(c, s) ==
    /\ pc[c] = "loop" /\ picked[c] = {}
    /\ s \in todo[c] \cap present
    /\ todo' = [todo EXCEPT ![c] = @ \ {s}]
    /\ \/ /\ server[s].version = Source
          /\ rolledBack' = [rolledBack EXCEPT ![c] = @ \cup {s}]
          /\ UNCHANGED picked
       \/ /\ server[s].version # Source
          /\ picked' = [picked EXCEPT ![c] = {s}]
          /\ UNCHANGED rolledBack
    /\ UNCHANGED <<clusterVars, status, pc, force, consistent, allSuccess, histVars>>

\* rollback_server looks the server up again.
RollBack(c, s) ==
    /\ pc[c] = "loop"
    /\ s \in picked[c]
    /\ picked' = [picked EXCEPT ![c] = {}]
    /\ \/ /\ s \in present /\ CanRollBack(server[s])
          /\ server' = [server EXCEPT ![s] = RollbackServer(@)]
          /\ rolledBack' = [rolledBack EXCEPT ![c] = @ \cup {s}]
          /\ UNCHANGED allSuccess
       \/ /\ ~(s \in present /\ CanRollBack(server[s]))
          /\ allSuccess' = [allSuccess EXCEPT ![c] = FALSE]
          /\ UNCHANGED <<server, rolledBack>>
    /\ UNCHANGED <<present, status, pc, force, todo, consistent, histVars>>

Finish(c) ==
    /\ pc[c] = "loop" /\ picked[c] = {} /\ todo[c] = {}
    /\ status' = IF allSuccess[c] THEN "rolled_back" ELSE status
    /\ pc' = [pc EXCEPT ![c] = "done"]
    /\ UNCHANGED <<clusterVars, force, todo, consistent, picked, resultVars,
                   histVars>>

\* Logging ROLLBACK_COMPLETE raises: the deployment is marked failed.
FinishRaises(c) ==
    /\ pc[c] = "loop" /\ picked[c] = {} /\ todo[c] = {}
    /\ status' = "failed"
    /\ pc' = [pc EXCEPT ![c] = "raised"]
    /\ UNCHANGED <<clusterVars, force, todo, consistent, picked, resultVars,
                   histVars>>

-----------------------------------------------------------------------------
(***************************************************************************)
(* Meanwhile.                                                              *)
(***************************************************************************)

Drift(s, v) ==
    /\ s \in present
    /\ changes < MaxChanges
    /\ changes' = changes + 1
    /\ server' = [server EXCEPT ![s] = OverrideVersion(@, v)]
    /\ drifted' = drifted \cup {s}
    /\ UNCHANGED <<present, status, pc, force, todo, consistent, picked,
                   resultVars, home>>

\* A restored snapshot that does not know the server deletes it.
Remove(s) ==
    /\ s \in present
    /\ changes < MaxChanges
    /\ changes' = changes + 1
    /\ present' = present \ {s}
    /\ UNCHANGED <<server, status, pc, force, todo, consistent, picked,
                   resultVars, home, drifted>>

Step(c) ==
    \/ Refuse(c) \/ MarkRollingBack(c) \/ Finish(c) \/ FinishRaises(c)
    \/ \E s \in Server : \/ Validate(c, s) \/ SkipMissing(c, s)
                         \/ LookAt(c, s) \/ RollBack(c, s)

Terminated == (\A c \in Caller : pc[c] \in Ended) /\ UNCHANGED vars

Next == \/ \E c \in Caller : Call(c) \/ Step(c)
        \/ \E s \in Server, v \in Version : Drift(s, v)
        \/ \E s \in Server : Remove(s)
        \/ Terminated

Spec == Init /\ [][Next]_vars

\* A thread inside rollback() keeps running; no one has to call it.
FairSpec == Spec /\ \A c \in Caller : WF_vars(Step(c))

-----------------------------------------------------------------------------
(***************************************************************************)
(* Properties.                                                             *)
(***************************************************************************)

Restored(s) == server[s].version = home[s]

TypeOK ==
    /\ server \in [Server -> ServerRecord]
    /\ present \in SUBSET Server
    /\ status \in {"completed", "rolling_back", "rolled_back", "failed"}
    /\ pc \in [Caller -> Control]
    /\ force \in [Caller -> BOOLEAN]
    /\ todo \in [Caller -> SUBSET Server]
    /\ consistent \in [Caller -> BOOLEAN]
    /\ picked \in [Caller -> SUBSET Server]
    /\ allSuccess \in [Caller -> BOOLEAN]
    /\ rolledBack \in [Caller -> SUBSET Server]
    /\ changes \in 0 .. MaxChanges
    /\ home \in [Server -> Version]
    /\ drifted \in SUBSET Server

\* However many threads roll back at once, a server that is back on its version
\* is never flipped to the deployed one again, unless its version was overridden.
NoDoubleFlip == [][\A s \in Server \ drifted' : Restored(s) => Restored(s)']_vars

\* A deployment marked rolled_back, by whichever caller, has every server it
\* still has back on its version, those with overridden versions aside.
RolledBackTrue ==
    status = "rolled_back" => \A s \in present \ drifted : Restored(s)

\* What a caller counts as rolled back is, and stays so while others work.
ReportTrue ==
    \A c \in Caller : \A s \in (rolledBack[c] \cap present) \ drifted : Restored(s)

\* Every call returns or raises.
Progress == \A c \in Caller : pc[c] = "validate" ~> pc[c] \in Ended

-----------------------------------------------------------------------------
(***************************************************************************)
(* The inductive invariant behind the properties.                          *)
(***************************************************************************)

Deployed(s) == /\ server[s].version = Target
               /\ server[s].previous = home[s]
               /\ server[s].last.action = "deploy"

Back(s) == /\ server[s].version = home[s]
           /\ server[s].previous = Target
           /\ server[s].last = [action |-> "rollback", version |-> home[s]]

Unknown(s) == /\ server[s].version = Target
              /\ server[s].previous = NoVersion
              /\ home[s] = Source

\* What a server can be while nobody overrides its version.
Undrifted(s) == Deployed(s) \/ Back(s) \/ Unknown(s)

\* A caller that has met no failure has taken back every server it has left.
Progressed(c) ==
    pc[c] = "loop" /\ allSuccess[c] =>
        \A s \in (present \ drifted) \ (todo[c] \cup picked[c]) : Restored(s)

\* What concurrent rollbacks know of the servers.
Ledger == /\ \A s \in Server \ drifted : Undrifted(s)
          /\ ReportTrue
          /\ \A c \in Caller : Progressed(c)
          /\ \A c \in Caller : \A s, t \in picked[c] : s = t
          /\ RolledBackTrue

=============================================================================
