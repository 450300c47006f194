---------------------------- MODULE ClusterState ----------------------------
(***************************************************************************)
(* The write operations of cluster/state.py, as operators on one server    *)
(* record.  Every one of them runs under ClusterState._lock, so a caller's *)
(* step applies it atomically.  Of a server (cluster/models.py) the model  *)
(* keeps the version in use, the version it would roll back to, its status *)
(* and the last entry of its deployment history: no operation reads more   *)
(* of the history than that.                                               *)
(***************************************************************************)

CONSTANTS Version,     \* version strings
          NoVersion    \* Python's None, for previous_version

ASSUME NoVersionAssumption == NoVersion \notin Version

ServerStatus == {"healthy", "degraded", "failed", "updating"}

\* The last deployment_history entry; an empty history is a "none" entry.
HistoryEntry == [action : {"none", "deploy", "rollback"},
                 version : Version \cup {NoVersion}]

NoEntry == [action |-> "none", version |-> NoVersion]

ServerRecord == [version  : Version,
                 previous : Version \cup {NoVersion},
                 status   : ServerStatus,
                 last     : HistoryEntry]

-----------------------------------------------------------------------------

UpdateStatus(r, new) == [r EXCEPT !.status = new]

UpdateVersion(r, new) ==
    [version  |-> new,
     previous |-> r.version,
     status   |-> "updating",
     last     |-> [action |-> "deploy", version |-> new]]

\* Drift applied behind the engine's back: nothing but the version changes.
OverrideVersion(r, new) == [r EXCEPT !.version = new]

\* Faulty variants: a rollback to no version, which breaks the type invariants;
\* a rollback that repeats itself, which breaks NoDoubleFlip.
CanRollBack_Always(r) == TRUE
AlreadyRolledBack_Never(r) == FALSE

CanRollBack(r) == r.previous # NoVersion

AlreadyRolledBack(r) == /\ r.last.action = "rollback"
                        /\ r.version = r.last.version

\* rollback_server: refuses without a previous version, is a no-op on a server
\* whose rollback is its latest event, and otherwise swaps the two versions.
RollbackServer(r) ==
    IF ~CanRollBack(r) \/ AlreadyRolledBack(r)
    THEN r
    ELSE [version  |-> r.previous,
          previous |-> r.version,
          status   |-> "healthy",
          last     |-> [action |-> "rollback", version |-> r.previous]]

IsUpdatable(r) == r.status \in {"healthy", "degraded"}

IsUnstable(r) == r.status \in {"degraded", "failed"}

=============================================================================
