----------------------- MODULE ManualRollback_proofs -----------------------
(***************************************************************************)
(* Theorems about ManualRollback, for any number of callers and servers.   *)
(***************************************************************************)
EXTENDS ManualRollback, TLAPS

(***************************************************************************)
(* Type correctness.                                                       *)
(***************************************************************************)

\* Every write operation of cluster/state.py keeps a server well formed.
LEMMA RecordTypes ==
    ASSUME NEW r \in ServerRecord, NEW v \in Version
    PROVE  /\ UpdateVersion(r, v) \in ServerRecord
           /\ OverrideVersion(r, v) \in ServerRecord
           /\ RollbackServer(r) \in ServerRecord
BY DEF ServerRecord, HistoryEntry, ServerStatus, UpdateVersion,
       OverrideVersion, RollbackServer, CanRollBack, AlreadyRolledBack

\* A server starts well formed, and the version it is to return to is one.
LEMMA StartTypes ==
    /\ StartRecord \subseteq ServerRecord
    /\ \A r \in StartRecord : Home(r) \in Version
<1>1. ASSUME NEW v \in Version
      PROVE  /\ AfterRollout(v) \in ServerRecord /\ Home(AfterRollout(v)) = v
             /\ AfterRollback(v) \in ServerRecord /\ Home(AfterRollback(v)) = v
  BY NoVersionAssumption, VersionAssumption
     DEF AfterRollout, AfterRollback, UpdateVersion, RollbackServer, CanRollBack,
         AlreadyRolledBack, NoEntry, Home, ServerRecord, HistoryEntry, ServerStatus
<1>2. Stranger \in ServerRecord /\ Home(Stranger) = Source
  BY VersionAssumption
     DEF Stranger, NoEntry, Home, ServerRecord, HistoryEntry, ServerStatus
<1>3. QED
  BY <1>1, <1>2, VersionAssumption DEF StartRecord

\* Every step keeps the types.
LEMMA TypeStep == TypeOK /\ [Next]_vars => TypeOK'
<1> SUFFICES ASSUME TypeOK, [Next]_vars PROVE TypeOK'
  OBVIOUS
<1> USE DEF TypeOK, Control, clusterVars, resultVars, histVars
<1>1. ASSUME NEW c \in Caller, Call(c) PROVE TypeOK'
  BY <1>1 DEF Call
<1>2. ASSUME NEW c \in Caller, NEW s \in Server, Validate(c, s) PROVE TypeOK'
  BY <1>2 DEF Validate
<1>3. ASSUME NEW c \in Caller, Refuse(c) PROVE TypeOK'
  BY <1>3 DEF Refuse
<1>4. ASSUME NEW c \in Caller, MarkRollingBack(c) PROVE TypeOK'
  BY <1>4 DEF MarkRollingBack
<1>5. ASSUME NEW c \in Caller, NEW s \in Server, SkipMissing(c, s) PROVE TypeOK'
  BY <1>5 DEF SkipMissing
<1>6. ASSUME NEW c \in Caller, NEW s \in Server, LookAt(c, s) PROVE TypeOK'
  BY <1>6 DEF LookAt
<1>7. ASSUME NEW c \in Caller, NEW s \in Server, RollBack(c, s) PROVE TypeOK'
  <2>1. server' \in [Server -> ServerRecord]
    <3>1. RollbackServer(server[s]) \in ServerRecord
      BY RecordTypes, VersionAssumption
    <3>2. QED
      BY <1>7, <3>1 DEF RollBack
  <2>2. allSuccess' \in [Caller -> BOOLEAN]
    BY <1>7 DEF RollBack
  <2>3. rolledBack' \in [Caller -> SUBSET Server] /\ picked' \in [Caller -> SUBSET Server]
    BY <1>7 DEF RollBack
  <2>4. QED
    BY <1>7, <2>1, <2>2, <2>3 DEF RollBack
<1>8. ASSUME NEW c \in Caller, Finish(c) \/ FinishRaises(c) PROVE TypeOK'
  BY <1>8 DEF Finish, FinishRaises
<1>9. ASSUME NEW s \in Server, NEW v \in Version, Drift(s, v) PROVE TypeOK'
  <2>1. server' \in [Server -> ServerRecord]
    <3>1. OverrideVersion(server[s], v) \in ServerRecord
      BY RecordTypes
    <3>2. QED
      BY <1>9, <3>1 DEF Drift
  <2>2. QED
    BY <1>9, <2>1, BoundAssumption DEF Drift
<1>10. ASSUME NEW s \in Server, Remove(s) PROVE TypeOK'
  BY <1>10, BoundAssumption DEF Remove
<1>11. CASE UNCHANGED vars
  BY <1>11 DEF vars
<1>12. QED
  BY <1>1, <1>2, <1>3, <1>4, <1>5, <1>6, <1>7, <1>8, <1>9, <1>10, <1>11
     DEF Next, Step, Terminated

\* Every state of concurrent manual rollbacks is well typed.
THEOREM RollbackTypeCorrect == Spec => []TypeOK
<1>1. Init => TypeOK
  BY StartTypes, BoundAssumption DEF Init, TypeOK, Control
<1>2. QED
  BY <1>1, TypeStep, PTL DEF Spec

(***************************************************************************)
(* Concurrent callers.                                                     *)
(***************************************************************************)

\* rollback_server on a server nobody overrode: it takes a deployed one back,
\* leaves one that is back alone, and cannot do anything for a stranger.
LEMMA RollBackUndrifted ==
    ASSUME TypeOK, NEW s \in Server
    PROVE  /\ Deployed(s) \/ Back(s) =>
                /\ CanRollBack(server[s])
                /\ RollbackServer(server[s]).version = home[s]
                /\ RollbackServer(server[s]).previous = Target
                /\ RollbackServer(server[s]).last =
                      [action |-> "rollback", version |-> home[s]]
           /\ Unknown(s) => ~CanRollBack(server[s])
BY NoVersionAssumption, VersionAssumption
   DEF TypeOK, Deployed, Back, Unknown, CanRollBack, AlreadyRolledBack,
       RollbackServer, ServerRecord, HistoryEntry

\* A step changes what is known of a server only by rolling it back or by
\* overriding its version.
LEMMA ServerStep ==
    ASSUME TypeOK, Ledger, [Next]_vars, NEW s \in Server \ drifted'
    PROVE  /\ s \notin drifted
           /\ Undrifted(s)'
           /\ Restored(s) => Restored(s)'
<1>1. s \in Server /\ home' = home /\ (drifted' = drifted \/ s \notin drifted)
  BY DEF Next, vars, Call, Step, Validate, Refuse, MarkRollingBack, SkipMissing,
         LookAt, RollBack, Finish, FinishRaises, Drift, Remove, Terminated,
         histVars
<1>2. s \notin drifted
  BY <1>1
<1>3. Undrifted(s)
  BY <1>2 DEF Ledger
<1>4. CASE server'[s] = server[s]
  BY <1>1, <1>2, <1>3, <1>4 DEF Undrifted, Deployed, Back, Unknown, Restored
<1>5. ASSUME NEW c \in Caller, RollBack(c, s), CanRollBack(server[s]), s \in present
      PROVE  Undrifted(s)' /\ Restored(s)'
  <2>1. server'[s] = RollbackServer(server[s])
    BY <1>5 DEF RollBack, TypeOK
  <2>2. Deployed(s) \/ Back(s)
    BY <1>3, <1>5, RollBackUndrifted DEF Undrifted
  <2>3. QED
    BY <1>1, <2>1, <2>2, RollBackUndrifted DEF Undrifted, Back, Restored
<1>6. \/ server'[s] = server[s]
      \/ \E c \in Caller : RollBack(c, s) /\ CanRollBack(server[s]) /\ s \in present
  <2>1. ASSUME NEW c \in Caller, NEW t \in Server, RollBack(c, t)
        PROVE  \/ server'[s] = server[s]
               \/ t = s /\ CanRollBack(server[s]) /\ s \in present
    BY <2>1 DEF RollBack, TypeOK
  <2>2. ASSUME NEW t \in Server, NEW v \in Version, Drift(t, v)
        PROVE  server'[s] = server[s]
    BY <2>2 DEF Drift, TypeOK
  <2>3. QED
    BY <2>1, <2>2
       DEF Next, vars, Call, Step, Validate, Refuse, MarkRollingBack, SkipMissing,
           LookAt, Finish, FinishRaises, Remove, Terminated, clusterVars
<1>7. QED
  BY <1>2, <1>4, <1>5, <1>6

\* Every step keeps the ledger of a rollback whose target is not its source.
LEMMA LedgerStep ==
    ASSUME Source # Target, TypeOK, Ledger, [Next]_vars
    PROVE  Ledger'
<1>1. \A s \in Server \ drifted' :
         s \notin drifted /\ Undrifted(s)' /\ (Restored(s) => Restored(s)')
  BY ServerStep
<1>2. present' \subseteq present
  BY DEF Next, vars, Call, Step, Validate, Refuse, MarkRollingBack, SkipMissing,
         LookAt, RollBack, Finish, FinishRaises, Drift, Remove, Terminated,
         clusterVars
<1>3. \A s \in Server \ drifted' : Undrifted(s)'
  BY <1>1
<1>4. ReportTrue'
  <2> SUFFICES ASSUME NEW c \in Caller,
                      NEW s \in (rolledBack'[c] \cap present') \ drifted'
               PROVE  Restored(s)'
    BY DEF ReportTrue
  <2>1. s \in Server
    BY TypeStep DEF TypeOK
  <2>2. CASE s \in rolledBack[c]
    BY <1>1, <1>2, <2>1, <2>2 DEF Ledger, ReportTrue
  <2>3. ASSUME NEW d \in Caller, NEW t \in Server, LookAt(d, t), s \notin rolledBack[c]
        PROVE  Restored(s)'
    <3>1. s = t /\ server[s].version = Source
      BY <2>3 DEF LookAt, TypeOK
    <3>2. Restored(s)
      BY <1>1, <2>1, <3>1 DEF Ledger, Undrifted, Deployed, Back, Unknown, Restored
    <3>3. QED
      BY <1>1, <2>1, <3>2
  <2>4. ASSUME NEW d \in Caller, NEW t \in Server, RollBack(d, t), s \notin rolledBack[c]
        PROVE  Restored(s)'
    <3>1. s = t /\ CanRollBack(server[s]) /\ server'[s] = RollbackServer(server[s])
      BY <2>4 DEF RollBack, TypeOK
    <3>2. Deployed(s) \/ Back(s)
      BY <1>1, <2>1, <3>1, RollBackUndrifted DEF Ledger, Undrifted
    <3>3. home' = home
      BY <2>4 DEF RollBack, histVars
    <3>4. QED
      BY <2>1, <3>1, <3>2, <3>3, RollBackUndrifted DEF Restored
  <2>5. CASE UNCHANGED rolledBack
    BY <2>2, <2>5
  <2>6. QED
    BY <2>2, <2>3, <2>4, <2>5
       DEF Next, vars, Call, Step, Validate, Refuse, MarkRollingBack, SkipMissing,
           Finish, FinishRaises, Drift, Remove, Terminated, resultVars
<1>5. \A c \in Caller : Progressed(c)'
  <2> SUFFICES ASSUME NEW c \in Caller, pc'[c] = "loop", allSuccess'[c],
                      NEW s \in (present' \ drifted') \ (todo'[c] \cup picked'[c])
               PROVE  Restored(s)'
    BY DEF Progressed
  <2>1. s \in Server /\ s \in present /\ s \notin drifted
    BY <1>1, <1>2, TypeStep DEF TypeOK
  <2>2. ASSUME pc[c] = "loop", allSuccess[c], s \notin todo[c] \cup picked[c]
        PROVE  Restored(s)'
    BY <1>1, <2>1, <2>2 DEF Ledger, Progressed
  <2>3. CASE s \in rolledBack'[c]
    BY <1>4, <2>1, <2>3 DEF ReportTrue
  <2>4. ASSUME NEW d \in Caller, NEW t \in Server, LookAt(d, t) PROVE Restored(s)'
    BY <2>1, <2>2, <2>3, <2>4 DEF LookAt, TypeOK
  <2>5. ASSUME NEW d \in Caller, NEW t \in Server, RollBack(d, t) PROVE Restored(s)'
    <3>1. CASE d # c
      BY <2>1, <2>2, <2>5, <3>1 DEF RollBack, TypeOK
    <3>2. CASE d = c /\ s \in picked[c]
      <4>1. s = t
        BY <2>5, <3>2 DEF RollBack, Ledger
      <4>2. CASE rolledBack' = [rolledBack EXCEPT ![d] = @ \cup {t}]
        BY <2>3, <3>2, <4>1, <4>2 DEF TypeOK
      <4>3. CASE allSuccess' = [allSuccess EXCEPT ![d] = FALSE]
        BY <3>2, <4>3 DEF TypeOK
      <4>4. QED
        BY <2>5, <4>2, <4>3 DEF RollBack
    <3>3. CASE d = c /\ s \notin picked[c]
      <4>1. s \notin todo[c] /\ pc[c] = "loop"
        BY <2>5, <3>3 DEF RollBack
      <4>2. CASE UNCHANGED allSuccess
        BY <2>2, <3>3, <4>1, <4>2
      <4>3. CASE allSuccess' = [allSuccess EXCEPT ![d] = FALSE]
        BY <3>3, <4>3 DEF TypeOK
      <4>4. QED
        BY <2>5, <4>2, <4>3 DEF RollBack
    <3>4. QED
      BY <3>1, <3>2, <3>3
  <2>6. ASSUME NEW d \in Caller, NEW t \in Server, SkipMissing(d, t) PROVE Restored(s)'
    BY <2>1, <2>2, <2>6 DEF SkipMissing, TypeOK
  <2>7. ASSUME NEW d \in Caller, MarkRollingBack(d) PROVE Restored(s)'
    BY <2>1, <2>2, <2>7 DEF MarkRollingBack, TypeOK, resultVars
  <2>8. ASSUME NEW d \in Caller, NEW t \in Server, Call(d) \/ Validate(d, t)
        PROVE  Restored(s)'
    BY <2>1, <2>2, <2>8 DEF Call, Validate, TypeOK, resultVars
  <2>9. ASSUME NEW d \in Caller, Call(d) \/ Refuse(d) \/ Finish(d) \/ FinishRaises(d)
        PROVE  Restored(s)'
    BY <2>1, <2>2, <2>9 DEF Call, Refuse, Finish, FinishRaises, TypeOK, resultVars
  <2>10. CASE UNCHANGED <<pc, todo, picked, allSuccess>>
    BY <2>2, <2>10
  <2>11. QED
    BY <2>4, <2>5, <2>6, <2>7, <2>8, <2>9, <2>10
       DEF Next, vars, Step, Drift, Remove, Terminated, resultVars
<1>6. RolledBackTrue'
  <2> SUFFICES ASSUME status' = "rolled_back", NEW s \in present' \ drifted'
               PROVE  Restored(s)'
    BY DEF RolledBackTrue
  <2>1. s \in Server /\ s \in present /\ s \notin drifted
    BY <1>1, <1>2, TypeStep DEF TypeOK
  <2>2. CASE status = "rolled_back"
    BY <1>1, <2>1, <2>2 DEF Ledger, RolledBackTrue
  <2>3. ASSUME NEW c \in Caller, Finish(c), status # "rolled_back"
        PROVE  Restored(s)'
    BY <1>1, <2>1, <2>3 DEF Finish, Ledger, Progressed
  <2>4. QED
    BY <2>2, <2>3
       DEF Next, vars, Call, Step, Validate, Refuse, MarkRollingBack, SkipMissing,
           LookAt, RollBack, FinishRaises, Drift, Remove, Terminated
<1>7. \A c \in Caller : \A s, t \in picked'[c] : s = t
  BY DEF Ledger, TypeOK, Next, vars, Call, Step, Validate, Refuse, MarkRollingBack,
         SkipMissing, LookAt, RollBack, Finish, FinishRaises, Drift, Remove,
         Terminated
<1>8. QED
  BY <1>3, <1>4, <1>5, <1>6, <1>7 DEF Ledger

\* The ledger is kept throughout.
LEMMA LedgerInvariant == Source # Target => (Spec => []Ledger)
<1> SUFFICES ASSUME Source # Target PROVE Spec => []Ledger
  OBVIOUS
<1>1. Init => Ledger
  <2> SUFFICES ASSUME Init PROVE Ledger
    OBVIOUS
  <2>1. ASSUME NEW s \in Server PROVE Undrifted(s)
    <3>1. home[s] = Home(server[s]) /\ server[s] \in StartRecord
      BY DEF Init
    <3>2. ASSUME NEW v \in Version, server[s] = AfterRollout(v) PROVE Deployed(s)
      BY <3>1, <3>2, NoVersionAssumption, VersionAssumption
         DEF AfterRollout, UpdateVersion, Home, Deployed
    <3>3. ASSUME NEW v \in Version, server[s] = AfterRollback(v) PROVE Back(s)
      BY <3>1, <3>3, NoVersionAssumption, VersionAssumption
         DEF AfterRollback, AfterRollout, UpdateVersion, RollbackServer,
             CanRollBack, AlreadyRolledBack, Home, Back
    <3>4. CASE server[s] = Stranger
      BY <3>1, <3>4 DEF Stranger, NoEntry, Home, Unknown, Undrifted
    <3>5. QED
      BY <3>1, <3>2, <3>3, <3>4 DEF StartRecord, Undrifted
  <2>2. QED
    BY <2>1 DEF Init, Ledger, ReportTrue, RolledBackTrue, Progressed
<1>2. TypeOK /\ Ledger /\ [Next]_vars => Ledger'
  BY LedgerStep
<1>3. QED
  BY <1>1, <1>2, RollbackTypeCorrect, PTL DEF Spec

\* However many threads roll back, no server that is back is flipped again.
THEOREM NoFlip == Source # Target => (Spec => NoDoubleFlip)
<1> SUFFICES ASSUME Source # Target PROVE Spec => NoDoubleFlip
  OBVIOUS
<1>1. TypeOK /\ Ledger /\ [Next]_vars =>
        [\A s \in Server \ drifted' : Restored(s) => Restored(s)']_vars
  BY ServerStep
<1>2. QED
  BY <1>1, RollbackTypeCorrect, LedgerInvariant, PTL DEF Spec, NoDoubleFlip

\* ... a deployment is marked rolled_back only when all its servers are back.
THEOREM MarkedTruly == Source # Target => (Spec => []RolledBackTrue)
<1> SUFFICES ASSUME Source # Target PROVE Spec => []RolledBackTrue
  OBVIOUS
<1>1. Ledger => RolledBackTrue
  BY DEF Ledger
<1>2. QED
  BY <1>1, LedgerInvariant, PTL

\* ... and each caller's list of servers rolled back is true.
THEOREM ReportedTruly == Source # Target => (Spec => []ReportTrue)
<1> SUFFICES ASSUME Source # Target PROVE Spec => []ReportTrue
  OBVIOUS
<1>1. Ledger => ReportTrue
  BY DEF Ledger
<1>2. QED
  BY <1>1, LedgerInvariant, PTL

=============================================================================
