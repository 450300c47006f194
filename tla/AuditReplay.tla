---------------------------- MODULE AuditReplay ----------------------------
(***************************************************************************)
(* The audit trail of a rollout (deploy/audit.py, the record_event calls   *)
(* of deploy/workflows.py and deploy/activities.py) as a file of events    *)
(* with parents, composed with the rollout that writes it, and the replay  *)
(* of such a file (resilience/replay.py).                                  *)
(*                                                                         *)
(* The workflow chains its events: each carries the id of the one recorded *)
(* before it.  The coordinator, the recovery plans and a rollback by hand  *)
(* write events without a parent.  record_event is an activity: a write    *)
(* that fails is tried again, and so is one whose result is lost.          *)
(*                                                                         *)
(* One deployment's events are written one at a time, each stamped as it   *)
(* is made: the stamps never decrease along the file (the clock is not set *)
(* back), but two events may have the same one.                            *)
(***************************************************************************)
EXTENDS CanaryWorkflow, SequencesExt

CONSTANTS Source,     \* source_version: what most servers ran
          MaxFaults   \* bound on failed writes, lost results and equal stamps

ASSUME SourceAssumption == Source \in Version \ {Target}
ASSUME FaultAssumption == MaxFaults \in Nat

VARIABLES
    file,    \* the audit file, oldest event first
    last,    \* last_event_id of the workflow
    made,    \* event ids handed out so far
    faults   \* failed writes, lost results and equal stamps so far (bounded)

trailVars == <<file, last, made, faults>>
allVars   == <<vars, trailVars>>

-----------------------------------------------------------------------------

\* Events that nobody chains.
RootTypes == {"recovery_plan_execute", "recovery_plan_complete",
              "governance_decision"}

NoEvent == 0

Event(id, parent, stamp, type, servers) ==
    [id |-> id, parent |-> parent, stamp |-> stamp, type |-> type,
     deployment |-> "this", servers |-> servers, target |-> Target]

\* The file is not empty: it has the events of a finished deployment, of Source.
EarlierTrail ==
    LET past(id, type, S) == [id |-> id, parent |-> id - 1, stamp |-> id,
                              type |-> type, deployment |-> "earlier",
                              servers |-> S, target |-> Source]
    IN  <<past(1, "deployment_start", {}), past(2, "stage_transition", Server),
          past(3, "deployment_completed", {})>>

\* What the rollback activity reports: with a recovery plan, the servers it
\* finds on the source version.
RolledBackIds ==
    IF Quarantining THEN {s \in updated : server[s].version = Source}
                    ELSE {s \in updated : CanRollBack(server[s])}

\* The servers named in an event's details.
Named(type) == CASE type = "stage_transition"  -> newly
                 [] type = "rollback_complete" -> RolledBackIds
                 [] OTHER -> {}

-----------------------------------------------------------------------------
(***************************************************************************)
(* Replay: pure functions of a file f.  An event is named by its position  *)
(* in the file.                                                            *)
(***************************************************************************)

\* Faulty variant, breaks ReplayNow: the deployments of a file are not told apart.
Scope_All(f, d) == DOMAIN f

Scope(f, d) == {k \in DOMAIN f : f[k].deployment = d}

Ids(f, S) == {f[k].id : k \in S}

\* Events whose parent is not in the scope hang from the root.
Roots(f, S)        == LET ids == Ids(f, S) IN {k \in S : f[k].parent \notin ids}
Children(f, S, id) == {k \in S : f[k].parent = id}

\* The order in which pop() takes siblings off the stack: by stamp.  Equal stamps
\* keep the order of the file when they are sorted, newest first, and are taken
\* from the end: the one that is later in the file comes first.
Earlier(f, j, k) == \/ f[j].stamp < f[k].stamp
                    \/ f[j].stamp = f[k].stamp /\ j > k

\* Faulty variant, breaks TimelineCausal: sorted() without reverse=True.
OldestFirst_NotReversed(f, positions) ==
    [i \in 1 .. Cardinality(positions) |->
        CHOOSE k \in positions :
            Cardinality({j \in positions :
                            \/ f[j].stamp > f[k].stamp
                            \/ f[j].stamp = f[k].stamp /\ j > k}) = i - 1]

OldestFirst(f, positions) ==
    [i \in 1 .. Cardinality(positions) |->
        CHOOSE k \in positions :
            Cardinality({j \in positions : Earlier(f, j, k)}) = i - 1]

\* The events the walk misses are sorted once: equal stamps keep the file's order.
OrphansInOrder(f, positions) ==
    [i \in 1 .. Cardinality(positions) |->
        CHOOSE k \in positions :
            Cardinality({j \in positions :
                            \/ f[j].stamp < f[k].stamp
                            \/ f[j].stamp = f[k].stamp /\ j < k}) = i - 1]

\* One pass of reconstruct_timeline's loop: a depth-first walk, the top of the
\* stack first.  An event is taken once.
Visit(f, S, w) ==
    IF w.stack = <<>> THEN w
    ELSE IF Head(w.stack) \in Range(w.ordered)
    THEN [w EXCEPT !.stack = Tail(@)]
    ELSE [stack   |-> OldestFirst(f, Children(f, S, f[Head(w.stack)].id)) \o Tail(w.stack),
          ordered |-> Append(w.ordered, Head(w.stack))]

\* The walk, pass by pass.  Ids are unique, so an event is put on the stack only
\* when its parent is taken, once: the loop has no more passes than events.
Walk(f, S) ==
    LET w[n \in 0 .. Cardinality(S)] ==
            IF n = 0 THEN [stack |-> OldestFirst(f, Roots(f, S)), ordered |-> <<>>]
            ELSE Visit(f, S, w[n - 1])
    IN  w

\* The events the walk reaches, then any others.
Timeline(f, S) ==
    LET reached == Walk(f, S)[Cardinality(S)].ordered
    IN  reached \o OrphansInOrder(f, S \ Range(reached))

\* _update_virtual_state, without the health of the virtual servers.
Apply(v, e) ==
    CASE e.type = "deployment_start" ->
             [v EXCEPT !.target = e.target, !.status = "in_progress"]
      [] e.type = "stage_transition" ->
             [v EXCEPT !.servers = [s \in DOMAIN @ \cup e.servers |->
                                       IF s \in e.servers THEN v.target ELSE @[s]]]
      [] e.type = "rollback_complete" ->
             [v EXCEPT !.servers = [s \in DOMAIN @ |->
                                       IF s \in e.servers THEN Source ELSE @[s]],
                       !.status = "rolled_back"]
      [] e.type = "deployment_completed" -> [v EXCEPT !.status = "completed"]
      [] e.type = "rollback_initiated"   -> [v EXCEPT !.status = "rolling_back"]
      [] e.type = "deployment_failed"    -> [v EXCEPT !.status = "failed"]
      [] OTHER -> v

Blank == [status |-> "pending", target |-> NoVersion, servers |-> <<>>]

\* The virtual state after each event of an order.
View(f, order) ==
    LET v[n \in 0 .. Len(order)] ==
            IF n = 0 THEN Blank ELSE Apply(v[n - 1], f[order[n]])
    IN  v

\* Faulty variant, breaks HistoryStable: the replay does not stop at the event.
ReplayAlong_ToTheEnd(f, order, e) == View(f, order)[Len(order)]

ReplayAlong(f, order, e) ==
    View(f, order)[CHOOSE i \in DOMAIN order : f[order[i]].id = e.id]

\* reconstruct_state_at_step, for an event of the file and its deployment.
ReplayAt(f, e) == ReplayAlong(f, Timeline(f, Scope(f, e.deployment)), e)

\* Ids from which n parents or fewer lead to a root.
WithChildren(f, I) == I \cup {f[k].id : k \in {j \in DOMAIN f : f[j].parent \in I}}

Rooted(f) ==
    LET r[n \in 0 .. Len(f)] == IF n = 0 THEN {NoEvent} ELSE WithChildren(f, r[n - 1])
    IN  r

\* verify_event_lineage: no parent is missing, and no parents form a loop.
VerifyLineage(f) ==
    /\ \A k \in DOMAIN f : f[k].parent \in Ids(f, DOMAIN f) \cup {NoEvent}
    /\ Ids(f, DOMAIN f) \subseteq Rooted(f)[Len(f)]

-----------------------------------------------------------------------------
(***************************************************************************)
(* The rollout and its trail.                                              *)
(***************************************************************************)

\* _init_deployment: no version has more servers than the source version.
SourceIsCommonest ==
    \A v \in Version : Cardinality({s \in Server : server[s].version = v})
                          <= Cardinality({s \in Server : server[s].version = Source})

TrailInit ==
    /\ SourceIsCommonest
    /\ file = EarlierTrail /\ made = Len(EarlierTrail)
    /\ last = NoEvent
    /\ faults = 0

\* The checkpoint's own event comes before what the workflow records of it.
Gates == {"gate_start", "gate_stage", "gate_complete", "gate_rollback"}
OwnEvents == IF Governed /\ pc \in Gates /\ pc' # pc
             THEN <<"governance_decision">> ELSE <<>>
NewTypes == OwnEvents \o SubSeq(trail', Len(trail) + 1, Len(trail'))

\* The k-th of the events recorded now: each is stamped later than the one
\* before it, or, when it is one of `same`, in the same tick of the clock.
Stamp(k, same) == Last(file).stamp + Cardinality((1 .. k) \ same)

Ticks(same) == faults' = faults + Cardinality(same) /\ faults' <= MaxFaults

\* Each event the workflow records is the parent of the next.
Log(types) ==
    LET chain == {k \in DOMAIN types : types[k] \notin RootTypes}
        IdUpto(n) == LET prior == {j \in chain : j <= n}
                     IN  IF prior = {} THEN last ELSE made + Max(prior)
        ParentOf(k) == IF k \in chain THEN IdUpto(k - 1) ELSE NoEvent
    IN  \E same \in SUBSET DOMAIN types :
            /\ Ticks(same)
            /\ file' = file \o [k \in DOMAIN types |->
                                   Event(made + k, ParentOf(k), Stamp(k, same),
                                         types[k], Named(types[k]))]
            /\ last' = IdUpto(Len(types))
            /\ made' = made + Len(types)

RolloutStep == Next /\ Log(NewTypes)

\* Faulty variant, breaks LineageSound: the chain goes on from the failed write.
FailedWrite_LastAdvanced ==
    /\ pc # "done"
    /\ faults < MaxFaults /\ faults' = faults + 1
    /\ made' = made + 1
    /\ last' = made + 1
    /\ UNCHANGED <<vars, file>>

\* The write raises: nothing is in the file, the event's id is wasted, and the
\* activity runs again with the parent it had.
FailedWrite ==
    /\ pc # "done"
    /\ faults < MaxFaults /\ faults' = faults + 1
    /\ made' = made + 1
    /\ UNCHANGED <<vars, file, last>>

\* The event is in the file, but its id does not reach the workflow: when the
\* activity's five seconds are over it runs again and writes it a second time.
LostResult ==
    /\ faults < MaxFaults /\ faults' = faults + 1
    /\ file # <<>>
    /\ Last(file).id = last
    /\ file' = Append(file, [Last(file) EXCEPT !.id = made + 1, !.stamp = @ + 1])
    /\ last' = made + 1
    /\ made' = made + 1
    /\ UNCHANGED vars

\* A rollback by hand, forced or with every server in place, of a rollout that
\* is over (once).  Its events carry the id of the engine's copy of the deployment:
\* the workflow's id if the poller has read it once, or the engine's own.  The
\* first is stamped later than the rollout's: deploy() has returned in between.
RollBackByHand ==
    /\ pc = "done"
    /\ updated # {}
    /\ ~\E k \in DOMAIN file : file[k].type = "rollback_start" /\ file[k].parent = NoEvent
    /\ server' = [s \in Server |-> IF s \in updated /\ server[s].version # Source
                                   THEN RollbackServer(server[s]) ELSE server[s]]
    /\ \E same \in SUBSET {2}, d \in {"this", "own"} :
          LET byHand(k, type, S) ==
                  [Event(made + k, NoEvent, Stamp(k, same), type, S)
                      EXCEPT !.deployment = d]
          IN  /\ Ticks(same)
              /\ file' = file \o <<byHand(1, "rollback_start", {}),
                                  byHand(2, "rollback_complete",
                                         {s \in updated : server[s].version = Source
                                                            \/ CanRollBack(server[s])})>>
    /\ made' = made + 2
    /\ UNCHANGED <<pc, fault, status, trail, dataVars, stageVars, quarantined,
                   envVars, lost, histVars, last>>

AuditInit == Init /\ TrailInit
AuditNext == RolloutStep \/ FailedWrite \/ LostResult \/ RollBackByHand
AuditSpec == AuditInit /\ [][AuditNext]_allVars

-----------------------------------------------------------------------------
(***************************************************************************)
(* Properties.                                                             *)
(***************************************************************************)

\* Whatever writes fail or are repeated, the file passes the check of its own
\* lineage: every parent an event names is in the file.
LineageSound == VerifyLineage(file)

\* The timeline has every event of the deployment once, parents before their
\* children and the children of one parent by their stamps, the later one in the
\* file first when their stamps are equal.
TimelineCausal ==
    LET scope == Scope(file, "this")
        order == Timeline(file, scope)
    IN  /\ Len(order) = Cardinality(scope)
        /\ Range(order) = scope
        /\ \A i, j \in DOMAIN order :
              i < j => LET e == file[order[i]]
                           f == file[order[j]]
                       IN  /\ e.parent # f.id
                           /\ e.parent = f.parent => Earlier(file, order[i], order[j])

\* A replay takes a server that is rolled back for one on the source version.  It
\* is wrong, and the property says nothing, only of a server that ran the target
\* version already, and of any other that the report of a recovery plan leaves out.
Ordinary == {s \in Server : before[s] = Source \/ (~Quarantining /\ before[s] # Target)}

\* The newest event comes after the deployment's start in the timeline: it is in
\* the chain, or the clock has moved on since the start was recorded.
AfterStart(e) ==
    \/ e.parent # NoEvent
    \/ \A k \in Scope(file, "this") :
          file[k].type = "deployment_start" => file[k].stamp < e.stamp

\* A replay of the newest event shows the deployment's books, and which of the
\* servers on them run the new version (while no rollback is being reported).  It
\* says nothing of a rollback by hand under the engine's own id, whose replay
\* shows no server at all.
ReplayNow ==
    file # <<>> /\ Last(file).deployment = "this" /\ pc # "rolled"
                /\ AfterStart(Last(file)) =>
        LET shown == ReplayAt(file, Last(file)).servers
        IN  /\ DOMAIN shown = updated
            /\ \A s \in updated \cap Ordinary :
                  shown[s] = Target <=> server[s].version = Target

\* When the rollout is over, a replay of any of its events with a parent shows
\* what it showed when that event was the newest of the file, however the trail
\* went on.  (Events without one come after the whole chain in the timeline.)
HistoryStable ==
    pc = "done" =>
        LET order == Timeline(file, Scope(file, "this"))
        IN  \A k \in DOMAIN file :
                file[k].deployment = "this" /\ file[k].parent # NoEvent =>
                    ReplayAlong(file, order, file[k])
                        = ReplayAt(SubSeq(file, 1, k), file[k])

=============================================================================
