--------------------------- MODULE StageSelection ---------------------------
(***************************************************************************)
(* Which servers a stage takes: the round robin over regions of the engine *)
(* (deploy/engine.py, _select_servers_for_stage; deploy/activities.py has  *)
(* a copy of it).  CanaryWorkflow lets a stage take any servers of the     *)
(* right number; this module says which, one pass of the loop a step.      *)
(*                                                                         *)
(* The servers of a region are taken in the order of their ids, so a       *)
(* server is named here by its region.                                     *)
(***************************************************************************)
EXTENDS Integers, Sequences, FiniteSets

CONSTANTS Region,
          Place,      \* the order of the regions' names
          MaxServers, \* bound on the servers of a region that may be selected
          MaxNeeded   \* bound on the servers a stage asks for

ASSUME RegionAssumption == IsFiniteSet(Region)
ASSUME PlaceAssumption == /\ Place \in [Region -> Nat]
                          /\ \A q, r \in Region : Place[q] = Place[r] => q = r
ASSUME BoundAssumption == MaxServers \in Nat /\ MaxNeeded \in Nat \ {0}

VARIABLES
    pc,       \* "select" in the loop, "done" after it
    pending,  \* servers of each region that may be selected (never changed)
    needed,   \* count: what the stage asks for (never changed)
    left,     \* by_region: servers of each region not yet selected
    turn,     \* region_idx
    selected  \* selected, each server by its region

vars == <<pc, pending, needed, left, turn, selected>>

-----------------------------------------------------------------------------

\* regions: a list, by name, of those that have servers left ...
WithServers == {r \in Region : left[r] > 0}

\* ... in which a region has a position.
Index(r) == Cardinality({q \in WithServers : Place[q] < Place[r]})

\* Faulty variant, breaks Spread: region_idx is not advanced.
NextTurn_Stays == turn

NextTurn == turn + 1

\* Faulty variant, breaks Filled: all() for any().
Exhausted_Some == \/ \A r \in Region : left[r] = 0
                  \/ \E r \in Region : pending[r] > 0 /\ left[r] = 0

Exhausted == \A r \in Region : left[r] = 0

Init ==
    /\ pc = "select"
    /\ pending \in [Region -> 0 .. MaxServers]
    /\ needed \in 1 .. MaxNeeded
    /\ left = pending
    /\ turn = 0
    /\ selected = <<>>

\* One pass of the loop: the region whose turn it is gives a server, and leaves
\* the list with its last one; region_idx counts on.
Take ==
    /\ pc = "select"
    /\ Len(selected) < needed
    /\ ~Exhausted
    /\ \E r \in WithServers :
          /\ Index(r) = turn % Cardinality(WithServers)
          /\ left' = [left EXCEPT ![r] = @ - 1]
          /\ selected' = Append(selected, r)
    /\ turn' = NextTurn
    /\ UNCHANGED <<pc, pending, needed>>

Finish ==
    /\ pc = "select"
    /\ Len(selected) >= needed \/ Exhausted
    /\ pc' = "done"
    /\ UNCHANGED <<pending, needed, left, turn, selected>>

Next == Take \/ Finish

Spec == Init /\ [][Next]_vars

-----------------------------------------------------------------------------
(***************************************************************************)
(* Properties.                                                             *)
(***************************************************************************)

Taken(r) == Cardinality({i \in DOMAIN selected : selected[i] = r})

\* Regions that had servers and have none left.
Drained == {r \in Region : pending[r] > 0 /\ left[r] = 0}

\* A stage gets what it asks for, or every server that may be selected: what
\* CanaryWorkflow's SelectServers assumes of the selection.
Filled ==
    /\ Len(selected) <= needed
    /\ \A r \in Region : Taken(r) = pending[r] - left[r]
    /\ pc = "done" => Len(selected) = needed \/ left = [r \in Region |-> 0]

\* A region that could give another server is not far behind any other: by one
\* server, and one more for each region that has run out.  (Removing a region
\* shifts the others under region_idx, so one of them is passed over.)
Spread ==
    \A q, r \in Region :
        left[r] > 0 => Taken(q) - Taken(r) <= 1 + Cardinality(Drained)

=============================================================================
