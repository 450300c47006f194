------------------------- MODULE StageSelection_proofs -------------------------
(***************************************************************************)
(* Theorems about StageSelection: what a stage gets, and how evenly, for   *)
(* any number of regions and servers.                                      *)
(***************************************************************************)
EXTENDS StageSelection, FiniteSetTheorems, TLAPS

-----------------------------------------------------------------------------
(***************************************************************************)
(* Arithmetic: the remainder of a count that goes up by one.               *)
(***************************************************************************)

LEMMA SmallMultiple ==
    ASSUME NEW n \in Nat \ {0}, NEW d \in Int, NEW e \in Int, n * d = e, -n < e, e <= n
    PROVE  d = 0 \/ (d = 1 /\ e = n)
<1>1. CASE d >= 2
  <2>1. n * d >= n * 2
    BY <1>1
  <2>2. QED
    BY <2>1
<1>2. CASE d <= -1
  <2>1. n * d <= n * (-1)
    BY <1>2
  <2>2. QED
    BY <2>1
<1>3. QED
  BY <1>1, <1>2

LEMMA NextRemainder ==
    ASSUME NEW n \in Nat \ {0}, NEW t \in Nat
    PROVE  /\ t % n \in 0 .. n - 1
           /\ (t + 1) % n = IF t % n = n - 1 THEN 0 ELSE (t % n) + 1
<1> DEFINE p == t % n
           q == t \div n
           u == (t + 1) % n
           v == (t + 1) \div n
<1>1. p \in 0 .. n - 1 /\ q \in Int /\ t = n * q + p
  OBVIOUS
<1>2. u \in 0 .. n - 1 /\ v \in Int /\ t + 1 = n * v + u
  OBVIOUS
<1> HIDE DEF p, q, u, v
<1>3. n * (v - q) = p + 1 - u
  BY <1>1, <1>2
<1>4. v - q = 0 \/ (v - q = 1 /\ p + 1 - u = n)
  BY <1>1, <1>2, <1>3, SmallMultiple
<1>5. u = IF p = n - 1 THEN 0 ELSE p + 1
  BY <1>1, <1>2, <1>3, <1>4
<1>6. QED
  BY <1>1, <1>5 DEF p, u

-----------------------------------------------------------------------------
(***************************************************************************)
(* The list of regions.                                                    *)
(***************************************************************************)

Size == Cardinality(WithServers)

LEMMA RegionsFinite ==
    \A S \in SUBSET Region : IsFiniteSet(S) /\ Cardinality(S) \in Nat
BY RegionAssumption, FS_Subset, FS_CardinalityType

\* A region on the list has a position on it, one of its own.
LEMMA Positions ==
    /\ Size \in Nat
    /\ \A r \in WithServers : Index(r) \in 0 .. Size - 1
    /\ \A q, r \in WithServers : Index(q) = Index(r) => q = r
<1> DEFINE Before(r) == {q \in WithServers : Place[q] < Place[r]}
<1>1. /\ WithServers \in SUBSET Region
      /\ \A r \in WithServers : /\ Before(r) \in SUBSET WithServers
                                /\ Index(r) = Cardinality(Before(r))
  BY DEF WithServers, Index
<1>2. /\ IsFiniteSet(WithServers) /\ Size \in Nat
      /\ \A r \in WithServers : IsFiniteSet(Before(r)) /\ Index(r) \in Nat
  BY <1>1, RegionsFinite DEF Size
<1>3. ASSUME NEW r \in WithServers PROVE Index(r) < Size
  <2>1. r \notin Before(r)
    BY <1>1, PlaceAssumption
  <2>2. Cardinality(Before(r)) <= Size /\ Cardinality(Before(r)) # Size
    BY <1>1, <1>2, <2>1, FS_Subset DEF Size
  <2>3. QED
    BY <1>1, <1>2, <2>2
<1>4. ASSUME NEW q \in WithServers, NEW r \in WithServers, Place[q] < Place[r]
      PROVE  Index(q) < Index(r)
  <2>1. Before(q) \subseteq Before(r)
    BY <1>1, <1>4, PlaceAssumption
  <2>2. q \in Before(r) /\ q \notin Before(q)
    BY <1>1, <1>4, PlaceAssumption
  <2>3. /\ Cardinality(Before(q)) <= Cardinality(Before(r))
        /\ Cardinality(Before(q)) # Cardinality(Before(r))
    BY <1>2, <2>1, <2>2, FS_Subset
  <2>4. Index(q) \in Nat /\ Index(r) \in Nat
    BY <1>2
  <2>5. Index(q) <= Index(r) /\ Index(q) # Index(r)
    BY <1>1, <2>3
  <2>6. QED
    BY <2>4, <2>5
<1>5. ASSUME NEW q \in WithServers, NEW r \in WithServers, Index(q) = Index(r)
      PROVE  q = r
  <2>1. Index(q) \in Nat /\ Index(r) \in Nat
    BY <1>2
  <2>2. Place[q] < Place[r] => Index(q) < Index(r)
    BY <1>4
  <2>3. Place[r] < Place[q] => Index(r) < Index(q)
    BY <1>4
  <2>4. ~(Place[q] < Place[r]) /\ ~(Place[r] < Place[q])
    BY <1>5, <2>1, <2>2, <2>3
  <2>5. QED
    BY <1>1, <2>4, PlaceAssumption
<1>6. ASSUME NEW r \in WithServers PROVE Index(r) \in 0 .. Size - 1
  <2>1. Index(r) \in Nat /\ Size \in Nat
    BY <1>2
  <2>2. Index(r) < Size
    BY <1>3
  <2>3. QED
    BY <2>1, <2>2
<1>7. QED
  BY <1>2, <1>5, <1>6

\* Every position is some region's: while there are servers left, one region
\* has the turn.
LEMMA SomeoneHasTheTurn ==
    ASSUME NEW k \in 0 .. Size - 1
    PROVE  \E r \in WithServers : Index(r) = k
<1> SUFFICES ASSUME \A r \in WithServers : Index(r) # k PROVE FALSE
  OBVIOUS
<1> DEFINE All == 0 .. Size - 1
           Others == All \ {k}
           f == [r \in WithServers |-> Index(r)]
<1>1. f \in [WithServers -> Others]
  BY Positions
<1>2. Size \in Nat /\ k \in All /\ Size - 1 \in Int /\ 0 \in Int /\ ~(0 > Size - 1)
  BY Positions
<1>3. f = [r \in WithServers |-> Index(r)]
  OBVIOUS
<1>4. IsFiniteSet(All) /\ Cardinality(All) = Size
  BY <1>2, FS_Interval
<1> HIDE DEF All, f
<1>5. IsFiniteSet(Others) /\ Cardinality(Others) = Size - 1
  BY <1>2, <1>4, FS_RemoveElement
<1>6. IsFiniteSet(WithServers) /\ Cardinality(WithServers) = Size
  BY RegionsFinite DEF WithServers, Size
<1> HIDE DEF Others
<1>7. Cardinality(Others) < Cardinality(WithServers)
  BY <1>2, <1>5, <1>6
<1>8. \E q, r \in WithServers : q # r /\ f[q] = f[r]
  BY <1>1, <1>5, <1>6, <1>7, FS_PigeonHole
<1>9. QED
  BY <1>3, <1>8, Positions

-----------------------------------------------------------------------------
(***************************************************************************)
(* The inductive invariant.                                                *)
(***************************************************************************)

TypeInv ==
    /\ pc \in {"select", "done"}
    /\ pending \in [Region -> Nat]
    /\ needed \in Nat
    /\ left \in [Region -> Nat]
    /\ \A r \in Region : left[r] <= pending[r]
    /\ turn \in Nat
    /\ selected \in Seq(Region)

\* What a region has given, and the position whose turn it is.
Gave(r) == pending[r] - left[r]

Now == turn % Size

\* The positions from a up to the turn, round the end of the list.
Passed(r, a) == IF a <= Now THEN a <= Index(r) /\ Index(r) < Now
                            ELSE a <= Index(r) \/ Index(r) < Now

Laps(r, a) == IF Passed(r, a) THEN Gave(r) - 1 ELSE Gave(r)

\* The laps start at some position a: not counting what a region has given in
\* the lap under way, one region is ahead of another by at most the number of
\* regions that have run out.
EvenFrom(a) ==
    \A q, r \in WithServers : Laps(q, a) - Laps(r, a) <= Cardinality(Drained)

Even == WithServers # {} => \E a \in 0 .. Size - 1 : EvenFrom(a)

\* Nobody, run out or not, is further ahead of a region that still has servers.
Behind ==
    \A q \in Region : \A r \in WithServers : Gave(q) - Gave(r) <= 1 + Cardinality(Drained)

IInv == TypeInv /\ Filled /\ Even /\ Behind

-----------------------------------------------------------------------------

LEMMA Numbers ==
    ASSUME TypeInv
    PROVE  /\ \A r \in Region : Gave(r) \in Nat
           /\ \A r \in Region, a \in Int : Laps(r, a) \in Int
           /\ Cardinality(Drained) \in Nat
           /\ WithServers # {} => Size \in Nat \ {0} /\ Now \in 0 .. Size - 1
<1>1. \A r \in Region : Gave(r) \in Nat
  BY DEF TypeInv, Gave
<1>2. \A r \in Region, a \in Int : Laps(r, a) \in Int
  BY <1>1 DEF Laps
<1>3. Cardinality(Drained) \in Nat
  BY RegionsFinite DEF Drained
<1>4. ASSUME WithServers # {} PROVE Size \in Nat \ {0} /\ Now \in 0 .. Size - 1
  <2>1. IsFiniteSet(WithServers)
    BY RegionsFinite DEF WithServers
  <2>2. Size \in Nat \ {0}
    BY <1>4, <2>1, Positions, FS_EmptySet DEF Size
  <2>3. turn \in Nat
    BY DEF TypeInv
  <2>4. QED
    BY <2>2, <2>3, NextRemainder DEF Now
<1>5. QED
  BY <1>1, <1>2, <1>3, <1>4

\* A pass of the loop can always be made: Take's guard leaves no case out.
LEMMA TakeFindsARegion ==
    ASSUME TypeInv, ~Exhausted
    PROVE  \E r \in WithServers : Index(r) = turn % Cardinality(WithServers)
<1>1. WithServers # {}
  BY DEF TypeInv, Exhausted, WithServers
<1>2. Now \in 0 .. Size - 1
  BY <1>1, Numbers
<1>3. QED
  BY <1>2, SomeoneHasTheTurn DEF Now, Size

\* The region that gives a server is counted in, and only that one.
LEMMA OneMoreTaken ==
    ASSUME TypeInv, NEW s \in Region, selected' = Append(selected, s)
    PROVE  \A r \in Region :
              /\ Taken(r) \in Nat
              /\ Taken(r)' = IF r = s THEN Taken(r) + 1 ELSE Taken(r)
<1> TAKE r \in Region
<1> DEFINE Places == {i \in DOMAIN selected : selected[i] = r}
           After  == {i \in DOMAIN selected' : selected'[i] = r}
           n == Len(selected)
<1>1. /\ n \in Nat /\ DOMAIN selected = 1 .. n
      /\ DOMAIN selected' = 1 .. n + 1
      /\ \A i \in 1 .. n : selected'[i] = selected[i]
      /\ selected'[n + 1] = s
  BY DEF TypeInv
<1>2. IsFiniteSet(1 .. n)
  BY <1>1, FS_Interval
<1>3. Places \subseteq 1 .. n
  BY <1>1
<1>4. IsFiniteSet(Places) /\ Cardinality(Places) \in Nat
  BY <1>2, <1>3, FS_Subset, FS_CardinalityType
<1>5. CASE r = s
  <2>1. After = Places \cup {n + 1} /\ n + 1 \notin Places
    BY <1>1, <1>5
  <2>2. Cardinality(After) = Cardinality(Places) + 1
    BY <1>4, <2>1, FS_AddElement
  <2>3. QED
    BY <1>4, <1>5, <2>2 DEF Taken
<1>6. CASE r # s
  <2>1. After = Places
    BY <1>1, <1>6
  <2>2. QED
    BY <1>4, <1>6, <2>1 DEF Taken
<1>7. QED
  BY <1>5, <1>6

\* What Take does to the regions, in the terms of the invariant.
LEMMA OneMoreGiven ==
    ASSUME TypeInv, NEW s \in WithServers, pending' = pending,
           left' = [left EXCEPT ![s] = @ - 1]
    PROVE  /\ \A r \in Region : Gave(r)' = IF r = s THEN Gave(r) + 1 ELSE Gave(r)
           /\ left[s] # 1 => WithServers' = WithServers /\ Drained' = Drained
           /\ left[s] = 1 => /\ WithServers' = WithServers \ {s}
                             /\ Cardinality(Drained)' = Cardinality(Drained) + 1
<1>1. /\ s \in Region /\ left[s] > 0 /\ left[s] \in Nat /\ pending[s] \in Nat
      /\ left[s] <= pending[s]
  BY DEF WithServers, TypeInv
<1>2. \A r \in Region : left[r]' = IF r = s THEN left[r] - 1 ELSE left[r]
  BY <1>1 DEF TypeInv
<1>3. \A r \in Region : Gave(r)' = IF r = s THEN Gave(r) + 1 ELSE Gave(r)
  BY <1>1, <1>2 DEF Gave, TypeInv
<1>4. ASSUME left[s] # 1 PROVE WithServers' = WithServers /\ Drained' = Drained
  BY <1>1, <1>2, <1>4 DEF WithServers, Drained
<1>5. ASSUME left[s] = 1
      PROVE  /\ WithServers' = WithServers \ {s}
             /\ Cardinality(Drained)' = Cardinality(Drained) + 1
  <2>1. WithServers' = WithServers \ {s}
    BY <1>1, <1>2, <1>5 DEF WithServers
  <2>2. Drained' = Drained \cup {s} /\ s \notin Drained
    BY <1>1, <1>2, <1>5 DEF Drained
  <2>3. IsFiniteSet(Drained)
    BY RegionsFinite DEF Drained
  <2>4. Cardinality(Drained') = Cardinality(Drained) + 1
    BY <2>2, <2>3, FS_AddElement
  <2>5. QED
    BY <2>1, <2>4
<1>6. QED
  BY <1>3, <1>4, <1>5

LEMMA TakeKeepsType ==
    ASSUME TypeInv, Take
    PROVE  TypeInv'
<1>1. PICK s \in WithServers : /\ left' = [left EXCEPT ![s] = @ - 1]
                               /\ selected' = Append(selected, s)
  BY DEF Take
<1>2. s \in Region /\ left[s] > 0 /\ left[s] \in Nat
  BY DEF WithServers, TypeInv
<1>3. left' \in [Region -> Nat] /\ \A r \in Region : left'[r] <= left[r]
  BY <1>1, <1>2 DEF TypeInv
<1>4. selected' \in Seq(Region)
  BY <1>1, <1>2 DEF TypeInv
<1>5. \A r \in Region : left'[r] <= pending[r]
  BY <1>3 DEF TypeInv
<1>6. QED
  BY <1>3, <1>4, <1>5 DEF TypeInv, Take, NextTurn

LEMMA TakeKeepsFilled ==
    ASSUME TypeInv, Filled, Take
    PROVE  Filled'
<1>1. PICK s \in WithServers : /\ left' = [left EXCEPT ![s] = @ - 1]
                               /\ selected' = Append(selected, s)
  BY DEF Take
<1>2. s \in Region
  BY DEF WithServers
<1>3. /\ pc = "select" /\ pc' = pc /\ Len(selected) < needed
      /\ needed' = needed /\ pending' = pending
  BY DEF Take
<1>4. Len(selected') = Len(selected) + 1 /\ Len(selected) \in Nat /\ needed \in Nat
  BY <1>1, <1>2 DEF TypeInv
<1>5. ASSUME NEW r \in Region PROVE Taken(r)' = pending[r]' - left[r]'
  <2>1. Taken(r) = Gave(r)
    BY DEF Filled, Gave
  <2>2. Taken(r)' = IF r = s THEN Taken(r) + 1 ELSE Taken(r)
    BY <1>1, <1>2, OneMoreTaken
  <2>3. Gave(r)' = IF r = s THEN Gave(r) + 1 ELSE Gave(r)
    BY <1>1, <1>3, OneMoreGiven
  <2>4. Taken(r)' = Gave(r)'
    BY <2>1, <2>2, <2>3
  <2>5. QED
    BY <2>4 DEF Gave
<1>6. (Len(selected) <= needed)'
  BY <1>3, <1>4
<1>7. pc' # "done"
  BY <1>3
<1>8. QED
  BY <1>5, <1>6, <1>7 DEF Filled

\* The region whose turn it is has not given in this lap, so it is no further
\* ahead than the start of the lap allows.
LEMMA TurnIsNotAhead ==
    ASSUME TypeInv, NEW s \in WithServers, Index(s) = Now, NEW r \in WithServers,
           NEW a \in 0 .. Size - 1, EvenFrom(a)
    PROVE  Gave(s) - Gave(r) <= Cardinality(Drained)
<1>1. /\ s \in Region /\ r \in Region
      /\ Gave(s) \in Nat /\ Gave(r) \in Nat /\ Cardinality(Drained) \in Nat
      /\ Size \in Nat /\ Now \in 0 .. Size - 1
  BY Numbers DEF WithServers
<1>2. ~Passed(s, a)
  BY <1>1 DEF Passed
<1>3. Laps(s, a) = Gave(s) /\ Laps(r, a) \in Int /\ Laps(r, a) <= Gave(r)
  BY <1>1, <1>2 DEF Laps
<1>4. Laps(s, a) - Laps(r, a) <= Cardinality(Drained)
  BY DEF EvenFrom
<1>5. QED
  BY <1>1, <1>3, <1>4

LEMMA TakeKeepsBehind ==
    ASSUME TypeInv, Even, Behind, Take
    PROVE  Behind'
<1>1. PICK s \in WithServers : /\ left' = [left EXCEPT ![s] = @ - 1]
                               /\ Index(s) = Now
  BY DEF Take, Now, Size
<1>2. /\ WithServers \subseteq Region /\ WithServers' \subseteq WithServers
      /\ Cardinality(Drained)' \in {Cardinality(Drained), Cardinality(Drained) + 1}
  BY <1>1, OneMoreGiven DEF WithServers, Take
<1>3. SUFFICES ASSUME NEW q \in Region, NEW r \in WithServers'
               PROVE  Gave(q)' - Gave(r)' <= 1 + Cardinality(Drained)'
  BY DEF Behind
<1> DEFINE d == Cardinality(Drained)
<1>4. /\ r \in Region /\ r \in WithServers
      /\ Gave(q) \in Nat /\ Gave(r) \in Nat /\ d \in Nat
  BY <1>2, Numbers
<1>5. /\ Gave(q)' = IF q = s THEN Gave(q) + 1 ELSE Gave(q)
      /\ Gave(r)' = IF r = s THEN Gave(r) + 1 ELSE Gave(r)
  BY <1>1, <1>4, OneMoreGiven DEF Take
<1>6. Gave(q) - Gave(r) <= 1 + d
  BY <1>4 DEF Behind
<1>7. Gave(s) - Gave(r) <= d
  <2>1. PICK a \in 0 .. Size - 1 : EvenFrom(a)
    BY <1>1 DEF Even
  <2>2. QED
    BY <1>1, <1>4, <2>1, TurnIsNotAhead
<1>8. q = s => Gave(q) - Gave(r) <= d
  BY <1>7
<1>9. d' \in {d, d + 1}
  BY <1>2
<1> HIDE DEF d
<1>10. Gave(q)' - Gave(r)' <= 1 + d'
  BY <1>4, <1>5, <1>6, <1>8, <1>9
<1>11. QED
  BY <1>10 DEF d

\* A region stays on the list: the lap goes on from the same start, or a new one
\* starts where this one ends.
LEMMA TakeKeepsEvenOnTheList ==
    ASSUME TypeInv, Even, Take, NEW s \in WithServers, Index(s) = Now,
           left' = [left EXCEPT ![s] = @ - 1], left[s] # 1
    PROVE  Even'
<1>1. PICK a \in 0 .. Size - 1 : EvenFrom(a)
  BY DEF Even
<1> DEFINE d == Cardinality(Drained)
<1>2. /\ WithServers' = WithServers /\ Drained' = Drained
      /\ \A r \in Region : Gave(r)' = IF r = s THEN Gave(r) + 1 ELSE Gave(r)
  BY OneMoreGiven DEF Take
<1>3. Size' = Size /\ d' = d /\ \A r : Index(r)' = Index(r)
  BY <1>2 DEF Size, Index
<1>4. /\ Size \in Nat \ {0} /\ Now \in 0 .. Size - 1 /\ d \in Nat
      /\ \A r \in WithServers : Gave(r) \in Nat /\ Index(r) \in 0 .. Size - 1
  BY Numbers, Positions DEF WithServers
<1>5. Now' = IF Now = Size - 1 THEN 0 ELSE Now + 1
  <2>1. turn \in Nat /\ turn' = turn + 1
    BY DEF TypeInv, Take, NextTurn
  <2>2. (turn + 1) % Size = IF turn % Size = Size - 1 THEN 0 ELSE (turn % Size) + 1
    BY <1>4, <2>1, NextRemainder
  <2>3. QED
    BY <1>3, <2>1, <2>2 DEF Now
<1>6. \A r \in WithServers : Index(r) = Now => r = s
  BY Positions
<1> HIDE DEF d
<1>7. ASSUME NEW r \in WithServers
      PROVE  Laps(r, a)' = Laps(r, a) + (IF Now' = a THEN 1 ELSE 0)
  <2>1. /\ r \in Region /\ Gave(r) \in Nat /\ Index(r) \in 0 .. Size - 1
        /\ Gave(r)' = IF r = s THEN Gave(r) + 1 ELSE Gave(r)
        /\ Index(r)' = Index(r) /\ (r = s <=> Index(r) = Now)
    BY <1>2, <1>3, <1>4, <1>6 DEF WithServers
  <2>2. Passed(r, a)' <=> IF a <= Now' THEN a <= Index(r) /\ Index(r) < Now'
                                       ELSE a <= Index(r) \/ Index(r) < Now'
    BY <2>1 DEF Passed
  <2>3. Laps(r, a)' = IF Passed(r, a)' THEN Gave(r)' - 1 ELSE Gave(r)'
    BY DEF Laps
  <2>4. CASE Now' = a
    <3>1. ~Passed(r, a)' /\ (Passed(r, a) <=> r # s)
      BY <1>4, <1>5, <2>1, <2>2, <2>4 DEF Passed
    <3>2. QED
      BY <2>1, <2>3, <2>4, <3>1 DEF Laps
  <2>5. CASE Now' # a
    <3>1. Passed(r, a)' <=> Passed(r, a) \/ r = s
      BY <1>4, <1>5, <2>1, <2>2, <2>5 DEF Passed
    <3>2. r = s => ~Passed(r, a)
      BY <1>4, <2>1 DEF Passed
    <3>3. QED
      BY <2>1, <2>3, <2>5, <3>1, <3>2 DEF Laps
  <2>6. QED
    BY <2>4, <2>5
<1>8. EvenFrom(a)'
  <2> SUFFICES ASSUME NEW q \in WithServers', NEW r \in WithServers'
               PROVE  Laps(q, a)' - Laps(r, a)' <= Cardinality(Drained)'
    BY DEF EvenFrom
  <2>1. Laps(q, a) - Laps(r, a) <= Cardinality(Drained)
    BY <1>1, <1>2 DEF EvenFrom
  <2>2. Laps(q, a) \in Int /\ Laps(r, a) \in Int /\ Cardinality(Drained) \in Nat
    BY <1>2, Numbers DEF WithServers
  <2>3. /\ Laps(q, a)' = Laps(q, a) + (IF Now' = a THEN 1 ELSE 0)
        /\ Laps(r, a)' = Laps(r, a) + (IF Now' = a THEN 1 ELSE 0)
    BY <1>2, <1>7
  <2>4. Laps(q, a)' - Laps(r, a)' = Laps(q, a) - Laps(r, a)
    BY <2>2, <2>3
  <2>5. QED
    BY <1>2, <2>1, <2>4
<1>9. QED
  BY <1>3, <1>8 DEF Even

\* A region leaves the list: a new lap starts, and the one that was under way
\* is one more server to be behind.
LEMMA TakeKeepsEvenOffTheList ==
    ASSUME TypeInv, Behind, Even, Take, NEW s \in WithServers, Index(s) = Now,
           left' = [left EXCEPT ![s] = @ - 1], left[s] = 1
    PROVE  Even'
<1>1. /\ WithServers' = WithServers \ {s}
      /\ Cardinality(Drained)' = Cardinality(Drained) + 1
      /\ \A r \in Region : Gave(r)' = IF r = s THEN Gave(r) + 1 ELSE Gave(r)
  BY OneMoreGiven DEF Take
<1>2. SUFFICES ASSUME WithServers' # {}
               PROVE  \E a \in 0 .. Size' - 1 : EvenFrom(a)'
  BY DEF Even
<1>3. Size' \in Nat \ {0} /\ Now' \in 0 .. Size' - 1 /\ turn' \in Nat
  <2>1. turn' \in Nat
    BY DEF TypeInv, Take, NextTurn
  <2>2. IsFiniteSet(WithServers') /\ Cardinality(WithServers') \in Nat
    BY <1>1, RegionsFinite DEF WithServers
  <2>3. Size' \in Nat \ {0}
    BY <1>2, <2>2, FS_EmptySet DEF Size
  <2>4. QED
    BY <2>1, <2>3, NextRemainder DEF Now
<1>4. PICK b \in 0 .. Size' - 1 : b = Now'
  BY <1>3
<1>5. ASSUME NEW r \in WithServers' PROVE Laps(r, b)' = Gave(r)
  <2>1. r \in Region /\ r # s
    BY <1>1 DEF WithServers
  <2>2. ~Passed(r, b)'
    <3>1. IsFiniteSet({q \in WithServers' : Place[q] < Place[r]})
      BY <1>1, RegionsFinite DEF WithServers
    <3>2. Index(r)' \in Nat
      BY <3>1, FS_CardinalityType DEF Index
    <3>3. QED
      BY <1>3, <1>4, <3>2 DEF Passed
  <2>3. QED
    BY <1>1, <2>1, <2>2 DEF Laps
<1>6. ASSUME NEW q \in WithServers', NEW r \in WithServers'
      PROVE  Laps(q, b)' - Laps(r, b)' <= Cardinality(Drained)'
  <2>1. Gave(q) - Gave(r) <= 1 + Cardinality(Drained)
    BY <1>1 DEF Behind, WithServers
  <2>2. Gave(q) \in Nat /\ Gave(r) \in Nat /\ Cardinality(Drained) \in Nat
    BY <1>1, Numbers DEF WithServers
  <2>3. QED
    BY <1>1, <1>5, <2>1, <2>2
<1>7. EvenFrom(b)'
  BY <1>6 DEF EvenFrom
<1>8. QED
  BY <1>4, <1>7

LEMMA TakeKeepsEven ==
    ASSUME TypeInv, Behind, Even, Take
    PROVE  Even'
<1>1. PICK s \in WithServers : /\ left' = [left EXCEPT ![s] = @ - 1]
                               /\ Index(s) = Now
  BY DEF Take, Now, Size
<1>2. CASE left[s] = 1
  BY <1>1, <1>2, TakeKeepsEvenOffTheList
<1>3. CASE left[s] # 1
  BY <1>1, <1>3, TakeKeepsEvenOnTheList
<1>4. QED
  BY <1>2, <1>3

-----------------------------------------------------------------------------

LEMMA InitIInv == Init => IInv
<1> SUFFICES ASSUME Init PROVE IInv
  OBVIOUS
<1>1. TypeInv
  BY BoundAssumption DEF Init, TypeInv
<1>2. \A r \in Region : Gave(r) = 0
  BY <1>1 DEF Init, TypeInv, Gave
<1>3. Cardinality(Drained) \in Nat
  BY <1>1, Numbers
<1>4. Behind
  BY <1>2, <1>3 DEF Behind, WithServers
<1>5. Filled
  <2>1. \A r \in Region : Taken(r) = 0
    <3>1. DOMAIN selected = {}
      BY DEF Init
    <3>2. \A r \in Region : {i \in DOMAIN selected : selected[i] = r} = {}
      BY <3>1
    <3>3. QED
      BY <3>2, FS_EmptySet DEF Taken
  <2>2. Len(selected) = 0 /\ pc # "done"
    BY DEF Init
  <2>3. QED
    BY <1>1, <1>2, <2>1, <2>2 DEF Filled, Gave, TypeInv
<1>6. Even
  <2> SUFFICES ASSUME WithServers # {} PROVE \E a \in 0 .. Size - 1 : EvenFrom(a)
    BY DEF Even
  <2>1. turn = 0 /\ Size \in Nat \ {0}
    BY <1>1, Numbers DEF Init
  <2>2. Now = 0 /\ 0 \in 0 .. Size - 1
    BY <2>1 DEF Now
  <2>3. \A r \in WithServers : Laps(r, 0) = 0
    <3>1. \A r \in WithServers : r \in Region /\ Index(r) \in 0 .. Size - 1
      BY Positions DEF WithServers
    <3>2. \A r \in WithServers : ~Passed(r, 0)
      BY <2>1, <2>2, <3>1 DEF Passed
    <3>3. QED
      BY <1>2, <3>1, <3>2 DEF Laps
  <2>4. EvenFrom(0)
    BY <1>3, <2>3 DEF EvenFrom
  <2>5. QED
    BY <2>2, <2>4
<1>7. QED
  BY <1>1, <1>4, <1>5, <1>6 DEF IInv

\* The invariant is about the selection only: not about pc.
LEMMA SameSelection ==
    ASSUME UNCHANGED <<pending, needed, left, turn, selected>>
    PROVE  /\ Even => Even'
           /\ Behind => Behind'
           /\ \A r : Taken(r)' = Taken(r)
<1>1. /\ WithServers' = WithServers /\ Drained' = Drained
      /\ \A r : Gave(r)' = Gave(r)
      /\ \A r : Taken(r)' = Taken(r)
  BY DEF WithServers, Drained, Gave, Taken
<1>2. Size' = Size /\ Now' = Now /\ \A r : Index(r)' = Index(r)
  BY <1>1 DEF Size, Now, Index
<1>3. \A r, a : Laps(r, a)' = Laps(r, a)
  BY <1>1, <1>2 DEF Laps, Passed
<1>4. \A a : EvenFrom(a)' <=> EvenFrom(a)
  BY <1>1, <1>3 DEF EvenFrom
<1>5. QED
  BY <1>1, <1>2, <1>4 DEF Even, Behind

LEMMA NextIInv == IInv /\ [Next]_vars => IInv'
<1> SUFFICES ASSUME IInv, [Next]_vars PROVE IInv'
  OBVIOUS
<1>1. CASE Take
  BY <1>1, TakeKeepsType, TakeKeepsFilled, TakeKeepsBehind, TakeKeepsEven DEF IInv
<1>2. CASE Finish
  <2>1. TypeInv' /\ Even' /\ Behind'
    BY <1>2, SameSelection DEF IInv, TypeInv, Finish
  <2>2. pc' = "done" /\ \A r \in Region : Taken(r)' = pending[r]' - left[r]'
    BY <1>2, SameSelection DEF Finish, IInv, Filled
  <2>3. Len(selected) = needed \/ left = [r \in Region |-> 0]
    <3>1. CASE Len(selected) >= needed
      BY <3>1 DEF IInv, TypeInv, Filled
    <3>2. CASE Exhausted
      BY <3>2 DEF IInv, TypeInv, Exhausted
    <3>3. QED
      BY <1>2, <3>1, <3>2 DEF Finish
  <2>4. QED
    BY <1>2, <2>1, <2>2, <2>3 DEF IInv, Filled, Finish
<1>3. CASE UNCHANGED vars
  BY <1>3, SameSelection DEF vars, IInv, TypeInv, Filled
<1>4. QED
  BY <1>1, <1>2, <1>3 DEF Next

LEMMA Invariant == Spec => []IInv
BY InitIInv, NextIInv, PTL DEF Spec

\* A selection has as many servers as the stage asks for or all there are, and
\* of each region those that are no longer on its list.
THEOREM FilledHolds == Spec => []Filled
<1>1. IInv => Filled
  BY DEF IInv
<1>2. QED
  BY <1>1, Invariant, PTL

\* A region that can still give a server is behind any other by at most one,
\* and one more for each region that has run out.
THEOREM SpreadHolds == Spec => []Spread
<1>1. IInv => Spread
  <2> SUFFICES ASSUME IInv, NEW q \in Region, NEW r \in Region, left[r] > 0
               PROVE  Taken(q) - Taken(r) <= 1 + Cardinality(Drained)
    BY DEF Spread
  <2>1. Taken(q) = Gave(q) /\ Taken(r) = Gave(r)
    BY DEF IInv, Filled, Gave
  <2>2. r \in WithServers
    BY DEF WithServers
  <2>3. QED
    BY <2>1, <2>2 DEF IInv, Behind
<1>2. QED
  BY <1>1, Invariant, PTL

\* The regions with servers left always have one whose turn it is: the loop of
\* the engine never looks up a position its list does not have.
THEOREM AlwaysATurn ==
    Spec => [](~Exhausted => \E r \in WithServers :
                                Index(r) = turn % Cardinality(WithServers))
<1>1. IInv => (~Exhausted => \E r \in WithServers :
                                Index(r) = turn % Cardinality(WithServers))
  BY TakeFindsARegion DEF IInv
<1>2. QED
  BY <1>1, Invariant, PTL

=============================================================================
