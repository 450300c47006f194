-------------------------- MODULE AuditReplay_proofs --------------------------
(***************************************************************************)
(* Theorems about AuditReplay: what its replay functions compute for any   *)
(* file whose events have ids of their own and come after their parents,   *)
(* and that every file a rollout writes is of this kind.                   *)
(***************************************************************************)
EXTENDS AuditReplay, CanaryWorkflow_proofs, WellFoundedInduction

-----------------------------------------------------------------------------
(***************************************************************************)
(* Positions.                                                              *)
(***************************************************************************)

\* A set of numbers with a member has a least one: the induction behind every
\* recursive function of AuditReplay.
LEMMA Least ==
    ASSUME NEW T \in SUBSET Nat, T # {}
    PROVE  \E m \in T : \A k \in T : m <= k
<1> DEFINE Below == {p \in Nat \X Nat : p[1] < p[2]}
<1>1. IsWellFoundedOn(Below, Nat)
  BY NatLessThanWellFounded DEF OpToRel
<1> HIDE DEF Below
<1>2. PICK m \in T : \A k \in T : <<k, m>> \notin Below
  BY <1>1, WFMin
<1>3. ASSUME NEW k \in T PROVE m <= k
  <2>1. <<k, m>> \notin Below
    BY <1>2
  <2>2. <<k, m>> \in Nat \X Nat /\ <<k, m>>[1] = k /\ <<k, m>>[2] = m
    OBVIOUS
  <2>3. ~(k < m)
    BY <2>1, <2>2 DEF Below
  <2>4. QED
    BY <2>3
<1>4. QED
  BY <1>3

\* The positions of P have a time.
Timed(f, P) == \A k \in P : f[k].stamp \in Int

\* The order of siblings is a strict total order of positions.
LEMMA EarlierIsOrder ==
    ASSUME NEW f, NEW P \in SUBSET Int, Timed(f, P), NEW j \in P, NEW k \in P
    PROVE  /\ ~Earlier(f, j, j)
           /\ Earlier(f, j, k) => ~Earlier(f, k, j) /\ j # k
           /\ Earlier(f, j, k) \/ Earlier(f, k, j) \/ j = k
           /\ \A l \in P : Earlier(f, j, k) /\ Earlier(f, k, l) => Earlier(f, j, l)
<1>1. j \in Int /\ k \in Int /\ f[j].stamp \in Int /\ f[k].stamp \in Int
  BY DEF Timed
<1>2. \A l \in P : l \in Int /\ f[l].stamp \in Int
  BY DEF Timed
<1>3. QED
  BY <1>1, <1>2 DEF Earlier

Rank(f, P, k) == Cardinality({j \in P : Earlier(f, j, k)})

\* Each position has a rank of its own, and every rank is some position's.
LEMMA Ranks ==
    ASSUME NEW f, NEW P \in SUBSET Int, IsFiniteSet(P), Timed(f, P)
    PROVE  /\ Cardinality(P) \in Nat
           /\ \A k \in P : Rank(f, P, k) \in 0 .. Cardinality(P) - 1
           /\ \A j, k \in P : Earlier(f, j, k) => Rank(f, P, j) < Rank(f, P, k)
           /\ \A i \in 0 .. Cardinality(P) - 1 : \E k \in P : Rank(f, P, k) = i
<1> DEFINE Before(k) == {j \in P : Earlier(f, j, k)}
           n == Cardinality(P)
<1>0. \A k \in P : k \in Int
  OBVIOUS
<1>1. n \in Nat
  BY FS_CardinalityType
<1>2. ASSUME NEW k \in P
      PROVE  IsFiniteSet(Before(k)) /\ Rank(f, P, k) = Cardinality(Before(k)) /\ Rank(f, P, k) \in Nat
  BY FS_Subset, FS_CardinalityType DEF Rank
<1>3. ASSUME NEW k \in P PROVE Rank(f, P, k) < n
  <2>1. k \notin Before(k) /\ Before(k) \in SUBSET P
    BY EarlierIsOrder
  <2>2. Cardinality(Before(k)) <= n /\ n # Cardinality(Before(k))
    BY <2>1, FS_Subset
  <2>3. QED
    BY <1>1, <1>2, <2>2
<1>4. ASSUME NEW j \in P, NEW k \in P, Earlier(f, j, k) PROVE Rank(f, P, j) < Rank(f, P, k)
  <2>1. \A q \in Before(j) : q \in Before(k)
    BY <1>4, EarlierIsOrder
  <2>2. j \in Before(k)
    BY <1>4
  <2>3. j \notin Before(j)
    BY EarlierIsOrder
  <2>4. Before(j) \in SUBSET Before(k) /\ j \in Before(k) /\ j \notin Before(j)
    BY <2>1, <2>2, <2>3
  <2>5. IsFiniteSet(Before(k))
    BY <1>2
  <2>6. Cardinality(Before(j)) <= Cardinality(Before(k))
        /\ Cardinality(Before(k)) # Cardinality(Before(j))
    BY <2>4, <2>5, FS_Subset
  <2>7. Rank(f, P, j) \in Nat /\ Rank(f, P, k) \in Nat
    BY <1>2
  <2>8. Rank(f, P, j) <= Rank(f, P, k) /\ Rank(f, P, j) # Rank(f, P, k)
    BY <1>2, <2>6
  <2>9. QED
    BY <2>7, <2>8
<1> HIDE DEF Before
<1>5. ASSUME NEW i \in 0 .. n - 1 PROVE \E k \in P : Rank(f, P, k) = i
  <2> SUFFICES ASSUME \A k \in P : Rank(f, P, k) # i PROVE FALSE
    OBVIOUS
  <2> DEFINE All == 0 .. n - 1
             Others == All \ {i}
             rank == [k \in P |-> Rank(f, P, k)]
  <2>1. ASSUME NEW k \in P PROVE Rank(f, P, k) \in All
    <3>1. Rank(f, P, k) \in Nat /\ Rank(f, P, k) < n
      BY <1>2, <1>3
    <3>2. QED
      BY <1>1, <3>1
  <2>2. rank \in [P -> Others]
    BY <2>1
  <2>3. rank = [k \in P |-> Rank(f, P, k)]
    OBVIOUS
  <2>4. i \in All /\ n - 1 \in Int /\ 0 \in Int /\ ~(0 > n - 1)
    BY <1>1
  <2>5. IsFiniteSet(All) /\ Cardinality(All) = n
    BY <1>1, <2>4, FS_Interval
  <2> HIDE DEF All, rank
  <2>6. IsFiniteSet(Others) /\ Cardinality(Others) = n - 1
    BY <1>1, <2>4, <2>5, FS_RemoveElement
  <2> HIDE DEF Others
  <2>7. Cardinality(Others) < Cardinality(P)
    BY <1>1, <2>6
  <2>8. \E j, k \in P : j # k /\ rank[j] = rank[k]
    BY <2>2, <2>6, <2>7, FS_PigeonHole
  <2>9. PICK j \in P, k \in P : j # k /\ Rank(f, P, j) = Rank(f, P, k)
    BY <2>3, <2>8
  <2>10. Rank(f, P, j) \in Nat /\ (Earlier(f, j, k) => Rank(f, P, j) < Rank(f, P, k))
         /\ (Earlier(f, k, j) => Rank(f, P, k) < Rank(f, P, j))
    BY <1>2, <1>4
  <2>11. Earlier(f, j, k) \/ Earlier(f, k, j)
    BY <2>9, EarlierIsOrder
  <2>12. QED
    BY <2>9, <2>10, <2>11
<1>6. ASSUME NEW k \in P PROVE Rank(f, P, k) \in 0 .. n - 1
  <2>1. Rank(f, P, k) \in Nat /\ Rank(f, P, k) < n
    BY <1>2, <1>3
  <2>2. QED
    BY <1>1, <2>1
<1>7. QED
  BY <1>1, <1>4, <1>5, <1>6

LEMMA Oldest ==
    ASSUME NEW P \in SUBSET Int, IsFiniteSet(P), P # {}
    PROVE  \E k \in P : \A j \in P : k <= j
<1> DEFINE f == [k \in P |-> [stamp |-> k]]
<1>1. Cardinality(P) \in Nat \ {0}
  BY FS_CardinalityType, FS_EmptySet
<1>2. 0 \in 0 .. Cardinality(P) - 1
  BY <1>1
<1>3. \A k \in P : f[k].stamp = k
  OBVIOUS
<1> HIDE DEF f
<1>4. Timed(f, P)
  BY <1>3 DEF Timed
<1>5. PICK k \in P : Rank(f, P, k) = 0
  BY <1>2, <1>4, Ranks
<1>6. {j \in P : Earlier(f, j, k)} = {}
  BY <1>5, FS_Subset, FS_EmptySet DEF Rank
<1>7. \A j \in P : ~Earlier(f, j, k) /\ j \in Int /\ k \in Int
  BY <1>6
<1>8. \A j \in P : ~(j < k)
  BY <1>3, <1>7 DEF Earlier
<1>9. \A j \in P : k <= j
  BY <1>7, <1>8
<1>10. QED
  BY <1>9

\* OldestFirst lists a set of positions in the order of siblings.
Lists(f, t, P) == /\ t \in Seq(P)
                  /\ \A k \in P : \E i \in 1 .. Len(t) : t[i] = k
                  /\ \A i, j \in 1 .. Len(t) : i < j => Earlier(f, t[i], t[j])

LEMMA OldestFirstLists ==
    ASSUME NEW f, NEW P \in SUBSET Int, IsFiniteSet(P), Timed(f, P)
    PROVE  Lists(f, OldestFirst(f, P), P) /\ Len(OldestFirst(f, P)) = Cardinality(P)
<1> DEFINE n == Cardinality(P)
           t == OldestFirst(f, P)
<1>1. n \in Nat
  BY Ranks
<1>2. t = [i \in 1 .. n |-> CHOOSE k \in P : Rank(f, P, k) = i - 1]
  BY DEF OldestFirst, Rank
<1> HIDE DEF t
<1>3. ASSUME NEW i \in 1 .. n PROVE t[i] \in P /\ Rank(f, P, t[i]) = i - 1
  <2>1. i - 1 \in 0 .. n - 1
    BY <1>1
  <2>2. \E k \in P : Rank(f, P, k) = i - 1
    BY <2>1, Ranks
  <2>3. t[i] = CHOOSE k \in P : Rank(f, P, k) = i - 1
    BY <1>2
  <2>4. QED
    BY <2>2, <2>3
<1>4. t \in [1 .. n -> P]
  BY <1>2, <1>3
<1>5. t \in Seq(P) /\ Len(t) = n
  BY <1>1, <1>4
<1>6. ASSUME NEW k \in P PROVE \E i \in 1 .. n : t[i] = k
  <2>1. Rank(f, P, k) \in 0 .. n - 1
    BY Ranks
  <2> DEFINE i == Rank(f, P, k) + 1
  <2>2. i \in 1 .. n /\ i - 1 = Rank(f, P, k)
    BY <1>1, <2>1
  <2>3. t[i] \in P /\ Rank(f, P, t[i]) = Rank(f, P, k)
    BY <1>3, <2>2
  <2>4. Earlier(f, t[i], k) => Rank(f, P, t[i]) < Rank(f, P, k)
    BY <2>3, Ranks
  <2>5. Earlier(f, k, t[i]) => Rank(f, P, k) < Rank(f, P, t[i])
    BY <2>3, Ranks
  <2>6. Rank(f, P, k) \in Int
    BY <1>1, <2>1
  <2> HIDE DEF i
  <2>7. Earlier(f, t[i], k) \/ Earlier(f, k, t[i]) \/ t[i] = k
    BY <2>3, EarlierIsOrder
  <2>8. t[i] = k
    BY <2>3, <2>4, <2>5, <2>6, <2>7
  <2>9. QED
    BY <2>2, <2>8
<1>7. ASSUME NEW i \in 1 .. n, NEW j \in 1 .. n, i < j PROVE Earlier(f, t[i], t[j])
  <2>1. /\ t[i] \in P /\ t[j] \in P
        /\ Rank(f, P, t[i]) = i - 1 /\ Rank(f, P, t[j]) = j - 1
    BY <1>3
  <2>2. Earlier(f, t[j], t[i]) => Rank(f, P, t[j]) < Rank(f, P, t[i])
    BY <2>1, Ranks
  <2>3. Earlier(f, t[i], t[j]) \/ Earlier(f, t[j], t[i]) \/ t[i] = t[j]
    BY <2>1, EarlierIsOrder
  <2>4. t[i] # t[j] /\ ~Earlier(f, t[j], t[i])
    BY <1>1, <1>7, <2>1, <2>2
  <2>5. QED
    BY <2>3, <2>4
<1>8. QED
  BY <1>5, <1>6, <1>7 DEF Lists, t

-----------------------------------------------------------------------------
(***************************************************************************)
(* The walk, pass by pass.                                                 *)
(***************************************************************************)

Start(f, S) == [stack |-> OldestFirst(f, Roots(f, S)), ordered |-> <<>>]

\* What the walk is after each of its passes.
LEMMA WalkUnfolds ==
    ASSUME NEW f, NEW S, NEW m \in Nat, m = Cardinality(S)
    PROVE  /\ Walk(f, S)[0] = Start(f, S)
           /\ \A n \in 1 .. m : Walk(f, S)[n] = Visit(f, S, Walk(f, S)[n - 1])
<1> DEFINE P(k) == \E w : w = [n \in 0 .. k |-> IF n = 0 THEN Start(f, S)
                                                 ELSE Visit(f, S, w[n - 1])]
           Bad == {k \in Nat : ~P(k)}
<1>1. P(0)
  <2> DEFINE w == [n \in 0 .. 0 |-> Start(f, S)]
  <2>1. w = [n \in 0 .. 0 |-> IF n = 0 THEN Start(f, S) ELSE Visit(f, S, w[n - 1])]
    OBVIOUS
  <2>2. QED
    BY <2>1
<1>2. ASSUME NEW k \in Nat, P(k) PROVE P(k + 1)
  <2>1. PICK w : w = [n \in 0 .. k |-> IF n = 0 THEN Start(f, S) ELSE Visit(f, S, w[n - 1])]
    BY <1>2
  <2> DEFINE v == [n \in 0 .. k + 1 |-> IF n <= k THEN w[n] ELSE Visit(f, S, w[k])]
  <2>2. ASSUME NEW n \in 0 .. k + 1
        PROVE  v[n] = IF n = 0 THEN Start(f, S) ELSE Visit(f, S, v[n - 1])
    <3>1. CASE n = 0
      BY <2>1, <3>1
    <3>2. CASE n \in 1 .. k
      <4>1. n - 1 \in 0 .. k /\ n \in 0 .. k /\ n # 0 /\ n <= k /\ n - 1 <= k
        BY <3>2
      <4>2. v[n] = w[n] /\ v[n - 1] = w[n - 1]
        BY <4>1
      <4>3. w[n] = Visit(f, S, w[n - 1])
        BY <2>1, <4>1
      <4>4. QED
        BY <4>1, <4>2, <4>3
    <3>3. CASE n = k + 1
      <4>1. k \in 0 .. k + 1 /\ n - 1 = k /\ n # 0 /\ ~(n <= k) /\ k <= k
        BY <3>3
      <4>2. v[n] = Visit(f, S, w[k]) /\ v[k] = w[k]
        BY <4>1
      <4>3. QED
        BY <4>1, <4>2
    <3>4. QED
      BY <3>1, <3>2, <3>3
  <2>3. v = [n \in 0 .. k + 1 |-> IF n = 0 THEN Start(f, S) ELSE Visit(f, S, v[n - 1])]
    BY <2>2
  <2>4. QED
    BY <2>3
<1> HIDE DEF P
<1>3. Bad = {}
  <2> SUFFICES ASSUME Bad # {} PROVE FALSE
    OBVIOUS
  <2>1. PICK k \in Bad : \A j \in Bad : k <= j
    BY Least
  <2>2. k # 0
    BY <1>1
  <2>3. k - 1 \in Nat /\ k - 1 \notin Bad
    BY <2>1, <2>2
  <2>4. P(k - 1 + 1)
    BY <1>2, <2>3
  <2>5. QED
    BY <2>1, <2>4
<1>4. \E w : w = [n \in 0 .. m |-> IF n = 0 THEN Start(f, S) ELSE Visit(f, S, w[n - 1])]
  BY <1>3 DEF P
<1> DEFINE w == Walk(f, S)
<1>5. w = [n \in 0 .. m |-> IF n = 0 THEN Start(f, S) ELSE Visit(f, S, w[n - 1])]
  BY <1>4, Zenon DEF Walk, Start
<1> HIDE DEF w
<1>6. 0 \in 0 .. m
  OBVIOUS
<1>7. w[0] = Start(f, S)
  BY <1>5, <1>6
<1>8. ASSUME NEW n \in 1 .. m PROVE w[n] = Visit(f, S, w[n - 1])
  <2>1. n \in 0 .. m /\ n # 0
    OBVIOUS
  <2>2. QED
    BY <1>5, <2>1
<1>9. QED
  BY <1>7, <1>8 DEF w

-----------------------------------------------------------------------------
(***************************************************************************)
(* The timeline of a forest.                                               *)
(***************************************************************************)

\* Events of a file that have a time, ids of their own and parents before them.
Forest(f, S) ==
    /\ S \in SUBSET Int /\ IsFiniteSet(S) /\ Timed(f, S)
    /\ \A j, k \in S : f[j].id = f[k].id => j = k
    /\ \A k \in S \ Roots(f, S) : \E j \in S : j < k /\ f[k].parent = f[j].id

\* Events that have the same parent, or none.
Kin(f, S, x, y) == \/ x \in Roots(f, S) /\ y \in Roots(f, S)
                   \/ f[x].parent = f[y].parent

Among(x, q)   == \E i \in 1 .. Len(q) : q[i] = x
Once(q)        == \A i, j \in 1 .. Len(q) : q[i] = q[j] => i = j
Ahead(x, q, i) == \E j \in 1 .. i - 1 : q[j] = x

\* Nothing is on the stack and in the order, or twice on one of them.
Distinct(w) == /\ Once(w.ordered) /\ Once(w.stack)
               /\ \A i \in 1 .. Len(w.stack) : ~Among(w.stack[i], w.ordered)

\* Behind its parent: an event of the order, and one on the stack.
Upward(f, S, w) ==
    /\ \A i \in 1 .. Len(w.ordered) :
          \/ w.ordered[i] \in Roots(f, S)
          \/ \E j \in 1 .. i - 1 : f[w.ordered[i]].parent = f[w.ordered[j]].id
    /\ \A i \in 1 .. Len(w.stack) :
          \/ w.stack[i] \in Roots(f, S)
          \/ \E j \in 1 .. Len(w.ordered) : f[w.stack[i]].parent = f[w.ordered[j]].id

\* A root, and a child of an event of the order, is there or on the stack.
Downward(f, S, w) ==
    \A x \in S :
        \/ x \in Roots(f, S)
        \/ \E j \in 1 .. Len(w.ordered) : f[x].parent = f[w.ordered[j]].id
        => Among(x, w.ordered) \/ Among(x, w.stack)

\* Of two events with the same parent the earlier comes first.
Elder(f, S, w) ==
    \A x, y \in S :
        Earlier(f, x, y) /\ Kin(f, S, x, y) =>
            /\ \A i \in 1 .. Len(w.ordered) : w.ordered[i] = y => Ahead(x, w.ordered, i)
            /\ \A i \in 1 .. Len(w.stack) :
                  w.stack[i] = y => Among(x, w.ordered) \/ Ahead(x, w.stack, i)

\* The roots wait at the bottom of the stack: when one is taken, every child of an
\* event of the order is in the order.
RootsLast(f, S, w) ==
    /\ \A i, j \in 1 .. Len(w.stack) :
          i < j /\ w.stack[i] \in Roots(f, S) => w.stack[j] \in Roots(f, S)
    /\ \A i, j \in 1 .. Len(w.ordered) :
          i < j /\ w.ordered[j] \in Roots(f, S) =>
              \A x \in S : f[x].parent = f[w.ordered[i]].id => Ahead(x, w.ordered, j)

WalkInv(f, S, w) ==
    /\ w.stack \in Seq(S) /\ w.ordered \in Seq(S)
    /\ RootsLast(f, S, w)
    /\ Distinct(w)
    /\ Upward(f, S, w)
    /\ Downward(f, S, w)
    /\ Elder(f, S, w)

LEMMA StartKeeps ==
    ASSUME NEW f, NEW S, Forest(f, S)
    PROVE  WalkInv(f, S, Start(f, S))
<1> DEFINE w == Start(f, S)
           R == Roots(f, S)
<1>1. w.stack = OldestFirst(f, R) /\ w.ordered = <<>>
  BY DEF Start
<1>2. R \in SUBSET S /\ R \in SUBSET Int /\ IsFiniteSet(R)
  BY FS_Subset DEF Forest, Roots
<1>3. Lists(f, w.stack, R)
  BY <1>1, <1>2, OldestFirstLists DEF Forest, Timed
<1> HIDE DEF w, R
<1>4. w.stack \in Seq(R) /\ w.ordered \in Seq(S) /\ Len(w.ordered) = 0
  BY <1>1, <1>3 DEF Lists
<1>5. /\ w.stack \in Seq(S) /\ Len(w.stack) \in Nat
      /\ \A i \in 1 .. Len(w.stack) : w.stack[i] \in R
  BY <1>2, <1>4
<1>6. \A x, y \in S : Earlier(f, x, y) => ~Earlier(f, y, x) /\ x # y
  BY EarlierIsOrder DEF Forest
<1>7. Distinct(w)
  <2>1. Once(w.stack)
    <3> SUFFICES ASSUME NEW i \in 1 .. Len(w.stack), NEW j \in 1 .. Len(w.stack),
                        w.stack[i] = w.stack[j]
                 PROVE  i = j
      BY DEF Once
    <3>1. w.stack[i] \in S /\ w.stack[j] \in S
      BY <1>2, <1>5
    <3>2. /\ i < j => Earlier(f, w.stack[i], w.stack[j])
          /\ j < i => Earlier(f, w.stack[j], w.stack[i])
      BY <1>3 DEF Lists
    <3>3. ~(i < j) /\ ~(j < i)
      BY <1>6, <3>1, <3>2
    <3>4. QED
      BY <1>5, <3>3
  <2>2. QED
    BY <1>4, <2>1 DEF Distinct, Once, Among
<1>8. Upward(f, S, w)
  BY <1>4, <1>5 DEF Upward, R
<1>9. Downward(f, S, w)
  BY <1>3, <1>4 DEF Downward, R, Among, Lists
<1>10. Elder(f, S, w)
  <2> SUFFICES ASSUME NEW x \in S, NEW y \in S, Earlier(f, x, y), Kin(f, S, x, y),
                      NEW i \in 1 .. Len(w.stack), w.stack[i] = y
               PROVE  Ahead(x, w.stack, i)
    BY <1>4 DEF Elder
  <2>1. x \in R
    BY <1>5 DEF R, Kin, Roots
  <2>2. PICK j \in 1 .. Len(w.stack) : w.stack[j] = x
    BY <1>3, <2>1 DEF Lists
  <2>3. ~Earlier(f, y, x) /\ x # y
    BY <1>6
  <2>4. i < j => Earlier(f, y, x)
    BY <1>3, <2>2 DEF Lists
  <2>5. j \in 1 .. i - 1
    BY <1>5, <2>2, <2>3, <2>4
  <2>6. QED
    BY <2>2, <2>5 DEF Ahead
<1>11. RootsLast(f, S, w)
  BY <1>4, <1>5 DEF RootsLast, R
<1>12. QED
  BY <1>4, <1>5, <1>7, <1>8, <1>9, <1>10, <1>11 DEF WalkInv, w

\* A pass takes the event on top of the stack and puts its children there.
LEMMA VisitTop ==
    ASSUME NEW f, NEW S, Forest(f, S), NEW w, WalkInv(f, S, w), w.stack # <<>>
    PROVE  \E h \in S, L \in Seq(S) :
              /\ h = w.stack[1] /\ ~Among(h, w.ordered)
              /\ Lists(f, L, Children(f, S, f[h].id))
              /\ Visit(f, S, w) = [stack   |-> L \o Tail(w.stack),
                                   ordered |-> Append(w.ordered, h)]
<1> DEFINE h == w.stack[1]
           C == Children(f, S, f[h].id)
           L == OldestFirst(f, C)
<1>1. w.stack \in Seq(S) /\ w.ordered \in Seq(S) /\ 1 \in 1 .. Len(w.stack)
  BY DEF WalkInv
<1>2. h \in S /\ h = Head(w.stack) /\ ~Among(h, w.ordered)
  BY <1>1 DEF WalkInv, Distinct
<1>3. h \notin Range(w.ordered)
  BY <1>1, <1>2 DEF Range, Among
<1>4. C \in SUBSET S /\ C \in SUBSET Int /\ IsFiniteSet(C)
  BY FS_Subset DEF Forest, Children
<1> HIDE DEF h
<1>5. Lists(f, L, C)
  BY <1>4, OldestFirstLists DEF Forest, Timed
<1>6. L \in Seq(S)
  BY <1>4, <1>5 DEF Lists
<1>7. Visit(f, S, w) = [stack   |-> L \o Tail(w.stack),
                        ordered |-> Append(w.ordered, h)]
  BY <1>2, <1>3 DEF Visit
<1> HIDE DEF C, L
<1>8. QED
  BY <1>2, <1>5, <1>6, <1>7 DEF C, h

LEMMA VisitKeeps ==
    ASSUME NEW f, NEW S, Forest(f, S), NEW w, WalkInv(f, S, w), w.stack # <<>>
    PROVE  /\ WalkInv(f, S, Visit(f, S, w))
           /\ Len(Visit(f, S, w).ordered) = Len(w.ordered) + 1
<1>1. PICK h \in S, L \in Seq(S) :
              /\ h = w.stack[1] /\ ~Among(h, w.ordered)
              /\ Lists(f, L, Children(f, S, f[h].id))
              /\ Visit(f, S, w) = [stack   |-> L \o Tail(w.stack),
                                   ordered |-> Append(w.ordered, h)]
  BY VisitTop
<1> DEFINE v == Visit(f, S, w)
           C == Children(f, S, f[h].id)
           o == w.ordered
           t == w.stack
           n == Len(o)
           l == Len(L)
           m == Len(t)
<1>2. o \in Seq(S) /\ t \in Seq(S) /\ n \in Nat /\ l \in Nat /\ m \in Nat \ {0}
  BY DEF WalkInv
<1>3. /\ v.ordered \in Seq(S) /\ Len(v.ordered) = n + 1
      /\ v.ordered[n + 1] = h
      /\ \A i \in 1 .. n : v.ordered[i] = o[i]
  <2>1. v.ordered = Append(o, h)
    BY <1>1
  <2> HIDE DEF v, o
  <2>2. QED
    BY <1>2, <2>1
<1>4. /\ v.stack \in Seq(S) /\ Len(v.stack) = l + m - 1
      /\ \A i \in 1 .. l : v.stack[i] = L[i]
      /\ \A i \in 1 .. l + m - 1 : i > l => v.stack[i] = t[i - l + 1]
  <2>1. Tail(t) \in Seq(S) /\ Len(Tail(t)) = m - 1
        /\ \A i \in 1 .. m - 1 : Tail(t)[i] = t[i + 1]
    BY <1>2
  <2>2. v.stack = L \o Tail(t)
    BY <1>1
  <2> HIDE DEF v, t
  <2>3. QED
    BY <1>2, <2>1, <2>2
<1>5. \A i \in 1 .. l : L[i] \in S /\ f[L[i]].parent = f[h].id
  <2>1. L \in Seq(C)
    BY <1>1 DEF Lists
  <2> HIDE DEF C
  <2>2. \A i \in 1 .. l : L[i] \in C
    BY <2>1
  <2>3. QED
    BY <2>2 DEF C, Children
<1>6. \A x \in S : f[x].parent = f[h].id => x \notin Roots(f, S) /\ \E i \in 1 .. l : L[i] = x
  BY <1>1, <1>2 DEF Lists, Children, Roots, Ids
<1>7. h = t[1] /\ (\A i \in 1 .. n : o[i] # h) /\ (\A i \in 1 .. n : o[i] \in S)
      /\ \A i \in 1 .. m : t[i] \in S
  BY <1>1, <1>2 DEF Among
<1>8. \A j, k \in S : f[j].id = f[k].id => j = k
  BY DEF Forest
<1> HIDE DEF v, C, o, t, n, l, m
\* The children of h are new: their parent was not in the order.
<1>9. ASSUME NEW i \in 1 .. l
      PROVE  (\A j \in 1 .. n : o[j] # L[i]) /\ (\A j \in 1 .. m : t[j] # L[i])
  <2>1. L[i] \in S /\ L[i] \notin Roots(f, S)
    BY <1>5, <1>6
  <2>2. \A j \in 1 .. n : f[L[i]].parent # f[o[j]].id
    BY <1>1, <1>5, <1>7, <1>8
  <2>3. \A j \in 1 .. n : o[j] # L[i]
    <3> SUFFICES ASSUME NEW j \in 1 .. n, o[j] = L[i] PROVE FALSE
      OBVIOUS
    <3>1. \E k \in 1 .. j - 1 : f[o[j]].parent = f[o[k]].id
      BY <2>1 DEF WalkInv, Upward, o, n
    <3>2. QED
      BY <1>2, <2>2, <3>1
  <2>4. \A j \in 1 .. m : t[j] # L[i]
    BY <2>1, <2>2 DEF WalkInv, Upward, o, n, t, m
  <2>5. QED
    BY <2>3, <2>4
<1>10. Distinct(v)
  <2>1. Once(v.ordered)
    <3> SUFFICES ASSUME NEW i \in 1 .. n + 1, NEW j \in 1 .. n + 1, v.ordered[i] = v.ordered[j]
                 PROVE  i = j
      BY <1>3 DEF Once
    <3>1. \A a, b \in 1 .. n : o[a] = o[b] => a = b
      BY DEF WalkInv, Distinct, Once, o, n
    <3>2. (i \in 1 .. n \/ i = n + 1) /\ (j \in 1 .. n \/ j = n + 1)
      BY <1>2
    <3>3. QED
      BY <1>3, <1>7, <3>1, <3>2
  <2>2. Once(v.stack)
    <3> SUFFICES ASSUME NEW i \in 1 .. l + m - 1, NEW j \in 1 .. l + m - 1,
                        v.stack[i] = v.stack[j], i < j
                 PROVE  FALSE
      BY <1>2, <1>4 DEF Once
    <3>1. CASE j <= l
      <4>1. i \in 1 .. l /\ j \in 1 .. l
        BY <1>2, <3>1
      <4>2. L[i] = L[j]
        BY <1>4, <4>1
      <4>3. Earlier(f, L[i], L[j]) /\ L[i] \in S /\ L[j] \in S
        BY <1>1, <1>5, <3>1, <2>2, <4>1 DEF Lists, l
      <4>4. L[i] # L[j]
        BY <4>3, EarlierIsOrder DEF Forest
      <4>5. QED
        BY <4>2, <4>4
    <3>2. CASE i <= l /\ j > l
      <4>1. i \in 1 .. l /\ j - l + 1 \in 1 .. m
        BY <1>2, <3>2
      <4>2. L[i] = t[j - l + 1]
        BY <1>4, <3>2, <4>1
      <4>3. QED
        BY <1>9, <4>1, <4>2
    <3>3. CASE i > l
      <4>1. i - l + 1 \in 1 .. m /\ j - l + 1 \in 1 .. m /\ j > l /\ i - l + 1 # j - l + 1
        BY <1>2, <3>3
      <4>2. t[i - l + 1] = t[j - l + 1]
        BY <1>4, <3>3, <4>1
      <4>3. QED
        BY <4>1, <4>2 DEF WalkInv, Distinct, Once, t, m
    <3>4. QED
      BY <1>2, <3>1, <3>2, <3>3
  <2>3. ASSUME NEW i \in 1 .. l + m - 1, NEW j \in 1 .. n + 1, v.ordered[j] = v.stack[i]
        PROVE  FALSE
    <3>1. CASE i <= l
      <4>1. i \in 1 .. l /\ v.stack[i] = L[i]
        BY <1>2, <1>4, <3>1
      <4>2. j \in 1 .. n => o[j] # L[i]
        BY <1>9, <4>1
      <4>3. 1 \in 1 .. m /\ h # L[i]
        BY <1>2, <1>7, <1>9, <4>1
      <4>4. j \in 1 .. n \/ j = n + 1
        BY <1>2
      <4>5. QED
        BY <1>3, <2>3, <4>1, <4>2, <4>3, <4>4
    <3>2. CASE i > l
      <4> DEFINE k == i - l + 1
      <4>1. k \in 1 .. m /\ k # 1 /\ 1 \in 1 .. m /\ v.stack[i] = t[k]
        BY <1>2, <1>4, <3>2
      <4> HIDE DEF k
      <4>2. j \in 1 .. n => o[j] # t[k]
        BY <4>1 DEF WalkInv, Distinct, Among, o, t, n, m
      <4>3. h # t[k]
        BY <1>7, <4>1 DEF WalkInv, Distinct, Once, t, m
      <4>4. j \in 1 .. n \/ j = n + 1
        BY <1>2
      <4>5. QED
        BY <1>3, <2>3, <4>1, <4>2, <4>3, <4>4
    <3>3. QED
      BY <1>2, <3>1, <3>2
  <2>4. QED
    BY <1>3, <1>4, <2>1, <2>2, <2>3 DEF Distinct, Among
<1>11. Upward(f, S, v)
  <2>1. ASSUME NEW i \in 1 .. n + 1
        PROVE  \/ v.ordered[i] \in Roots(f, S)
               \/ \E j \in 1 .. i - 1 : f[v.ordered[i]].parent = f[v.ordered[j]].id
    <3>1. CASE i \in 1 .. n
      <4>1. \A j \in 1 .. i - 1 : j \in 1 .. n
        BY <1>2, <3>1
      <4>2. \/ o[i] \in Roots(f, S)
            \/ \E j \in 1 .. i - 1 : f[o[i]].parent = f[o[j]].id
        BY <3>1 DEF WalkInv, Upward, o, n
      <4>3. QED
        BY <1>3, <3>1, <4>1, <4>2
    <3>2. CASE i = n + 1
      <4>1. 1 \in 1 .. m
        BY <1>2
      <4>2. h \in Roots(f, S) \/ \E j \in 1 .. n : f[h].parent = f[o[j]].id
        BY <1>7, <4>1 DEF WalkInv, Upward, o, n, t, m
      <4>3. 1 .. i - 1 = 1 .. n
        BY <1>2, <3>2
      <4>4. h \in Roots(f, S) \/ \E j \in 1 .. i - 1 : f[h].parent = f[v.ordered[j]].id
        BY <1>3, <4>2, <4>3
      <4>5. QED
        BY <1>3, <3>2, <4>4
    <3>3. i \in 1 .. n \/ i = n + 1
      BY <1>2
    <3>4. QED
      BY <3>1, <3>2, <3>3
  <2>2. ASSUME NEW i \in 1 .. l + m - 1
        PROVE  \/ v.stack[i] \in Roots(f, S)
               \/ \E j \in 1 .. n + 1 : f[v.stack[i]].parent = f[v.ordered[j]].id
    <3>1. \A j \in 1 .. n : j \in 1 .. n + 1
      BY <1>2
    <3>2. n + 1 \in 1 .. n + 1
      BY <1>2
    <3>3. CASE i <= l
      <4>1. i \in 1 .. l
        BY <1>2, <3>3
      <4>2. QED
        BY <1>3, <1>4, <1>5, <3>2, <4>1
    <3>4. CASE i > l
      <4> DEFINE k == i - l + 1
      <4>1. k \in 1 .. m /\ v.stack[i] = t[k]
        BY <1>2, <1>4, <3>4
      <4> HIDE DEF k
      <4>2. t[k] \in Roots(f, S) \/ \E j \in 1 .. n : f[t[k]].parent = f[o[j]].id
        BY <4>1 DEF WalkInv, Upward, o, n, t, m
      <4>3. QED
        BY <1>3, <3>1, <4>1, <4>2
    <3>5. QED
      BY <1>2, <3>3, <3>4
  <2>3. QED
    BY <1>3, <1>4, <2>1, <2>2 DEF Upward
<1>12. Downward(f, S, v)
  <2> SUFFICES ASSUME NEW x \in S,
                      \/ x \in Roots(f, S)
                      \/ \E j \in 1 .. n + 1 : f[x].parent = f[v.ordered[j]].id
               PROVE  Among(x, v.ordered) \/ Among(x, v.stack)
    BY <1>3 DEF Downward
  <2>1. CASE f[x].parent = f[h].id
    <3>1. PICK i \in 1 .. l : L[i] = x
      BY <1>6, <2>1
    <3>2. i \in 1 .. l + m - 1
      BY <1>2
    <3>3. QED
      BY <1>4, <3>1, <3>2 DEF Among
  <2>2. CASE f[x].parent # f[h].id
    <3>1. \A j \in 1 .. n + 1 : j \in 1 .. n \/ j = n + 1
      BY <1>2
    <3>2. x \in Roots(f, S) \/ \E j \in 1 .. n : f[x].parent = f[o[j]].id
      BY <1>3, <2>2, <3>1
    <3>3. (\E i \in 1 .. n : o[i] = x) \/ (\E i \in 1 .. m : t[i] = x)
      BY <3>2 DEF WalkInv, Downward, Among, o, n, t, m
    <3>4. CASE \E i \in 1 .. n : o[i] = x
      <4>1. \A i \in 1 .. n : i \in 1 .. n + 1
        BY <1>2
      <4>2. QED
        BY <1>3, <3>4, <4>1 DEF Among
    <3>5. ASSUME NEW i \in 1 .. m, t[i] = x PROVE Among(x, v.ordered) \/ Among(x, v.stack)
      <4>1. CASE i = 1
        <5>1. n + 1 \in 1 .. n + 1 /\ v.ordered[n + 1] = x
          BY <1>2, <1>3, <1>7, <3>5, <4>1
        <5>2. QED
          BY <1>3, <5>1 DEF Among
      <4>2. CASE i # 1
        <5> DEFINE k == i + l - 1
        <5>1. k \in 1 .. l + m - 1 /\ k > l /\ k - l + 1 = i
          BY <1>2, <4>2
        <5>2. v.stack[k] = t[i]
          BY <1>4, <5>1
        <5> HIDE DEF k
        <5>3. QED
          BY <1>4, <3>5, <5>1, <5>2 DEF Among
      <4>3. QED
        BY <4>1, <4>2
    <3>6. QED
      BY <3>3, <3>4, <3>5
  <2>3. QED
    BY <2>1, <2>2
<1>13. Elder(f, S, v)
  <2> SUFFICES ASSUME NEW x \in S, NEW y \in S, Earlier(f, x, y), Kin(f, S, x, y)
               PROVE  /\ \A i \in 1 .. n + 1 : v.ordered[i] = y => Ahead(x, v.ordered, i)
                      /\ \A i \in 1 .. l + m - 1 :
                            v.stack[i] = y => Among(x, v.ordered) \/ Ahead(x, v.stack, i)
    BY <1>3, <1>4 DEF Elder
  <2>1. /\ \A i \in 1 .. n : o[i] = y => \E j \in 1 .. i - 1 : o[j] = x
        /\ \A i \in 1 .. m :
              t[i] = y => (\E j \in 1 .. n : o[j] = x) \/ (\E j \in 1 .. i - 1 : t[j] = x)
    BY DEF WalkInv, Elder, Ahead, Among, o, n, t, m
  <2>2. ASSUME NEW i \in 1 .. n + 1, v.ordered[i] = y PROVE Ahead(x, v.ordered, i)
    <3>1. CASE i \in 1 .. n
      <4>1. PICK j \in 1 .. i - 1 : o[j] = x
        BY <1>3, <2>1, <2>2, <3>1
      <4>2. j \in 1 .. n
        BY <1>2, <3>1
      <4>3. QED
        BY <1>3, <4>1, <4>2 DEF Ahead
    <3>2. CASE i = n + 1
      <4>1. 1 \in 1 .. m /\ ~ \E j \in 1 .. 1 - 1 : t[j] = x
        BY <1>2
      <4>2. t[1] = y
        BY <1>3, <1>7, <2>2, <3>2
      <4>3. PICK j \in 1 .. n : o[j] = x
        BY <2>1, <4>1, <4>2
      <4>4. j \in 1 .. i - 1
        BY <1>2, <3>2
      <4>5. QED
        BY <1>3, <4>3, <4>4 DEF Ahead
    <3>3. QED
      BY <1>2, <3>1, <3>2
  <2>3. ASSUME NEW i \in 1 .. l + m - 1, v.stack[i] = y
        PROVE  Among(x, v.ordered) \/ Ahead(x, v.stack, i)
    <3>1. CASE i <= l
      <4>1. i \in 1 .. l /\ y = L[i] /\ f[y].parent = f[h].id /\ y \notin Roots(f, S)
        BY <1>2, <1>4, <1>5, <1>6, <2>3, <3>1
      <4>2. f[x].parent = f[h].id
        BY <4>1 DEF Kin
      <4>3. PICK j \in 1 .. l : L[j] = x
        BY <1>6, <4>2
      <4>4. i < j => Earlier(f, y, x)
        BY <1>1, <4>1, <4>3 DEF Lists, l
      <4>5. ~Earlier(f, y, x) /\ x # y
        BY EarlierIsOrder DEF Forest
      <4>6. j \in 1 .. i - 1
        BY <1>2, <4>1, <4>3, <4>4, <4>5
      <4>7. QED
        BY <1>4, <4>3, <4>6 DEF Ahead
    <3>2. CASE i > l
      <4> DEFINE k == i - l + 1
      <4>1. k \in 1 .. m /\ k > 1 /\ i = k + l - 1
        BY <1>2, <3>2
      <4>2. t[k] = y
        BY <1>4, <2>3, <3>2
      <4> HIDE DEF k
      <4>3. CASE \E j \in 1 .. n : o[j] = x
        <5>1. \A j \in 1 .. n : j \in 1 .. n + 1
          BY <1>2
        <5>2. QED
          BY <1>3, <4>3, <5>1 DEF Among
      <4>4. ASSUME NEW j \in 1 .. k - 1, t[j] = x
            PROVE  Among(x, v.ordered) \/ Ahead(x, v.stack, i)
        <5>1. CASE j = 1
          <6>1. n + 1 \in 1 .. n + 1 /\ v.ordered[n + 1] = x
            BY <1>2, <1>3, <1>7, <4>4, <5>1
          <6>2. QED
            BY <1>3, <6>1 DEF Among
        <5>2. CASE j # 1
          <6> DEFINE a == j + l - 1
          <6>1. a \in 1 .. l + m - 1 /\ a > l /\ a - l + 1 = j /\ a \in 1 .. i - 1
            BY <1>2, <4>1, <5>2
          <6>2. v.stack[a] = x
            BY <1>4, <4>4, <6>1
          <6> HIDE DEF a
          <6>3. QED
            BY <6>1, <6>2 DEF Ahead
        <5>3. QED
          BY <5>1, <5>2
      <4>5. QED
        BY <2>1, <4>1, <4>2, <4>3, <4>4
    <3>3. QED
      BY <1>2, <3>1, <3>2
  <2>4. QED
    BY <2>2, <2>3
<1>14. RootsLast(f, S, v)
  <2> DEFINE R == Roots(f, S)
  <2>1. \A i \in 1 .. l : L[i] \notin R
    BY <1>5, <1>6
  <2>2. \A i, j \in 1 .. m : i < j /\ t[i] \in R => t[j] \in R
    BY DEF WalkInv, RootsLast, t, m
  <2>3. \A i, j \in 1 .. n : i < j /\ o[j] \in R =>
           \A x \in S : f[x].parent = f[o[i]].id => Ahead(x, o, j)
    BY DEF WalkInv, RootsLast, o, n
  <2>4. \A x \in S : x \in R \/ (\E j \in 1 .. n : f[x].parent = f[o[j]].id)
                       => Among(x, o) \/ Among(x, t)
    BY DEF WalkInv, Downward, o, n, t
  <2>5. \A x \in S, y \in S : f[x].parent = f[y].id => x \notin R
    BY DEF Roots, Ids
  <2> HIDE DEF R
  <2>6. ASSUME NEW i \in 1 .. l + m - 1, NEW j \in 1 .. l + m - 1, i < j, v.stack[i] \in R
        PROVE  v.stack[j] \in R
    <3>1. ~(i <= l)
      <4> SUFFICES ASSUME i <= l PROVE FALSE
        OBVIOUS
      <4>1. i \in 1 .. l /\ v.stack[i] = L[i]
        BY <1>2, <1>4
      <4>2. QED
        BY <2>1, <2>6, <4>1
    <3>2. i > l /\ j > l
      BY <1>2, <2>6, <3>1
    <3>3. i - l + 1 \in 1 .. m /\ j - l + 1 \in 1 .. m /\ i - l + 1 < j - l + 1
      BY <1>2, <2>6, <3>2
    <3>4. v.stack[i] = t[i - l + 1] /\ v.stack[j] = t[j - l + 1]
      BY <1>4, <3>2
    <3>5. QED
      BY <2>2, <2>6, <3>3, <3>4
  <2>7. ASSUME NEW i \in 1 .. n + 1, NEW j \in 1 .. n + 1, i < j, v.ordered[j] \in R,
               NEW x \in S, f[x].parent = f[v.ordered[i]].id
        PROVE  Ahead(x, v.ordered, j)
    <3>1. i \in 1 .. n /\ v.ordered[i] = o[i]
      <4>1. i \in 1 .. n
        BY <1>2, <2>7
      <4>2. QED
        BY <1>3, <4>1
    <3>2. CASE j \in 1 .. n
      <4>1. v.ordered[j] = o[j] /\ \A k \in 1 .. j - 1 : k \in 1 .. n
        BY <1>2, <1>3, <3>2
      <4>2. Ahead(x, o, j)
        BY <2>3, <2>7, <3>1, <3>2, <4>1
      <4>3. QED
        BY <1>3, <4>1, <4>2 DEF Ahead
    <3>3. CASE j = n + 1
      <4>1. h \in R /\ x \notin R
        BY <1>3, <1>7, <2>5, <2>7, <3>1, <3>3
      <4>2. ~Among(x, t)
        <5> SUFFICES ASSUME NEW a \in 1 .. m, t[a] = x PROVE FALSE
          BY DEF Among, m
        <5>1. 1 \in 1 .. m /\ (a = 1 \/ 1 < a)
          BY <1>2
        <5>2. QED
          BY <1>7, <2>2, <4>1, <5>1
      <4>3. PICK a \in 1 .. n : o[a] = x
        BY <2>4, <2>7, <3>1, <4>2 DEF Among, n
      <4>4. a \in 1 .. j - 1 /\ v.ordered[a] = x
        BY <1>2, <1>3, <3>3, <4>3
      <4>5. QED
        BY <4>4 DEF Ahead
    <3>4. j \in 1 .. n \/ j = n + 1
      BY <1>2
    <3>5. QED
      BY <3>2, <3>3, <3>4
  <2>8. QED
    BY <1>3, <1>4, <2>6, <2>7 DEF RootsLast, R
<1>15. QED
  BY <1>3, <1>4, <1>10, <1>11, <1>12, <1>13, <1>14 DEF WalkInv, v, o, n

\* Every pass keeps the invariant, and takes an event unless the stack is empty.
LEMMA WalkKeeps ==
    ASSUME NEW f, NEW S, Forest(f, S), NEW m \in Nat, m = Cardinality(S)
    PROVE  \A n \in 0 .. m :
              /\ WalkInv(f, S, Walk(f, S)[n])
              /\ Walk(f, S)[n].stack = <<>> \/ Len(Walk(f, S)[n].ordered) = n
<1> DEFINE w == Walk(f, S)
           Good(n) == WalkInv(f, S, w[n]) /\ (w[n].stack = <<>> \/ Len(w[n].ordered) = n)
           Bad == {n \in 0 .. m : ~Good(n)}
<1>1. w[0] = Start(f, S) /\ \A n \in 1 .. m : w[n] = Visit(f, S, w[n - 1])
  BY WalkUnfolds
<1> HIDE DEF w
<1>2. Good(0)
  <2>1. WalkInv(f, S, w[0])
    BY <1>1, StartKeeps
  <2>2. w[0].ordered = <<>>
    BY <1>1 DEF Start
  <2>3. QED
    BY <2>1, <2>2
<1>3. ASSUME NEW n \in 1 .. m, Good(n - 1) PROVE Good(n)
  <2>1. w[n] = Visit(f, S, w[n - 1])
    BY <1>1
  <2>2. CASE w[n - 1].stack = <<>>
    <3>1. w[n] = w[n - 1]
      BY <2>1, <2>2 DEF Visit
    <3>2. QED
      BY <1>3, <2>2, <3>1
  <2>3. CASE w[n - 1].stack # <<>>
    <3>1. WalkInv(f, S, w[n]) /\ Len(w[n].ordered) = Len(w[n - 1].ordered) + 1
      BY <1>3, <2>1, <2>3, VisitKeeps
    <3>2. Len(w[n - 1].ordered) = n - 1
      BY <1>3, <2>3
    <3>3. Len(w[n].ordered) = n
      BY <3>1, <3>2
    <3>4. QED
      BY <3>1, <3>3
  <2>4. QED
    BY <2>2, <2>3
<1> HIDE DEF Good
<1>4. Bad = {}
  <2> SUFFICES ASSUME Bad # {} PROVE FALSE
    OBVIOUS
  <2>1. PICK k \in Bad : \A j \in Bad : k <= j
    <3>1. Bad \in SUBSET Nat
      OBVIOUS
    <3> HIDE DEF Bad
    <3>2. QED
      BY <3>1, Least
  <2>2. k # 0
    BY <1>2
  <2>3. k \in 1 .. m /\ k - 1 \in 0 .. m /\ k - 1 \notin Bad
    BY <2>1, <2>2
  <2>4. Good(k)
    BY <1>3, <2>3
  <2>5. QED
    BY <2>1, <2>4
<1>5. \A n \in 0 .. m : Good(n)
  BY <1>4
<1>6. QED
  BY <1>5 DEF Good, w

\* The walk ends when it has taken every event.
LEMMA WalkEnds ==
    ASSUME NEW f, NEW S, Forest(f, S), NEW m \in Nat, m = Cardinality(S)
    PROVE  /\ WalkInv(f, S, Walk(f, S)[m])
           /\ Walk(f, S)[m].stack = <<>>
           /\ Len(Walk(f, S)[m].ordered) = m
           /\ \A x \in S : Among(x, Walk(f, S)[m].ordered)
<1> DEFINE w == Walk(f, S)[m]
           o == w.ordered
           t == w.stack
<1>1. WalkInv(f, S, w) /\ (t = <<>> \/ Len(o) = m)
  BY WalkKeeps
<1> HIDE DEF w
<1>2. o \in Seq(S) /\ t \in Seq(S) /\ Len(o) \in Nat
  BY <1>1 DEF WalkInv
<1>3. IsFiniteSet(S)
  BY DEF Forest
<1>4. \A i, j \in 1 .. Len(o) : o[i] = o[j] => i = j
  BY <1>1 DEF WalkInv, Distinct, Once
<1> DEFINE I == 1 .. Len(o)
<1> HIDE DEF o
<1>5. IsFiniteSet(I) /\ Cardinality(I) = Len(o)
  <2>1. 1 \in Int /\ Len(o) \in Int /\ (1 > Len(o) => Len(o) = 0) /\ Len(o) - 1 + 1 = Len(o)
    BY <1>2
  <2>2. QED
    BY <2>1, FS_Interval
<1>6. o \in [I -> S]
  BY <1>2
<1>7. o \in Injection(I, S)
  BY <1>4, <1>6 DEF Injection, IsInjective
<1> HIDE DEF I
<1>8. Cardinality(I) = Cardinality(S) => o \in Surjection(I, S)
  BY <1>3, <1>7, FS_Injection
<1>9. CASE Len(o) = m
  <2>1. \A x \in S : \E i \in I : o[i] = x
    BY <1>5, <1>8, <1>9 DEF Surjection
  <2>2. t = <<>>
    <3> SUFFICES ASSUME t # <<>> PROVE FALSE
      OBVIOUS
    <3>1. 1 \in 1 .. Len(t) /\ t[1] \in S
      BY <1>2
    <3>2. ~ \E i \in 1 .. Len(o) : o[i] = t[1]
      BY <1>1, <3>1 DEF WalkInv, Distinct, Among, o
    <3>3. QED
      BY <2>1, <3>1, <3>2 DEF I
  <2>3. QED
    BY <1>1, <1>9, <2>1, <2>2 DEF w, o, I, Among
<1>10. CASE t = <<>>
  <2> DEFINE Missed == {x \in S : ~Among(x, o)}
  <2>1. \A x \in S : x \in Roots(f, S) \/ (\E j \in I : f[x].parent = f[o[j]].id) => Among(x, o)
    BY <1>1, <1>10 DEF WalkInv, Downward, Among, o, I
  <2>2. Missed = {}
    <3> SUFFICES ASSUME Missed # {} PROVE FALSE
      OBVIOUS
    <3>1. Missed \in SUBSET Int /\ IsFiniteSet(Missed)
      BY <1>3, FS_Subset DEF Forest
    <3> HIDE DEF Missed
    <3>2. PICK x \in Missed : \A y \in Missed : x <= y
      BY <3>1, Oldest
    <3>3. x \in S /\ ~Among(x, o) /\ x \in Int
      BY <3>1 DEF Missed
    <3>4. x \notin Roots(f, S)
      BY <2>1, <3>3
    <3>5. PICK y \in S : y < x /\ f[x].parent = f[y].id
      BY <3>3, <3>4 DEF Forest
    <3>6. y \in Int
      BY DEF Forest
    <3>7. y \notin Missed
      BY <3>2, <3>3, <3>5, <3>6
    <3>8. Among(y, o)
      BY <3>7 DEF Missed
    <3>9. QED
      BY <2>1, <3>3, <3>5, <3>8 DEF Among, I
  <2>3. \A x \in S : Among(x, o)
    BY <2>2
  <2>4. o \in Surjection(I, S)
    BY <1>6, <2>3 DEF Surjection, Among, I
  <2>5. Cardinality(I) = Cardinality(S)
    BY <1>3, <1>7, <2>4, FS_Injection
  <2>6. QED
    BY <1>1, <1>5, <1>10, <2>3, <2>5 DEF w, o
<1>11. QED
  BY <1>1, <1>9, <1>10

\* reconstruct_timeline, for any file whose events have a time, ids of their own and
\* parents before them: every event is in the timeline once, parents come before
\* their children, and the children of one parent come by their stamps, equal ones
\* in the reverse order of the file.  A root comes after the children of every
\* event before it.
THEOREM TimelineOfForest ==
    ASSUME NEW f, NEW S, Forest(f, S)
    PROVE  /\ Timeline(f, S) \in Seq(S)
           /\ Len(Timeline(f, S)) = Cardinality(S)
           /\ \A x \in S : Among(x, Timeline(f, S))
           /\ Timeline(f, S) = Walk(f, S)[Cardinality(S)].ordered
           /\ Once(Timeline(f, S))
           /\ \A i, j \in 1 .. Len(Timeline(f, S)) :
                 i < j /\ Timeline(f, S)[j] \in Roots(f, S) =>
                    \A x \in S : f[x].parent = f[Timeline(f, S)[i]].id
                                    => Ahead(x, Timeline(f, S), j)
           /\ \A i, j \in 1 .. Len(Timeline(f, S)) :
                 i < j => /\ f[Timeline(f, S)[i]].parent # f[Timeline(f, S)[j]].id
                          /\ f[Timeline(f, S)[i]].parent = f[Timeline(f, S)[j]].parent
                                => Earlier(f, Timeline(f, S)[i], Timeline(f, S)[j])
<1> DEFINE w == Walk(f, S)[Cardinality(S)]
           o == w.ordered
<1>1. Cardinality(S) \in Nat
  BY FS_CardinalityType DEF Forest
<1>2. PICK m \in Nat : m = Cardinality(S)
  BY <1>1
<1>3. WalkInv(f, S, w) /\ Len(o) = m /\ \A x \in S : Among(x, o)
  BY <1>2, WalkEnds
<1> HIDE DEF w
<1>4. o \in Seq(S) /\ Len(o) \in Nat
  BY <1>3 DEF WalkInv
<1>5. Timeline(f, S) = o
  <2>1. S \ Range(o) = {}
    BY <1>3, <1>4 DEF Among, Range
  <2>2. OrphansInOrder(f, {}) = <<>>
    <3>1. Cardinality({}) = 0 /\ 1 .. 0 = {}
      BY FS_EmptySet
    <3>2. OrphansInOrder(f, {}) = [i \in {} |-> CHOOSE k \in {} :
              Cardinality({j \in {} : \/ f[j].stamp < f[k].stamp
                                     \/ (f[j].stamp = f[k].stamp /\ j < k)}) = i - 1]
      BY <3>1, Zenon DEF OrphansInOrder
    <3>3. QED
      BY <3>2
  <2>3. Timeline(f, S) = o \o OrphansInOrder(f, S \ Range(o))
    BY DEF Timeline, w
  <2>4. Timeline(f, S) = o \o <<>>
    BY <2>1, <2>2, <2>3
  <2>5. \A q \in Seq(S) : q \o <<>> = q
    OBVIOUS
  <2> HIDE DEF o
  <2>6. QED
    BY <1>4, <2>4, <2>5
<1>6. \A j, k \in 1 .. Len(o) : o[j] = o[k] => j = k
  BY <1>3 DEF WalkInv, Distinct, Once
<1>7. /\ \A k \in 1 .. Len(o) : o[k] \in S /\ o[k] \in Int
      /\ \A j, k \in S : f[j].id = f[k].id => j = k
  <2>1. S \in SUBSET Int /\ \A j, k \in S : f[j].id = f[k].id => j = k
    BY DEF Forest
  <2>2. \A k \in 1 .. Len(o) : o[k] \in S
    BY <1>4
  <2>3. QED
    BY <2>1, <2>2
<1>8. ASSUME NEW i \in 1 .. Len(o), NEW j \in 1 .. Len(o), i < j
      PROVE  f[o[i]].parent # f[o[j]].id
  <2> SUFFICES ASSUME f[o[i]].parent = f[o[j]].id PROVE FALSE
    OBVIOUS
  <2>1. o[i] \notin Roots(f, S)
    BY <1>7 DEF Roots, Ids
  <2>2. PICK k \in 1 .. i - 1 : f[o[i]].parent = f[o[k]].id
    BY <1>3, <2>1 DEF WalkInv, Upward
  <2>3. k \in 1 .. Len(o) /\ k # j
    BY <1>4, <1>8
  <2>4. o[k] = o[j]
    BY <1>7, <2>2, <2>3
  <2>5. QED
    BY <1>6, <2>3, <2>4
<1>9. ASSUME NEW i \in 1 .. Len(o), NEW j \in 1 .. Len(o), i < j,
             f[o[i]].parent = f[o[j]].parent
      PROVE  Earlier(f, o[i], o[j])
  <2>1. o[i] \in S /\ o[j] \in S /\ Kin(f, S, o[j], o[i])
    BY <1>7, <1>9 DEF Kin
  <2>2. ~Earlier(f, o[j], o[i])
    <3> SUFFICES ASSUME Earlier(f, o[j], o[i]) PROVE FALSE
      OBVIOUS
    <3>1. PICK k \in 1 .. i - 1 : o[k] = o[j]
      BY <1>3, <2>1 DEF WalkInv, Elder, Ahead
    <3>2. k \in 1 .. Len(o) /\ k # j
      BY <1>4, <1>9
    <3>3. QED
      BY <1>6, <3>1, <3>2
  <2>3. o[i] # o[j]
    BY <1>6, <1>9
  <2>4. QED
    BY <2>1, <2>2, <2>3, EarlierIsOrder DEF Forest
<1>10. Once(o)
  BY <1>6 DEF Once
<1>11. \A i, j \in 1 .. Len(o) :
           i < j /\ o[j] \in Roots(f, S) =>
              \A x \in S : f[x].parent = f[o[i]].id => Ahead(x, o, j)
  BY <1>3 DEF WalkInv, RootsLast
<1> HIDE DEF o
<1>12. QED
  BY <1>2, <1>3, <1>4, <1>5, <1>8, <1>9, <1>10, <1>11 DEF o, w

-----------------------------------------------------------------------------
(***************************************************************************)
(* What a step of the rollout writes.                                      *)
(***************************************************************************)

AuditType == EventType \cup {"governance_decision"}

Entry == [id : Nat, parent : Nat, stamp : Nat, type : AuditType,
          deployment : {"earlier", "this", "own"},
          servers : SUBSET Server, target : Version]

Chain(types) == {k \in DOMAIN types : types[k] \notin RootTypes}

IdUpto(types, n) == IF {j \in Chain(types) : j <= n} = {} THEN last
                    ELSE made + Max({j \in Chain(types) : j <= n})

\* The newest of some positions.
LEMMA Newest ==
    ASSUME NEW P \in SUBSET Int, IsFiniteSet(P), P # {}
    PROVE  Max(P) \in P /\ \A j \in P : j <= Max(P)
<1> DEFINE n == Cardinality(P)
           f == [k \in P |-> [stamp |-> k]]
<1>1. n \in Nat \ {0}
  BY FS_CardinalityType, FS_EmptySet
<1>2. n - 1 \in 0 .. n - 1
  BY <1>1
<1>3. \A k \in P : f[k].stamp = k
  OBVIOUS
<1> HIDE DEF f
<1>4. Timed(f, P)
  BY <1>3 DEF Timed
<1>5. PICK k \in P : Rank(f, P, k) = n - 1
  BY <1>2, <1>4, Ranks
<1>6. ASSUME NEW j \in P PROVE k >= j
  <2>1. Rank(f, P, j) \in 0 .. n - 1
    BY <1>4, Ranks
  <2>2. Earlier(f, k, j) => Rank(f, P, k) < Rank(f, P, j)
    BY <1>4, Ranks
  <2>3. ~Earlier(f, k, j)
    BY <1>1, <1>5, <2>1, <2>2
  <2>4. QED
    BY <1>3, <2>3 DEF Earlier
<1>7. Max(P) \in P /\ \A j \in P : Max(P) >= j
  BY <1>6 DEF Max
<1>8. QED
  BY <1>7

\* The id the chain has reached after n of the new events.
LEMMA IdOf ==
    ASSUME NEW types \in Seq(AuditType), NEW n \in Int
    PROVE  \/ IdUpto(types, n) = last /\ \A q \in Chain(types) : ~(q <= n)
           \/ \E q \in Chain(types) :
                 /\ q <= n /\ IdUpto(types, n) = made + q
                 /\ \A r \in Chain(types) : r <= n => r <= q
<1> DEFINE P == {j \in Chain(types) : j <= n}
<1>1. Chain(types) \in SUBSET (1 .. Len(types)) /\ Len(types) \in Nat
  BY DEF Chain
<1>2. IsFiniteSet(1 .. Len(types))
  BY <1>1, FS_Interval
<1>3. P \in SUBSET Int /\ IsFiniteSet(P)
  <2>1. P \in SUBSET (1 .. Len(types))
    BY <1>1
  <2>2. QED
    BY <1>2, <2>1, FS_Subset
<1>4. CASE P = {}
  BY <1>4 DEF IdUpto
<1>5. CASE P # {}
  <2> HIDE DEF P
  <2>1. Max(P) \in P /\ \A j \in P : j <= Max(P)
    BY <1>3, <1>5, Newest
  <2>2. IdUpto(types, n) = made + Max(P)
    BY <1>5 DEF IdUpto, P
  <2> DEFINE q == Max(P)
  <2> HIDE DEF q
  <2>3. q \in Chain(types) /\ q <= n /\ IdUpto(types, n) = made + q
    BY <2>1, <2>2 DEF q, P
  <2>4. \A r \in Chain(types) : r <= n => r <= q
    BY <2>1 DEF q, P
  <2>5. QED
    BY <2>3, <2>4
<1>6. QED
  BY <1>4, <1>5

LEMMA ServersNamed ==
    ASSUME TypeOK, NEW type
    PROVE  Named(type) \in SUBSET Server
<1>1. newly \in SUBSET Server /\ RolledBackIds \in SUBSET Server
  BY DEF TypeOK, RolledBackIds
<1>2. QED
  BY <1>1 DEF Named

LEMMA Joined ==
    ASSUME NEW T, NEW a \in Seq(T), NEW b \in Seq(T)
    PROVE  /\ a \o b \in Seq(T) /\ Len(a \o b) = Len(a) + Len(b)
           /\ \A k \in 1 .. Len(a) : (a \o b)[k] = a[k]
           /\ \A k \in 1 .. Len(b) : (a \o b)[Len(a) + k] = b[k]
OBVIOUS

\* The more of the new events, the more ticks of the clock.
LEMMA StampsGrow ==
    ASSUME NEW same, NEW n \in Nat
    PROVE  /\ \A k \in 0 .. n : Cardinality((1 .. k) \ same) \in Nat
           /\ \A j, k \in 0 .. n :
                 j <= k => Cardinality((1 .. j) \ same) <= Cardinality((1 .. k) \ same)
<1>1. ASSUME NEW k \in 0 .. n
      PROVE  IsFiniteSet((1 .. k) \ same) /\ Cardinality((1 .. k) \ same) \in Nat
  <2>1. IsFiniteSet(1 .. k)
    BY FS_Interval
  <2>2. IsFiniteSet((1 .. k) \ same)
    BY <2>1, FS_Subset
  <2>3. QED
    BY <2>2, FS_CardinalityType
<1>2. ASSUME NEW j \in 0 .. n, NEW k \in 0 .. n, j <= k
      PROVE  Cardinality((1 .. j) \ same) <= Cardinality((1 .. k) \ same)
  <2>1. (1 .. j) \ same \in SUBSET ((1 .. k) \ same)
    BY <1>2
  <2>2. QED
    BY <1>1, <2>1, FS_Subset
<1>3. QED
  BY <1>1, <1>2

\* What is recorded now is stamped no earlier than what is in the file.
LEMMA LogWrites ==
    ASSUME TypeOK, NEW types \in Seq(AuditType), Log(types),
           file \in Seq(Entry), file # <<>>, made \in Nat, last \in Nat
    PROVE  /\ Len(file') = Len(file) + Len(types)
           /\ \A k \in 1 .. Len(file) : file'[k] = file[k]
           /\ \A k \in 1 .. Len(types) :
                 file'[Len(file) + k] =
                    Event(made + k, IF k \in Chain(types) THEN IdUpto(types, k - 1) ELSE NoEvent,
                          file'[Len(file) + k].stamp, types[k], Named(types[k]))
           /\ \A j, k \in Len(file) .. Len(file) + Len(types) :
                 j <= k => file'[j].stamp <= file'[k].stamp
           /\ last' = IdUpto(types, Len(types))
           /\ made' = made + Len(types)
           /\ file' \in Seq(Entry)
<1>0. PICK same \in SUBSET DOMAIN types :
         /\ file' = file \o [k \in DOMAIN types |->
                      Event(made + k, IF k \in Chain(types) THEN IdUpto(types, k - 1) ELSE NoEvent,
                            Stamp(k, same), types[k], Named(types[k]))]
         /\ last' = IdUpto(types, Len(types))
         /\ made' = made + Len(types)
  BY DEF Log, Chain, IdUpto
<1> DEFINE new == [k \in DOMAIN types |->
                     Event(made + k, IF k \in Chain(types) THEN IdUpto(types, k - 1) ELSE NoEvent,
                           Stamp(k, same), types[k], Named(types[k]))]
           N == Len(file)
           T == Len(types)
           ticks(k) == Cardinality((1 .. k) \ same)
<1>1. /\ file' = file \o new
      /\ last' = IdUpto(types, Len(types))
      /\ made' = made + Len(types)
  BY <1>0
<1>2. DOMAIN types = 1 .. T /\ T \in Nat /\ N \in Nat /\ N \in 1 .. N /\ Last(file) = file[N]
  BY DEF Last
<1>a. /\ file[N].stamp \in Nat
      /\ \A k \in 0 .. T : ticks(k) \in Nat
      /\ \A j, k \in 0 .. T : j <= k => ticks(j) <= ticks(k)
      /\ \A k \in 1 .. T : Stamp(k, same) = file[N].stamp + ticks(k)
  <2>1. file[N] \in Entry
    BY <1>2
  <2>2. file[N].stamp \in Nat
    BY <2>1 DEF Entry
  <2>3. /\ \A k \in 0 .. T : ticks(k) \in Nat
        /\ \A j, k \in 0 .. T : j <= k => ticks(j) <= ticks(k)
    BY <1>2, StampsGrow
  <2>4. QED
    BY <1>2, <2>2, <2>3 DEF Stamp
<1> HIDE DEF ticks
<1>3. ASSUME NEW k \in 1 .. T PROVE new[k] \in Entry
  <2>1. types[k] \in AuditType /\ Named(types[k]) \in SUBSET Server /\ Target \in Version
    BY ServersNamed, TargetAssumption
  <2>2. \A n \in Int : IdUpto(types, n) \in Nat
    <3> SUFFICES ASSUME NEW n \in Int PROVE IdUpto(types, n) \in Nat
      OBVIOUS
    <3>1. \A q \in Chain(types) : q \in Nat
      BY <1>2 DEF Chain
    <3>2. QED
      BY <3>1, IdOf
  <2>3. IdUpto(types, k - 1) \in Nat
    <3>1. k - 1 \in Int
      BY <1>2
    <3>2. QED
      BY <2>2, <3>1
  <2>4. made + k \in Nat
    BY <1>2
  <2>5. Stamp(k, same) \in Nat
    BY <1>2, <1>a
  <2>6. QED
    BY <1>2, <2>1, <2>3, <2>4, <2>5 DEF Event, Entry, NoEvent
<1>4. new \in Seq(Entry) /\ Len(new) = T
  <2>1. new \in [1 .. T -> Entry]
    BY <1>2, <1>3
  <2> HIDE DEF new
  <2>2. QED
    BY <1>2, <2>1
<1>b. \A k \in 1 .. T : new[k].stamp = Stamp(k, same)
  BY <1>2 DEF Event
<1>c. \A k \in 1 .. T :
         new[k] = Event(made + k, IF k \in Chain(types) THEN IdUpto(types, k - 1) ELSE NoEvent,
                        new[k].stamp, types[k], Named(types[k]))
  BY <1>2, <1>b
<1> HIDE DEF new
<1>5. /\ Len(file') = N + T
      /\ \A k \in 1 .. N : file'[k] = file[k]
      /\ \A k \in 1 .. T : file'[N + k] = new[k]
      /\ file' \in Seq(Entry)
  <2>1. /\ file \o new \in Seq(Entry) /\ Len(file \o new) = Len(file) + Len(new)
        /\ \A k \in 1 .. Len(file) : (file \o new)[k] = file[k]
        /\ \A k \in 1 .. Len(new) : (file \o new)[Len(file) + k] = new[k]
    <3>1. file \in Seq(Entry) /\ new \in Seq(Entry)
      BY <1>4
    <3>2. ASSUME NEW g \in Seq(Entry), NEW h \in Seq(Entry)
          PROVE /\ g \o h \in Seq(Entry) /\ Len(g \o h) = Len(g) + Len(h)
                /\ \A k \in 1 .. Len(g) : (g \o h)[k] = g[k]
                /\ \A k \in 1 .. Len(h) : (g \o h)[Len(g) + k] = h[k]
      BY Joined
    <3>3. QED
      BY <3>1, <3>2
  <2>2. file' = file \o new /\ Len(new) = Len(types)
    BY <1>1, <1>4
  <2>3. QED
    BY <2>1, <2>2, Zenon
<1>6. \A k \in N .. N + T : file'[k].stamp = file[N].stamp + (IF k = N THEN 0 ELSE ticks(k - N))
  <2> SUFFICES ASSUME NEW k \in N .. N + T
               PROVE  file'[k].stamp = file[N].stamp + (IF k = N THEN 0 ELSE ticks(k - N))
    OBVIOUS
  <2>1. CASE k = N
    BY <1>2, <1>5, <1>a, <2>1
  <2>2. CASE k # N
    <3>1. k - N \in 1 .. T /\ N + (k - N) = k
      BY <1>2, <2>2
    <3>2. file'[k] = new[k - N]
      BY <1>5, <3>1
    <3>3. QED
      BY <1>a, <1>b, <2>2, <3>1, <3>2
  <2>3. QED
    BY <2>1, <2>2
<1>7. ASSUME NEW j \in N .. N + T, NEW k \in N .. N + T, j <= k
      PROVE  file'[j].stamp <= file'[k].stamp
  <2>1. j - N \in 0 .. T /\ k - N \in 0 .. T /\ j - N <= k - N /\ 0 \in 0 .. T
    BY <1>2, <1>7
  <2>2. ticks(j - N) <= ticks(k - N) /\ ticks(j - N) \in Nat /\ ticks(k - N) \in Nat
    BY <1>a, <2>1
  <2>3. k = N => j = N
    BY <1>2, <1>7
  <2>4. QED
    BY <1>6, <1>a, <2>2, <2>3
<1>8. QED
  BY <1>1, <1>2, <1>5, <1>7, <1>c

-----------------------------------------------------------------------------
(***************************************************************************)
(* The file of a rollout: the inductive invariant.                         *)
(***************************************************************************)

Positions == 1 .. Len(file)

This(k) == file[k].deployment = "this"

\* The events of the workflow's chain: those with a parent, and the first.
Chained(k) == This(k) /\ (file[k].parent # NoEvent \/ \A j \in 1 .. k - 1 : ~This(j))

FileTyped == file \in Seq(Entry) /\ file # <<>> /\ made \in Nat /\ last \in Nat

IdsInOrder ==
    /\ \A k \in Positions : 1 <= file[k].id /\ file[k].id <= made
    /\ \A j, k \in Positions : j < k => file[j].id < file[k].id

ParentsBefore ==
    \A k \in Positions :
        \/ file[k].parent = NoEvent
        \/ \E j \in 1 .. k - 1 : /\ file[j].id = file[k].parent
                                 /\ file[j].deployment = file[k].deployment

\* The chain goes on from the event the workflow has the id of, which is not its
\* first.
LastKnown ==
    \/ last = NoEvent /\ \A k \in Positions : ~This(k)
    \/ \E k \in Positions : /\ file[k].id = last /\ This(k)
                            /\ file[k].parent # NoEvent

\* No event of the chain is older than last, and none is left behind by it: the
\* parent of a later event is no older, unless the event is written a second time.
Comb ==
    /\ \A x \in Positions : Chained(x) => file[x].id <= last
    /\ \A x, y \in Positions :
          x < y /\ Chained(x) /\ This(y) /\ file[y].parent # NoEvent =>
             file[y].parent >= file[x].id \/ file[y].parent = file[x].parent

\* An event with a parent hangs from the chain.
Unbroken ==
    \A k \in Positions :
        This(k) /\ file[k].parent # NoEvent =>
            \E j \in 1 .. k - 1 : file[j].id = file[k].parent /\ Chained(j)

\* Stamps do not decrease, and grow from one child of a parent to the next.
Stamped ==
    /\ \A j, k \in Positions : j < k => file[j].stamp <= file[k].stamp
    /\ \A j, k \in Positions :
          j < k /\ This(j) /\ This(k) /\ file[j].parent # NoEvent
                /\ file[j].parent = file[k].parent => file[j].stamp < file[k].stamp

Linked == /\ FileTyped /\ IdsInOrder /\ ParentsBefore /\ LastKnown /\ Comb /\ Unbroken
          /\ Stamped

\* Nothing is recorded before the rollout begins.
Fresh == /\ pc = "start" => trail = <<>>
         /\ last = NoEvent => pc = "start"

AuditInv == TypeInv /\ Linked /\ Fresh

\* The first step that records an event records two of the chain, the first of
\* which is the deployment's start.
FirstTwo(types) ==
    last = NoEvent => \/ types = <<>>
                      \/ /\ Len(types) = 2 /\ Chain(types) = {1, 2}
                         /\ types[1] = "deployment_start"

LEMMA EventFields ==
    \A id, parent, stamp, type, servers :
        LET e == Event(id, parent, stamp, type, servers)
        IN  /\ e.id = id /\ e.parent = parent /\ e.stamp = stamp
            /\ e.type = type /\ e.deployment = "this"
BY DEF Event

LEMMA LogKeeps ==
    ASSUME TypeOK, NEW types \in Seq(AuditType), Log(types), FirstTwo(types), Linked
    PROVE  /\ Linked' /\ (last' = NoEvent => last = NoEvent /\ types = <<>>)
           /\ \A x \in Positions' :
                 This(x)' /\ ~Chained(x)' =>
                    \/ x \in Positions /\ This(x) /\ ~Chained(x) /\ file'[x] = file[x]
                    \/ file'[x].type \in RootTypes
<1>0. PICK N \in Nat : N = Len(file)
  BY DEF Linked, FileTyped
<1> DEFINE T == Len(types)
           C == Chain(types)
           g == file'
<1>1. N \in Nat /\ T \in Nat /\ made \in Nat /\ last \in Nat
  BY DEF Linked, FileTyped
<1>2. C \in SUBSET (1 .. T) /\ \A k \in C : k \in Int /\ 1 <= k /\ k <= T
  BY <1>1 DEF Chain
<1>3. /\ Len(g) = N + T /\ made' = made + T
      /\ g \in Seq(Entry)
      /\ \A k \in 1 .. N : g[k] = file[k]
  BY <1>0, LogWrites DEF Linked, FileTyped
<1>4. \A k \in 1 .. T :
         g[N + k] = Event(made + k, IF k \in C THEN IdUpto(types, k - 1) ELSE NoEvent,
                          g[N + k].stamp, types[k], Named(types[k]))
  BY <1>0, LogWrites DEF Linked, FileTyped
<1>s. \A j, k \in N .. N + T : j <= k => g[j].stamp <= g[k].stamp
  BY <1>0, LogWrites DEF Linked, FileTyped
<1>5. last' = IdUpto(types, T)
  BY LogWrites DEF Linked, FileTyped
<1> HIDE DEF T, C, g
<1>6. ASSUME NEW k \in 1 .. T
      PROVE  /\ g[N + k].id = made + k /\ g[N + k].deployment = "this"
             /\ k \notin C => g[N + k].parent = NoEvent
             /\ k \in C => \/ g[N + k].parent = last /\ \A q \in C : q >= k
                           \/ \E q \in C : /\ q < k /\ g[N + k].parent = made + q
                                           /\ \A r \in C : r < k => r <= q
  <2>1. /\ g[N + k].id = made + k /\ g[N + k].deployment = "this"
        /\ g[N + k].parent = IF k \in C THEN IdUpto(types, k - 1) ELSE NoEvent
    BY <1>4, EventFields
  <2>2. k - 1 \in Int /\ \A q \in C : q <= k - 1 <=> q < k
    BY <1>1, <1>2
  <2>3. \/ IdUpto(types, k - 1) = last /\ \A q \in C : ~(q < k)
        \/ \E q \in C : /\ q < k /\ IdUpto(types, k - 1) = made + q
                        /\ \A r \in C : r < k => r <= q
    BY <2>2, IdOf DEF C
  <2>4. \A q \in C : ~(q < k) => q >= k
    BY <1>2
  <2>5. QED
    BY <2>1, <2>3, <2>4
<1>7. \/ last' = last /\ C = {}
      \/ \E q \in C : last' = made + q /\ \A r \in C : r <= q
  <2>1. \/ last' = last /\ \A q \in C : ~(q <= T)
        \/ \E q \in C : /\ q <= T /\ last' = made + q
                        /\ \A r \in C : r <= T => r <= q
    BY <1>1, <1>5, IdOf DEF C
  <2>2. QED
    BY <1>2, <2>1
<1>8. \A k \in 1 .. N + T : k \in 1 .. N \/ \E i \in 1 .. T : k = N + i
  <2> SUFFICES ASSUME NEW k \in 1 .. N + T, k \notin 1 .. N
               PROVE  \E i \in 1 .. T : k = N + i
    OBVIOUS
  <2>1. k - N \in 1 .. T /\ k = N + (k - N)
    BY <1>1
  <2>2. QED
    BY <2>1
<1>9. last = NoEvent => T = 0 \/ (T = 2 /\ C = {1, 2})
  BY DEF FirstTwo, T, C
\* An old event and its place in the chain stay as they are; a new one is in the
\* chain when it is recorded for it.
<1>10. ASSUME NEW k \in 1 .. N
       PROVE  /\ k \in Positions /\ k \in 1 .. N + T
              /\ This(k)' <=> This(k)
              /\ Chained(k)' <=> Chained(k)
  <2>1. k \in Positions /\ k \in 1 .. N + T /\ \A j \in 1 .. k - 1 : j \in 1 .. N
    BY <1>1, <1>0 DEF Positions
  <2>2. \A j \in 1 .. N : This(j)' <=> This(j)
    BY <1>3 DEF This, g
  <2>3. This(k)' <=> This(k)
    BY <2>2
  <2>4. (\A j \in 1 .. k - 1 : ~This(j)') <=> (\A j \in 1 .. k - 1 : ~This(j))
    BY <2>1, <2>2
  <2>5. file'[k].parent = file[k].parent
    BY <1>3 DEF g
  <2> DEFINE Alone == \A j \in 1 .. k - 1 : ~This(j)
             Alone2 == \A j \in 1 .. k - 1 : ~This(j)'
  <2>6. Chained(k) <=> This(k) /\ (file[k].parent # NoEvent \/ Alone)
    BY DEF Chained
  <2>7. Chained(k)' <=> This(k)' /\ (file'[k].parent # NoEvent \/ Alone2)
    BY DEF Chained, NoEvent
  <2>8. Alone2 <=> Alone
    BY <2>4
  <2> HIDE DEF Alone, Alone2
  <2>9. QED
    BY <2>1, <2>3, <2>5, <2>6, <2>7, <2>8
<1>11. ASSUME NEW k \in 1 .. T PROVE N + k \in 1 .. N + T /\ This(N + k)'
  <2>1. N + k \in 1 .. N + T
    BY <1>1
  <2>2. g[N + k].deployment = "this"
    BY <1>6
  <2>3. QED
    BY <2>1, <2>2 DEF This, g
<1>12. Positions' = 1 .. N + T
  BY <1>3 DEF Positions, g
<1>13. ASSUME NEW k \in 1 .. T, Chained(N + k)' PROVE k \in C
  <2> SUFFICES ASSUME k \notin C PROVE FALSE
    OBVIOUS
  <2>1. g[N + k].parent = NoEvent
    BY <1>6
  <2>2. \A j \in 1 .. N + k - 1 : ~This(j)'
    <3>1. file'[N + k].parent # NoEvent \/ \A j \in 1 .. N + k - 1 : ~This(j)'
      BY <1>13 DEF Chained, NoEvent
    <3>2. file'[N + k].parent = NoEvent
      BY <2>1 DEF g
    <3>3. QED
      BY <3>1, <3>2
  <2>3. \A j \in 1 .. N : j \in 1 .. N + k - 1
    BY <1>1
  <2>4. \A j \in 1 .. N : ~This(j)
    BY <1>10, <2>2, <2>3
  <2>5. last = NoEvent
    BY <2>4, <1>0 DEF Linked, LastKnown, Positions
  <2>6. T = 2 /\ C = {1, 2}
    BY <1>1, <1>9, <2>5
  <2>7. QED
    BY <2>6
<1>14. FileTyped'
  <2>1. last' \in Nat
    BY <1>1, <1>2, <1>7
  <2>2. made' \in Nat
    BY <1>1, <1>3
  <2>3. g # <<>>
    <3>1. N # 0
      BY <1>0 DEF Linked, FileTyped
    <3>2. Len(g) # 0
      BY <1>1, <1>3, <3>1
    <3>3. QED
      BY <3>2
  <2>4. QED
    BY <1>0, <1>1, <1>3, <2>1, <2>2, <2>3 DEF FileTyped, g
<1>15. IdsInOrder'
  <2>1. \A k \in 1 .. N : 1 <= file[k].id /\ file[k].id <= made /\ file[k].id \in Nat
    <3>1. \A k \in 1 .. N : file[k] \in Entry
      BY <1>0 DEF Linked, FileTyped
    <3>2. \A k \in 1 .. N : file[k].id \in Nat
      BY <3>1 DEF Entry
    <3>3. \A k \in 1 .. N : 1 <= file[k].id /\ file[k].id <= made
      BY <1>0 DEF Linked, IdsInOrder, Positions
    <3>4. QED
      BY <3>2, <3>3
  <2>2. \A k \in 1 .. N + T : 1 <= g[k].id /\ g[k].id <= made + T
    <3> TAKE k \in 1 .. N + T
    <3>1. CASE k \in 1 .. N
      BY <1>1, <1>3, <2>1, <3>1
    <3>2. ASSUME NEW i \in 1 .. T, k = N + i PROVE 1 <= g[k].id /\ g[k].id <= made + T
      <4>1. g[k].id = made + i
        BY <1>6, <3>2
      <4>2. QED
        BY <1>1, <4>1
    <3>3. QED
      BY <1>8, <3>1, <3>2
  <2>3. ASSUME NEW j \in 1 .. N + T, NEW k \in 1 .. N + T, j < k PROVE g[j].id < g[k].id
    <3>1. CASE k \in 1 .. N
      <4>1. j \in 1 .. N /\ file[j].id < file[k].id
        BY <1>1, <2>3, <3>1, <1>0 DEF Linked, IdsInOrder, Positions
      <4>2. QED
        BY <1>3, <3>1, <4>1
    <3>2. ASSUME NEW i \in 1 .. T, k = N + i PROVE g[j].id < g[k].id
      <4>1. g[k].id = made + i
        BY <1>6, <3>2
      <4>2. CASE j \in 1 .. N
        <5>1. g[j].id \in Nat /\ g[j].id <= made
          BY <1>3, <2>1, <4>2
        <5>2. QED
          BY <1>1, <4>1, <5>1
      <4>3. ASSUME NEW h \in 1 .. T, j = N + h PROVE g[j].id < g[k].id
        <5>1. g[j].id = made + h
          BY <1>6, <4>3
        <5>2. QED
          BY <1>1, <2>3, <3>2, <4>1, <4>3, <5>1
      <4>4. QED
        BY <1>8, <4>2, <4>3
    <3>3. QED
      BY <1>8, <3>1, <3>2
  <2>4. QED
    BY <1>3, <1>12, <2>2, <2>3 DEF IdsInOrder, g
<1>16. ParentsBefore'
  <2> SUFFICES ASSUME NEW k \in 1 .. N + T
               PROVE  \/ g[k].parent = NoEvent
                      \/ \E j \in 1 .. k - 1 : /\ g[j].id = g[k].parent
                                               /\ g[j].deployment = g[k].deployment
    BY <1>12 DEF ParentsBefore, g
  <2>1. CASE k \in 1 .. N
    <3>1. \A j \in 1 .. k - 1 : j \in 1 .. N
      BY <1>1, <2>1
    <3>2. \/ file[k].parent = NoEvent
          \/ \E j \in 1 .. k - 1 : /\ file[j].id = file[k].parent
                                   /\ file[j].deployment = file[k].deployment
      BY <2>1, <1>0 DEF Linked, ParentsBefore, Positions
    <3>3. QED
      BY <1>3, <2>1, <3>1, <3>2
  <2>2. ASSUME NEW i \in 1 .. T, k = N + i
        PROVE  \/ g[k].parent = NoEvent
               \/ \E j \in 1 .. k - 1 : /\ g[j].id = g[k].parent
                                        /\ g[j].deployment = g[k].deployment
    <3>1. \/ g[k].parent = NoEvent
          \/ g[k].parent = last
          \/ \E q \in C : q < i /\ g[k].parent = made + q
      BY <1>6, <2>2
    <3>2. g[k].deployment = "this"
      BY <1>6, <2>2
    <3>3. CASE g[k].parent = last /\ last # NoEvent
      <4>1. PICK j \in 1 .. N : file[j].id = last /\ This(j)
        BY <3>3, <1>0 DEF Linked, LastKnown, Positions
      <4>2. j \in 1 .. k - 1
        BY <1>1, <2>2
      <4>3. g[j].id = last /\ g[j].deployment = "this"
        BY <1>3, <4>1 DEF This
      <4>4. QED
        BY <3>2, <3>3, <4>2, <4>3
    <3>4. ASSUME NEW q \in C, q < i, g[k].parent = made + q
          PROVE  \E j \in 1 .. k - 1 : /\ g[j].id = g[k].parent
                                       /\ g[j].deployment = g[k].deployment
      <4>1. q \in 1 .. T
        BY <1>2
      <4>2. g[N + q].id = made + q /\ g[N + q].deployment = "this"
        BY <1>6, <4>1
      <4>3. N + q \in 1 .. k - 1
        BY <1>1, <2>2, <3>4, <4>1
      <4>4. QED
        BY <3>2, <3>4, <4>2, <4>3
    <3>5. QED
      BY <3>1, <3>3, <3>4
  <2>3. QED
    BY <1>8, <2>1, <2>2
<1>17. (last' = NoEvent => last = NoEvent /\ types = <<>>)
  <2> SUFFICES ASSUME last' = NoEvent PROVE last = NoEvent /\ types = <<>>
    OBVIOUS
  <2>1. \A q \in C : made + q # NoEvent
    BY <1>1, <1>2 DEF NoEvent
  <2>2. C = {} /\ last = NoEvent
    BY <1>7, <2>1
  <2>3. T = 0
    BY <1>9, <2>2
  <2>4. QED
    BY <2>2, <2>3 DEF T
<1>18. LastKnown'
  <2>1. CASE C = {} /\ last # NoEvent
    <3>1. PICK k \in 1 .. N : /\ file[k].id = last /\ This(k)
                             /\ file[k].parent # NoEvent
      BY <2>1, <1>0 DEF Linked, LastKnown, Positions
    <3>2. last' = last
      BY <1>7, <2>1
    <3>3. k \in Positions' /\ This(k)' /\ file'[k].id = last' /\ file'[k].parent # NoEvent
      BY <1>3, <1>10, <1>12, <3>1, <3>2 DEF g
    <3>4. QED
      BY <3>3 DEF LastKnown, NoEvent
  <2>2. CASE C = {} /\ last = NoEvent
    <3>1. T = 0 /\ last' = last
      BY <1>7, <1>9, <2>2
    <3>2. \A k \in 1 .. N : ~This(k)
      <4>1. \A k \in 1 .. N : file[k].id # NoEvent
        BY <1>1, <1>0 DEF Linked, IdsInOrder, Positions, NoEvent
      <4>2. QED
        BY <2>2, <4>1, <1>0 DEF Linked, LastKnown, Positions
    <3>3. \A k \in 1 .. N + T : k \in 1 .. N
      BY <1>1, <3>1
    <3>4. \A k \in Positions' : ~This(k)'
      BY <1>10, <1>12, <3>2, <3>3
    <3>5. last' = NoEvent
      BY <2>2, <3>1
    <3>6. QED
      BY <3>4, <3>5 DEF LastKnown, NoEvent
  <2>3. ASSUME NEW q \in C, last' = made + q, \A r \in C : r <= q
        PROVE  LastKnown'
    <3>1. q \in 1 .. T
      BY <1>2
    <3>2. N + q \in Positions' /\ This(N + q)' /\ g[N + q].id = last'
      BY <1>6, <1>11, <1>12, <2>3, <3>1
    <3>3. g[N + q].parent # NoEvent
      <4>1. \/ g[N + q].parent = last /\ \A r \in C : r >= q
            \/ \E r \in C : g[N + q].parent = made + r
        BY <1>6, <3>1
      <4>2. \A r \in C : made + r # NoEvent
        BY <1>1, <1>2 DEF NoEvent
      <4>3. CASE last = NoEvent
        <5>1. C = {1, 2}
          BY <1>2, <1>9, <4>3, <3>1
        <5>2. q = 2 /\ ~(1 >= q)
          BY <1>2, <2>3, <5>1
        <5>3. QED
          BY <4>1, <4>2, <5>1, <5>2
      <4>4. QED
        BY <4>1, <4>2, <4>3
    <3>4. file'[N + q].id = last' /\ file'[N + q].parent # NoEvent
      BY <3>2, <3>3 DEF g
    <3>5. QED
      BY <3>2, <3>4 DEF LastKnown, NoEvent
  <2>4. QED
    BY <1>7, <2>1, <2>2, <2>3
<1>19. last <= made /\ last <= last' /\ last' \in Nat
  <2>1. \A k \in 1 .. N : file[k].id <= made
    BY <1>0 DEF Linked, IdsInOrder, Positions
  <2>2. last = NoEvent \/ \E k \in 1 .. N : file[k].id = last
    BY <1>0 DEF Linked, LastKnown, Positions
  <2>3. last <= made
    BY <1>1, <2>1, <2>2 DEF NoEvent
  <2>4. QED
    BY <1>1, <1>2, <1>7, <2>3
<1>20. \A k \in 1 .. N : file[k].id \in Nat
  <2>1. \A k \in 1 .. N : file[k] \in Entry
    BY <1>0 DEF Linked, FileTyped
  <2>2. QED
    BY <2>1 DEF Entry
<1>21. ASSUME NEW x \in 1 .. N + T, Chained(x)' PROVE g[x].id <= last'
  <2>1. CASE x \in 1 .. N
    <3>1. g[x].id = file[x].id /\ file[x].id <= last
      BY <1>3, <1>10, <1>21, <2>1 DEF Linked, Comb
    <3>2. QED
      BY <1>1, <1>19, <1>20, <2>1, <3>1
  <2>2. ASSUME NEW k \in 1 .. T, x = N + k PROVE g[x].id <= last'
    <3>1. k \in C /\ g[x].id = made + k
      BY <1>6, <1>13, <1>21, <2>2
    <3>2. PICK q \in C : last' = made + q /\ \A r \in C : r <= q
      BY <1>7, <3>1
    <3>3. k <= q
      BY <3>1, <3>2
    <3>4. QED
      BY <1>1, <1>2, <3>1, <3>2, <3>3
  <2>3. QED
    BY <1>8, <2>1, <2>2
<1>y. ASSUME NEW x \in 1 .. N + T, NEW y \in 1 .. N + T, x < y,
             Chained(x)', This(y)', g[y].parent # NoEvent,
             NEW i \in 1 .. T, y = N + i
      PROVE  g[y].parent >= g[x].id
  <2>1. \/ g[y].parent = last /\ \A q \in C : q >= i
        \/ \E q \in C : g[y].parent = made + q /\ \A r \in C : r < i => r <= q
    BY <1>6, <1>y
  <2>2. CASE x \in 1 .. N
    <3>1. g[x].id = file[x].id /\ file[x].id <= last
      BY <1>3, <1>10, <1>y, <2>2 DEF Linked, Comb
    <3>2. g[x].id <= last /\ g[x].id \in Nat
      BY <1>20, <2>2, <3>1
    <3>3. \A q \in C : g[x].id <= made + q
      <4>1. PICK n \in Nat : n = g[x].id
        BY <3>2
      <4>2. n <= last /\ last <= made
        BY <1>19, <3>2, <4>1
      <4>3. \A q \in C : q \in Int /\ 1 <= q
        BY <1>2
      <4>4. \A q \in C : n <= made + q
        BY <1>1, <4>2, <4>3
      <4>5. QED
        BY <4>1, <4>4
    <3>4. QED
      BY <1>1, <1>2, <2>1, <3>2, <3>3
  <2>3. ASSUME NEW j \in 1 .. T, x = N + j PROVE g[y].parent >= g[x].id
    <3>1. j \in C /\ g[x].id = made + j
      BY <1>6, <1>13, <1>y, <2>3
    <3>2. j < i
      BY <1>1, <1>y, <2>3
    <3>3. ~(\A q \in C : q >= i)
      BY <1>2, <3>1, <3>2
    <3>4. PICK q \in C : g[y].parent = made + q /\ \A r \in C : r < i => r <= q
      BY <2>1, <3>3
    <3>5. j <= q
      BY <3>1, <3>2, <3>4
    <3>6. QED
      BY <1>1, <1>2, <3>1, <3>4, <3>5
  <2>4. QED
    BY <1>8, <2>2, <2>3
<1>22. ASSUME NEW x \in 1 .. N + T, NEW y \in 1 .. N + T, x < y,
              Chained(x)', This(y)', g[y].parent # NoEvent
       PROVE  g[y].parent >= g[x].id \/ g[y].parent = g[x].parent
  <2>1. CASE y \in 1 .. N
    <3>1. x \in 1 .. N
      BY <1>1, <1>22, <2>1
    <3>2. Chained(x) /\ This(y) /\ x \in Positions /\ y \in Positions
      BY <1>10, <1>22, <2>1, <3>1
    <3>3. file[y] = g[y] /\ file[x] = g[x]
      BY <1>3, <2>1, <3>1
    <3>4. file[y].parent >= file[x].id \/ file[y].parent = file[x].parent
      BY <1>22, <3>2, <3>3 DEF Linked, Comb
    <3>5. QED
      BY <3>3, <3>4
  <2>2. ASSUME NEW i \in 1 .. T, y = N + i PROVE g[y].parent >= g[x].id
    BY <1>22, <1>y, <2>2
  <2>3. QED
    BY <1>8, <2>1, <2>2
\* A new event is no sibling of one before it: its parent is newer than that one's.
<1>z. Stamped'
  <2>1. ASSUME NEW x \in 1 .. N + T, NEW y \in 1 .. N + T, x < y
        PROVE  g[x].stamp <= g[y].stamp
    <3>1. \A k \in 1 .. N : file[k] \in Entry
      BY <1>0 DEF Linked, FileTyped
    <3>2. N \in 1 .. N /\ \A k \in 1 .. N : file[k].stamp \in Nat
      <4>1. N # 0
        BY <1>0 DEF Linked, FileTyped
      <4>2. QED
        BY <1>1, <3>1, <4>1 DEF Entry
    <3>3. \A j, k \in 1 .. N : j < k => file[j].stamp <= file[k].stamp
      BY <1>0 DEF Linked, Stamped, Positions
    <3>4. \A k \in 1 .. N : g[k].stamp <= g[N].stamp /\ g[k].stamp \in Nat
      <4> TAKE k \in 1 .. N
      <4>1. k < N \/ k = N
        BY <1>1
      <4>2. file[k].stamp <= file[N].stamp
        BY <3>2, <3>3, <4>1
      <4>3. QED
        BY <1>3, <3>2, <4>2
    <3>5. CASE y \in 1 .. N
      <4>1. x \in 1 .. N
        BY <1>1, <2>1, <3>5
      <4>2. QED
        BY <1>3, <2>1, <3>3, <3>5, <4>1
    <3>6. CASE y \notin 1 .. N
      <4>1. y \in N .. N + T /\ N \in N .. N + T /\ N <= y
        BY <1>1, <3>6
      <4>2. CASE x \in N .. N + T
        BY <1>s, <2>1, <4>1, <4>2
      <4>3. CASE x \notin N .. N + T
        <5>1. x \in 1 .. N
          BY <1>1, <4>3
        <5>2. g[x].stamp <= g[N].stamp /\ g[x].stamp \in Nat /\ g[N].stamp \in Nat
          BY <3>2, <3>4, <5>1
        <5>3. g[N].stamp <= g[y].stamp /\ g[y].stamp \in Nat
          <6>1. g[y] \in Entry
            BY <1>3, <2>1
          <6>2. QED
            BY <1>s, <4>1, <6>1 DEF Entry
        <5>4. QED
          BY <5>2, <5>3
      <4>4. QED
        BY <4>2, <4>3
    <3>7. QED
      BY <3>5, <3>6
  <2>2. ASSUME NEW x \in 1 .. N + T, NEW y \in 1 .. N + T, x < y,
               This(x)', This(y)', g[x].parent # NoEvent, g[x].parent = g[y].parent
        PROVE  g[x].stamp < g[y].stamp
    <3>1. CASE y \in 1 .. N
      <4>1. x \in 1 .. N
        BY <1>1, <2>2, <3>1
      <4>2. /\ This(x) /\ This(y) /\ x \in Positions /\ y \in Positions
            /\ file[x] = g[x] /\ file[y] = g[y]
        BY <1>3, <1>10, <2>2, <3>1, <4>1
      <4>3. QED
        BY <2>2, <4>2 DEF Linked, Stamped
    <3>2. ASSUME NEW i \in 1 .. T, y = N + i PROVE FALSE
      <4>1. Chained(x)' /\ g[y].parent # NoEvent
        BY <2>2 DEF Chained, NoEvent, g
      <4>2. g[y].parent >= g[x].id
        BY <1>y, <2>2, <3>2, <4>1
      <4>3. PICK j \in 1 .. x - 1 : g[j].id = g[x].parent
        BY <1>12, <1>16, <2>2 DEF ParentsBefore, NoEvent, g
      <4>4. j \in 1 .. N + T /\ j < x
        BY <1>1
      <4>5. g[j].id < g[x].id
        BY <1>12, <1>15, <4>4 DEF IdsInOrder, g
      <4>6. g[j] \in Entry /\ g[x] \in Entry
        BY <1>3, <4>4
      <4>7. g[j].id \in Nat /\ g[x].id \in Nat
        BY <4>6 DEF Entry
      <4>8. QED
        BY <2>2, <4>2, <4>3, <4>5, <4>7
    <3>3. QED
      BY <1>8, <3>1, <3>2
  <2>3. QED
    BY <1>12, <2>1, <2>2 DEF Stamped, NoEvent, g
<1>23. Comb'
  BY <1>12, <1>21, <1>22 DEF Comb, NoEvent, g
<1>24. ASSUME NEW k \in C PROVE k \in 1 .. T /\ Chained(N + k)'
  <2>1. k \in 1 .. T /\ N + k \in 1 .. N + T
    BY <1>1, <1>2
  <2>2. This(N + k)'
    BY <1>11, <2>1
  <2>3. g[N + k].parent # NoEvent \/ \A j \in 1 .. N + k - 1 : ~This(j)'
    <3> SUFFICES ASSUME g[N + k].parent = NoEvent
                 PROVE  \A j \in 1 .. N + k - 1 : ~This(j)'
      OBVIOUS
    <3>1. \A q \in C : made + q # NoEvent
      BY <1>1, <1>2 DEF NoEvent
    <3>2. last = NoEvent /\ \A q \in C : q >= k
      BY <1>6, <2>1, <3>1
    <3>3. C = {1, 2}
      BY <1>9, <2>1, <3>2
    <3>4. k = 1
      BY <1>2, <3>2, <3>3
    <3>5. \A j \in 1 .. N : ~This(j)
      <4>1. \A j \in 1 .. N : file[j].id # NoEvent
        BY <1>0 DEF Linked, IdsInOrder, Positions, NoEvent
      <4>2. QED
        BY <1>0, <3>2, <4>1 DEF Linked, LastKnown, Positions
    <3>6. \A j \in 1 .. N + k - 1 : j \in 1 .. N
      BY <3>4
    <3>7. QED
      BY <1>10, <3>5, <3>6
  <2>4. QED
    BY <2>1, <2>2, <2>3 DEF Chained, NoEvent, g
<1>25. Unbroken'
  <2> SUFFICES ASSUME NEW k \in 1 .. N + T, This(k)', g[k].parent # NoEvent
               PROVE  \E j \in 1 .. k - 1 : g[j].id = g[k].parent /\ Chained(j)'
    BY <1>12 DEF Unbroken, g, NoEvent
  <2>1. CASE k \in 1 .. N
    <3>1. \A j \in 1 .. k - 1 : j \in 1 .. N
      BY <2>1
    <3>2. k \in Positions /\ This(k) /\ file[k].parent # NoEvent
      BY <1>3, <1>10, <2>1
    <3>3. PICK j \in 1 .. k - 1 : file[j].id = file[k].parent /\ Chained(j)
      BY <3>2 DEF Linked, Unbroken
    <3>4. QED
      BY <1>3, <1>10, <2>1, <3>1, <3>3
  <2>2. ASSUME NEW i \in 1 .. T, k = N + i
        PROVE  \E j \in 1 .. k - 1 : g[j].id = g[k].parent /\ Chained(j)'
    <3>1. \/ g[k].parent = last /\ last # NoEvent
          \/ \E q \in C : q < i /\ g[k].parent = made + q
      BY <1>6, <2>2
    <3>2. CASE g[k].parent = last /\ last # NoEvent
      <4>1. PICK j \in 1 .. N : file[j].id = last /\ This(j) /\ file[j].parent # NoEvent
        BY <1>0, <3>2 DEF Linked, LastKnown, Positions
      <4>2. Chained(j)
        BY <4>1 DEF Chained
      <4>3. j \in 1 .. k - 1
        BY <1>1, <2>2
      <4>4. g[j].id = g[k].parent /\ Chained(j)'
        BY <1>3, <1>10, <3>2, <4>1, <4>2
      <4>5. QED
        BY <4>3, <4>4
    <3>3. ASSUME NEW q \in C, q < i, g[k].parent = made + q
          PROVE  \E j \in 1 .. k - 1 : g[j].id = g[k].parent /\ Chained(j)'
      <4>1. q \in 1 .. T /\ Chained(N + q)'
        BY <1>24
      <4>2. g[N + q].id = g[k].parent
        BY <1>6, <3>3, <4>1
      <4>3. N + q \in 1 .. k - 1
        BY <1>1, <2>2, <3>3, <4>1
      <4>4. QED
        BY <4>1, <4>2, <4>3
    <3>4. QED
      BY <3>1, <3>2, <3>3
  <2>3. QED
    BY <1>8, <2>1, <2>2
<1>26. ASSUME NEW x \in 1 .. N + T, This(x)', ~Chained(x)'
       PROVE  \/ x \in Positions /\ This(x) /\ ~Chained(x) /\ file'[x] = file[x]
              \/ file'[x].type \in RootTypes
  <2>1. CASE x \in 1 .. N
    BY <1>3, <1>10, <1>26, <2>1 DEF g
  <2>2. ASSUME NEW k \in 1 .. T, x = N + k PROVE file'[x].type \in RootTypes
    <3>1. k \notin C
      BY <1>24, <1>26, <2>2
    <3>2. types[k] \in RootTypes
      BY <3>1 DEF C, T, Chain
    <3>3. g[N + k].type = types[k]
      BY <1>4, EventFields
    <3>4. QED
      BY <2>2, <3>2, <3>3 DEF g
  <2>3. QED
    BY <1>8, <2>1, <2>2
<1>27. \A x \in Positions' :
          This(x)' /\ ~Chained(x)' =>
             \/ x \in Positions /\ This(x) /\ ~Chained(x) /\ file'[x] = file[x]
             \/ file'[x].type \in RootTypes
  BY <1>12, <1>26
<1>28. QED
  BY <1>14, <1>15, <1>16, <1>17, <1>18, <1>z, <1>23, <1>25, <1>27 DEF Linked

\* Until it begins, a rollout records nothing.
LEMMA StartStep ==
    ASSUME Next
    PROVE  /\ pc' = "start" => pc = "start"
           /\ pc = "start" => Begin \/ (pc' = "start" /\ trail' = trail)
<1> DEFINE Goal == /\ pc' = "start" => pc = "start"
                   /\ pc = "start" => Begin \/ (pc' = "start" /\ trail' = trail)
<1>1. CASE Begin
  BY <1>1 DEF Begin
<1>2. CASE Checkpoint
  <2>1. pc # "start" /\ pc' # "start"
    BY <1>2 DEF Checkpoint, EvaluateStart, EvaluateStageStart, EvaluateStageComplete,
                EvaluateRollback, Block, EnterStage, Raise
  <2>2. QED
    BY <2>1
<1>3. CASE ExecuteStage
  <2>1. pc # "start" /\ pc' # "start"
    BY <1>3 DEF ExecuteStage, ComputeQuota, StageRaises, SelectServers, CheckAbort,
                UpdateServer
  <2>2. QED
    BY <2>1
<1>4. CASE StageResult \/ LoseStageResult \/ StageRecorded \/ RetryHealthCheck
              \/ HealthPassed \/ AutoQuarantine \/ \E ok \in BOOLEAN : HealthCheck(ok)
  <2>1. pc # "start" /\ pc' # "start"
    BY <1>4 DEF StageResult, LoseStageResult, StageRecorded, RetryHealthCheck,
                HealthPassed, AutoQuarantine, HealthCheck, Raise
  <2>2. QED
    BY <2>1
<1>5. CASE StageDone \/ AbortWait \/ WaitTimeout \/ MarkServersHealthy \/ HandleAbort
              \/ HandleRecoverable \/ HandleUnrecoverable
  <2>1. pc # "start" /\ pc' # "start"
    BY <1>5 DEF StageDone, AbortWait, WaitTimeout, MarkServersHealthy, HandleAbort,
                HandleRecoverable, HandleUnrecoverable, EnterStage, Raise
  <2>2. QED
    BY <2>1
<1>6. CASE RollbackUpdatedServers \/ RepeatRollback \/ FinishRollback \/ Return
  <2>1. pc # "start" /\ pc' # "start"
    BY <1>6 DEF RollbackUpdatedServers, RepeatRollback, FinishRollback, Return
  <2>2. QED
    BY <2>1
<1>7. CASE Environment \/ Terminated
  <2>1. pc' = pc /\ trail' = trail
    BY <1>7 DEF Environment, SetAbortEvent, AbortSignal, InjectFailure,
                QuarantineRegion, Terminated, vars
  <2>2. QED
    BY <2>1
<1>8. QED
  BY <1>1, <1>2, <1>3, <1>4, <1>5, <1>6, <1>7 DEF Next, Workflow

LEMMA TypesRecorded ==
    ASSUME TypeOK, TypeOK'
    PROVE  NewTypes \in Seq(AuditType)
<1>1. trail \in Seq(EventType) /\ trail' \in Seq(EventType)
  BY DEF TypeOK
<1>2. \A k \in 1 .. Len(trail') : trail'[k] \in AuditType
  BY <1>1 DEF AuditType
<1>3. trail' \in Seq(AuditType)
  BY <1>1, <1>2
<1>4. SubSeq(trail', Len(trail) + 1, Len(trail')) \in Seq(AuditType)
  <2> DEFINE m == Len(trail)
  <2>1. m \in Nat
    BY <1>1
  <2> HIDE DEF m
  <2>2. ASSUME NEW t \in Seq(AuditType)
        PROVE  SubSeq(t, m + 1, Len(t)) \in Seq(AuditType)
    BY <2>1
  <2>3. QED
    BY <1>3, <2>2 DEF m
<1>5. OwnEvents \in Seq(AuditType)
  <2>1. "governance_decision" \in AuditType
    BY DEF AuditType
  <2>2. \A a \in AuditType : <<a>> \in Seq(AuditType)
    OBVIOUS
  <2>3. <<>> \in Seq(AuditType)
    OBVIOUS
  <2>4. QED
    BY <2>1, <2>2, <2>3 DEF OwnEvents
<1>6. QED
  BY <1>4, <1>5, Joined DEF NewTypes

\* The first step that records anything records the start and the snapshot.
LEMMA TypesAtStart ==
    ASSUME TypeOK, Fresh, Next
    PROVE  /\ FirstTwo(NewTypes)
           /\ pc' = "start" => trail' = <<>>
           /\ last = NoEvent /\ NewTypes = <<>> => pc' = "start"
<1>1. CASE pc # "start"
  BY <1>1, StartStep DEF Fresh, FirstTwo
<1>2. CASE pc = "start" /\ pc' = "start" /\ trail' = trail
  <2>1. trail = <<>> /\ OwnEvents = <<>>
    BY <1>2 DEF Fresh, OwnEvents
  <2>2. SubSeq(<<>>, Len(<<>>) + 1, Len(<<>>)) = <<>>
    OBVIOUS
  <2>3. NewTypes = <<>> \o <<>>
    BY <1>2, <2>1, <2>2 DEF NewTypes
  <2>4. NewTypes = <<>>
    BY <2>3
  <2>5. QED
    BY <1>2, <2>1, <2>4 DEF FirstTwo
<1>3. CASE Begin
  <2> DEFINE two == <<"deployment_start", "snapshot_create">>
  <2>1. trail = <<>> /\ trail' = trail \o two /\ pc = "start" /\ pc' = "gate_start"
    BY <1>3 DEF Begin, Record, Fresh
  <2>2. OwnEvents = <<>>
    BY <2>1 DEF OwnEvents, Gates
  <2>3. <<>> \o two = two /\ SubSeq(two, Len(<<>>) + 1, Len(two)) = two
    <3>1. two \in Seq(EventType)
      BY Literals DEF EventType
    <3>2. Len(<<>>) = 0 /\ Len(<<>>) + 1 = 1
      OBVIOUS
    <3>3. ASSUME NEW t \in Seq(EventType)
          PROVE  <<>> \o t = t /\ SubSeq(t, 1, Len(t)) = t
      <4> DEFINE u == SubSeq(t, 1, Len(t))
      <4>1. u \in Seq(EventType) /\ Len(u) = Len(t) /\ \A i \in 1 .. Len(t) : u[i] = t[i]
        OBVIOUS
      <4> HIDE DEF u
      <4>2. u = t
        BY <4>1
      <4>3. <<>> \o t = t
        OBVIOUS
      <4>4. QED
        BY <4>2, <4>3 DEF u
    <3> HIDE DEF two
    <3>4. QED
      BY <3>1, <3>3, <3>2
  <2>4. NewTypes = two
    BY <2>1, <2>2, <2>3 DEF NewTypes
  <2>5. Len(two) = 2 /\ two # <<>> /\ DOMAIN two = {1, 2} /\ two[1] = "deployment_start"
    OBVIOUS
  <2>6. Chain(two) = {1, 2}
    BY <2>5 DEF Chain, RootTypes
  <2>7. QED
    BY <2>1, <2>4, <2>5, <2>6 DEF FirstTwo
<1>4. QED
  BY <1>1, <1>2, <1>3, StartStep

LEMMA RolloutStepKeeps ==
    ASSUME AuditInv, RolloutStep
    PROVE  AuditInv'
<1>1. TypeInv /\ Linked /\ Fresh /\ Next /\ Log(NewTypes)
  BY DEF AuditInv, RolloutStep
<1>2. TypeInv'
  BY <1>1, TypeStep DEF TypeInv
<1>3. NewTypes \in Seq(AuditType)
  BY <1>1, <1>2, TypesRecorded DEF TypeInv
<1>4. TypeOK /\ FirstTwo(NewTypes)
  BY <1>1, TypesAtStart DEF TypeInv
<1>5. Linked' /\ (last' = NoEvent => last = NoEvent /\ NewTypes = <<>>)
  <2>1. PICK types \in Seq(AuditType) : types = NewTypes
    BY <1>3
  <2>2. QED
    BY <1>1, <1>4, <2>1, LogKeeps
<1>6. Fresh'
  BY <1>1, <1>4, <1>5, TypesAtStart DEF Fresh, NoEvent
<1>7. QED
  BY <1>2, <1>5, <1>6 DEF AuditInv

LEMMA FailedWriteKeeps ==
    ASSUME AuditInv, FailedWrite
    PROVE  AuditInv'
<1>1. UNCHANGED <<vars, file, last>> /\ made' = made + 1
  BY DEF FailedWrite
<1>2. TypeInv' /\ Fresh'
  BY <1>1 DEF AuditInv, TypeInv, TypeOK, StageInRange, Fresh, vars, dataVars, outsideVars,
              stageVars, clusterVars, envVars, histVars, NoEvent
<1>3. Linked /\ FileTyped
  BY DEF AuditInv, Linked
<1>4. FileTyped'
  BY <1>1, <1>3 DEF FileTyped
<1>5. IdsInOrder'
  <2>1. \A k \in Positions : file[k] \in Entry
    BY <1>3 DEF FileTyped, Positions
  <2>2. \A k \in Positions : file[k].id \in Nat
    BY <2>1 DEF Entry
  <2>3. made \in Nat
    BY <1>3 DEF FileTyped
  <2>4. \A k \in Positions : 1 <= file[k].id /\ file[k].id <= made + 1
    BY <1>3, <2>2, <2>3 DEF Linked, IdsInOrder
  <2>5. QED
    BY <1>1, <1>3, <2>4 DEF Linked, IdsInOrder, Positions
<1>6. ParentsBefore' /\ LastKnown' /\ Comb' /\ Unbroken' /\ Stamped'
  BY <1>1, <1>3 DEF Linked, ParentsBefore, LastKnown, Comb, Unbroken, Stamped, Positions,
                    Chained, This, NoEvent
<1>7. QED
  BY <1>2, <1>4, <1>5, <1>6 DEF AuditInv, Linked

\* Events that are added without a parent, or one with the parent of an earlier event.
LEMMA Added ==
    ASSUME FileTyped, IdsInOrder, ParentsBefore, Unbroken, Stamped, last' \in Nat,
           NEW N \in Nat, N = Len(file),
           NEW new \in Seq(Entry), file' = file \o new, made' = made + Len(new),
           \A k \in 1 .. Len(new) : /\ new[k].id = made + k
                                    /\ file[N].stamp < new[k].stamp,
           \A j, k \in 1 .. Len(new) : j < k => new[j].stamp <= new[k].stamp,
           \A k \in 1 .. Len(new) :
              \/ new[k].parent = NoEvent
              \/ /\ Len(new) = 1 /\ new[k].deployment = "this"
                 /\ \E j \in 1 .. N : This(j) /\ file[j].parent = new[k].parent,
           NEW first \in 1 .. N, This(first)
    PROVE  /\ FileTyped' /\ IdsInOrder' /\ ParentsBefore' /\ Unbroken' /\ Stamped'
           /\ Positions = 1 .. N /\ Positions' = 1 .. N + Len(new)
           /\ \A k \in 1 .. N : /\ file'[k] = file[k]
                                /\ This(k)' <=> This(k)
                                /\ Chained(k)' <=> Chained(k)
           /\ \A k \in 1 .. Len(new) : file'[N + k] = new[k]
           /\ \A k \in 1 .. N + Len(new) :
                 Chained(k)' => k \in 1 .. N \/ file'[k].parent # NoEvent
<1> DEFINE T == Len(new)
           g == file'
<1>1. T \in Nat /\ made \in Nat
  BY DEF FileTyped
<1>2. /\ Len(g) = N + T /\ g \in Seq(Entry)
      /\ \A k \in 1 .. N : g[k] = file[k]
      /\ \A k \in 1 .. T : g[N + k] = new[k]
  <2>1. file \in Seq(Entry)
    BY DEF FileTyped
  <2>2. QED
    BY <2>1, Joined
<1>3. made' = made + T
  OBVIOUS
<1>4. /\ \A k \in 1 .. T :
            /\ new[k].id = made + k /\ file[N].stamp < new[k].stamp
            /\ \/ new[k].parent = NoEvent
               \/ /\ T = 1 /\ new[k].deployment = "this"
                  /\ \E j \in 1 .. N : This(j) /\ file[j].parent = new[k].parent
      /\ \A j, k \in 1 .. T : j < k => new[j].stamp <= new[k].stamp
  OBVIOUS
<1>5. Positions = 1 .. N /\ Positions' = 1 .. N + T
  BY <1>2 DEF Positions
<1> HIDE DEF T, g
<1>6. \A k \in 1 .. N + T : k \in 1 .. N \/ \E i \in 1 .. T : k = N + i
  <2> SUFFICES ASSUME NEW k \in 1 .. N + T, k \notin 1 .. N
               PROVE  \E i \in 1 .. T : k = N + i
    OBVIOUS
  <2>1. k - N \in 1 .. T /\ k = N + (k - N)
    BY <1>1
  <2>2. QED
    BY <2>1
<1>7. FileTyped'
  <2>1. Len(g) # 0
    BY <1>1, <1>2
  <2>2. g # <<>>
    BY <2>1
  <2>3. QED
    BY <1>1, <1>2, <1>3, <2>2 DEF FileTyped, g
<1>8. \A k \in 1 .. N : 1 <= file[k].id /\ file[k].id <= made /\ file[k].id \in Nat
  <2>1. \A k \in 1 .. N : file[k] \in Entry
    BY DEF FileTyped
  <2>2. \A k \in 1 .. N : file[k].id \in Nat
    BY <2>1 DEF Entry
  <2>3. \A k \in 1 .. N : 1 <= file[k].id /\ file[k].id <= made
    BY <1>5 DEF IdsInOrder
  <2>4. QED
    BY <2>2, <2>3
<1>9. IdsInOrder'
  <2>1. \A k \in 1 .. N + T : 1 <= g[k].id /\ g[k].id <= made + T
    <3> TAKE k \in 1 .. N + T
    <3>1. CASE k \in 1 .. N
      BY <1>1, <1>2, <1>8, <3>1
    <3>2. ASSUME NEW i \in 1 .. T, k = N + i PROVE 1 <= g[k].id /\ g[k].id <= made + T
      <4>1. g[k].id = made + i
        BY <1>2, <1>4, <3>2
      <4>2. QED
        BY <1>1, <4>1
    <3>3. QED
      BY <1>6, <3>1, <3>2
  <2>2. ASSUME NEW j \in 1 .. N + T, NEW k \in 1 .. N + T, j < k PROVE g[j].id < g[k].id
    <3>1. CASE k \in 1 .. N
      <4>1. j \in 1 .. N
        BY <2>2, <3>1
      <4>2. file[j].id < file[k].id
        BY <1>5, <2>2, <3>1, <4>1 DEF IdsInOrder
      <4>3. QED
        BY <1>2, <3>1, <4>1, <4>2
    <3>2. ASSUME NEW i \in 1 .. T, k = N + i PROVE g[j].id < g[k].id
      <4>1. g[k].id = made + i
        BY <1>2, <1>4, <3>2
      <4>2. CASE j \in 1 .. N
        <5>1. g[j].id \in Nat /\ g[j].id <= made
          BY <1>2, <1>8, <4>2
        <5>2. QED
          BY <1>1, <4>1, <5>1
      <4>3. ASSUME NEW h \in 1 .. T, j = N + h PROVE g[j].id < g[k].id
        <5>1. g[j].id = made + h
          BY <1>2, <1>4, <4>3
        <5>2. h < i
          BY <2>2, <3>2, <4>3
        <5>3. QED
          BY <1>1, <4>1, <5>1, <5>2
      <4>4. QED
        BY <1>6, <4>2, <4>3
    <3>3. QED
      BY <1>6, <3>1, <3>2
  <2>3. QED
    BY <1>3, <1>5, <2>1, <2>2 DEF IdsInOrder, g
<1>10. ASSUME NEW k \in 1 .. N
       PROVE  /\ k \in 1 .. N + T
              /\ \A j \in 1 .. k - 1 : j \in 1 .. N
              /\ This(k)' <=> This(k)
              /\ Chained(k)' <=> Chained(k)
  <2>1. k \in 1 .. N + T /\ \A j \in 1 .. k - 1 : j \in 1 .. N
    BY <1>1
  <2>2. \A j \in 1 .. N : This(j)' <=> This(j)
    BY <1>2 DEF This, g
  <2>3. g[k].parent = file[k].parent
    BY <1>2
  <2> DEFINE Alone == \A j \in 1 .. k - 1 : ~This(j)
             Alone2 == \A j \in 1 .. k - 1 : ~This(j)'
  <2>4. Chained(k) <=> This(k) /\ (file[k].parent # NoEvent \/ Alone)
    BY DEF Chained
  <2>5. Chained(k)' <=> This(k)' /\ (g[k].parent # NoEvent \/ Alone2)
    BY DEF Chained, NoEvent, g
  <2>6. Alone2 <=> Alone
    BY <2>1, <2>2
  <2>7. This(k)' <=> This(k)
    BY <2>2
  <2> HIDE DEF Alone, Alone2
  <2>8. QED
    BY <2>1, <2>3, <2>4, <2>5, <2>6, <2>7
<1>11. ParentsBefore'
  <2> SUFFICES ASSUME NEW k \in 1 .. N + T
               PROVE  \/ g[k].parent = NoEvent
                      \/ \E j \in 1 .. k - 1 : /\ g[j].id = g[k].parent
                                               /\ g[j].deployment = g[k].deployment
    BY <1>5 DEF ParentsBefore, g, NoEvent
  <2>1. \A j \in 1 .. N : \/ file[j].parent = NoEvent
                          \/ \E i \in 1 .. j - 1 : /\ file[i].id = file[j].parent
                                                   /\ file[i].deployment = file[j].deployment
    BY <1>5 DEF ParentsBefore
  <2>2. CASE k \in 1 .. N
    <3>1. \A j \in 1 .. k - 1 : j \in 1 .. N
      BY <1>10, <2>2
    <3>2. \/ file[k].parent = NoEvent
          \/ \E j \in 1 .. k - 1 : /\ file[j].id = file[k].parent
                                   /\ file[j].deployment = file[k].deployment
      BY <2>1, <2>2
    <3>3. QED
      BY <1>2, <2>2, <3>1, <3>2
  <2>3. ASSUME NEW i \in 1 .. T, k = N + i
        PROVE  \/ g[k].parent = NoEvent
               \/ \E j \in 1 .. k - 1 : /\ g[j].id = g[k].parent
                                        /\ g[j].deployment = g[k].deployment
    <3> SUFFICES ASSUME g[k].parent # NoEvent
                 PROVE  \E j \in 1 .. k - 1 : /\ g[j].id = g[k].parent
                                              /\ g[j].deployment = g[k].deployment
      OBVIOUS
    <3>1. g[k].parent = new[i].parent /\ g[k].deployment = "this"
      <4>1. g[k] = new[i]
        BY <1>2, <2>3
      <4>2. QED
        BY <1>4, <4>1
    <3>2. PICK j \in 1 .. N : This(j) /\ file[j].parent = g[k].parent
      BY <1>4, <3>1
    <3>3. PICK h \in 1 .. j - 1 : file[h].id = file[j].parent /\ file[h].deployment = "this"
      <4>1. file[j].parent # NoEvent /\ file[j].deployment = "this"
        BY <3>2 DEF This
      <4>2. QED
        BY <2>1, <4>1
    <3>4. h \in 1 .. k - 1 /\ g[h] = file[h]
      <4>1. h \in 1 .. N /\ h \in 1 .. k - 1
        BY <1>1, <2>3
      <4>2. QED
        BY <1>2, <4>1
    <3>5. QED
      BY <3>1, <3>2, <3>3, <3>4
  <2>4. QED
    BY <1>6, <2>2, <2>3
<1>12. ASSUME NEW k \in 1 .. N + T, Chained(k)', k \notin 1 .. N PROVE g[k].parent # NoEvent
  <2>1. file'[k].parent # NoEvent \/ \A j \in 1 .. k - 1 : ~This(j)'
    BY <1>12 DEF Chained, NoEvent
  <2>2. first \in 1 .. k - 1
    BY <1>1, <1>12
  <2>3. This(first)'
    BY <1>10
  <2>4. QED
    BY <2>1, <2>2, <2>3 DEF g
<1>13. Unbroken'
  <2> SUFFICES ASSUME NEW k \in 1 .. N + T, This(k)', g[k].parent # NoEvent
               PROVE  \E j \in 1 .. k - 1 : g[j].id = g[k].parent /\ Chained(j)'
    BY <1>5 DEF Unbroken, g, NoEvent
  <2>1. ASSUME NEW i \in 1 .. N, i <= k, This(i), file[i].parent = g[k].parent
        PROVE  \E j \in 1 .. k - 1 : g[j].id = g[k].parent /\ Chained(j)'
    <3>1. PICK j \in 1 .. i - 1 : file[j].id = file[i].parent /\ Chained(j)
      BY <1>5, <2>1 DEF Unbroken
    <3>2. j \in 1 .. N /\ j \in 1 .. k - 1
      BY <2>1
    <3>3. g[j].id = g[k].parent /\ Chained(j)'
      BY <1>2, <1>10, <2>1, <3>1, <3>2
    <3>4. QED
      BY <3>2, <3>3
  <2>2. CASE k \in 1 .. N
    <3>1. This(k) /\ file[k].parent = g[k].parent /\ k <= k
      BY <1>2, <1>10, <2>2
    <3>2. QED
      BY <2>1, <2>2, <3>1
  <2>3. ASSUME NEW h \in 1 .. T, k = N + h
        PROVE  \E j \in 1 .. k - 1 : g[j].id = g[k].parent /\ Chained(j)'
    <3>1. g[k].parent = new[h].parent
      BY <1>2, <2>3
    <3>2. PICK i \in 1 .. N : This(i) /\ file[i].parent = g[k].parent
      BY <1>4, <3>1
    <3>3. i <= k
      BY <1>1, <2>3
    <3>4. QED
      BY <2>1, <3>2, <3>3
  <2>4. QED
    BY <1>6, <2>2, <2>3
<1>14. /\ \A k \in 1 .. N : file[k].stamp \in Nat /\ file[k].stamp <= file[N].stamp
       /\ \A k \in 1 .. T : new[k].stamp \in Nat
  <2>1. \A k \in 1 .. N : file[k] \in Entry
    BY DEF FileTyped
  <2>2. \A k \in 1 .. N : file[k].stamp \in Nat
    BY <2>1 DEF Entry
  <2>3. \A k \in 1 .. N : k < N => file[k].stamp <= file[N].stamp
    BY <1>5 DEF Stamped
  <2>4. \A k \in 1 .. T : new[k] \in Entry
    BY DEF T
  <2>5. \A k \in 1 .. N : file[k].stamp <= file[N].stamp
    <3> TAKE k \in 1 .. N
    <3>1. k < N \/ k = N
      OBVIOUS
    <3>2. QED
      BY <2>2, <2>3, <3>1
  <2>6. QED
    BY <2>2, <2>4, <2>5 DEF Entry
<1>15. Stamped'
  <2>1. ASSUME NEW x \in 1 .. N + T, NEW y \in 1 .. N + T, x < y
        PROVE  g[x].stamp <= g[y].stamp
    <3>1. CASE y \in 1 .. N
      <4>1. x \in 1 .. N
        BY <2>1, <3>1
      <4>2. QED
        BY <1>2, <1>5, <2>1, <3>1, <4>1 DEF Stamped
    <3>2. ASSUME NEW i \in 1 .. T, y = N + i PROVE g[x].stamp <= g[y].stamp
      <4>1. g[y] = new[i]
        BY <1>2, <3>2
      <4>2. CASE x \in 1 .. N
        <5>1. /\ g[x] = file[x] /\ file[x].stamp \in Nat /\ file[x].stamp <= file[N].stamp
              /\ file[N].stamp \in Nat /\ new[i].stamp \in Nat
          BY <1>2, <1>14, <4>2
        <5>2. file[N].stamp < new[i].stamp
          BY <1>4
        <5>3. QED
          BY <4>1, <5>1, <5>2
      <4>3. ASSUME NEW h \in 1 .. T, x = N + h PROVE g[x].stamp <= g[y].stamp
        <5>1. h < i /\ g[x] = new[h]
          BY <1>1, <1>2, <2>1, <3>2, <4>3
        <5>2. QED
          BY <1>4, <4>1, <5>1
      <4>4. QED
        BY <1>6, <4>2, <4>3
    <3>3. QED
      BY <1>6, <3>1, <3>2
  <2>2. ASSUME NEW x \in 1 .. N + T, NEW y \in 1 .. N + T, x < y,
               This(x)', This(y)', g[x].parent # NoEvent, g[x].parent = g[y].parent
        PROVE  g[x].stamp < g[y].stamp
    <3>1. CASE y \in 1 .. N
      <4>1. x \in 1 .. N
        BY <2>2, <3>1
      <4>2. This(x) /\ This(y) /\ g[x] = file[x] /\ g[y] = file[y]
        BY <1>2, <1>10, <2>2, <3>1, <4>1
      <4>3. QED
        BY <1>5, <2>2, <3>1, <4>1, <4>2 DEF Stamped
    <3>2. ASSUME NEW i \in 1 .. T, y = N + i PROVE g[x].stamp < g[y].stamp
      <4>1. g[y] = new[i] /\ T = 1
        BY <1>2, <1>4, <2>2, <3>2
      <4>2. x \in 1 .. N
        BY <2>2, <3>2, <4>1
      <4>3. g[x] = file[x]
        BY <1>2, <4>2
      <4>4. file[x].stamp \in Nat /\ file[x].stamp <= file[N].stamp
        BY <1>14, <4>2
      <4>5. file[N].stamp \in Nat
        BY <1>14
      <4>6. new[i].stamp \in Nat
        BY <1>14, Zenon
      <4>7. file[N].stamp < new[i].stamp
        BY <1>4
      <4>8. file[x].stamp < new[i].stamp
        BY <4>4, <4>5, <4>6, <4>7
      <4>9. QED
        BY <4>1, <4>3, <4>8, Zenon
    <3>3. QED
      BY <1>6, <3>1, <3>2
  <2>3. QED
    BY <1>5, <2>1, <2>2 DEF Stamped, NoEvent, g
<1>16. QED
  BY <1>2, <1>5, <1>7, <1>9, <1>10, <1>11, <1>12, <1>13, <1>15 DEF T, g

\* An event of the chain that is written again has the parent of the first copy.
LEMMA LostResultKeeps ==
    ASSUME AuditInv, LostResult
    PROVE  AuditInv'
<1>1. /\ UNCHANGED vars /\ made' = made + 1 /\ last' = made + 1
      /\ file # <<>> /\ Last(file).id = last
      /\ file' = Append(file, [Last(file) EXCEPT !.id = made + 1, !.stamp = @ + 1])
  BY DEF LostResult
<1>2. TypeInv' /\ TypeInv
  BY <1>1 DEF AuditInv, TypeInv, TypeOK, StageInRange, vars, dataVars, outsideVars,
              stageVars, clusterVars, envVars, histVars
<1>3. FileTyped /\ IdsInOrder /\ ParentsBefore /\ LastKnown /\ Comb /\ Unbroken
      /\ Stamped /\ Fresh
  BY DEF AuditInv, Linked
<1>4. made \in Nat /\ last \in Nat /\ file \in Seq(Entry)
  BY <1>3 DEF FileTyped
<1>5. PICK N \in Nat : N = Len(file)
  BY <1>4
<1>6. Positions = 1 .. N /\ N \in 1 .. N /\ Last(file) = file[N]
  BY <1>1, <1>4, <1>5 DEF Positions, Last
<1>7. last # NoEvent
  BY <1>1, <1>3, <1>4, <1>6 DEF IdsInOrder, NoEvent
<1>8. This(N) /\ file[N].parent # NoEvent /\ file[N].id = last
  <2>1. PICK k \in 1 .. N : file[k].id = last /\ This(k) /\ file[k].parent # NoEvent
    BY <1>3, <1>6, <1>7 DEF LastKnown
  <2>2. file[N].id = last
    BY <1>1, <1>6
  <2>3. \A j \in 1 .. N : file[j].id \in Nat
    <3>1. \A j \in 1 .. N : file[j] \in Entry
      BY <1>4, <1>5
    <3>2. QED
      BY <3>1 DEF Entry
  <2>4. k < N => file[k].id < file[N].id
    BY <1>3, <1>6 DEF IdsInOrder
  <2>5. k = N
    BY <2>1, <2>2, <2>3, <2>4
  <2>6. QED
    BY <2>1, <2>5
<1> DEFINE e == [file[N] EXCEPT !.id = made + 1, !.stamp = @ + 1]
           new == <<e>>
<1>9. /\ e.id = made + 1 /\ e.deployment = "this" /\ e.parent = file[N].parent
      /\ e \in Entry /\ file[N].stamp < e.stamp
  <2>1. file[N] \in Entry
    BY <1>4, <1>5, <1>6
  <2>2. made + 1 \in Nat
    BY <1>4
  <2>3. file[N].stamp \in Nat /\ file[N].stamp + 1 \in Nat /\ file[N].stamp < file[N].stamp + 1
    BY <2>1 DEF Entry
  <2>4. e.stamp = file[N].stamp + 1
    BY <2>1 DEF Entry
  <2>5. e \in Entry
    BY <2>1, <2>2, <2>3 DEF Entry
  <2>6. e.id = made + 1 /\ e.deployment = file[N].deployment /\ e.parent = file[N].parent
    BY <2>1 DEF Entry
  <2> HIDE DEF e
  <2>7. QED
    BY <1>8, <2>3, <2>4, <2>5, <2>6 DEF This
<1> HIDE DEF e
<1>10. new \in Seq(Entry) /\ Len(new) = 1 /\ new[1] = e
  BY <1>9
<1>11. file' = file \o new
  <2>1. file' = Append(file, e)
    BY <1>1, <1>6 DEF e
  <2>2. ASSUME NEW h \in Seq(Entry), NEW x \in Entry PROVE Append(h, x) = h \o <<x>>
    OBVIOUS
  <2>3. QED
    BY <1>4, <1>9, <2>1, <2>2
<1>12. last' \in Nat /\ made' = made + Len(new)
  BY <1>1, <1>4, <1>10
<1>13. \A k \in 1 .. Len(new) : k = 1
  BY <1>10
<1> HIDE DEF new
<1>14. \A k \in 1 .. Len(new) :
          /\ new[k].id = made + k /\ new[k].deployment = "this"
          /\ file[N].stamp < new[k].stamp
          /\ \E j \in 1 .. N : This(j) /\ file[j].parent = new[k].parent
  BY <1>6, <1>8, <1>9, <1>10, <1>13
<1>15. /\ FileTyped' /\ IdsInOrder' /\ ParentsBefore' /\ Unbroken' /\ Stamped'
       /\ Positions' = 1 .. N + 1
       /\ \A k \in 1 .. N : /\ file'[k] = file[k]
                            /\ This(k)' <=> This(k)
                            /\ Chained(k)' <=> Chained(k)
       /\ file'[N + 1] = e
  <2>1. \A k \in 1 .. Len(new) :
           \/ new[k].parent = NoEvent
           \/ /\ Len(new) = 1 /\ new[k].deployment = "this"
              /\ \E j \in 1 .. N : This(j) /\ file[j].parent = new[k].parent
    BY <1>10, <1>14
  <2>2. /\ \A k \in 1 .. Len(new) : new[k].id = made + k /\ file[N].stamp < new[k].stamp
        /\ \A j, k \in 1 .. Len(new) : ~(j < k)
    BY <1>10, <1>14
  <2>3. /\ FileTyped' /\ IdsInOrder' /\ ParentsBefore' /\ Unbroken' /\ Stamped'
        /\ Positions' = 1 .. N + Len(new)
        /\ \A k \in 1 .. N : /\ file'[k] = file[k]
                             /\ This(k)' <=> This(k)
                             /\ Chained(k)' <=> Chained(k)
        /\ \A k \in 1 .. Len(new) : file'[N + k] = new[k]
    BY <1>3, <1>5, <1>6, <1>8, <1>10, <1>11, <1>12, <2>1, <2>2, Added
  <2>4. 1 \in 1 .. Len(new)
    BY <1>10
  <2>5. QED
    BY <1>10, <2>3, <2>4
<1>16. \A k \in 1 .. N + 1 : k \in 1 .. N \/ k = N + 1
  OBVIOUS
<1>17. LastKnown'
  <2>1. /\ N + 1 \in Positions'
        /\ file'[N + 1].id = last' /\ file'[N + 1].parent # NoEvent
    <3>1. N + 1 \in 1 .. N + 1
      OBVIOUS
    <3>2. QED
      BY <1>1, <1>8, <1>9, <1>15, <3>1
  <2>2. This(N + 1)'
    BY <1>9, <1>15 DEF This
  <2>3. QED
    BY <2>1, <2>2 DEF LastKnown, NoEvent
<1>18. \A k \in 1 .. N : file[k].id \in Nat
  <2>1. \A k \in 1 .. N : file[k] \in Entry
    BY <1>4, <1>5
  <2>2. QED
    BY <2>1 DEF Entry
<1>19. Comb'
  <2>1. ASSUME NEW x \in 1 .. N + 1, Chained(x)' PROVE file'[x].id <= last'
    <3>1. CASE x \in 1 .. N
      <4>1. file'[x].id = file[x].id /\ file[x].id <= made
        BY <1>3, <1>6, <1>15, <3>1 DEF IdsInOrder
      <4>2. file[x].id \in Nat
        BY <1>18, <3>1
      <4>3. PICK n \in Nat : n = file[x].id
        BY <4>2
      <4>4. n <= made /\ file'[x].id = n
        BY <4>1, <4>3
      <4>5. n <= last'
        BY <1>1, <1>4, <4>4
      <4>6. QED
        BY <4>4, <4>5
    <3>2. CASE x = N + 1
      <4>1. file'[x].id = last'
        BY <1>1, <1>9, <1>15, <3>2
      <4>2. QED
        BY <1>12, <4>1
    <3>3. QED
      BY <1>16, <3>1, <3>2
  <2>2. ASSUME NEW x \in 1 .. N + 1, NEW y \in 1 .. N + 1, x < y, Chained(x)', This(y)',
               file'[y].parent # NoEvent
        PROVE  file'[y].parent >= file'[x].id \/ file'[y].parent = file'[x].parent
    <3>1. x \in 1 .. N /\ file'[x] = file[x] /\ Chained(x)
      <4>1. x \in 1 .. N
        BY <2>2
      <4>2. QED
        BY <1>15, <2>2, <4>1
    <3>2. CASE y \in 1 .. N
      <4>1. This(y) /\ file'[y] = file[y]
        BY <1>15, <2>2, <3>2
      <4>2. QED
        BY <1>3, <1>6, <2>2, <3>1, <3>2, <4>1 DEF Comb
    <3>3. CASE y = N + 1
      <4>1. file'[y].parent = file[N].parent
        BY <1>9, <1>15, <3>3
      <4>2. x = N \/ x < N
        BY <3>1
      <4>3. x < N => file[N].parent >= file[x].id \/ file[N].parent = file[x].parent
        BY <1>3, <1>6, <1>8, <3>1 DEF Comb
      <4>4. QED
        BY <3>1, <4>1, <4>2, <4>3
    <3>4. QED
      BY <1>16, <3>2, <3>3
  <2>3. QED
    BY <1>15, <2>1, <2>2 DEF Comb, NoEvent
<1>20. Fresh'
  <2>1. last' # NoEvent
    BY <1>1, <1>4 DEF NoEvent
  <2>2. pc' = pc /\ trail' = trail
    BY <1>1 DEF vars
  <2>3. QED
    BY <1>3, <2>1, <2>2 DEF Fresh, NoEvent
<1>21. QED
  BY <1>2, <1>15, <1>17, <1>19, <1>20 DEF AuditInv, Linked

\* The first event of a rollback by hand is later than the file, the second no earlier.
LEMMA HandStamps ==
    ASSUME file \in Seq(Entry), file # <<>>, NEW same \in SUBSET {2}
    PROVE  /\ Stamp(1, same) \in Nat /\ Stamp(2, same) \in Nat
           /\ file[Len(file)].stamp \in Nat
           /\ file[Len(file)].stamp < Stamp(1, same)
           /\ Stamp(1, same) <= Stamp(2, same)
<1>1. Last(file) = file[Len(file)] /\ Last(file) \in Entry
  BY DEF Last
<1>2. file[Len(file)].stamp \in Nat
  BY <1>1 DEF Entry
<1>3. (1 .. 1) \ same = {1}
  OBVIOUS
<1>4. Cardinality((1 .. 1) \ same) = 1
  BY <1>3, FS_Singleton
<1>5. Cardinality((1 .. 2) \ same) \in Nat /\ 1 <= Cardinality((1 .. 2) \ same)
  <2>1. /\ \A k \in 0 .. 2 : Cardinality((1 .. k) \ same) \in Nat
        /\ \A j, k \in 0 .. 2 :
              j <= k => Cardinality((1 .. j) \ same) <= Cardinality((1 .. k) \ same)
    BY StampsGrow, Zenon
  <2>2. 1 \in 0 .. 2 /\ 2 \in 0 .. 2 /\ 1 <= 2
    OBVIOUS
  <2>3. Cardinality((1 .. 1) \ same) <= Cardinality((1 .. 2) \ same)
    BY <2>1, <2>2
  <2>4. QED
    BY <1>4, <2>1, <2>2, <2>3
<1>6. QED
  BY <1>1, <1>2, <1>4, <1>5 DEF Stamp

\* A rollback by hand adds two events without a parent: the chain goes by them.
LEMMA RollBackByHandKeeps ==
    ASSUME AuditInv, RollBackByHand
    PROVE  AuditInv'
<1>1. /\ pc = "done" /\ made' = made + 2
      /\ UNCHANGED <<pc, fault, status, trail, dataVars, stageVars, quarantined,
                     envVars, lost, histVars, last>>
      /\ server' = [s \in Server |-> IF s \in updated /\ server[s].version # Source
                                     THEN RollbackServer(server[s]) ELSE server[s]]
  BY DEF RollBackByHand
<1>2. TypeInv'
  <2>1. server \in [Server -> ServerRecord]
    BY DEF AuditInv, TypeInv, TypeOK
  <2>2. server' \in [Server -> ServerRecord]
    <3>1. \A s \in Server : RollbackServer(server[s]) \in ServerRecord
      BY <2>1, RecordTypes, TargetAssumption DEF ServerStatus
    <3>2. QED
      BY <1>1, <2>1, <3>1
  <2>3. TypeOK' /\ StageInRange'
    BY <1>1, <2>2 DEF AuditInv, TypeInv, TypeOK, StageInRange, dataVars, stageVars,
                      envVars, histVars
  <2>4. QED
    BY <2>3 DEF TypeInv
<1>3. FileTyped /\ IdsInOrder /\ ParentsBefore /\ LastKnown /\ Comb /\ Unbroken
      /\ Stamped /\ Fresh
  BY DEF AuditInv, Linked
<1>4. made \in Nat /\ last \in Nat /\ file \in Seq(Entry)
  BY <1>3 DEF FileTyped
<1>5. PICK N \in Nat : N = Len(file)
  BY <1>4
<1>6. Positions = 1 .. N
  BY <1>5 DEF Positions
<1>7. last # NoEvent
  BY <1>1, <1>3 DEF Fresh
<1>8. PICK first \in 1 .. N : file[first].id = last /\ This(first) /\ file[first].parent # NoEvent
  BY <1>3, <1>6, <1>7 DEF LastKnown
<1>9. PICK same \in SUBSET {2}, d \in {"this", "own"} :
         LET byHand(k, type, S) ==
                 [Event(made + k, NoEvent, Stamp(k, same), type, S) EXCEPT !.deployment = d]
         IN  file' = file \o <<byHand(1, "rollback_start", {}),
                               byHand(2, "rollback_complete",
                                      {s \in updated : server[s].version = Source
                                                         \/ CanRollBack(server[s])})>>
  BY DEF RollBackByHand
<1> DEFINE servers == {s \in updated : server[s].version = Source \/ CanRollBack(server[s])}
           e1 == [Event(made + 1, NoEvent, Stamp(1, same), "rollback_start", {})
                    EXCEPT !.deployment = d]
           e2 == [Event(made + 2, NoEvent, Stamp(2, same), "rollback_complete", servers)
                    EXCEPT !.deployment = d]
           new == <<e1, e2>>
<1>h. /\ Stamp(1, same) \in Nat /\ Stamp(2, same) \in Nat /\ file[N].stamp \in Nat
      /\ file[N].stamp < Stamp(1, same) /\ Stamp(1, same) <= Stamp(2, same)
  BY <1>3, <1>4, <1>5, HandStamps DEF FileTyped
<1>10. /\ e1 \in Entry /\ e2 \in Entry
       /\ e1.id = made + 1 /\ e1.parent = NoEvent /\ e1.stamp = Stamp(1, same)
       /\ e2.id = made + 2 /\ e2.parent = NoEvent /\ e2.stamp = Stamp(2, same)
  <2>1. servers \in SUBSET Server
    BY DEF AuditInv, TypeInv, TypeOK
  <2>2. made + 1 \in Nat /\ made + 2 \in Nat /\ Target \in Version
    BY <1>4, TargetAssumption
  <2>3. "rollback_start" \in AuditType /\ "rollback_complete" \in AuditType
    BY DEF AuditType, EventType
  <2> HIDE DEF servers
  <2>4. QED
    BY <1>h, <2>1, <2>2, <2>3 DEF Event, Entry, NoEvent
<1>11. file' = file \o new
  BY <1>9
<1> HIDE DEF servers, e1, e2
<1>12. new \in Seq(Entry) /\ Len(new) = 2 /\ new[1] = e1 /\ new[2] = e2
  BY <1>10
<1> HIDE DEF new
<1>13. \A k \in 1 .. Len(new) : k = 1 \/ k = 2
  BY <1>12
<1>14. /\ \A k \in 1 .. Len(new) : /\ new[k].id = made + k /\ new[k].parent = NoEvent
                                   /\ file[N].stamp < new[k].stamp
       /\ \A j, k \in 1 .. Len(new) : j < k => new[j].stamp <= new[k].stamp
  <2>1. \A j, k \in 1 .. Len(new) : j < k => j = 1 /\ k = 2
    BY <1>12
  <2>2. file[N].stamp < Stamp(2, same)
    BY <1>h
  <2>3. QED
    BY <1>h, <1>10, <1>12, <1>13, <2>1, <2>2
<1>15. last' \in Nat /\ made' = made + Len(new)
  BY <1>1, <1>4, <1>12
<1>16. /\ FileTyped' /\ IdsInOrder' /\ ParentsBefore' /\ Unbroken' /\ Stamped'
       /\ Positions' = 1 .. N + Len(new)
       /\ \A k \in 1 .. N : /\ file'[k] = file[k]
                            /\ This(k)' <=> This(k)
                            /\ Chained(k)' <=> Chained(k)
       /\ \A k \in 1 .. Len(new) : file'[N + k] = new[k]
       /\ \A k \in 1 .. N + Len(new) :
             Chained(k)' => k \in 1 .. N \/ file'[k].parent # NoEvent
  <2>1. \A k \in 1 .. Len(new) :
           \/ new[k].parent = NoEvent
           \/ /\ Len(new) = 1 /\ new[k].deployment = "this"
              /\ \E j \in 1 .. N : This(j) /\ file[j].parent = new[k].parent
    BY <1>14
  <2>2. QED
    BY <1>3, <1>5, <1>8, <1>12, <1>11, <1>14, <1>15, <2>1, Added
<1>17. \A k \in 1 .. N + Len(new) : file'[k].parent # NoEvent => k \in 1 .. N
  <2> SUFFICES ASSUME NEW k \in 1 .. N + Len(new), k \notin 1 .. N
               PROVE  file'[k].parent = NoEvent
    OBVIOUS
  <2>1. k - N \in 1 .. Len(new) /\ k = N + (k - N)
    BY <1>12
  <2>2. file'[k] = new[k - N]
    BY <1>16, <2>1
  <2>3. QED
    BY <1>14, <2>1, <2>2
<1>18. last' = last
  BY <1>1
<1>19. LastKnown'
  <2>1. first \in Positions' /\ file'[first] = file[first] /\ This(first)'
    BY <1>8, <1>12, <1>16
  <2>2. QED
    BY <1>8, <1>18, <2>1 DEF LastKnown, NoEvent
<1>20. Comb'
  <2>1. ASSUME NEW x \in 1 .. N + Len(new), Chained(x)'
        PROVE  /\ x \in 1 .. N /\ Chained(x) /\ file'[x] = file[x]
               /\ file'[x].id <= last'
    <3>1. x \in 1 .. N
      BY <1>16, <1>17, <2>1
    <3>2. Chained(x) /\ file'[x] = file[x]
      BY <1>16, <2>1, <3>1
    <3>3. QED
      BY <1>3, <1>6, <1>18, <3>1, <3>2 DEF Comb
  <2>2. ASSUME NEW x \in 1 .. N + Len(new), NEW y \in 1 .. N + Len(new), x < y,
               Chained(x)', This(y)', file'[y].parent # NoEvent
        PROVE  file'[y].parent >= file'[x].id \/ file'[y].parent = file'[x].parent
    <3>1. y \in 1 .. N
      BY <1>17, <2>2
    <3>2. This(y) /\ file'[y] = file[y]
      BY <1>16, <2>2, <3>1
    <3>3. x \in 1 .. N /\ Chained(x) /\ file'[x] = file[x]
      BY <2>1, <2>2
    <3>4. QED
      BY <1>3, <1>6, <2>2, <3>1, <3>2, <3>3 DEF Comb
  <2>3. QED
    BY <1>16, <2>1, <2>2 DEF Comb, NoEvent
<1>21. Fresh'
  BY <1>1, <1>3, <1>7, <1>18 DEF Fresh, NoEvent
<1>22. QED
  BY <1>2, <1>16, <1>19, <1>20, <1>21 DEF AuditInv, Linked

LEMMA AuditStart == AuditInit => AuditInv
<1> SUFFICES ASSUME AuditInit PROVE AuditInv
  OBVIOUS
<1>1. Init /\ file = EarlierTrail /\ made = Len(EarlierTrail) /\ last = NoEvent
  BY DEF AuditInit, TrailInit
<1>2. TypeInv
  BY <1>1, InitType DEF Init, TypeInv, StageInRange
<1>3. Fresh
  BY <1>1 DEF Fresh, Init
<1> DEFINE past(id, type, S) == [id |-> id, parent |-> id - 1, stamp |-> id,
                                 type |-> type, deployment |-> "earlier",
                                 servers |-> S, target |-> Source]
<1>4. EarlierTrail = <<past(1, "deployment_start", {}), past(2, "stage_transition", Server),
                       past(3, "deployment_completed", {})>>
  BY DEF EarlierTrail
<1>5. \A id \in Nat \ {0}, S \in SUBSET Server, type \in AuditType :
         /\ past(id, type, S) \in Entry
         /\ past(id, type, S).id = id /\ past(id, type, S).parent = id - 1
         /\ past(id, type, S).deployment = "earlier" /\ past(id, type, S).stamp = id
  BY SourceAssumption DEF Entry
<1>6. {"deployment_start", "stage_transition", "deployment_completed"} \subseteq AuditType
  BY DEF AuditType, EventType
<1> HIDE DEF past
<1>7. /\ file \in Seq(Entry) /\ Len(file) = 3 /\ made = 3
      /\ file[1] = past(1, "deployment_start", {})
      /\ file[2] = past(2, "stage_transition", Server)
      /\ file[3] = past(3, "deployment_completed", {})
  BY <1>1, <1>4, <1>5, <1>6
<1>8. \A k \in 1 .. 3 : /\ file[k].id = k /\ file[k].parent = k - 1
                        /\ file[k].deployment = "earlier" /\ file[k].stamp = k
  <2>1. \A k \in 1 .. 3 : k = 1 \/ k = 2 \/ k = 3
    OBVIOUS
  <2>2. QED
    BY <1>5, <1>6, <1>7, <2>1
<1>9. Positions = 1 .. 3 /\ \A k \in Positions : ~This(k)
  BY <1>7, <1>8 DEF Positions, This
<1>10. FileTyped /\ IdsInOrder /\ Stamped
  <2>1. FileTyped
    BY <1>1, <1>7 DEF FileTyped, NoEvent
  <2>2. IdsInOrder
    BY <1>7, <1>8, <1>9 DEF IdsInOrder
  <2>3. Stamped
    BY <1>8, <1>9 DEF Stamped
  <2>4. QED
    BY <2>1, <2>2, <2>3
<1>11. ParentsBefore
  <2>1. \A k \in 1 .. 3 : k = 1 \/ (k - 1 \in 1 .. k - 1 /\ k - 1 \in 1 .. 3)
    OBVIOUS
  <2>2. QED
    BY <1>8, <1>9, <2>1 DEF ParentsBefore, NoEvent
<1>12. LastKnown /\ Comb /\ Unbroken
  BY <1>1, <1>9 DEF LastKnown, Comb, Unbroken, Chained
<1>13. QED
  BY <1>2, <1>3, <1>10, <1>11, <1>12 DEF AuditInv, Linked

\* Whatever writes fail or are repeated, ids ascend, parents come before their
\* children, and the chain goes on from its newest event.
LEMMA AuditInvariant == AuditSpec => []AuditInv
<1>1. AuditInit => AuditInv
  BY AuditStart
<1>2. AuditInv /\ [AuditNext]_allVars => AuditInv'
  <2>1. ASSUME AuditInv, AuditNext PROVE AuditInv'
    BY <2>1, RolloutStepKeeps, FailedWriteKeeps, LostResultKeeps, RollBackByHandKeeps
       DEF AuditNext
  <2>2. ASSUME AuditInv, UNCHANGED allVars PROVE AuditInv'
    BY <2>2 DEF AuditInv, TypeInv, TypeOK, StageInRange, Linked, FileTyped, IdsInOrder,
                ParentsBefore, LastKnown, Comb, Unbroken, Stamped, Fresh, Positions, Chained,
                This, NoEvent, allVars, trailVars, vars, dataVars, outsideVars, stageVars, clusterVars,
                envVars, histVars
  <2>3. QED
    BY <2>1, <2>2
<1>3. QED
  BY <1>1, <1>2, PTL DEF AuditSpec

-----------------------------------------------------------------------------
(***************************************************************************)
(* The properties of the file.                                             *)
(***************************************************************************)

LEMMA RootedUnfolds ==
    ASSUME NEW f, NEW m \in Nat, m = Len(f)
    PROVE  /\ Rooted(f)[0] = {NoEvent}
           /\ \A n \in 1 .. m : Rooted(f)[n] = WithChildren(f, Rooted(f)[n - 1])
<1> DEFINE P(k) == \E r : r = [n \in 0 .. k |-> IF n = 0 THEN {NoEvent}
                                                 ELSE WithChildren(f, r[n - 1])]
           Bad == {k \in Nat : ~P(k)}
<1>1. P(0)
  <2> DEFINE r == [n \in 0 .. 0 |-> {NoEvent}]
  <2>1. r = [n \in 0 .. 0 |-> IF n = 0 THEN {NoEvent} ELSE WithChildren(f, r[n - 1])]
    OBVIOUS
  <2>2. QED
    BY <2>1
<1>2. ASSUME NEW k \in Nat, P(k) PROVE P(k + 1)
  <2>1. PICK w : w = [n \in 0 .. k |-> IF n = 0 THEN {NoEvent} ELSE WithChildren(f, w[n - 1])]
    BY <1>2
  <2> DEFINE v == [n \in 0 .. k + 1 |-> IF n <= k THEN w[n] ELSE WithChildren(f, w[k])]
  <2>2. ASSUME NEW n \in 0 .. k + 1
        PROVE  v[n] = IF n = 0 THEN {NoEvent} ELSE WithChildren(f, v[n - 1])
    <3>1. CASE n = 0
      BY <2>1, <3>1
    <3>2. CASE n \in 1 .. k
      <4>1. n - 1 \in 0 .. k /\ n \in 0 .. k /\ n # 0 /\ n <= k /\ n - 1 <= k
        BY <3>2
      <4>2. v[n] = w[n] /\ v[n - 1] = w[n - 1]
        BY <4>1
      <4>3. w[n] = WithChildren(f, w[n - 1])
        BY <2>1, <4>1
      <4>4. QED
        BY <4>1, <4>2, <4>3
    <3>3. CASE n = k + 1
      <4>1. k \in 0 .. k + 1 /\ n - 1 = k /\ n # 0 /\ ~(n <= k) /\ k <= k
        BY <3>3
      <4>2. v[n] = WithChildren(f, w[k]) /\ v[k] = w[k]
        BY <4>1
      <4>3. QED
        BY <4>1, <4>2
    <3>4. QED
      BY <3>1, <3>2, <3>3
  <2>3. v = [n \in 0 .. k + 1 |-> IF n = 0 THEN {NoEvent} ELSE WithChildren(f, v[n - 1])]
    BY <2>2
  <2>4. QED
    BY <2>3
<1> HIDE DEF P
<1>3. Bad = {}
  <2> SUFFICES ASSUME Bad # {} PROVE FALSE
    OBVIOUS
  <2>1. PICK k \in Bad : \A j \in Bad : k <= j
    BY Least
  <2>2. k # 0
    BY <1>1
  <2>3. k - 1 \in Nat /\ k - 1 \notin Bad
    BY <2>1, <2>2
  <2>4. P(k - 1 + 1)
    BY <1>2, <2>3
  <2>5. QED
    BY <2>1, <2>4
<1>4. \E r : r = [n \in 0 .. m |-> IF n = 0 THEN {NoEvent} ELSE WithChildren(f, r[n - 1])]
  <2>1. P(m)
    BY <1>3
  <2>2. QED
    BY <2>1 DEF P
<1> DEFINE r == Rooted(f)
<1>5. r = [n \in 0 .. m |-> IF n = 0 THEN {NoEvent} ELSE WithChildren(f, r[n - 1])]
  BY <1>4, Zenon DEF Rooted
<1> HIDE DEF r
<1>6. 0 \in 0 .. m
  OBVIOUS
<1>7. r[0] = {NoEvent}
  BY <1>5, <1>6
<1>8. ASSUME NEW n \in 1 .. m PROVE r[n] = WithChildren(f, r[n - 1])
  <2>1. n \in 0 .. m /\ n # 0
    OBVIOUS
  <2>2. QED
    BY <1>5, <2>1
<1>9. QED
  BY <1>7, <1>8 DEF r

\* A file whose events come after their parents passes the check of its lineage:
\* no parent is missing, and none is its own ancestor.
LEMMA LineageOfFile ==
    ASSUME FileTyped, ParentsBefore
    PROVE  VerifyLineage(file)
<1>1. PICK m \in Nat : m = Len(file)
  BY DEF FileTyped
<1>2. DOMAIN file = 1 .. m /\ Positions = 1 .. m
  BY <1>1 DEF FileTyped, Positions
<1> DEFINE r == Rooted(file)
           Holds(n) == NoEvent \in r[n] /\ \A k \in 1 .. n : file[k].id \in r[n]
           Bad == {n \in 0 .. m : ~Holds(n)}
<1>3. r[0] = {NoEvent} /\ \A n \in 1 .. m : r[n] = WithChildren(file, r[n - 1])
  BY <1>1, RootedUnfolds
<1> HIDE DEF r
<1>4. Bad = {}
  <2> SUFFICES ASSUME Bad # {} PROVE FALSE
    OBVIOUS
  <2>1. Bad \in SUBSET Nat
    OBVIOUS
  <2>2. PICK n \in Bad : \A j \in Bad : n <= j
    BY <2>1, Least
  <2>3. n # 0
    BY <1>3
  <2>4. n \in 1 .. m /\ n - 1 \in 0 .. m /\ ~(n <= n - 1)
    BY <2>3
  <2>5. Holds(n - 1)
    BY <2>2, <2>4
  <2>6. r[n] = WithChildren(file, r[n - 1])
    BY <1>3, <2>4
  <2>7. \A x \in r[n - 1] : x \in r[n]
    BY <2>6 DEF WithChildren
  <2>8. file[n].parent \in r[n - 1]
    BY <1>2, <2>4, <2>5 DEF ParentsBefore
  <2>9. file[n].id \in r[n]
    BY <1>2, <2>4, <2>6, <2>8 DEF WithChildren
  <2>10. \A k \in 1 .. n : k \in 1 .. n - 1 \/ k = n
    BY <2>4
  <2>11. \A k \in 1 .. n : file[k].id \in r[n]
    BY <2>5, <2>7, <2>9, <2>10
  <2>12. Holds(n)
    BY <2>5, <2>7, <2>11
  <2>13. QED
    BY <2>2, <2>12
<1>5. Ids(file, DOMAIN file) \subseteq r[m]
  <2>1. m \in 0 .. m
    OBVIOUS
  <2>2. Holds(m)
    BY <1>4, <2>1
  <2>3. QED
    BY <1>2, <2>2 DEF Ids
<1>6. ASSUME NEW k \in DOMAIN file
      PROVE  file[k].parent \in Ids(file, DOMAIN file) \cup {NoEvent}
  <2>1. \A j \in 1 .. k - 1 : j \in DOMAIN file
    BY <1>2
  <2>2. QED
    BY <1>2, <2>1 DEF ParentsBefore, Ids
<1>7. QED
  BY <1>1, <1>5, <1>6 DEF VerifyLineage, r

\* The events of the rollout are a forest, and so are those of any deployment.
LEMMA ScopeIsForest ==
    ASSUME FileTyped, IdsInOrder, ParentsBefore, NEW d
    PROVE  Forest(file, Scope(file, d))
<1>1. PICK m \in Nat : m = Len(file)
  BY DEF FileTyped
<1>2. DOMAIN file = 1 .. m /\ Positions = 1 .. m
  BY <1>1 DEF FileTyped, Positions
<1> DEFINE S == Scope(file, d)
<1>3. S \in SUBSET (1 .. m) /\ \A k \in 1 .. m : k \in S <=> file[k].deployment = d
  BY <1>2 DEF Scope
<1> HIDE DEF S
<1>4. S \in SUBSET Int /\ IsFiniteSet(S)
  <2>1. IsFiniteSet(1 .. m)
    BY FS_Interval
  <2>2. IsFiniteSet(S)
    BY <1>3, <2>1, FS_Subset
  <2>3. 1 .. m \in SUBSET Int
    OBVIOUS
  <2>4. S \in SUBSET Int
    BY <1>3, <2>3
  <2>5. QED
    BY <2>2, <2>4
<1>5. \A k \in 1 .. m : file[k].id \in Nat /\ 1 <= file[k].id
  <2>1. \A k \in 1 .. m : file[k] \in Entry
    BY <1>1 DEF FileTyped
  <2>2. \A k \in 1 .. m : file[k].id \in Nat
    BY <2>1 DEF Entry
  <2>3. \A k \in 1 .. m : 1 <= file[k].id
    BY <1>2 DEF IdsInOrder
  <2>4. QED
    BY <2>2, <2>3
<1>6. ASSUME NEW j \in S, NEW k \in S, file[j].id = file[k].id PROVE j = k
  <2>1. j \in 1 .. m /\ k \in 1 .. m
    BY <1>3
  <2>2. j < k => file[j].id < file[k].id
    BY <1>2, <2>1 DEF IdsInOrder
  <2>3. k < j => file[k].id < file[j].id
    BY <1>2, <2>1 DEF IdsInOrder
  <2>4. ~(j < k) /\ ~(k < j)
    BY <1>5, <1>6, <2>1, <2>2, <2>3
  <2>5. QED
    BY <2>1, <2>4
<1>7. ASSUME NEW k \in S \ Roots(file, S)
      PROVE  \E j \in S : j < k /\ file[k].parent = file[j].id
  <2>1. k \in 1 .. m /\ k \in S
    BY <1>3
  <2>2. PICK i \in S : file[k].parent = file[i].id
    BY <1>7 DEF Roots, Ids
  <2>3. i \in 1 .. m
    BY <1>3
  <2>4. file[k].parent # NoEvent
    BY <1>5, <2>2, <2>3 DEF NoEvent
  <2>5. PICK j \in 1 .. k - 1 : /\ file[j].id = file[k].parent
                                /\ file[j].deployment = file[k].deployment
    BY <1>2, <2>1, <2>4 DEF ParentsBefore
  <2>6. j \in 1 .. m /\ j < k
    BY <2>1
  <2>7. j \in S
    BY <1>3, <2>1, <2>5, <2>6
  <2>8. QED
    BY <2>5, <2>6, <2>7
<1>8. \A k \in S : file[k].stamp \in Int
  <2>1. \A k \in 1 .. m : file[k] \in Entry
    BY <1>1 DEF FileTyped
  <2>2. QED
    BY <1>3, <2>1 DEF Entry
<1>9. QED
  BY <1>4, <1>6, <1>7, <1>8 DEF Forest, Timed, S

\* Whatever writes fail or are repeated, verify_event_lineage finds nothing to
\* report in the file of a rollout.
THEOREM LineageSoundHolds == AuditSpec => []LineageSound
<1>1. AuditInv => LineageSound
  BY LineageOfFile DEF AuditInv, Linked, LineageSound
<1>2. QED
  BY <1>1, AuditInvariant, PTL

\* Whatever writes fail or are repeated, the timeline has every event of the
\* deployment once, parents before children, siblings by their stamps.
THEOREM TimelineCausalHolds == AuditSpec => []TimelineCausal
<1>1. ASSUME AuditInv PROVE TimelineCausal
  <2> DEFINE S == Scope(file, "this")
             t == Timeline(file, S)
  <2>1. Forest(file, S)
    BY <1>1, ScopeIsForest DEF AuditInv, Linked
  <2> HIDE DEF S
  <2>2. /\ t \in Seq(S) /\ Len(t) = Cardinality(S) /\ \A x \in S : Among(x, t)
        /\ \A i, j \in 1 .. Len(t) :
              i < j => /\ file[t[i]].parent # file[t[j]].id
                       /\ file[t[i]].parent = file[t[j]].parent => Earlier(file, t[i], t[j])
    BY <2>1, TimelineOfForest
  <2> HIDE DEF t
  <2>3. DOMAIN t = 1 .. Len(t)
    BY <2>2
  <2>4. Range(t) = S
    <3>1. \A i \in 1 .. Len(t) : t[i] \in S
      BY <2>2
    <3>2. QED
      BY <2>2, <2>3, <3>1 DEF Range, Among
  <2>5. /\ Len(t) = Cardinality(S) /\ Range(t) = S
        /\ \A i, j \in DOMAIN t :
              i < j => LET e == file[t[i]]
                           f == file[t[j]]
                       IN  /\ e.parent # f.id
                           /\ e.parent = f.parent => Earlier(file, t[i], t[j])
    BY <2>2, <2>3, <2>4
  <2>6. QED
    BY <2>5 DEF TimelineCausal, t, S
<1>2. QED
  BY <1>1, AuditInvariant, PTL

-----------------------------------------------------------------------------
(***************************************************************************)
(* The timeline of a chain.                                                *)
(***************************************************************************)

\* The events S of one deployment: a chain C that begins with c, and events
\* without a parent.  An event of the chain hangs from an event of it, and none
\* is older than the chain's end when it is written, unless it is written again,
\* which is some time later.
ChainOf(f, S, C, c) ==
    /\ S \in SUBSET Int /\ IsFiniteSet(S)
    /\ C \in SUBSET S /\ c \in C /\ \A x \in S : c <= x
    /\ \A x \in S : f[x].id \in Nat /\ f[x].id # NoEvent
    /\ \A x, y \in S : x < y => f[x].id < f[y].id
    /\ \A x \in S : f[x].parent = NoEvent \/ (x \in C /\ x # c)
    /\ \A x \in C : x # c => \E z \in C : z < x /\ f[x].parent = f[z].id
    /\ \A x, y \in C :
          x < y => f[y].parent >= f[x].id \/ f[y].parent = f[x].parent
    /\ \A x \in S : f[x].stamp \in Int
    /\ \A x, y \in C :
          x < y /\ f[y].parent = f[x].parent => f[x].stamp < f[y].stamp

LEMMA ChainForest ==
    ASSUME NEW f, NEW S, NEW C, NEW c, ChainOf(f, S, C, c)
    PROVE  /\ Forest(f, S)
           /\ \A x \in S : x \in Roots(f, S) <=> f[x].parent = NoEvent
<1>1. /\ S \in SUBSET Int /\ IsFiniteSet(S) /\ C \in SUBSET S
      /\ \A x \in S : f[x].id \in Nat /\ f[x].id # NoEvent
      /\ \A x, y \in S : x < y => f[x].id < f[y].id
      /\ \A x \in S : f[x].parent = NoEvent \/ (x \in C /\ x # c)
      /\ \A x \in C : x # c => \E z \in C : z < x /\ f[x].parent = f[z].id
      /\ \A x \in S : f[x].stamp \in Int
  BY DEF ChainOf
<1>2. \A x \in S : x \in Int
  BY <1>1
<1>3. ASSUME NEW x \in S, NEW y \in S, f[x].id = f[y].id PROVE x = y
  <2>1. x < y => f[x].id < f[y].id
    BY <1>1
  <2>2. y < x => f[y].id < f[x].id
    BY <1>1
  <2>3. f[x].id \in Nat
    BY <1>1
  <2>4. ~(x < y) /\ ~(y < x)
    BY <1>3, <2>1, <2>2, <2>3
  <2>5. QED
    BY <1>2, <2>4
<1>4. ASSUME NEW x \in S, f[x].parent # NoEvent
      PROVE  \E z \in S : z < x /\ f[x].parent = f[z].id
  BY <1>1, <1>4
<1>5. ASSUME NEW x \in S PROVE x \in Roots(f, S) <=> f[x].parent = NoEvent
  BY <1>1, <1>4 DEF Roots, Ids
<1>6. QED
  BY <1>1, <1>3, <1>4, <1>5 DEF Forest, Timed

Before(t, x, y) == \A i, j \in 1 .. Len(t) : t[i] = x /\ t[j] = y => i < j

\* The timeline has the chain in the order of the file, and before any event that
\* is stamped later than the chain's first.
LEMMA ChainFirst ==
    ASSUME NEW f, NEW S, NEW C, NEW c, ChainOf(f, S, C, c)
    PROVE  /\ \A x, y \in C : x < y => Before(Timeline(f, S), x, y)
           /\ \A y \in C, x \in S \ C :
                 f[c].stamp < f[x].stamp => Before(Timeline(f, S), y, x)
<1> DEFINE t == Timeline(f, S)
           n == Len(t)
<1>1. /\ S \in SUBSET Int /\ IsFiniteSet(S) /\ C \in SUBSET S /\ c \in C
      /\ \A x \in S : c <= x
      /\ \A x \in S : f[x].id \in Nat
      /\ \A x, y \in S : x < y => f[x].id < f[y].id
      /\ \A x \in S : f[x].parent = NoEvent \/ (x \in C /\ x # c)
      /\ \A x \in C : x # c => \E z \in C : z < x /\ f[x].parent = f[z].id
      /\ \A x, y \in C :
            x < y => f[y].parent >= f[x].id \/ f[y].parent = f[x].parent
      /\ \A x \in S : f[x].stamp \in Int
      /\ \A x, y \in C :
            x < y /\ f[y].parent = f[x].parent => f[x].stamp < f[y].stamp
  BY DEF ChainOf
<1>2. /\ t \in Seq(S)
      /\ \A x \in S : Among(x, t)
      /\ Once(t)
      /\ \A i, j \in 1 .. n :
            i < j /\ t[j] \in Roots(f, S) =>
               \A x \in S : f[x].parent = f[t[i]].id => Ahead(x, t, j)
      /\ \A i, j \in 1 .. n :
            i < j => /\ f[t[i]].parent # f[t[j]].id
                     /\ f[t[i]].parent = f[t[j]].parent => Earlier(f, t[i], t[j])
  BY ChainForest, TimelineOfForest
<1>3. \A x \in S : x \in Roots(f, S) <=> f[x].parent = NoEvent
  BY ChainForest
<1> HIDE DEF t
<1>4. n \in Nat /\ \A i \in 1 .. n : t[i] \in S
  BY <1>2
<1> HIDE DEF n
<1>5. \A x \in S : \E i \in 1 .. n : t[i] = x
  BY <1>2 DEF Among, n
<1>6. \A i, j \in 1 .. n : t[i] = t[j] => i = j
  BY <1>2 DEF Once, n
<1>7. \A x \in S : x \in Int
  BY <1>1
<1>8. \A x, y \in S : f[y].id >= f[x].id => ~(y < x)
  <2> SUFFICES ASSUME NEW x \in S, NEW y \in S, f[y].id >= f[x].id, y < x PROVE FALSE
    OBVIOUS
  <2>1. f[y].id < f[x].id /\ f[x].id \in Nat /\ f[y].id \in Nat
    BY <1>1
  <2>2. QED
    BY <2>1
<1>9. \A x, y \in C : x < y => Before(t, x, y)
  <2> DEFINE Bad == {y \in C : \E x \in C : x < y /\ ~Before(t, x, y)}
  <2> SUFFICES ASSUME Bad # {} PROVE FALSE
    OBVIOUS
  <2>1. Bad \in SUBSET S
    BY <1>1
  <2>2. Bad \in SUBSET Int /\ IsFiniteSet(Bad)
    BY <1>1, <2>1, FS_Subset
  <2>3. \A y \in Bad : y \in C /\ \E x \in C : x < y /\ ~Before(t, x, y)
    OBVIOUS
  <2>4. \A x, y \in C : x < y /\ y \notin Bad => Before(t, x, y)
    OBVIOUS
  <2> HIDE DEF Bad
  <2>5. PICK y \in Bad : \A z \in Bad : y <= z
    BY <2>2, Oldest
  <2>6. PICK x \in C : x < y /\ ~Before(t, x, y)
    BY <2>3, <2>5
  <2>7. x \in S /\ y \in S /\ y \in C /\ x \in Int /\ y \in Int
    BY <1>1, <1>7, <2>3, <2>5
  <2>8. PICK i, j \in 1 .. n : t[i] = x /\ t[j] = y /\ ~(i < j)
    BY <2>6 DEF Before, n
  <2>9. j < i
    BY <2>6, <2>7, <2>8
  <2>10. y # c
    <3>1. c <= x /\ c \in Int
      BY <1>1, <1>7, <2>7
    <3>2. QED
      BY <2>6, <2>7, <3>1
  <2>11. f[y].parent # f[x].parent
    <3> SUFFICES ASSUME f[y].parent = f[x].parent PROVE FALSE
      OBVIOUS
    <3>1. Earlier(f, y, x)
      BY <1>2, <2>8, <2>9 DEF n
    <3>2. f[x].stamp < f[y].stamp /\ f[x].stamp \in Int /\ f[y].stamp \in Int
      BY <1>1, <2>6, <2>7
    <3>3. QED
      BY <3>1, <3>2 DEF Earlier
  <2>12. f[y].parent >= f[x].id
    BY <1>1, <2>6, <2>7, <2>11
  <2>13. PICK z \in C : z < y /\ f[y].parent = f[z].id
    BY <1>1, <2>7, <2>10
  <2>14. z \in S /\ z \in Int
    BY <1>1, <1>7
  <2>15. x <= z
    <3>1. ~(z < x)
      BY <1>8, <2>7, <2>12, <2>13, <2>14
    <3>2. QED
      BY <2>7, <2>14, <3>1
  <2>16. x # z
    BY <1>2, <2>8, <2>9, <2>13 DEF n
  <2>17. x < z /\ z \notin Bad
    <3>1. x < z
      BY <2>7, <2>14, <2>15, <2>16
    <3>2. ~(y <= z)
      BY <2>7, <2>13, <2>14
    <3>3. QED
      BY <2>5, <3>1, <3>2
  <2>18. PICK h \in 1 .. n : t[h] = z
    BY <1>5, <2>14
  <2>19. i < h
    BY <2>4, <2>8, <2>17, <2>18 DEF Before, n
  <2>20. j < h
    BY <2>9, <2>19
  <2>21. QED
    BY <1>2, <2>8, <2>13, <2>18, <2>20 DEF n
<1>10. \A y \in C, x \in S \ C : f[c].stamp < f[x].stamp => Before(t, y, x)
  <2> DEFINE Bad == {y \in C : \E x \in S \ C : f[c].stamp < f[x].stamp /\ ~Before(t, y, x)}
  <2> SUFFICES ASSUME Bad # {} PROVE FALSE
    OBVIOUS
  <2>1. Bad \in SUBSET S
    BY <1>1
  <2>2. Bad \in SUBSET Int /\ IsFiniteSet(Bad)
    BY <1>1, <2>1, FS_Subset
  <2>3. \A y \in Bad : y \in C /\ \E x \in S \ C : f[c].stamp < f[x].stamp /\ ~Before(t, y, x)
    OBVIOUS
  <2>4. \A y \in C, x \in S \ C : f[c].stamp < f[x].stamp /\ y \notin Bad => Before(t, y, x)
    OBVIOUS
  <2> HIDE DEF Bad
  <2>5. PICK y \in Bad : \A z \in Bad : y <= z
    BY <2>2, Oldest
  <2>6. PICK x \in S \ C : f[c].stamp < f[x].stamp /\ ~Before(t, y, x)
    BY <2>3, <2>5
  <2>7. x \in S /\ y \in S /\ y \in C /\ x \in Int /\ y \in Int /\ x # y
    BY <1>1, <1>7, <2>3, <2>5
  <2>8. PICK i, j \in 1 .. n : t[i] = y /\ t[j] = x /\ ~(i < j)
    BY <2>6 DEF Before, n
  <2>9. j < i
    BY <2>7, <2>8
  <2>10. f[x].parent = NoEvent /\ x \in Roots(f, S)
    BY <1>1, <1>3, <2>6, <2>7
  <2>11. CASE y = c
    <3>1. f[y].parent = f[x].parent
      BY <1>1, <2>7, <2>10, <2>11
    <3>2. Earlier(f, x, y)
      BY <1>2, <2>8, <2>9, <3>1 DEF n
    <3>3. f[y].stamp < f[x].stamp /\ f[x].stamp \in Int /\ f[y].stamp \in Int
      BY <1>1, <2>6, <2>7, <2>11
    <3>4. QED
      BY <3>2, <3>3 DEF Earlier
  <2>12. CASE y # c
    <3>1. PICK z \in C : z < y /\ f[y].parent = f[z].id
      BY <1>1, <2>7, <2>12
    <3>2. z \in S /\ z \in Int
      BY <1>1, <1>7
    <3>3. z \notin Bad
      <4>1. ~(y <= z)
        BY <2>7, <3>1, <3>2
      <4>2. QED
        BY <2>5, <4>1
    <3>4. PICK h \in 1 .. n : t[h] = z
      BY <1>5, <3>2
    <3>5. h < j
      BY <2>4, <2>6, <2>8, <3>3, <3>4 DEF Before, n
    <3>6. Ahead(y, t, j)
      BY <1>2, <2>7, <2>8, <2>10, <3>1, <3>4, <3>5 DEF n
    <3>7. PICK a \in 1 .. j - 1 : t[a] = y
      BY <3>6 DEF Ahead
    <3>8. a \in 1 .. n /\ a # i
      BY <1>4, <2>9
    <3>9. QED
      BY <1>6, <2>8, <3>7, <3>8
  <2>13. QED
    BY <2>11, <2>12
<1>11. QED
  BY <1>9, <1>10 DEF t

LEMMA ViewUnfolds ==
    ASSUME NEW f, NEW o, NEW m \in Nat, m = Len(o)
    PROVE  /\ View(f, o)[0] = Blank
           /\ \A n \in 1 .. m : View(f, o)[n] = Apply(View(f, o)[n - 1], f[o[n]])
<1> DEFINE P(k) == \E v : v = [n \in 0 .. k |-> IF n = 0 THEN Blank
                                                 ELSE Apply(v[n - 1], f[o[n]])]
           Bad == {k \in Nat : ~P(k)}
<1>1. P(0)
  <2> DEFINE v == [n \in 0 .. 0 |-> Blank]
  <2>1. v = [n \in 0 .. 0 |-> IF n = 0 THEN Blank ELSE Apply(v[n - 1], f[o[n]])]
    OBVIOUS
  <2>2. QED
    BY <2>1
<1>2. ASSUME NEW k \in Nat, P(k) PROVE P(k + 1)
  <2>1. PICK w : w = [n \in 0 .. k |-> IF n = 0 THEN Blank ELSE Apply(w[n - 1], f[o[n]])]
    BY <1>2
  <2> DEFINE v == [n \in 0 .. k + 1 |-> IF n <= k THEN w[n] ELSE Apply(w[k], f[o[n]])]
  <2>2. ASSUME NEW n \in 0 .. k + 1
        PROVE  v[n] = IF n = 0 THEN Blank ELSE Apply(v[n - 1], f[o[n]])
    <3>1. CASE n = 0
      BY <2>1, <3>1
    <3>2. CASE n \in 1 .. k
      <4>1. n - 1 \in 0 .. k /\ n \in 0 .. k /\ n # 0 /\ n <= k /\ n - 1 <= k
        BY <3>2
      <4>2. v[n] = w[n] /\ v[n - 1] = w[n - 1]
        BY <4>1
      <4>3. w[n] = Apply(w[n - 1], f[o[n]])
        BY <2>1, <4>1
      <4>4. QED
        BY <4>1, <4>2, <4>3
    <3>3. CASE n = k + 1
      <4>1. k \in 0 .. k + 1 /\ n - 1 = k /\ n # 0 /\ ~(n <= k) /\ k <= k
        BY <3>3
      <4>2. v[n] = Apply(w[k], f[o[n]]) /\ v[k] = w[k]
        BY <4>1
      <4>3. QED
        BY <4>1, <4>2
    <3>4. QED
      BY <3>1, <3>2, <3>3
  <2>3. v = [n \in 0 .. k + 1 |-> IF n = 0 THEN Blank ELSE Apply(v[n - 1], f[o[n]])]
    BY <2>2
  <2>4. QED
    BY <2>3
<1> HIDE DEF P
<1>3. Bad = {}
  <2> SUFFICES ASSUME Bad # {} PROVE FALSE
    OBVIOUS
  <2>1. PICK k \in Bad : \A j \in Bad : k <= j
    BY Least
  <2>2. k # 0
    BY <1>1
  <2>3. k - 1 \in Nat /\ k - 1 \notin Bad
    BY <2>1, <2>2
  <2>4. P(k - 1 + 1)
    BY <1>2, <2>3
  <2>5. QED
    BY <2>1, <2>4
<1>4. \E v : v = [n \in 0 .. m |-> IF n = 0 THEN Blank ELSE Apply(v[n - 1], f[o[n]])]
  <2>1. P(m)
    BY <1>3
  <2>2. QED
    BY <2>1 DEF P
<1> DEFINE v == View(f, o)
<1>5. v = [n \in 0 .. m |-> IF n = 0 THEN Blank ELSE Apply(v[n - 1], f[o[n]])]
  BY <1>4, Zenon DEF View
<1> HIDE DEF v
<1>6. 0 \in 0 .. m
  OBVIOUS
<1>7. v[0] = Blank
  BY <1>5, <1>6
<1>8. ASSUME NEW n \in 1 .. m PROVE v[n] = Apply(v[n - 1], f[o[n]])
  <2>1. n \in 0 .. m /\ n # 0
    OBVIOUS
  <2>2. QED
    BY <1>5, <2>1
<1>9. QED
  BY <1>7, <1>8 DEF v

\* The events of the rollout, in the file or in a beginning of it.
LEMMA FileIsChain ==
    ASSUME Linked, NEW g, NEW n \in Positions, DOMAIN g = 1 .. n,
           \A x \in 1 .. n : g[x] = file[x],
           NEW first \in 1 .. n, This(first), \A j \in 1 .. first - 1 : ~This(j)
    PROVE  ChainOf(g, Scope(g, "this"), {x \in 1 .. n : Chained(x)}, first)
<1> DEFINE S == Scope(g, "this")
           C == {x \in 1 .. n : Chained(x)}
<1>1. PICK m \in Nat : m = Len(file)
  BY DEF Linked, FileTyped
<1>2. Positions = 1 .. m /\ n \in Nat /\ \A x \in 1 .. n : x \in 1 .. m
  BY <1>1 DEF Positions
<1>3. \A x : x \in S <=> x \in 1 .. n /\ This(x)
  BY DEF Scope, This
<1>4. \A x : x \in C <=> x \in 1 .. n /\ Chained(x)
  OBVIOUS
<1>5. IsFiniteSet(S) /\ S \in SUBSET Int
  <2>1. S \in SUBSET (1 .. n) /\ 1 .. n \in SUBSET Int
    BY <1>2 DEF Scope
  <2>2. IsFiniteSet(1 .. n)
    BY <1>2, FS_Interval
  <2> HIDE DEF S
  <2>3. IsFiniteSet(S)
    BY <2>1, <2>2, FS_Subset
  <2>4. QED
    BY <2>1, <2>3
<1> HIDE DEF S, C
<1>6. C \in SUBSET S
  BY <1>3, <1>4 DEF Chained
<1>7. first \in C
  BY <1>4 DEF Chained
<1>8. ASSUME NEW x \in S PROVE first <= x
  <2>1. x \in 1 .. n /\ This(x)
    BY <1>3
  <2>2. x \notin 1 .. first - 1
    BY <2>1
  <2>3. QED
    BY <1>2, <2>1, <2>2
<1>9. \A x \in S : g[x].id \in Nat /\ g[x].id # NoEvent
  <2>1. \A x \in 1 .. m : file[x] \in Entry
    BY <1>1 DEF Linked, FileTyped
  <2>2. \A x \in 1 .. m : file[x].id \in Nat
    BY <2>1 DEF Entry
  <2>3. \A x \in 1 .. m : 1 <= file[x].id
    BY <1>2 DEF Linked, IdsInOrder
  <2>4. QED
    BY <1>2, <1>3, <2>2, <2>3 DEF NoEvent
<1>10. \A x, y \in S : x < y => g[x].id < g[y].id
  BY <1>2, <1>3 DEF Linked, IdsInOrder
<1>11. file[first].parent = NoEvent
  <2> SUFFICES ASSUME file[first].parent # NoEvent PROVE FALSE
    OBVIOUS
  <2>1. PICK j \in 1 .. first - 1 : Chained(j)
    BY <1>2 DEF Linked, Unbroken
  <2>2. This(j)
    BY <2>1 DEF Chained
  <2>3. QED
    BY <2>2
<1>12. \A x \in S : g[x].parent = NoEvent \/ (x \in C /\ x # first)
  <2> SUFFICES ASSUME NEW x \in S, g[x].parent # NoEvent PROVE x \in C /\ x # first
    OBVIOUS
  <2>1. x \in 1 .. n /\ This(x) /\ file[x].parent # NoEvent
    BY <1>3
  <2>2. QED
    BY <1>4, <1>11, <2>1 DEF Chained
<1>13. ASSUME NEW x \in C, x # first PROVE x \in 1 .. n /\ This(x) /\ file[x].parent # NoEvent
  <2>1. x \in 1 .. n /\ Chained(x) /\ This(x)
    BY <1>4 DEF Chained
  <2>2. first \in 1 .. x - 1
    <3>1. first <= x
      BY <1>6, <1>8
    <3>2. QED
      BY <1>2, <1>13, <2>1, <3>1
  <2>3. QED
    BY <2>1, <2>2 DEF Chained
<1>14. ASSUME NEW x \in C, x # first
       PROVE  \E z \in C : z < x /\ g[x].parent = g[z].id
  <2>1. x \in 1 .. n /\ This(x) /\ file[x].parent # NoEvent
    BY <1>13, <1>14
  <2>2. PICK z \in 1 .. x - 1 : file[z].id = file[x].parent /\ Chained(z)
    BY <1>2, <2>1 DEF Linked, Unbroken
  <2>3. z \in 1 .. n /\ z < x
    BY <1>2, <2>1
  <2>4. QED
    BY <1>4, <2>1, <2>2, <2>3
<1>15. ASSUME NEW x \in C, NEW y \in C, x < y
       PROVE  g[y].parent >= g[x].id \/ g[y].parent = g[x].parent
  <2>1. x \in 1 .. n /\ Chained(x) /\ y \in 1 .. n
    BY <1>4
  <2>2. y # first
    <3>1. first <= x
      BY <1>6, <1>8
    <3>2. QED
      BY <1>2, <1>15, <2>1, <3>1
  <2>3. This(y) /\ file[y].parent # NoEvent
    BY <1>13, <2>2
  <2>4. file[y].parent >= file[x].id \/ file[y].parent = file[x].parent
    BY <1>2, <1>15, <2>1, <2>3 DEF Linked, Comb
  <2>5. QED
    BY <2>1, <2>4
<1>16. \A x \in S : g[x].stamp \in Int
  <2>1. \A x \in 1 .. m : file[x] \in Entry
    BY <1>1 DEF Linked, FileTyped
  <2>2. QED
    BY <1>2, <1>3, <2>1 DEF Entry
<1>17. ASSUME NEW x \in C, NEW y \in C, x < y, g[y].parent = g[x].parent
       PROVE  g[x].stamp < g[y].stamp
  <2>1. x \in 1 .. n /\ y \in 1 .. n /\ This(x)
    BY <1>4 DEF Chained
  <2>2. y # first
    <3>1. first <= x
      BY <1>6, <1>8
    <3>2. QED
      BY <1>2, <1>17, <2>1, <3>1
  <2>3. This(y) /\ file[y].parent # NoEvent
    BY <1>13, <2>2
  <2>4. file[x].parent = file[y].parent
    BY <1>17, <2>1
  <2>5. file[x].stamp < file[y].stamp
    BY <1>2, <1>17, <2>1, <2>3, <2>4 DEF Linked, Stamped
  <2>6. QED
    BY <2>1, <2>5
<1>18. QED
  BY <1>5, <1>6, <1>7, <1>8, <1>9, <1>10, <1>12, <1>14, <1>15, <1>16, <1>17 DEF ChainOf, S, C

-----------------------------------------------------------------------------
(***************************************************************************)
(* What a replay of an event shows.                                        *)
(***************************************************************************)

\* What the rollout's events of a file amount to, read in the order of the file.
Entered(v, e) == IF e.deployment = "this" THEN Apply(v, e) ELSE v

\* An event that changes nothing.
Quiet(e) == \A v : Entered(v, e) = v

Book(f) ==
    LET b[n \in 0 .. Len(f)] == IF n = 0 THEN Blank ELSE Entered(b[n - 1], f[n])
    IN  b

LEMMA BookUnfolds ==
    ASSUME NEW f, NEW m \in Nat, m = Len(f)
    PROVE  /\ Book(f)[0] = Blank
           /\ \A n \in 1 .. m : Book(f)[n] = Entered(Book(f)[n - 1], f[n])
<1> DEFINE P(k) == \E b : b = [n \in 0 .. k |-> IF n = 0 THEN Blank
                                                 ELSE Entered(b[n - 1], f[n])]
           Bad == {k \in Nat : ~P(k)}
<1>1. P(0)
  <2> DEFINE b == [n \in 0 .. 0 |-> Blank]
  <2>1. b = [n \in 0 .. 0 |-> IF n = 0 THEN Blank ELSE Entered(b[n - 1], f[n])]
    OBVIOUS
  <2>2. QED
    BY <2>1
<1>2. ASSUME NEW k \in Nat, P(k) PROVE P(k + 1)
  <2>1. PICK w : w = [n \in 0 .. k |-> IF n = 0 THEN Blank ELSE Entered(w[n - 1], f[n])]
    BY <1>2
  <2> DEFINE b == [n \in 0 .. k + 1 |-> IF n <= k THEN w[n] ELSE Entered(w[k], f[n])]
  <2>2. ASSUME NEW n \in 0 .. k + 1
        PROVE  b[n] = IF n = 0 THEN Blank ELSE Entered(b[n - 1], f[n])
    <3>1. CASE n = 0
      BY <2>1, <3>1
    <3>2. CASE n \in 1 .. k
      <4>1. n - 1 \in 0 .. k /\ n \in 0 .. k /\ n # 0 /\ n <= k /\ n - 1 <= k
        BY <3>2
      <4>2. b[n] = w[n] /\ b[n - 1] = w[n - 1]
        BY <4>1
      <4>3. w[n] = Entered(w[n - 1], f[n])
        BY <2>1, <4>1
      <4>4. QED
        BY <4>1, <4>2, <4>3
    <3>3. CASE n = k + 1
      <4>1. k \in 0 .. k + 1 /\ n - 1 = k /\ n # 0 /\ ~(n <= k) /\ k <= k
        BY <3>3
      <4>2. b[n] = Entered(w[k], f[n]) /\ b[k] = w[k]
        BY <4>1
      <4>3. QED
        BY <4>1, <4>2
    <3>4. QED
      BY <3>1, <3>2, <3>3
  <2>3. b = [n \in 0 .. k + 1 |-> IF n = 0 THEN Blank ELSE Entered(b[n - 1], f[n])]
    BY <2>2
  <2>4. QED
    BY <2>3
<1> HIDE DEF P
<1>3. Bad = {}
  <2> SUFFICES ASSUME Bad # {} PROVE FALSE
    OBVIOUS
  <2>1. PICK k \in Bad : \A j \in Bad : k <= j
    BY Least
  <2>2. k # 0
    BY <1>1
  <2>3. k - 1 \in Nat /\ k - 1 \notin Bad
    BY <2>1, <2>2
  <2>4. P(k - 1 + 1)
    BY <1>2, <2>3
  <2>5. QED
    BY <2>1, <2>4
<1>4. \E b : b = [n \in 0 .. m |-> IF n = 0 THEN Blank ELSE Entered(b[n - 1], f[n])]
  <2>1. P(m)
    BY <1>3
  <2>2. QED
    BY <2>1 DEF P
<1> DEFINE b == Book(f)
<1>5. b = [n \in 0 .. m |-> IF n = 0 THEN Blank ELSE Entered(b[n - 1], f[n])]
  BY <1>4, Zenon DEF Book
<1> HIDE DEF b
<1>6. 0 \in 0 .. m
  OBVIOUS
<1>7. b[0] = Blank
  BY <1>5, <1>6
<1>8. ASSUME NEW n \in 1 .. m PROVE b[n] = Entered(b[n - 1], f[n])
  <2>1. n \in 0 .. m /\ n # 0
    OBVIOUS
  <2>2. QED
    BY <1>5, <2>1
<1>9. QED
  BY <1>7, <1>8 DEF b

\* What the first n events amount to does not depend on those that follow.
LEMMA BookAgrees ==
    ASSUME NEW f, NEW g, Len(f) \in Nat, Len(g) \in Nat, NEW n \in Nat,
           n <= Len(f), n <= Len(g), \A k \in 1 .. n : f[k] = g[k]
    PROVE  Book(f)[n] = Book(g)[n]
<1> DEFINE a == Book(f)
           b == Book(g)
           Bad == {k \in 0 .. n : a[k] # b[k]}
<1>1. a[0] = Blank /\ \A k \in 1 .. Len(f) : a[k] = Entered(a[k - 1], f[k])
  BY BookUnfolds
<1>2. b[0] = Blank /\ \A k \in 1 .. Len(g) : b[k] = Entered(b[k - 1], g[k])
  BY BookUnfolds
<1> HIDE DEF a, b
<1>3. Bad = {}
  <2> SUFFICES ASSUME Bad # {} PROVE FALSE
    OBVIOUS
  <2>1. Bad \in SUBSET Nat
    OBVIOUS
  <2>2. PICK k \in Bad : \A j \in Bad : k <= j
    BY <2>1, Least
  <2>3. k # 0
    BY <1>1, <1>2
  <2>4. k \in 1 .. n /\ k - 1 \in 0 .. n /\ ~(k <= k - 1)
    BY <2>3
  <2>5. a[k - 1] = b[k - 1]
    BY <2>2, <2>4
  <2>6. k \in 1 .. Len(f) /\ k \in 1 .. Len(g)
    BY <2>4
  <2>7. a[k] = Entered(a[k - 1], f[k]) /\ b[k] = Entered(b[k - 1], g[k])
    BY <1>1, <1>2, <2>6
  <2>8. a[k] = b[k]
    BY <2>4, <2>5, <2>7
  <2>9. QED
    BY <2>2, <2>8
<1>4. QED
  BY <1>3 DEF a, b

LEMMA Unchanged ==
    ASSUME NEW v, NEW a \in Nat, NEW b \in Nat, a <= b,
           \A j \in a + 1 .. b : v[j] = v[j - 1]
    PROVE  v[b] = v[a]
<1> DEFINE Bad == {j \in a .. b : v[j] # v[a]}
<1> SUFFICES ASSUME Bad # {} PROVE FALSE
  <2>1. b \in a .. b
    OBVIOUS
  <2>2. QED
    BY <2>1
<1>1. Bad \in SUBSET Nat
  OBVIOUS
<1>2. PICK j \in Bad : \A g \in Bad : j <= g
  BY <1>1, Least
<1>3. j # a
  OBVIOUS
<1>4. j \in a + 1 .. b /\ j - 1 \in a .. b /\ ~(j <= j - 1)
  BY <1>3
<1>5. v[j - 1] = v[a]
  BY <1>2, <1>4
<1>6. v[j] = v[j - 1]
  BY <1>4
<1>7. QED
  BY <1>2, <1>5, <1>6

\* Of the first h events of t, those that change anything are those of the file up
\* to m, in the order of the file.
Reads(f, t, h, m) ==
    /\ \A i \in 1 .. h : f[t[i]].deployment = "this"
    /\ \A i \in 1 .. h : Quiet(f[t[i]]) \/ t[i] \in 1 .. m
    /\ \A x \in 1 .. m : Quiet(f[x]) \/ \E i \in 1 .. h : t[i] = x
    /\ \A i, j \in 1 .. h : i < j => Quiet(f[t[i]]) \/ Quiet(f[t[j]]) \/ t[i] < t[j]

\* They show what the file up to m amounts to.
LEMMA InOrder ==
    ASSUME NEW f, Len(f) \in Nat, NEW m \in Nat, m <= Len(f),
           NEW t, Len(t) \in Nat, NEW h \in Nat, h <= Len(t), Reads(f, t, h, m)
    PROVE  View(f, t)[h] = Book(f)[m]
<1> DEFINE v == View(f, t)
           b == Book(f)
           Calm(i) == Quiet(f[t[i]])
           Good(n) == \E j \in 0 .. h : /\ \A i \in 1 .. j : Calm(i) \/ t[i] <= n
                                        /\ \A i \in j + 1 .. h : Calm(i) \/ n < t[i]
                                        /\ v[j] = b[n]
           Bad == {n \in 0 .. m : ~Good(n)}
<1>1. v[0] = Blank /\ \A j \in 1 .. h : v[j] = Entered(v[j - 1], f[t[j]])
  <2>1. v[0] = Blank /\ \A j \in 1 .. Len(t) : v[j] = Apply(v[j - 1], f[t[j]])
    BY ViewUnfolds
  <2>2. \A j \in 1 .. h : j \in 1 .. Len(t)
    OBVIOUS
  <2>3. \A i \in 1 .. h : f[t[i]].deployment = "this"
    BY DEF Reads
  <2>4. QED
    BY <2>1, <2>2, <2>3 DEF Entered
<1>2. b[0] = Blank /\ \A n \in 1 .. m : b[n] = Entered(b[n - 1], f[n])
  <2>1. b[0] = Blank /\ \A n \in 1 .. Len(f) : b[n] = Entered(b[n - 1], f[n])
    BY BookUnfolds
  <2>2. \A n \in 1 .. m : n \in 1 .. Len(f)
    OBVIOUS
  <2>3. QED
    BY <2>1, <2>2
<1> HIDE DEF v, b
<1>3. /\ \A j \in 1 .. h : Calm(j) => v[j] = v[j - 1]
      /\ \A n \in 1 .. m : Quiet(f[n]) => b[n] = b[n - 1]
  BY <1>1, <1>2 DEF Quiet
<1>4. /\ \A i \in 1 .. h : Calm(i) \/ t[i] \in 1 .. m
      /\ \A x \in 1 .. m : Quiet(f[x]) \/ \E i \in 1 .. h : t[i] = x
      /\ \A i, j \in 1 .. h : i < j => Calm(i) \/ Calm(j) \/ t[i] < t[j]
      /\ \A i \in 1 .. h : Calm(i) <=> Quiet(f[t[i]])
  BY DEF Reads
<1> HIDE DEF Calm
<1>5. Good(0)
  <2>1. \A i \in 0 + 1 .. h : Calm(i) \/ 0 < t[i]
    BY <1>4
  <2>2. 0 \in 0 .. h /\ v[0] = b[0] /\ \A i \in 1 .. 0 : Calm(i) \/ t[i] <= 0
    BY <1>1, <1>2
  <2>3. QED
    BY <2>1, <2>2
<1>6. ASSUME NEW n \in 1 .. m, Good(n - 1) PROVE Good(n)
  <2>1. PICK j \in 0 .. h : /\ \A i \in 1 .. j : Calm(i) \/ t[i] <= n - 1
                            /\ \A i \in j + 1 .. h : Calm(i) \/ n - 1 < t[i]
                            /\ v[j] = b[n - 1]
    BY <1>6
  <2>2. \A i \in 1 .. j : i \in 1 .. h
    OBVIOUS
  <2>3. \A i \in 1 .. j : Calm(i) \/ (t[i] <= n /\ t[i] # n)
    BY <1>4, <2>1, <2>2
  <2>4. \A i \in j + 1 .. h : i \in 1 .. h
    OBVIOUS
  <2>5. CASE Quiet(f[n])
    <3>1. v[j] = b[n]
      BY <1>3, <2>1, <2>5
    <3>2. ASSUME NEW i \in j + 1 .. h PROVE Calm(i) \/ n < t[i]
      <4>1. i \in 1 .. h
        BY <2>4
      <4>2. t[i] = n => Calm(i)
        BY <1>4, <2>5, <4>1
      <4>3. Calm(i) \/ (t[i] \in 1 .. m /\ n - 1 < t[i])
        BY <1>4, <2>1, <4>1
      <4>4. QED
        BY <4>2, <4>3
    <3>3. QED
      BY <2>3, <3>1, <3>2
  <2>6. CASE ~Quiet(f[n])
    <3>1. PICK k \in 1 .. h : t[k] = n
      BY <1>4, <2>6
    <3>2. ~Calm(k)
      BY <1>4, <2>6, <3>1
    <3>3. k \notin 1 .. j
      BY <2>3, <3>1, <3>2
    <3>4. PICK l \in Nat : l = k - 1 /\ j <= l /\ k = l + 1 /\ l < h
      BY <3>3
    <3>5. ASSUME NEW i \in j + 1 .. l PROVE Calm(i) /\ i \in 1 .. h
      <4>1. i \in j + 1 .. h /\ i \in 1 .. h /\ i < k
        BY <3>4
      <4>2. Calm(i) \/ (n - 1 < t[i] /\ t[i] \in 1 .. m /\ t[i] < n)
        BY <1>4, <2>1, <3>1, <3>2, <4>1
      <4>3. QED
        BY <4>1, <4>2
    <3>6. v[l] = v[j]
      <4>1. \A i \in j + 1 .. l : v[i] = v[i - 1]
        BY <1>3, <3>5
      <4>2. QED
        BY <3>4, <4>1, Unchanged
    <3>7. v[k] = b[n]
      <4>1. v[k] = Entered(v[k - 1], f[n])
        BY <1>1, <3>1
      <4>2. QED
        BY <1>2, <2>1, <3>4, <3>6, <4>1
    <3>8. \A i \in 1 .. k : Calm(i) \/ t[i] <= n
      <4>1. \A i \in 1 .. k : i \in 1 .. j \/ i \in j + 1 .. l \/ i = k
        BY <3>4
      <4>2. t[k] <= n
        BY <3>1
      <4>3. QED
        BY <2>3, <3>5, <4>1, <4>2
    <3>9. \A i \in k + 1 .. h : Calm(i) \/ n < t[i]
      <4>1. \A i \in k + 1 .. h : i \in 1 .. h /\ k < i
        OBVIOUS
      <4>2. QED
        BY <1>4, <3>1, <3>2, <4>1
    <3>10. k \in 0 .. h
      OBVIOUS
    <3>11. QED
      BY <3>7, <3>8, <3>9, <3>10
  <2>7. QED
    BY <2>5, <2>6
<1>7. Good(m)
  <2> HIDE DEF Good
  <2>1. Bad = {}
    <3> SUFFICES ASSUME Bad # {} PROVE FALSE
      OBVIOUS
    <3>1. Bad \in SUBSET Nat
      OBVIOUS
    <3>2. PICK n \in Bad : \A k \in Bad : n <= k
      BY <3>1, Least
    <3>3. n # 0
      BY <1>5
    <3>4. n \in 1 .. m /\ n - 1 \in 0 .. m /\ ~(n <= n - 1)
      BY <3>3
    <3>5. Good(n - 1)
      BY <3>2, <3>4
    <3>6. QED
      BY <1>6, <3>2, <3>4, <3>5
  <2>2. m \in 0 .. m
    OBVIOUS
  <2>3. QED
    BY <2>1, <2>2
<1>8. PICK j \in 0 .. h : (\A i \in j + 1 .. h : Calm(i) \/ m < t[i]) /\ v[j] = b[m]
  BY <1>7
<1>9. \A i \in j + 1 .. h : v[i] = v[i - 1]
  <2>1. ASSUME NEW i \in j + 1 .. h PROVE Calm(i) /\ i \in 1 .. h
    <3>1. i \in 1 .. h
      OBVIOUS
    <3>2. Calm(i) \/ (m < t[i] /\ t[i] \in 1 .. m)
      BY <1>4, <1>8, <3>1
    <3>3. QED
      BY <3>1, <3>2
  <2>2. QED
    BY <1>3, <2>1
<1>10. v[h] = v[j]
  <2>1. j \in Nat /\ j <= h
    OBVIOUS
  <2>2. QED
    BY <1>9, <2>1, Unchanged
<1>11. QED
  BY <1>8, <1>10 DEF v, b

\* A replay of an event of the chain, or of a later one that ends the file, shows
\* what the file up to there amounts to, when no event off the chain changes
\* anything but a later one.
LEMMA ReplayReadsBook ==
    ASSUME NEW f, Len(f) \in Nat,
           NEW S, NEW C, NEW c, ChainOf(f, S, C, c),
           \A x : x \in S <=> x \in 1 .. Len(f) /\ f[x].deployment = "this",
           NEW m \in S, m \in C \/ (m = Len(f) /\ f[c].stamp < f[m].stamp),
           \A x \in S : x \in C \/ Quiet(f[x]) \/ (m <= x /\ f[c].stamp < f[x].stamp)
    PROVE  ReplayAlong(f, Timeline(f, S), f[m]) = Book(f)[m]
<1> DEFINE t == Timeline(f, S)
           n == Len(t)
<1>1. t \in Seq(S) /\ (\A x \in S : Among(x, t)) /\ Once(t)
  BY ChainForest, TimelineOfForest
<1>2. /\ \A x, y \in C : x < y => Before(t, x, y)
      /\ \A y \in C, x \in S \ C : f[c].stamp < f[x].stamp => Before(t, y, x)
  BY ChainFirst
<1>3. C \in SUBSET S /\ \A x, y \in S : f[x].id = f[y].id => x = y
  BY ChainForest DEF ChainOf, Forest
<1> HIDE DEF t
<1>4. n \in Nat /\ DOMAIN t = 1 .. n /\ \A i \in 1 .. n : t[i] \in S
  BY <1>1
<1> HIDE DEF n
<1>5. \A x \in S : \E i \in 1 .. n : t[i] = x
  BY <1>1 DEF Among, n
<1>6. \A i, j \in 1 .. n : t[i] = t[j] => i = j
  BY <1>1 DEF Once, n
<1>7. /\ \A x, y \in C : x < y => \A i, j \in 1 .. n : t[i] = x /\ t[j] = y => i < j
      /\ \A y \in C, x \in S \ C :
            f[c].stamp < f[x].stamp => \A i, j \in 1 .. n : t[i] = y /\ t[j] = x => i < j
  BY <1>2 DEF Before, n
<1>8. \A x \in S : x \in 1 .. Len(f) /\ f[x].deployment = "this"
  OBVIOUS
<1>9. PICK h \in 1 .. n : t[h] = m
  BY <1>5
<1>10. \A i \in 1 .. h : i \in 1 .. n /\ i <= h /\ t[i] \in S
  BY <1>4
\* What is read by then, and changes anything, is not later in the file.
<1>11. ASSUME NEW i \in 1 .. h, ~Quiet(f[t[i]])
       PROVE  t[i] \in 1 .. m /\ (t[i] \in C \/ i = h)
  <2> DEFINE x == t[i]
  <2>1. x \in S /\ x \in 1 .. Len(f) /\ m \in 1 .. Len(f) /\ i \in 1 .. n /\ i <= h
    BY <1>8, <1>10
  <2>2. x \in C \/ (m <= x /\ f[c].stamp < f[x].stamp)
    BY <1>11, <2>1
  <2>3. CASE m = Len(f)
    <3>1. x \in 1 .. m
      BY <2>1, <2>3
    <3>2. x \in C \/ x = m
      BY <2>1, <2>2, <3>1
    <3>3. x = m => i = h
      BY <1>6, <1>9, <2>1
    <3>4. QED
      BY <3>1, <3>2, <3>3
  <2>4. CASE m \in C /\ x \in C
    <3>1. ~(m < x)
      BY <1>7, <1>9, <2>1, <2>4
    <3>2. QED
      BY <2>1, <2>4, <3>1
  <2>5. CASE m \in C /\ x \notin C
    <3>1. h < i
      BY <1>7, <1>9, <2>1, <2>2, <2>5
    <3>2. QED
      BY <2>1, <3>1
  <2>6. QED
    BY <2>3, <2>4, <2>5
\* What changes anything, and is not later in the file, is read by then.
<1>12. ASSUME NEW x \in 1 .. m, ~Quiet(f[x])
       PROVE  \E i \in 1 .. h : t[i] = x
  <2>1. m \in 1 .. Len(f)
    BY <1>8
  <2>2. x \in 1 .. Len(f)
    BY <2>1
  <2>3. x \in S
    BY <1>12, <2>2 DEF Quiet, Entered
  <2>4. PICK i \in 1 .. n : t[i] = x
    BY <1>5, <2>3
  <2>5. x \in C \/ x = m
    BY <1>12, <2>1, <2>3
  <2>6. ~(h < i)
    <3>1. CASE x = m
      BY <1>6, <1>9, <2>4, <3>1
    <3>2. CASE x \in C /\ x # m /\ m \in C
      <4>1. x < m
        BY <2>1, <3>2
      <4>2. i < h
        BY <1>7, <1>9, <2>4, <3>2, <4>1
      <4>3. QED
        BY <4>2
    <3>3. CASE x \in C /\ m \notin C
      <4>1. i < h
        BY <1>7, <1>9, <2>4, <3>3
      <4>2. QED
        BY <4>1
    <3>4. QED
      BY <2>5, <3>1, <3>2, <3>3
  <2>7. QED
    BY <2>4, <2>6
<1>13. ASSUME NEW i \in 1 .. h, NEW j \in 1 .. h, i < j, ~Quiet(f[t[i]]), ~Quiet(f[t[j]])
       PROVE  t[i] < t[j]
  <2>1. i \in 1 .. n /\ j \in 1 .. n /\ i # h
    BY <1>10, <1>13
  <2>2. t[i] \in C /\ t[i] \in 1 .. m /\ t[j] \in 1 .. m /\ (t[j] \in C \/ j = h)
    BY <1>11, <1>13, <2>1
  <2>3. t[i] # t[j]
    BY <1>6, <1>13, <2>1
  <2>4. m \in 1 .. Len(f)
    BY <1>8
  <2>5. CASE t[j] \in C
    <3>1. ~(t[j] < t[i])
      BY <1>7, <1>13, <2>1, <2>2, <2>5
    <3>2. QED
      BY <2>2, <2>3, <2>4, <3>1
  <2>6. CASE j = h
    BY <1>9, <2>2, <2>3, <2>4, <2>6
  <2>7. QED
    BY <2>2, <2>5, <2>6
<1>14. View(f, t)[h] = Book(f)[m]
  <2>1. m \in 1 .. Len(f) /\ \A i \in 1 .. h : f[t[i]].deployment = "this"
    BY <1>8, <1>10
  <2>2. m \in Nat /\ m <= Len(f) /\ h \in Nat /\ h <= Len(t) /\ Len(t) \in Nat
    BY <1>4, <2>1 DEF n
  <2>3. Reads(f, t, h, m)
    BY <1>11, <1>12, <1>13, <2>1 DEF Reads
  <2>4. QED
    BY <2>2, <2>3, InOrder
<1>15. ReplayAlong(f, t, f[m]) = View(f, t)[h]
  <2>1. \A i \in DOMAIN t : f[t[i]].id = f[m].id => i = h
    BY <1>3, <1>4, <1>6, <1>9
  <2>2. h \in DOMAIN t /\ f[t[h]].id = f[m].id
    BY <1>4, <1>9
  <2>3. (CHOOSE i \in DOMAIN t : f[t[i]].id = f[m].id) = h
    BY <2>1, <2>2
  <2>4. QED
    BY <2>3 DEF ReplayAlong
<1>16. QED
  BY <1>14, <1>15 DEF t

\* The parts of a virtual state.
Shaped(v) == v = [status |-> v.status, target |-> v.target, servers |-> v.servers]

\* Events that move no server.
Still(type) == type \notin {"deployment_start", "stage_transition", "rollback_complete"}

\* A virtual state is known by its parts.
LEMMA Parts ==
    ASSUME NEW v, Shaped(v)
    PROVE  \E a, b, c : /\ v = [status |-> a, target |-> b, servers |-> c]
                        /\ v.target = b /\ v.servers = c
BY DEF Shaped

LEMMA OfParts ==
    ASSUME NEW a, NEW b, NEW c, NEW v, v = [status |-> a, target |-> b, servers |-> c]
    PROVE  Shaped(v) /\ v.target = b /\ v.servers = c
BY DEF Shaped

\* What an event does to the servers of a virtual state, and to its target.
LEMMA ApplyStart ==
    ASSUME NEW v, Shaped(v), NEW e, e.type = "deployment_start"
    PROVE  /\ Shaped(Apply(v, e))
           /\ Apply(v, e).target = e.target /\ Apply(v, e).servers = v.servers
<1>1. PICK a, b, c : v = [status |-> a, target |-> b, servers |-> c] /\ v.servers = c
  BY Parts
<1>2. Apply(v, e) = [status |-> "in_progress", target |-> e.target, servers |-> c]
  BY <1>1 DEF Apply
<1>3. QED
  BY <1>1, <1>2, OfParts

LEMMA ApplyStage ==
    ASSUME NEW v, Shaped(v), NEW e, e.type = "stage_transition"
    PROVE  /\ Shaped(Apply(v, e)) /\ Apply(v, e).target = v.target
           /\ DOMAIN Apply(v, e).servers = DOMAIN v.servers \cup e.servers
           /\ \A s \in DOMAIN v.servers \cup e.servers :
                 Apply(v, e).servers[s] = IF s \in e.servers THEN v.target ELSE v.servers[s]
<1>1. PICK a, b, c : /\ v = [status |-> a, target |-> b, servers |-> c]
                     /\ v.target = b /\ v.servers = c
  BY Parts
<1> DEFINE moved == [s \in DOMAIN c \cup e.servers |-> IF s \in e.servers THEN b ELSE c[s]]
<1>2. Apply(v, e) = [status |-> a, target |-> b, servers |-> moved]
  BY <1>1 DEF Apply
<1>3. /\ DOMAIN moved = DOMAIN c \cup e.servers
      /\ \A s \in DOMAIN c \cup e.servers : moved[s] = IF s \in e.servers THEN b ELSE c[s]
  OBVIOUS
<1> HIDE DEF moved
<1>4. Shaped(Apply(v, e)) /\ Apply(v, e).target = b /\ Apply(v, e).servers = moved
  BY <1>2, OfParts
<1>5. QED
  BY <1>1, <1>3, <1>4

LEMMA ApplyRollback ==
    ASSUME NEW v, Shaped(v), NEW e, e.type = "rollback_complete"
    PROVE  /\ Shaped(Apply(v, e)) /\ Apply(v, e).target = v.target
           /\ DOMAIN Apply(v, e).servers = DOMAIN v.servers
           /\ \A s \in DOMAIN v.servers :
                 Apply(v, e).servers[s] = IF s \in e.servers THEN Source ELSE v.servers[s]
<1>1. PICK a, b, c : /\ v = [status |-> a, target |-> b, servers |-> c]
                     /\ v.target = b /\ v.servers = c
  BY Parts
<1> DEFINE moved == [s \in DOMAIN c |-> IF s \in e.servers THEN Source ELSE c[s]]
<1>2. Apply(v, e) = [status |-> "rolled_back", target |-> b, servers |-> moved]
  BY <1>1 DEF Apply
<1>3. /\ DOMAIN moved = DOMAIN c
      /\ \A s \in DOMAIN c : moved[s] = IF s \in e.servers THEN Source ELSE c[s]
  OBVIOUS
<1> HIDE DEF moved
<1>4. Shaped(Apply(v, e)) /\ Apply(v, e).target = b /\ Apply(v, e).servers = moved
  BY <1>2, OfParts
<1>5. QED
  BY <1>1, <1>3, <1>4

LEMMA ApplyStill ==
    ASSUME NEW v, Shaped(v), NEW e, Still(e.type)
    PROVE  /\ Shaped(Apply(v, e))
           /\ Apply(v, e).target = v.target /\ Apply(v, e).servers = v.servers
<1>1. PICK a, b, c : /\ v = [status |-> a, target |-> b, servers |-> c]
                     /\ v.target = b /\ v.servers = c
  BY Parts
<1>2. PICK x : Apply(v, e) = [status |-> x, target |-> b, servers |-> c]
  BY <1>1 DEF Apply, Still
<1>3. QED
  BY <1>1, <1>2, OfParts

LEMMA BookShaped ==
    ASSUME NEW f, NEW m \in Nat, m = Len(f), NEW n \in 0 .. m
    PROVE  Shaped(Book(f)[n])
<1> DEFINE b == Book(f)
           Bad == {k \in 0 .. m : ~Shaped(b[k])}
<1>1. b[0] = Blank /\ \A k \in 1 .. m : b[k] = Entered(b[k - 1], f[k])
  BY BookUnfolds
<1> HIDE DEF b
<1>2. Bad = {}
  <2> SUFFICES ASSUME Bad # {} PROVE FALSE
    OBVIOUS
  <2>1. Bad \in SUBSET Nat
    OBVIOUS
  <2>2. PICK k \in Bad : \A j \in Bad : k <= j
    BY <2>1, Least
  <2>3. k # 0
    BY <1>1 DEF Blank, Shaped
  <2>4. k \in 1 .. m /\ k - 1 \in 0 .. m /\ ~(k <= k - 1)
    BY <2>3
  <2>5. Shaped(b[k - 1])
    BY <2>2, <2>4
  <2>6. b[k] = b[k - 1] \/ b[k] = Apply(b[k - 1], f[k])
    BY <1>1, <2>4 DEF Entered
  <2>7. Shaped(Apply(b[k - 1], f[k]))
    BY <2>5, ApplyStart, ApplyStage, ApplyRollback, ApplyStill DEF Still
  <2>8. QED
    BY <2>5, <2>6, <2>7
<1>3. QED
  BY <1>2 DEF b

\* Events that move no server leave the book's servers and target as they were.
LEMMA StillBook ==
    ASSUME NEW f, NEW N \in Nat, NEW T \in Nat, N + T = Len(f),
           \A k \in 1 .. T : f[N + k].deployment = "this" /\ Still(f[N + k].type)
    PROVE  /\ Book(f)[N + T].servers = Book(f)[N].servers
           /\ Book(f)[N + T].target = Book(f)[N].target
<1> DEFINE b == Book(f)
           Same(k) == b[N + k].servers = b[N].servers /\ b[N + k].target = b[N].target
           Bad == {k \in 0 .. T : ~Same(k)}
<1>1. /\ \A k \in 1 .. N + T : b[k] = Entered(b[k - 1], f[k])
      /\ \A k \in 0 .. N + T : Shaped(b[k])
  BY BookUnfolds, BookShaped
<1> HIDE DEF b
<1>2. Bad = {}
  <2> SUFFICES ASSUME Bad # {} PROVE FALSE
    OBVIOUS
  <2>1. Bad \in SUBSET Nat
    OBVIOUS
  <2>2. PICK k \in Bad : \A j \in Bad : k <= j
    BY <2>1, Least
  <2>3. k # 0
    BY DEF Same
  <2>4. k \in 1 .. T /\ k - 1 \in 0 .. T /\ ~(k <= k - 1)
    BY <2>3
  <2>5. Same(k - 1)
    BY <2>2, <2>4
  <2>6. N + k \in 1 .. N + T /\ N + (k - 1) \in 0 .. N + T /\ N + k - 1 = N + (k - 1)
    BY <2>4
  <2> DEFINE e == f[N + k]
             v == b[N + (k - 1)]
  <2>7. b[N + k] = Entered(v, e) /\ Shaped(v)
    BY <1>1, <2>6
  <2>8. e.deployment = "this" /\ Still(e.type)
    BY <2>4
  <2> HIDE DEF e, v
  <2>9. Apply(v, e).servers = v.servers /\ Apply(v, e).target = v.target
    BY <2>7, <2>8, ApplyStill
  <2>10. b[N + k].servers = v.servers /\ b[N + k].target = v.target
    BY <2>7, <2>8, <2>9 DEF Entered
  <2>11. QED
    BY <2>2, <2>5, <2>10 DEF Same, v
<1>3. Same(T)
  BY <1>2
<1>4. QED
  BY <1>3 DEF b, Same

-----------------------------------------------------------------------------
(***************************************************************************)
(* What the file shows of the servers: the inductive invariant.            *)
(***************************************************************************)

\* What the events of the file amount to.
Shown == Book(file)[Len(file)]

Hushed == RootTypes \cup {"rollback_start"}

\* The rollout's first event is its start.
StartFirst ==
    \A k \in Positions :
        This(k) /\ (\A j \in 1 .. k - 1 : ~This(j)) => file[k].type = "deployment_start"

ByHand == \E j \in Positions : file[j].type = "rollback_start" /\ file[j].parent = NoEvent

\* The one event off the chain that moves servers ends a rollback by hand, and
\* with it the file; and so does an event under the engine's own id.
HandLast ==
    /\ \A k \in Positions :
          This(k) /\ ~Chained(k) /\ file[k].type \notin Hushed =>
              /\ k = Len(file) /\ pc = "done" /\ ByHand
              /\ \A j \in Positions : Chained(j) => file[j].stamp < file[k].stamp
    /\ \A k \in Positions :
          file[k].deployment = "own" =>
              pc = "done" /\ ByHand /\ file[Len(file)].deployment = "own"

Framed == StartFirst /\ HandLast

\* A rollback by hand was recorded under the engine's own id.
Astray == \E k \in Positions : file[k].deployment = "own"

\* The file shows the servers on the books, all on the new version until the
\* rollout is over; after that, of ordinary servers, those that still run it.
ServersShown ==
    ~Astray =>
        /\ DOMAIN Shown.servers = updated
        /\ pc # "start" => Shown.target = Target
        /\ pc # "done" => \A s \in updated : Shown.servers[s] = Target
        /\ pc = "done" => \A s \in updated \cap Ordinary :
                             Shown.servers[s] = Target <=> server[s].version = Target

ReplayInv == AuditInv /\ Books /\ Framed /\ ServersShown

\* What a step's new events add to it.
LEMMA LogShows ==
    ASSUME TypeOK, NEW types \in Seq(AuditType), Log(types), Linked
    PROVE  /\ Shaped(Shown)
           /\ (\A k \in DOMAIN types : Still(types[k])) =>
                 Shown'.servers = Shown.servers /\ Shown'.target = Shown.target
           /\ \A t : types = <<t>> =>
                 \E e : /\ e.type = t /\ e.servers = Named(t) /\ e.target = Target
                        /\ Shown' = Apply(Shown, e)
           /\ types = <<"deployment_start", "snapshot_create">> =>
                 Shown'.servers = Shown.servers /\ Shown'.target = Target
<1>0. PICK N \in Nat : N = Len(file)
  BY DEF Linked, FileTyped
<1> DEFINE T == Len(types)
           g == file'
           b == Book(g)
<1>1. N \in Nat /\ T \in Nat /\ DOMAIN types = 1 .. T
  OBVIOUS
<1>2. Len(g) = N + T /\ \A k \in 1 .. N : g[k] = file[k]
  BY <1>0, LogWrites DEF Linked, FileTyped
<1>3. \A k \in 1 .. T : /\ g[N + k].deployment = "this" /\ g[N + k].type = types[k]
                        /\ g[N + k].servers = Named(types[k]) /\ g[N + k].target = Target
  <2> TAKE k \in 1 .. T
  <2>1. g[N + k] = Event(made + k,
                         IF k \in Chain(types) THEN IdUpto(types, k - 1) ELSE NoEvent,
                         g[N + k].stamp, types[k], Named(types[k]))
    BY <1>0, LogWrites DEF Linked, FileTyped
  <2>2. PICK id, parent, stamp : g[N + k] = Event(id, parent, stamp, types[k], Named(types[k]))
    BY <2>1, Zenon
  <2>3. QED
    BY <2>2 DEF Event
<1> HIDE DEF g
<1>4. b[N] = Shown
  <2>1. Len(g) \in Nat /\ Len(file) \in Nat /\ N <= Len(g) /\ N <= Len(file)
    BY <1>0, <1>1, <1>2
  <2> HIDE DEF T
  <2>2. Book(g)[N] = Book(file)[N]
    BY <1>2, <2>1, BookAgrees
  <2>3. QED
    BY <1>0, <2>2 DEF Shown
<1>5. b[N + T] = Shown'
  BY <1>2 DEF Shown, g
<1>6. /\ \A k \in 0 .. N + T : Shaped(b[k])
      /\ \A k \in 1 .. N + T : b[k] = Entered(b[k - 1], g[k])
  <2>1. PICK m \in Nat : m = N + T
    BY <1>1
  <2>2. \A k \in 0 .. m : Shaped(Book(g)[k])
    BY <1>2, <2>1, BookShaped
  <2>3. \A k \in 1 .. m : Book(g)[k] = Entered(Book(g)[k - 1], g[k])
    BY <1>2, <2>1, BookUnfolds
  <2>4. QED
    BY <2>1, <2>2, <2>3
<1>7. (\A k \in 1 .. T : Still(types[k])) => b[N + T].servers = b[N].servers /\ b[N + T].target = b[N].target
  BY <1>1, <1>2, <1>3, StillBook
<1> HIDE DEF b
<1>8. \A k \in 1 .. T : b[N + k] = Apply(b[N + k - 1], g[N + k])
  <2> TAKE k \in 1 .. T
  <2>1. N + k \in 1 .. N + T
    BY <1>1
  <2>2. b[N + k] = Entered(b[N + k - 1], g[N + k])
    BY <1>6, <2>1
  <2>3. QED
    BY <1>3, <2>2 DEF Entered
<1>9. Shaped(Shown)
  BY <1>1, <1>4, <1>6
<1>10. ASSUME NEW t, types = <<t>>
       PROVE  \E e : /\ e.type = t /\ e.servers = Named(t) /\ e.target = Target
                     /\ Shown' = Apply(Shown, e)
  <2>1. T = 1 /\ types[1] = t
    BY <1>10
  <2>2. N + 1 - 1 = N /\ 1 \in 1 .. T
    BY <2>1
  <2>3. b[N + 1] = Apply(b[N], g[N + 1])
    BY <1>8, <2>2
  <2>4. Shown' = Apply(Shown, g[N + 1])
    BY <1>4, <1>5, <2>1, <2>3
  <2>5. g[N + 1].type = t /\ g[N + 1].servers = Named(t) /\ g[N + 1].target = Target
    BY <1>3, <2>1, <2>2
  <2>6. QED
    BY <2>4, <2>5
<1>11. ASSUME types = <<"deployment_start", "snapshot_create">>
       PROVE  Shown'.servers = Shown.servers /\ Shown'.target = Target
  <2>1. T = 2 /\ types[1] = "deployment_start" /\ types[2] = "snapshot_create"
    BY <1>11
  <2>2. N + 1 - 1 = N /\ N + 2 - 1 = N + 1 /\ 1 \in 1 .. T /\ 2 \in 1 .. T
    BY <2>1
  <2>3. b[N + 1] = Apply(b[N], g[N + 1]) /\ b[N + 2] = Apply(b[N + 1], g[N + 2])
    BY <1>8, <2>2
  <2>4. /\ g[N + 1].type = "deployment_start" /\ g[N + 1].target = Target
        /\ Still(g[N + 2].type)
    BY <1>3, <2>1, <2>2 DEF Still
  <2>5. Shaped(b[N]) /\ Shaped(b[N + 1])
    BY <1>1, <1>6, <2>1
  <2> DEFINE first == g[N + 1]
             next  == g[N + 2]
             v     == b[N]
             w     == b[N + 1]
  <2> HIDE DEF first, next, v, w
  <2>6. Apply(v, first).target = Target /\ Apply(v, first).servers = v.servers
    <3>1. first.type = "deployment_start" /\ first.target = Target /\ Shaped(v)
      BY <2>4, <2>5 DEF first, v
    <3>2. QED
      BY <3>1, ApplyStart
  <2>7. Apply(w, next).target = w.target /\ Apply(w, next).servers = w.servers
    <3>1. Still(next.type) /\ Shaped(w)
      BY <2>4, <2>5 DEF next, w
    <3>2. QED
      BY <3>1, ApplyStill
  <2>8. QED
    BY <1>4, <1>5, <2>1, <2>3, <2>6, <2>7 DEF first, next, v, w
<1>12. QED
  BY <1>1, <1>4, <1>5, <1>7, <1>9, <1>10, <1>11

-----------------------------------------------------------------------------
(***************************************************************************)
(* The rollout's steps keep it.                                            *)
(***************************************************************************)

\* What a step records is the end of the trail.
LEMMA Suffix ==
    ASSUME trail \in Seq(EventType), NEW e \in Seq(EventType), Record(e)
    PROVE  SubSeq(trail', Len(trail) + 1, Len(trail')) = e
<1>1. trail' = trail \o e
  BY DEF Record
<1> DEFINE m == Len(trail)
           n == Len(e)
           t == trail'
           r == SubSeq(t, m + 1, m + n)
<1>2. /\ m \in Nat /\ n \in Nat /\ Len(t) = m + n /\ t \in Seq(EventType)
      /\ \A i \in 1 .. n : t[m + i] = e[i]
  BY <1>1, Joined
<1> HIDE DEF m, t
<1>3. r \in Seq(EventType) /\ Len(r) = n /\ \A i \in 1 .. n : r[i] = t[m + i]
  <2> HIDE DEF n
  <2>1. ASSUME NEW a \in Nat, NEW c \in Nat, NEW u \in Seq(EventType), Len(u) = a + c
        PROVE  LET q == SubSeq(u, a + 1, a + c)
               IN  /\ q \in Seq(EventType) /\ Len(q) = c
                   /\ \A i \in 1 .. c : q[i] = u[a + i]
    <3> DEFINE q == SubSeq(u, a + 1, a + c)
    <3>1. q \in Seq(EventType) /\ Len(q) = c
      BY <2>1
    <3>2. ASSUME NEW i \in 1 .. c PROVE q[i] = u[a + i]
      <4>1. q[i] = u[a + 1 + i - 1] /\ a + 1 + i - 1 = a + i
        BY <2>1
      <4>2. QED
        BY <4>1
    <3>3. QED
      BY <3>1, <3>2
  <2>2. QED
    BY <1>2, <2>1
<1> HIDE DEF r
<1>4. \A i \in 1 .. n : r[i] = e[i]
  BY <1>2, <1>3
<1>5. r = e
  BY <1>3, <1>4
<1>6. QED
  BY <1>2, <1>5 DEF r, m, t

\* The steps that move servers on the file: the others record nothing of the kind.
LEMMA StillRecorded ==
    ASSUME TypeOK, Next, ~Begin, ~FinishRollback, ~(StageResult /\ ~aborted)
    PROVE  \E e \in Seq(EventType) : Record(e) /\ \A i \in DOMAIN e : Still(e[i])
<1> USE DEF TypeOK
<1> DEFINE Tame(e) == /\ e \in Seq(EventType)
                      /\ \A i \in DOMAIN e : Still(e[i])
                      /\ Record(e)
           Goal == \E e : Tame(e)
<1>1. CASE UNCHANGED trail
  <2>1. trail \o <<>> = trail /\ <<>> \in Seq(EventType)
    BY Joined
  <2>2. Tame(<<>>)
    BY <1>1, <2>1 DEF Record
  <2>3. QED
    BY <2>2
<1>2. ASSUME NEW a \in EventType, Still(a), Record(<<a>>) PROVE Goal
  <2>1. Tame(<<a>>)
    BY <1>2, Literals
  <2>2. QED
    BY <2>1
<1>3. CASE HandleAbort
  <2> DEFINE two == <<"abort_received", "rollback_initiated">>
  <2>1. Record(two)
    BY <1>3 DEF HandleAbort
  <2>2. two \in Seq(EventType) /\ \A i \in DOMAIN two : Still(two[i])
    BY Literals DEF EventType, Still
  <2>3. Tame(two)
    BY <2>1, <2>2
  <2> HIDE DEF two
  <2>4. QED
    BY <2>3
<1>4. CASE Checkpoint
  <2>1. UNCHANGED trail \/ Record(<<"policy_violation">>)
           \/ Record(<<"snapshot_create">>) \/ Record(<<"rollback_initiated">>)
    BY <1>4 DEF Checkpoint, EvaluateStart, EvaluateStageStart,
                EvaluateStageComplete, EvaluateRollback, Block
  <2>2. QED
    BY <2>1, <1>1, <1>2 DEF EventType, Still
<1>5. CASE (\E ok \in BOOLEAN : HealthCheck(ok)) \/ HandleUnrecoverable \/ StageDone
  <2>1. UNCHANGED trail \/ Record(<<"deployment_completed">>)
           \/ Record(<<"health_check">>) \/ Record(<<"deployment_failed">>)
    BY <1>5 DEF StageDone, HealthCheck, HandleUnrecoverable
  <2>2. QED
    BY <2>1, <1>1, <1>2 DEF EventType, Still
<1>6. CASE StageResult
  <2>1. UNCHANGED trail
    BY <1>6 DEF StageResult
  <2>2. QED
    BY <2>1, <1>1
<1>7. CASE AutoQuarantine
  <2>1. PICK S \in SUBSET Region :
            Record([i \in 1 .. Cardinality(S) |-> "quarantine_activate"])
    <3>1. (IF Quarantining THEN UnstableRegions \ quarantined ELSE {}) \in SUBSET Region
      BY DEF UnstableRegions
    <3>2. QED
      BY <3>1, <1>7 DEF AutoQuarantine
  <2>2. Tame([i \in 1 .. Cardinality(S) |-> "quarantine_activate"])
    BY <2>1, QuarantineEvents DEF Still
  <2>3. QED
    BY <2>2
<1>8. CASE RollbackUpdatedServers \/ RepeatRollback
  <2>1. \A i \in DOMAIN PlanEvents : Still(PlanEvents[i])
    BY DEF PlanEvents, Still
  <2>2. \A i \in DOMAIN (<<"snapshot_create", "rollback_start">> \o PlanEvents) :
           Still((<<"snapshot_create", "rollback_start">> \o PlanEvents)[i])
    BY DEF PlanEvents, Still
  <2>3. Tame(PlanEvents) \/ Tame(<<"snapshot_create", "rollback_start">> \o PlanEvents)
    BY <1>8, <2>1, <2>2, Literals DEF RollbackUpdatedServers, RepeatRollback
  <2>4. QED
    BY <2>3
<1>9. Goal
  BY <1>1, <1>3, <1>4, <1>5, <1>6, <1>7, <1>8
     DEF Next, Workflow, Environment, Terminated, ExecuteStage, ComputeQuota,
         StageRaises, SelectServers, CheckAbort, UpdateServer, LoseStageResult,
         StageRecorded, RetryHealthCheck, HealthPassed, AbortWait, WaitTimeout,
         MarkServersHealthy, HandleRecoverable, Return, SetAbortEvent,
         AbortSignal, InjectFailure, QuarantineRegion, vars, dataVars,
         outsideVars, stageVars, clusterVars, envVars, histVars
<1>10. QED
  BY <1>9

\* What a step writes to the file of what moves servers.
LEMMA StepTypes ==
    ASSUME TypeOK, Fresh, Next
    PROVE  \/ /\ Begin \/ FinishRollback \/ (StageResult /\ ~aborted)
              /\ Begin => NewTypes = <<"deployment_start", "snapshot_create">>
              /\ FinishRollback => NewTypes = <<"rollback_complete">>
              /\ StageResult => NewTypes = <<"stage_transition">>
           \/ /\ ~Begin /\ ~FinishRollback /\ ~(StageResult /\ ~aborted)
              /\ \A k \in DOMAIN NewTypes : Still(NewTypes[k])
<1>0. trail \in Seq(EventType)
  BY DEF TypeOK
<1>1. ASSUME NEW e \in Seq(EventType), Record(e), OwnEvents = <<>>
      PROVE  NewTypes = e
  <2>1. NewTypes = <<>> \o e
    BY <1>0, <1>1, Suffix DEF NewTypes
  <2>2. QED
    BY <2>1
<1>2. CASE Begin
  <2>1. OwnEvents = <<>> /\ ~FinishRollback /\ ~StageResult
    BY <1>2 DEF Begin, OwnEvents, Gates, FinishRollback, StageResult
  <2>2. Record(<<"deployment_start", "snapshot_create">>)
    BY <1>2 DEF Begin
  <2>3. <<"deployment_start", "snapshot_create">> \in Seq(EventType)
    BY Literals DEF EventType
  <2>4. QED
    BY <1>1, <1>2, <2>1, <2>2, <2>3
<1>3. CASE FinishRollback
  <2>1. OwnEvents = <<>> /\ ~Begin /\ ~StageResult
    BY <1>3 DEF Begin, OwnEvents, Gates, FinishRollback, StageResult
  <2>2. Record(<<"rollback_complete">>)
    BY <1>3 DEF FinishRollback
  <2>3. <<"rollback_complete">> \in Seq(EventType)
    BY Literals DEF EventType
  <2>4. QED
    BY <1>1, <1>3, <2>1, <2>2, <2>3
<1>4. CASE StageResult /\ ~aborted
  <2>1. OwnEvents = <<>> /\ ~Begin /\ ~FinishRollback
    BY <1>4 DEF Begin, OwnEvents, Gates, FinishRollback, StageResult
  <2>2. Record(<<"stage_transition">>)
    BY <1>4 DEF StageResult
  <2>3. <<"stage_transition">> \in Seq(EventType)
    BY Literals DEF EventType
  <2>4. QED
    BY <1>1, <1>4, <2>1, <2>2, <2>3
<1>5. CASE ~Begin /\ ~FinishRollback /\ ~(StageResult /\ ~aborted)
  <2>1. PICK e \in Seq(EventType) : Record(e) /\ \A i \in DOMAIN e : Still(e[i])
    BY <1>5, StillRecorded
  <2>2. NewTypes = OwnEvents \o e
    BY <1>0, <2>1, Suffix DEF NewTypes
  <2>3. NewTypes = <<"governance_decision">> \o e \/ NewTypes = <<>> \o e
    BY <2>2 DEF OwnEvents
  <2>4. CASE NewTypes = <<>> \o e
    <3>1. NewTypes = e
      BY <2>4
    <3>2. QED
      BY <1>5, <2>1, <3>1
  <2>5. CASE NewTypes = <<"governance_decision">> \o e
    <3>1. Still("governance_decision")
      BY DEF Still
    <3> DEFINE t == NewTypes
    <3>2. /\ DOMAIN t = 1 .. 1 + Len(e) /\ t[1] = "governance_decision" /\ Len(e) \in Nat
          /\ \A i \in 1 .. Len(e) : t[1 + i] = e[i]
      BY <2>5
    <3> HIDE DEF t
    <3>3. ASSUME NEW k \in DOMAIN t PROVE Still(t[k])
      <4>1. k = 1 \/ (k - 1 \in 1 .. Len(e) /\ k = 1 + (k - 1))
        BY <3>2
      <4>2. CASE k = 1
        BY <3>1, <3>2, <4>2
      <4>3. CASE k - 1 \in 1 .. Len(e) /\ k = 1 + (k - 1)
        <5>1. t[k] = e[k - 1] /\ k - 1 \in DOMAIN e
          BY <3>2, <4>3
        <5>2. QED
          BY <2>1, <5>1
      <4>4. QED
        BY <4>1, <4>2, <4>3
    <3>4. QED
      BY <1>5, <3>3 DEF t
  <2>6. QED
    BY <2>3, <2>4, <2>5
<1>6. QED
  BY <1>2, <1>3, <1>4, <1>5

\* The books change with a stage's result, and the rollout ends once.
LEMMA LateSteps ==
    ASSUME Next
    PROVE  /\ ~(StageResult /\ ~aborted) => UNCHANGED updated
           /\ pc = "done" => UNCHANGED vars
           /\ pc' = "done" => pc = "done" \/ FinishRollback \/ Return
<1>1. ~(StageResult /\ ~aborted) => UNCHANGED updated
  BY DEF Next, Workflow, Environment, ExecuteStage, Terminated, UpdateServer,
         Begin, Checkpoint, EvaluateStart, EvaluateStageStart,
         EvaluateStageComplete, EvaluateRollback, ComputeQuota, StageRaises,
         SelectServers, CheckAbort, StageResult, LoseStageResult, StageRecorded,
         HealthCheck, RetryHealthCheck, HealthPassed, AutoQuarantine, StageDone,
         AbortWait, WaitTimeout, MarkServersHealthy, HandleAbort,
         HandleRecoverable, HandleUnrecoverable, RollbackUpdatedServers,
         RepeatRollback, FinishRollback, Return, SetAbortEvent, AbortSignal,
         InjectFailure, QuarantineRegion, vars, dataVars
<1>2. pc = "done" => UNCHANGED vars
  BY DEF Next, Workflow, Environment, ExecuteStage, Terminated, UpdateServer,
         Begin, Checkpoint, EvaluateStart, EvaluateStageStart,
         EvaluateStageComplete, EvaluateRollback, ComputeQuota, StageRaises,
         SelectServers, CheckAbort, StageResult, LoseStageResult, StageRecorded,
         HealthCheck, RetryHealthCheck, HealthPassed, AutoQuarantine, StageDone,
         AbortWait, WaitTimeout, MarkServersHealthy, HandleAbort,
         HandleRecoverable, HandleUnrecoverable, RollbackUpdatedServers,
         RepeatRollback, FinishRollback, Return, SetAbortEvent, AbortSignal,
         InjectFailure, QuarantineRegion
<1>3. pc' = "done" => pc = "done" \/ FinishRollback \/ Return
  BY DEF Next, Workflow, Environment, ExecuteStage, Terminated, UpdateServer,
         Begin, Checkpoint, EvaluateStart, EvaluateStageStart, Block, EnterStage, Raise,
         EvaluateStageComplete, EvaluateRollback, ComputeQuota, StageRaises,
         SelectServers, CheckAbort, StageResult, LoseStageResult, StageRecorded,
         HealthCheck, RetryHealthCheck, HealthPassed, AutoQuarantine, StageDone,
         AbortWait, WaitTimeout, MarkServersHealthy, HandleAbort,
         HandleRecoverable, HandleUnrecoverable, RollbackUpdatedServers,
         RepeatRollback, SetAbortEvent, AbortSignal,
         InjectFailure, QuarantineRegion
<1>4. QED
  BY <1>1, <1>2, <1>3

LEMMA ShownKeeps ==
    ASSUME MaxLost = 0, AuditInv, AuditInv', Books, ServersShown, RolloutStep
    PROVE  ServersShown'
<1> SUFFICES ASSUME ~Astray' PROVE ServersShown'
  BY DEF ServersShown
<1>1. TypeOK /\ Linked /\ Fresh /\ Next /\ Log(NewTypes) /\ TypeOK'
  BY DEF AuditInv, TypeInv, RolloutStep
<1>2. PICK types \in Seq(AuditType) : types = NewTypes
  BY <1>1, TypesRecorded
<1>3. Log(types)
  BY <1>1, <1>2
<1>4. /\ Shaped(Shown)
      /\ (\A k \in DOMAIN types : Still(types[k])) =>
            Shown'.servers = Shown.servers /\ Shown'.target = Shown.target
      /\ \A t : types = <<t>> =>
            \E e : /\ e.type = t /\ e.servers = Named(t) /\ e.target = Target
                   /\ Shown' = Apply(Shown, e)
      /\ types = <<"deployment_start", "snapshot_create">> =>
            Shown'.servers = Shown.servers /\ Shown'.target = Target
  BY <1>1, <1>3, LogShows
<1>a. ~Astray
  <2>1. /\ Len(file') = Len(file) + Len(types) /\ Len(file) \in Nat /\ Len(types) \in Nat
        /\ \A k \in 1 .. Len(file) : file'[k] = file[k]
    BY <1>1, <1>3, LogWrites DEF Linked, FileTyped
  <2>2. \A k \in Positions : k \in Positions' /\ file'[k] = file[k]
    BY <2>1 DEF Positions
  <2>3. QED
    BY <2>2 DEF Astray
<1> DEFINE was == Shown.servers
           now == Shown'.servers
<1>5. /\ DOMAIN was = updated
      /\ pc # "start" => Shown.target = Target
      /\ pc # "done" => \A s \in updated : was[s] = Target
      /\ pc = "done" => \A s \in updated \cap Ordinary :
                           was[s] = Target <=> server[s].version = Target
  BY <1>a DEF ServersShown
<1> HIDE DEF was, now
<1> DEFINE Goal == /\ DOMAIN now = updated'
                   /\ pc' # "start" => Shown'.target = Target
                   /\ pc' # "done" => \A s \in updated' : now[s] = Target
                   /\ pc' = "done" => \A s \in updated' \cap Ordinary' :
                                         now[s] = Target <=> server'[s].version = Target
<1> SUFFICES Goal
  BY DEF ServersShown, now
<1>6. CASE Begin
  <2>1. types = <<"deployment_start", "snapshot_create">>
    BY <1>1, <1>2, <1>6, StepTypes
  <2>2. now = was /\ Shown'.target = Target
    BY <1>4, <2>1 DEF now, was
  <2>3. pc = "start" /\ pc' = "gate_start" /\ updated' = updated
    BY <1>6 DEF Begin, dataVars
  <2>4. QED
    BY <1>5, <2>2, <2>3
<1>7. CASE StageResult /\ ~aborted
  <2>1. /\ pc = "result" /\ pc' = "recorded" /\ updated' = updated \cup newly
        /\ types = <<"stage_transition">>
    BY <1>1, <1>2, <1>7, StepTypes DEF StageResult, Begin, FinishRollback
  <2>2. PICK e : /\ e.type = "stage_transition" /\ e.servers = Named("stage_transition")
                 /\ Shown' = Apply(Shown, e)
    BY <1>4, <2>1
  <2>3. e.servers = newly
    BY <2>2 DEF Named
  <2>4. /\ Shown'.target = Shown.target
        /\ DOMAIN now = DOMAIN was \cup newly
        /\ \A s \in DOMAIN was \cup newly :
              now[s] = IF s \in newly THEN Shown.target ELSE was[s]
    <3> DEFINE v == Shown
    <3>1. v = Shown /\ Shaped(v)
      BY <1>4
    <3> HIDE DEF v
    <3>2. /\ Apply(v, e).target = v.target
          /\ DOMAIN Apply(v, e).servers = DOMAIN v.servers \cup e.servers
          /\ \A s \in DOMAIN v.servers \cup e.servers :
                Apply(v, e).servers[s]
                   = IF s \in e.servers THEN v.target ELSE v.servers[s]
      BY <2>2, <3>1, ApplyStage
    <3>3. QED
      BY <2>2, <2>3, <3>1, <3>2 DEF was, now
  <2>5. QED
    BY <1>5, <2>1, <2>4
<1>8. CASE FinishRollback
  <2>1. /\ pc = "rolled" /\ pc' = "done" /\ types = <<"rollback_complete">>
        /\ UNCHANGED <<updated, server, before>>
    BY <1>1, <1>2, <1>8, StepTypes
       DEF FinishRollback, dataVars, outsideVars, clusterVars, histVars, Begin, StageResult
  <2>2. PICK e : /\ e.type = "rollback_complete" /\ e.servers = Named("rollback_complete")
                 /\ Shown' = Apply(Shown, e)
    BY <1>4, <2>1
  <2>3. e.servers = RolledBackIds
    BY <2>2 DEF Named
  <2>4. /\ Shown'.target = Shown.target
        /\ DOMAIN now = DOMAIN was
        /\ \A s \in DOMAIN was : now[s] = IF s \in RolledBackIds THEN Source ELSE was[s]
    <3> DEFINE v == Shown
    <3>1. v = Shown /\ Shaped(v)
      BY <1>4
    <3> HIDE DEF v
    <3>2. /\ Apply(v, e).target = v.target
          /\ DOMAIN Apply(v, e).servers = DOMAIN v.servers
          /\ \A s \in DOMAIN v.servers :
                Apply(v, e).servers[s]
                   = IF s \in e.servers THEN Source ELSE v.servers[s]
      BY <2>2, <3>1, ApplyRollback
    <3>3. QED
      BY <2>2, <2>3, <3>1, <3>2 DEF was, now
  \* Every server on the books is back, and an ordinary one is named.
  <2>5. ASSUME NEW s \in updated, s \in Ordinary
        PROVE  s \in RolledBackIds /\ server[s].version # Target
    <3>1. Reverted(s)
      BY <2>1 DEF Books
    <3>2. server[s].version = before[s] /\ server[s].previous = Target
      BY <3>1 DEF Reverted, Restored
    <3>3. before[s] = Source \/ (~Quarantining /\ before[s] # Target)
      BY <2>5 DEF Ordinary
    <3>4. Source # Target /\ Target # NoVersion
      BY SourceAssumption, TargetAssumption, NoVersionAssumption
    <3>5. QED
      BY <3>2, <3>3, <3>4 DEF RolledBackIds, CanRollBack
  <2>6. Ordinary' = Ordinary
    BY <2>1 DEF Ordinary
  <2>7. ASSUME NEW s \in updated, s \in Ordinary
        PROVE  now[s] # Target /\ server'[s].version # Target
    <3>1. now[s] = Source
      BY <1>5, <2>4, <2>5, <2>7
    <3>2. QED
      BY <2>1, <2>5, <2>7, <3>1, SourceAssumption
  <2>8. QED
    BY <1>5, <2>1, <2>4, <2>6, <2>7
<1>9. CASE ~Begin /\ ~FinishRollback /\ ~(StageResult /\ ~aborted)
  <2>1. now = was /\ Shown'.target = Shown.target
    BY <1>1, <1>2, <1>4, <1>9, StepTypes DEF now, was
  <2>2. updated' = updated
    BY <1>1, <1>9, LateSteps
  <2>3. pc = "start" => pc' = "start"
    BY <1>1, <1>9, StartStep
  <2>4. CASE pc = "done"
    <3>1. UNCHANGED <<pc, updated, server, before>>
      BY <1>1, <2>4, LateSteps DEF vars, dataVars, outsideVars, clusterVars, histVars
    <3>2. Ordinary' = Ordinary
      BY <3>1 DEF Ordinary
    <3>3. QED
      BY <1>5, <2>1, <2>4, <3>1, <3>2
  <2>5. CASE pc # "done" /\ pc' = "done"
    <3>1. pc = "returning" /\ server' = server
      BY <1>1, <1>9, <2>5, LateSteps DEF Return, outsideVars, clusterVars
    <3>2. \A s \in updated : server[s].version = Target
      <4>1. \A s \in updated : Deployed(s)
        BY <3>1 DEF Books
      <4>2. QED
        BY <4>1 DEF Deployed
    <3>3. QED
      BY <1>5, <2>1, <2>2, <2>3, <2>5, <3>1, <3>2
  <2>6. CASE pc # "done" /\ pc' # "done"
    BY <1>5, <2>1, <2>2, <2>3, <2>6
  <2>7. QED
    BY <2>4, <2>5, <2>6
<1>10. QED
  BY <1>6, <1>7, <1>8, <1>9

\* What is in the file stays what it is.
LEMMA Prefix ==
    ASSUME NEW N \in Nat, \A k \in 1 .. N : file'[k] = file[k]
    PROVE  \A k \in 1 .. N :
              /\ This(k)' <=> This(k)
              /\ (\A j \in 1 .. k - 1 : ~This(j)') <=> \A j \in 1 .. k - 1 : ~This(j)
              /\ Chained(k)' <=> Chained(k)
<1> TAKE k \in 1 .. N
<1>1. \A j \in 1 .. N : This(j)' <=> This(j)
  BY DEF This
<1>2. \A j \in 1 .. k - 1 : j \in 1 .. N
  OBVIOUS
<1>3. (\A j \in 1 .. k - 1 : ~This(j)') <=> \A j \in 1 .. k - 1 : ~This(j)
  BY <1>1, <1>2
<1>4. Chained(k)' <=> Chained(k)
  BY <1>1, <1>3 DEF Chained, NoEvent
<1>5. QED
  BY <1>1, <1>3, <1>4

LEMMA RolloutStepFrames ==
    ASSUME AuditInv, AuditInv', Framed, RolloutStep
    PROVE  Framed'
<1>1. TypeOK /\ Linked /\ Fresh /\ Next /\ Log(NewTypes) /\ TypeOK' /\ Linked'
  BY DEF AuditInv, TypeInv, RolloutStep
<1>2. PICK types \in Seq(AuditType) : types = NewTypes
  BY <1>1, TypesRecorded
<1>3. Log(types) /\ FirstTwo(types)
  BY <1>1, <1>2, TypesAtStart
<1>4. \A x \in Positions' :
         This(x)' /\ ~Chained(x)' =>
            \/ x \in Positions /\ This(x) /\ ~Chained(x) /\ file'[x] = file[x]
            \/ file'[x].type \in RootTypes
  BY <1>1, <1>3, LogKeeps
<1>5. PICK N \in Nat : N = Len(file)
  BY <1>1 DEF Linked, FileTyped
<1>6. /\ Len(file') = N + Len(types) /\ Len(types) \in Nat
      /\ \A k \in 1 .. N : file'[k] = file[k]
      /\ \A k \in 1 .. Len(types) : /\ file'[N + k].deployment = "this"
                                    /\ file'[N + k].type = types[k]
  <2>1. /\ Len(file') = N + Len(types) /\ Len(types) \in Nat
        /\ \A k \in 1 .. N : file'[k] = file[k]
        /\ \A k \in 1 .. Len(types) :
              \E id, parent, stamp :
                 file'[N + k] = Event(id, parent, stamp, types[k], Named(types[k]))
    BY <1>1, <1>3, <1>5, LogWrites DEF Linked, FileTyped
  <2>2. ASSUME NEW k \in 1 .. Len(types)
        PROVE  file'[N + k].deployment = "this" /\ file'[N + k].type = types[k]
    <3>1. PICK id, parent, stamp :
             file'[N + k] = Event(id, parent, stamp, types[k], Named(types[k]))
      BY <2>1
    <3>2. QED
      BY <3>1 DEF Event
  <2>3. QED
    BY <2>1, <2>2
<1>7. /\ Positions = 1 .. N /\ Positions' = 1 .. N + Len(types)
      /\ \A k \in Positions' \ Positions : k - N \in 1 .. Len(types) /\ k = N + (k - N)
  BY <1>5, <1>6 DEF Positions
<1>8. \A k \in 1 .. N :
         /\ This(k)' <=> This(k)
         /\ (\A j \in 1 .. k - 1 : ~This(j)') <=> \A j \in 1 .. k - 1 : ~This(j)
         /\ Chained(k)' <=> Chained(k)
  BY <1>6, Prefix
<1>9. StartFirst'
  <2> SUFFICES ASSUME NEW k \in Positions', This(k)', \A j \in 1 .. k - 1 : ~This(j)'
               PROVE  file'[k].type = "deployment_start"
    BY DEF StartFirst
  <2>1. CASE k \in 1 .. N
    BY <1>6, <1>7, <1>8, <2>1 DEF Framed, StartFirst
  <2>2. CASE k \notin 1 .. N
    <3>1. k - N \in 1 .. Len(types) /\ k = N + (k - N)
      BY <1>7, <2>2
    <3>2. \A j \in 1 .. N : j \in 1 .. k - 1
      BY <3>1
    <3>3. \A j \in Positions : ~This(j)
      BY <1>7, <1>8, <3>2
    <3>4. last = NoEvent
      BY <1>1, <3>3 DEF Linked, LastKnown
    <3>5. Len(types) = 2 /\ types[1] = "deployment_start"
      BY <1>3, <3>1, <3>4 DEF FirstTwo
    <3>6. k = N + 1
      <4> SUFFICES ASSUME k # N + 1 PROVE FALSE
        OBVIOUS
      <4>1. N + 1 \in 1 .. k - 1 /\ 1 \in 1 .. Len(types)
        BY <3>1, <3>5
      <4>2. This(N + 1)'
        BY <1>6, <4>1 DEF This
      <4>3. QED
        BY <4>1, <4>2
    <3>7. QED
      BY <1>6, <3>5, <3>6
  <2>3. QED
    BY <2>1, <2>2
<1>10. CASE pc = "done"
  <2>1. pc' = pc /\ trail' = trail
    BY <1>1, <1>10, LateSteps DEF vars
  <2>2. types = <<>>
    <3>1. OwnEvents = <<>>
      BY <1>10, <2>1 DEF OwnEvents
    <3>2. trail \in Seq(EventType) /\ <<>> \in Seq(EventType) /\ trail \o <<>> = trail
      BY <1>1, Joined DEF TypeOK
    <3>3. SubSeq(trail', Len(trail) + 1, Len(trail')) = <<>>
      BY <2>1, <3>2, Suffix DEF Record
    <3>4. NewTypes = <<>> \o <<>>
      BY <3>1, <3>3 DEF NewTypes
    <3>5. QED
      BY <1>2, <3>4
  <2>3. Len(file') = N /\ Positions' = 1 .. N
    BY <1>6, <1>7, <2>2
  <2>4. ByHand' <=> ByHand
    BY <1>6, <1>7, <2>3 DEF ByHand, NoEvent
  <2>5. N \in 1 .. N
    BY <1>1, <1>5 DEF Linked, FileTyped
  <2>6. HandLast'
    BY <1>5, <1>6, <1>7, <1>8, <2>1, <2>3, <2>4, <2>5 DEF Framed, HandLast, Hushed, RootTypes
  <2>7. QED
    BY <1>9, <2>6 DEF Framed
<1>11. CASE pc # "done"
  <2>1. \A k \in Positions : /\ This(k) /\ ~Chained(k) => file[k].type \in Hushed
                             /\ file[k].deployment # "own"
    BY <1>11 DEF Framed, HandLast
  <2>2. ASSUME NEW k \in Positions', This(k)', ~Chained(k)'
        PROVE  file'[k].type \in Hushed
    BY <1>4, <2>1, <2>2 DEF Hushed
  <2>3. ASSUME NEW k \in Positions'
        PROVE  file'[k].deployment # "own"
    <3>1. CASE k \in 1 .. N
      BY <1>6, <1>7, <2>1, <3>1
    <3>2. CASE k \notin 1 .. N
      <4>1. k - N \in 1 .. Len(types) /\ k = N + (k - N)
        BY <1>7, <3>2
      <4>2. file'[k].deployment = "this"
        BY <1>6, <4>1
      <4>3. QED
        BY <4>2
    <3>3. QED
      BY <3>1, <3>2
  <2>4. HandLast'
    BY <2>2, <2>3 DEF HandLast, Hushed, RootTypes
  <2>5. QED
    BY <1>9, <2>4 DEF Framed
<1>12. QED
  BY <1>10, <1>11

-----------------------------------------------------------------------------
(***************************************************************************)
(* Writes that fail or are repeated, and a rollback by hand.               *)
(***************************************************************************)

\* What the rollout keeps is kept by steps that leave it alone.
LEMMA BooksStay ==
    ASSUME Books, UNCHANGED vars
    PROVE  Books'
BY SameServers
   DEF Books, Events, vars, dataVars, outsideVars, stageVars, clusterVars, envVars, histVars

\* A file that is not written to shows what it showed.
LEMMA FileStays ==
    ASSUME UNCHANGED <<pc, updated, server, before, file>>
    PROVE  Framed' = Framed /\ ServersShown' = ServersShown
<1>1. Positions' = Positions /\ \A k : (This(k)' <=> This(k)) /\ (Chained(k)' <=> Chained(k))
  BY DEF Positions, This, Chained, NoEvent
<1>2. (StartFirst' <=> StartFirst) /\ (ByHand' <=> ByHand) /\ (Astray' <=> Astray)
  BY <1>1 DEF StartFirst, ByHand, Astray, NoEvent
<1>3. HandLast' <=> HandLast
  BY <1>1, <1>2 DEF HandLast, Hushed, RootTypes
<1>4. Shown' = Shown /\ Ordinary' = Ordinary
  BY DEF Shown, Ordinary
<1>5. ServersShown' <=> ServersShown
  BY <1>2, <1>4 DEF ServersShown
<1>6. QED
  BY <1>2, <1>3, <1>5 DEF Framed, ServersShown

LEMMA FailedWriteShows ==
    ASSUME FailedWrite
    PROVE  /\ Framed => Framed'
           /\ Books => Books'
           /\ ServersShown => ServersShown'
<1>1. UNCHANGED <<vars, file>>
  BY DEF FailedWrite
<1>2. UNCHANGED <<pc, updated, server, before, file>>
  BY <1>1 DEF vars, dataVars, outsideVars, clusterVars, histVars
<1>3. QED
  BY <1>1, <1>2, FileStays, BooksStay

\* An event written a second time moves no server a second time.
LEMMA Again ==
    ASSUME NEW v, Shaped(v), NEW e, NEW a, a.type = e.type,
           a.servers = e.servers, a.target = e.target
    PROVE  LET once  == Apply(v, e)
               twice == Apply(once, a)
           IN  /\ twice.target = once.target
               /\ DOMAIN twice.servers = DOMAIN once.servers
               /\ \A s \in DOMAIN once.servers : twice.servers[s] = once.servers[s]
<1> DEFINE once  == Apply(v, e)
           twice == Apply(once, a)
<1>0. Shaped(once)
  BY ApplyStart, ApplyStage, ApplyRollback, ApplyStill DEF Still
<1>1. CASE e.type = "deployment_start"
  <2>1. once.target = e.target
    BY <1>1, ApplyStart
  <2> HIDE DEF once
  <2>2. twice.target = a.target /\ twice.servers = once.servers
    BY <1>0, <1>1, ApplyStart
  <2> HIDE DEF twice
  <2>3. QED
    BY <2>1, <2>2 DEF once, twice
<1>2. CASE e.type = "stage_transition"
  <2>1. /\ once.target = v.target
        /\ DOMAIN once.servers = DOMAIN v.servers \cup e.servers
        /\ \A s \in DOMAIN v.servers \cup e.servers :
              once.servers[s] = IF s \in e.servers THEN v.target ELSE v.servers[s]
    BY <1>2, ApplyStage
  <2> HIDE DEF once
  <2>2. /\ twice.target = once.target
        /\ DOMAIN twice.servers = DOMAIN once.servers \cup a.servers
        /\ \A s \in DOMAIN once.servers \cup a.servers :
              twice.servers[s] = IF s \in a.servers THEN once.target ELSE once.servers[s]
    BY <1>0, <1>2, ApplyStage
  <2> HIDE DEF twice
  <2>3. QED
    BY <2>1, <2>2 DEF once, twice
<1>3. CASE e.type = "rollback_complete"
  <2>1. /\ once.target = v.target
        /\ DOMAIN once.servers = DOMAIN v.servers
        /\ \A s \in DOMAIN v.servers :
              once.servers[s] = IF s \in e.servers THEN Source ELSE v.servers[s]
    BY <1>3, ApplyRollback
  <2> HIDE DEF once
  <2>2. /\ twice.target = once.target
        /\ DOMAIN twice.servers = DOMAIN once.servers
        /\ \A s \in DOMAIN once.servers :
              twice.servers[s] = IF s \in a.servers THEN Source ELSE once.servers[s]
    BY <1>0, <1>3, ApplyRollback
  <2> HIDE DEF twice
  <2>3. QED
    BY <2>1, <2>2 DEF once, twice
<1>4. CASE Still(e.type)
  <2> HIDE DEF once
  <2>1. Still(a.type)
    BY <1>4
  <2>2. twice.target = once.target /\ twice.servers = once.servers
    BY <1>0, <2>1, ApplyStill
  <2> HIDE DEF twice
  <2>3. QED
    BY <2>2 DEF once, twice
<1>5. QED
  BY <1>1, <1>2, <1>3, <1>4 DEF Still

\* What a lost result adds to the file: a copy of its last event, which has a parent.
LEMMA LostWrites ==
    ASSUME AuditInv, LostResult, NEW N \in Nat, N = Len(file)
    PROVE  /\ N \in 1 .. N /\ This(N) /\ file[N].parent # NoEvent
           /\ Len(file') = N + 1 /\ \A k \in 1 .. N : file'[k] = file[k]
           /\ \E e : /\ file'[N + 1] = e
                     /\ e.type = file[N].type /\ e.deployment = "this"
                     /\ e.parent = file[N].parent
                     /\ e.servers = file[N].servers /\ e.target = file[N].target
<1>1. /\ file # <<>> /\ Last(file).id = last
      /\ file' = Append(file, [Last(file) EXCEPT !.id = made + 1, !.stamp = @ + 1])
  BY DEF LostResult
<1>2. FileTyped /\ IdsInOrder /\ LastKnown
  BY DEF AuditInv, Linked
<1>3. made \in Nat /\ last \in Nat /\ file \in Seq(Entry)
  BY <1>2 DEF FileTyped
<1>4. Positions = 1 .. N /\ N \in 1 .. N /\ Last(file) = file[N] /\ file[N] \in Entry
  BY <1>1, <1>3 DEF Positions, Last
<1>5. This(N) /\ file[N].parent # NoEvent
  <2>1. last # NoEvent
    BY <1>1, <1>2, <1>3, <1>4 DEF IdsInOrder, NoEvent
  <2>2. PICK k \in 1 .. N : file[k].id = last /\ This(k) /\ file[k].parent # NoEvent
    BY <1>2, <1>4, <2>1 DEF LastKnown
  <2>3. \A j \in 1 .. N : file[j].id \in Nat
    <3>1. \A j \in 1 .. N : file[j] \in Entry
      BY <1>3
    <3>2. QED
      BY <3>1 DEF Entry
  <2>4. k < N => file[k].id < file[N].id
    BY <1>2, <1>4 DEF IdsInOrder
  <2>5. k = N
    BY <1>1, <1>4, <2>2, <2>3, <2>4
  <2>6. QED
    BY <2>2, <2>5
<1> DEFINE e == [file[N] EXCEPT !.id = made + 1, !.stamp = @ + 1]
<1>6. /\ e.type = file[N].type /\ e.deployment = "this" /\ e.parent = file[N].parent
      /\ e.servers = file[N].servers /\ e.target = file[N].target /\ e \in Entry
  <2>1. made + 1 \in Nat /\ file[N].stamp + 1 \in Nat
    BY <1>3, <1>4 DEF Entry
  <2>2. QED
    BY <1>4, <1>5, <2>1 DEF Entry, This
<1>7. file' = Append(file, e)
  BY <1>1, <1>4
<1> HIDE DEF e
<1>8. /\ Len(file') = N + 1 /\ file'[N + 1] = e
      /\ \A k \in 1 .. N : file'[k] = file[k]
  BY <1>3, <1>6, <1>7
<1>9. QED
  BY <1>4, <1>5, <1>6, <1>8

LEMMA LostResultFrames ==
    ASSUME AuditInv, Framed, LostResult
    PROVE  Framed'
<1>1. PICK N \in Nat : N = Len(file)
  BY DEF AuditInv, Linked, FileTyped
<1>2. /\ N \in 1 .. N /\ This(N) /\ file[N].parent # NoEvent
      /\ Len(file') = N + 1 /\ \A k \in 1 .. N : file'[k] = file[k]
      /\ file'[N + 1].deployment = "this" /\ file'[N + 1].parent # NoEvent
  BY <1>1, LostWrites
<1>3. Positions = 1 .. N /\ Positions' = 1 .. N + 1
  BY <1>1, <1>2 DEF Positions
<1>4. \A k \in 1 .. N :
         /\ This(k)' <=> This(k)
         /\ (\A j \in 1 .. k - 1 : ~This(j)') <=> \A j \in 1 .. k - 1 : ~This(j)
         /\ Chained(k)' <=> Chained(k)
  BY <1>2, Prefix
<1>5. \A k \in 1 .. N : file[k].deployment # "own"
  BY <1>1, <1>2, <1>3 DEF Framed, HandLast, This
<1>6. \A k \in 1 .. N + 1 : k \in 1 .. N \/ k = N + 1
  OBVIOUS
<1>7. StartFirst'
  <2> SUFFICES ASSUME NEW k \in 1 .. N + 1, This(k)', \A j \in 1 .. k - 1 : ~This(j)'
               PROVE  file'[k].type = "deployment_start"
    BY <1>3 DEF StartFirst
  <2>1. k # N + 1
    <3> SUFFICES ASSUME k = N + 1 PROVE FALSE
      OBVIOUS
    <3>1. N \in 1 .. k - 1 /\ This(N)'
      BY <1>2, <1>4
    <3>2. QED
      BY <3>1
  <2>2. QED
    BY <1>2, <1>3, <1>4, <1>6, <2>1 DEF Framed, StartFirst
\* The last event of the file is of the chain, and so is its second copy.
<1>8. HandLast'
  <2>1. ASSUME NEW k \in 1 .. N + 1, This(k)', ~Chained(k)'
        PROVE  file'[k].type \in Hushed
    <3>1. k # N + 1
      BY <1>2, <2>1 DEF Chained, NoEvent
    <3>2. This(k) /\ ~Chained(k) /\ file'[k] = file[k] /\ k \in 1 .. N
      BY <1>2, <1>4, <1>6, <2>1, <3>1
    <3>3. k # N
      BY <1>2, <3>2 DEF Chained
    <3>4. QED
      BY <1>1, <1>3, <3>2, <3>3 DEF Framed, HandLast
  <2>2. \A k \in 1 .. N + 1 : file'[k].deployment # "own"
    BY <1>2, <1>5, <1>6
  <2>3. QED
    BY <1>3, <2>1, <2>2 DEF HandLast, Hushed, RootTypes
<1>9. QED
  BY <1>7, <1>8 DEF Framed

LEMMA LostResultShows ==
    ASSUME AuditInv, Books, ServersShown, LostResult
    PROVE  Books' /\ ServersShown'
<1> DEFINE g == file'
<1>1. UNCHANGED vars
  BY DEF LostResult
<1>2. PICK N \in Nat : N = Len(file)
  BY DEF AuditInv, Linked, FileTyped
<1>3. /\ N \in 1 .. N /\ This(N)
      /\ Len(g) = N + 1 /\ \A k \in 1 .. N : g[k] = file[k]
  BY <1>2, LostWrites
<1>4. PICK e : /\ g[N + 1] = e
               /\ e.type = file[N].type /\ e.deployment = "this"
               /\ e.servers = file[N].servers /\ e.target = file[N].target
  BY <1>2, LostWrites
<1> HIDE DEF g
<1>5. UNCHANGED <<pc, updated, server, before>>
  BY <1>1 DEF vars, dataVars, outsideVars, clusterVars, histVars
<1>6. Astray => Astray'
  <2>1. \A k \in 1 .. N : k \in 1 .. N + 1
    OBVIOUS
  <2>2. QED
    BY <1>2, <1>3, <2>1 DEF Astray, Positions, g
<1>7. ASSUME ~Astray' PROVE ServersShown'
  <2> DEFINE b == Book(g)
  <2>1. b[N] = Shown
    <3>1. Len(g) \in Nat /\ Len(file) \in Nat /\ N <= Len(g) /\ N <= Len(file)
      BY <1>2, <1>3
    <3>2. Book(g)[N] = Book(file)[N]
      BY <1>3, <3>1, BookAgrees
    <3>3. QED
      BY <1>2, <3>2 DEF Shown
  <2>2. b[N + 1] = Shown'
    BY <1>3 DEF Shown, g
  <2>3. Shaped(b[N - 1]) /\ \A k \in 1 .. N + 1 : b[k] = Entered(b[k - 1], g[k])
    <3>1. PICK m \in Nat : m = N + 1
      OBVIOUS
    <3>2. N - 1 \in 0 .. m
      BY <1>3, <3>1
    <3>3. Shaped(Book(g)[N - 1])
      BY <1>3, <3>1, <3>2, BookShaped
    <3>4. \A k \in 1 .. m : Book(g)[k] = Entered(Book(g)[k - 1], g[k])
      BY <1>3, <3>1, BookUnfolds
    <3>5. QED
      BY <3>1, <3>3, <3>4
  <2> HIDE DEF b
  <2>4. N \in 1 .. N + 1 /\ N + 1 \in 1 .. N + 1 /\ N + 1 - 1 = N
    BY <1>3
  <2>5. b[N] = Entered(b[N - 1], g[N]) /\ b[N + 1] = Entered(b[N], g[N + 1])
    BY <2>3, <2>4
  <2>6. g[N] = file[N] /\ g[N + 1] = e /\ file[N].deployment = "this"
    BY <1>3, <1>4 DEF This
  <2> DEFINE v == b[N - 1]
             d == file[N]
  <2>7. Shaped(v) /\ b[N] = Apply(v, d) /\ b[N + 1] = Apply(Apply(v, d), e)
    BY <1>4, <2>3, <2>5, <2>6 DEF Entered
  <2>8. e.type = d.type /\ e.servers = d.servers /\ e.target = d.target
    BY <1>4
  <2> HIDE DEF v, d
  <2> DEFINE once  == Apply(v, d)
             twice == Apply(once, e)
  <2>9. /\ twice.target = once.target
        /\ DOMAIN twice.servers = DOMAIN once.servers
        /\ \A s \in DOMAIN once.servers : twice.servers[s] = once.servers[s]
    BY <2>7, <2>8, Again
  <2>10. once = Shown /\ twice = Shown'
    BY <2>1, <2>2, <2>7
  <2> HIDE DEF once, twice
  <2>11. /\ Shown'.target = Shown.target
         /\ DOMAIN Shown'.servers = DOMAIN Shown.servers
         /\ \A s \in DOMAIN Shown.servers : Shown'.servers[s] = Shown.servers[s]
    BY <2>9, <2>10
  <2>12. Ordinary' = Ordinary
    BY <1>5 DEF Ordinary
  <2> DEFINE was == Shown
             now == Shown'
  <2>13. /\ DOMAIN was.servers = updated
         /\ pc # "start" => was.target = Target
         /\ pc # "done" => \A s \in updated : was.servers[s] = Target
         /\ pc = "done" => \A s \in updated \cap Ordinary :
                              was.servers[s] = Target <=> server[s].version = Target
    BY <1>6, <1>7 DEF ServersShown
  <2>14. /\ now.target = was.target
         /\ DOMAIN now.servers = DOMAIN was.servers
         /\ \A s \in DOMAIN was.servers : now.servers[s] = was.servers[s]
    BY <2>11
  <2> HIDE DEF was, now
  <2>15. /\ DOMAIN now.servers = updated'
         /\ pc' # "start" => now.target = Target
         /\ pc' # "done" => \A s \in updated' : now.servers[s] = Target
         /\ pc' = "done" => \A s \in updated' \cap Ordinary' :
                               now.servers[s] = Target <=> server'[s].version = Target
    BY <1>5, <2>12, <2>13, <2>14
  <2>16. QED
    BY <2>15 DEF ServersShown, now
<1>8. ServersShown'
  BY <1>7 DEF ServersShown
<1>9. QED
  BY <1>1, <1>8, BooksStay

\* A rollback by hand takes back what the rollout left deployed, and finds the
\* rest taken back.
LEMMA HandReverts ==
    ASSUME TypeOK, Books, pc = "done", RollBackByHand
    PROVE  /\ \A s \in updated : Reverted(s)'
           /\ \A s \in updated : CanRollBack(server[s])
           /\ \A s \in Server \ updated : server'[s] = server[s]
           /\ updated \subseteq Server
<1>1. /\ server' = [s \in Server |-> IF s \in updated /\ server[s].version # Source
                                     THEN RollbackServer(server[s]) ELSE server[s]]
      /\ before' = before
  BY DEF RollBackByHand, histVars
<1>2. updated \subseteq Server
  BY DEF TypeOK
<1>3. ASSUME NEW s \in updated
      PROVE  Reverted(s)' /\ CanRollBack(server[s])
  <2>1. s \in Server /\ server[s] \in ServerRecord /\ before[s] \in Version
    BY <1>2 DEF TypeOK
  <2>2. Deployed(s) \/ Reverted(s)
    BY <1>3, <2>1 DEF Books
  <2>3. server'[s] = IF server[s].version # Source THEN RollbackServer(server[s])
                                                   ELSE server[s]
    BY <1>1, <1>3, <2>1
  <2>4. CASE Deployed(s)
    <3>1. server[s].version # Source
      BY <2>4, SourceAssumption DEF Deployed
    <3>2. /\ CanRollBack(server[s])
          /\ RollbackServer(server[s]).version = before[s]
          /\ RollbackServer(server[s]).previous = Target
          /\ RollbackServer(server[s]).last = [action |-> "rollback", version |-> before[s]]
      BY <2>1, <2>4, RevertDeployed
    <3>3. QED
      BY <1>1, <2>3, <3>1, <3>2 DEF Reverted, Restored
  <2>5. CASE Reverted(s)
    <3>1. /\ server[s].version = before[s] /\ server[s].previous = Target
          /\ server[s].last = [action |-> "rollback", version |-> before[s]]
      BY <2>5 DEF Reverted, Restored
    <3>2. CanRollBack(server[s]) /\ AlreadyRolledBack(server[s])
      BY <3>1, TargetAssumption, NoVersionAssumption DEF CanRollBack, AlreadyRolledBack
    <3>3. server'[s] = server[s]
      BY <2>3, <3>2 DEF RollbackServer
    <3>4. QED
      BY <1>1, <3>1, <3>2, <3>3 DEF Reverted, Restored
  <2>6. QED
    BY <2>2, <2>4, <2>5
<1>4. \A s \in Server \ updated : server'[s] = server[s]
  BY <1>1
<1>5. QED
  BY <1>2, <1>3, <1>4

\* What a rollback by hand adds to the file: two events without a parent, under
\* the rollout's id or the engine's own.
LEMMA HandWrites ==
    ASSUME AuditInv, RollBackByHand, NEW N \in Nat, N = Len(file)
    PROVE  /\ \E j \in 1 .. N : This(j)
           /\ Len(file') = N + 2 /\ \A k \in 1 .. N : file'[k] = file[k]
           /\ \A k \in 1 .. N : file[k].stamp < file'[N + 2].stamp
           /\ \E a, e, d :
                 /\ file'[N + 1] = a /\ file'[N + 2] = e /\ d \in {"this", "own"}
                 /\ a.type = "rollback_start" /\ a.parent = NoEvent /\ a.deployment = d
                 /\ e.type = "rollback_complete" /\ e.parent = NoEvent /\ e.deployment = d
                 /\ e.servers = {s \in updated : server[s].version = Source
                                                    \/ CanRollBack(server[s])}
<1>1. FileTyped /\ LastKnown /\ Stamped /\ Fresh /\ pc = "done"
  BY DEF AuditInv, Linked, RollBackByHand
<1>2. file \in Seq(Entry) /\ file # <<>> /\ Positions = 1 .. N /\ made \in Nat
  BY <1>1 DEF FileTyped, Positions
<1>3. \E j \in 1 .. N : This(j)
  <2>1. last # NoEvent
    BY <1>1 DEF Fresh
  <2>2. QED
    BY <1>1, <1>2, <2>1 DEF LastKnown
<1>4. PICK same \in SUBSET {2}, d \in {"this", "own"} :
         LET byHand(k, type, S) ==
                 [Event(made + k, NoEvent, Stamp(k, same), type, S) EXCEPT !.deployment = d]
         IN  file' = file \o <<byHand(1, "rollback_start", {}),
                               byHand(2, "rollback_complete",
                                      {s \in updated : server[s].version = Source
                                                         \/ CanRollBack(server[s])})>>
  BY DEF RollBackByHand
<1> DEFINE servers == {s \in updated : server[s].version = Source \/ CanRollBack(server[s])}
           a == [Event(made + 1, NoEvent, Stamp(1, same), "rollback_start", {})
                   EXCEPT !.deployment = d]
           e == [Event(made + 2, NoEvent, Stamp(2, same), "rollback_complete", servers)
                   EXCEPT !.deployment = d]
<1>5. file' = file \o <<a, e>>
  BY <1>4
<1>6. /\ a.type = "rollback_start" /\ a.parent = NoEvent /\ a.deployment = d
      /\ e.type = "rollback_complete" /\ e.parent = NoEvent /\ e.deployment = d
      /\ e.servers = servers /\ e.stamp = Stamp(2, same)
  <2> HIDE DEF servers
  <2>1. QED
    BY DEF Event
<1> HIDE DEF a, e
<1>7. /\ Len(file') = N + 2 /\ file'[N + 1] = a /\ file'[N + 2] = e
      /\ \A k \in 1 .. N : file'[k] = file[k]
  <2>1. Len(<<a, e>>) = 2 /\ <<a, e>>[1] = a /\ <<a, e>>[2] = e
    OBVIOUS
  <2>2. /\ Len(file \o <<a, e>>) = Len(file) + 2
        /\ \A k \in 1 .. Len(file) : (file \o <<a, e>>)[k] = file[k]
        /\ (file \o <<a, e>>)[Len(file) + 1] = a
        /\ (file \o <<a, e>>)[Len(file) + 2] = e
    BY <1>2
  <2>3. QED
    BY <1>5, <2>2
<1>8. \A k \in 1 .. N : file[k].stamp < e.stamp
  <2>1. /\ Stamp(1, same) \in Nat /\ Stamp(2, same) \in Nat /\ file[N].stamp \in Nat
        /\ file[N].stamp < Stamp(1, same) /\ Stamp(1, same) <= Stamp(2, same)
    BY <1>2, HandStamps
  <2>2. \A k \in 1 .. N : file[k] \in Entry
    BY <1>2
  <2>3. \A k \in 1 .. N : file[k].stamp \in Nat
    BY <2>2 DEF Entry
  <2>4. \A k \in 1 .. N : k = N \/ file[k].stamp <= file[N].stamp
    BY <1>1, <1>2 DEF Stamped
  <2>5. QED
    BY <1>6, <2>1, <2>3, <2>4
<1>9. QED
  BY <1>3, <1>6, <1>7, <1>8

LEMMA RollBackByHandFrames ==
    ASSUME AuditInv, Framed, RollBackByHand
    PROVE  Framed'
<1>1. /\ pc = "done" /\ pc' = "done"
      /\ ~ByHand
  <2>1. ~\E k \in DOMAIN file : file[k].type = "rollback_start" /\ file[k].parent = NoEvent
    BY DEF RollBackByHand
  <2>2. DOMAIN file = Positions
    BY DEF AuditInv, Linked, FileTyped, Positions
  <2>3. QED
    BY <2>1, <2>2 DEF RollBackByHand, ByHand
<1>2. PICK N \in Nat : N = Len(file)
  BY DEF AuditInv, Linked, FileTyped
<1>3. /\ Len(file') = N + 2 /\ \A k \in 1 .. N : file'[k] = file[k]
      /\ \A k \in 1 .. N : file[k].stamp < file'[N + 2].stamp
  BY <1>2, HandWrites
<1>4. PICK d \in {"this", "own"} :
         /\ file'[N + 1].type = "rollback_start" /\ file'[N + 1].parent = NoEvent
         /\ file'[N + 2].parent = NoEvent
         /\ file'[N + 1].deployment = d /\ file'[N + 2].deployment = d
  BY <1>2, HandWrites
<1>5. PICK j \in 1 .. N : This(j)
  BY <1>2, HandWrites
<1>6. Positions = 1 .. N /\ Positions' = 1 .. N + 2
  BY <1>2, <1>3 DEF Positions
<1>7. \A k \in 1 .. N :
         /\ This(k)' <=> This(k)
         /\ (\A i \in 1 .. k - 1 : ~This(i)') <=> \A i \in 1 .. k - 1 : ~This(i)
         /\ Chained(k)' <=> Chained(k)
  BY <1>3, Prefix
<1>8. \A k \in 1 .. N + 2 : k \in 1 .. N \/ ((k = N + 1 \/ k = N + 2) /\ j \in 1 .. k - 1)
  OBVIOUS
<1>9. This(j)'
  BY <1>5, <1>7
<1>10. ByHand'
  BY <1>4, <1>6 DEF ByHand, NoEvent
<1>11. StartFirst'
  <2> SUFFICES ASSUME NEW k \in 1 .. N + 2, This(k)', \A i \in 1 .. k - 1 : ~This(i)'
               PROVE  file'[k].type = "deployment_start"
    BY <1>6 DEF StartFirst
  <2>1. k \in 1 .. N
    BY <1>8, <1>9
  <2>2. QED
    BY <1>3, <1>6, <1>7, <2>1 DEF Framed, StartFirst
\* No rollback was done by hand before: the events off the chain were hushed.
<1>12. \A k \in 1 .. N : /\ This(k) /\ ~Chained(k) => file[k].type \in Hushed
                         /\ file[k].deployment # "own"
  BY <1>1, <1>6 DEF Framed, HandLast
<1>13. \A k \in 1 .. N + 2 : Chained(k)' => k \in 1 .. N
  BY <1>4, <1>8, <1>9 DEF Chained, NoEvent
<1>14. HandLast'
  <2>1. ASSUME NEW k \in 1 .. N + 2, This(k)', ~Chained(k)', file'[k].type \notin Hushed
        PROVE  k = N + 2
    <3>1. k \notin 1 .. N
      BY <1>3, <1>7, <1>12, <2>1
    <3>2. k # N + 1
      BY <1>4, <2>1 DEF Hushed
    <3>3. QED
      BY <1>8, <3>1, <3>2
  <2>2. \A i \in 1 .. N + 2 : Chained(i)' => file'[i].stamp < file'[N + 2].stamp
    BY <1>3, <1>13
  <2>3. ASSUME NEW k \in 1 .. N + 2, file'[k].deployment = "own"
        PROVE  file'[N + 2].deployment = "own"
    <3>1. k \notin 1 .. N
      BY <1>3, <1>12, <2>3
    <3>2. QED
      BY <1>4, <1>8, <2>3, <3>1
  <2>4. QED
    BY <1>1, <1>3, <1>6, <1>10, <2>1, <2>2, <2>3 DEF HandLast, Hushed, RootTypes
<1>15. QED
  BY <1>11, <1>14 DEF Framed

LEMMA RollBackByHandShows ==
    ASSUME AuditInv, AuditInv', Books, ServersShown, RollBackByHand
    PROVE  Books' /\ ServersShown'
<1>1. /\ pc = "done" /\ pc' = "done"
      /\ UNCHANGED <<status, trail, aborted, updated, todo, newly, before, touched>>
  BY DEF RollBackByHand, dataVars, stageVars, histVars
<1>2. TypeOK /\ TypeOK' /\ FileTyped
  BY DEF AuditInv, TypeInv, Linked
<1>3. /\ \A s \in updated : Reverted(s)'
      /\ \A s \in updated : CanRollBack(server[s])
      /\ \A s \in Server \ updated : server'[s] = server[s]
      /\ updated \subseteq Server /\ touched \subseteq Server
  BY <1>1, <1>2, HandReverts DEF TypeOK
<1>4. Books'
  <2>1. \A s \in Server \ updated : Restored(s)' = Restored(s) /\ Deployed(s)' = Deployed(s)
                                      /\ Reverted(s)' = Reverted(s)
    BY <1>1, <1>3 DEF Restored, Deployed, Reverted
  <2>2. updated \subseteq touched
    BY DEF Books
  <2>3. Events' = Events
    BY <1>1 DEF Events
  <2>4. \A s \in Server \ touched : Restored(s)'
    BY <2>1, <2>2 DEF Books
  <2>5. \A s \in touched : Deployed(s)' \/ (s \in updated /\ Reverted(s)')
    BY <1>1, <1>3, <2>1 DEF Books
  <2>6. status = "rolled_back" => \A s \in touched : Reverted(s)'
    BY <1>3, <2>1 DEF Books
  <2>7. touched = updated \/ aborted
    BY <1>1 DEF Books, Deploying
  <2>8. QED
    BY <1>1, <1>3, <2>2, <2>3, <2>4, <2>5, <2>6, <2>7 DEF Books, Deploying
<1> DEFINE g == file'
<1>5. PICK N \in Nat : N = Len(file)
  BY <1>2 DEF FileTyped
<1>6. Len(g) = N + 2 /\ \A k \in 1 .. N : g[k] = file[k]
  BY <1>5, HandWrites
<1>7. PICK a, d, id :
         /\ g[N + 1] = a /\ g[N + 2] = d /\ id \in {"this", "own"}
         /\ a.type = "rollback_start" /\ a.deployment = id
         /\ d.type = "rollback_complete" /\ d.deployment = id
         /\ d.servers = {s \in updated : server[s].version = Source \/ CanRollBack(server[s])}
  BY <1>5, HandWrites
<1>8. {s \in updated : server[s].version = Source \/ CanRollBack(server[s])} = updated
  BY <1>3
<1> HIDE DEF g
<1>9. d.servers = updated
  BY <1>7, <1>8
<1>10. ~Astray' => ~Astray /\ id = "this"
  <2>1. Positions = 1 .. N /\ Positions' = 1 .. N + 2
    BY <1>5, <1>6 DEF Positions, g
  <2>2. N + 1 \in 1 .. N + 2 /\ \A k \in 1 .. N : k \in 1 .. N + 2
    OBVIOUS
  <2>3. QED
    BY <1>6, <1>7, <2>1, <2>2 DEF Astray, g
<1>11. ASSUME ~Astray' PROVE ServersShown'
  <2> DEFINE b == Book(g)
  <2>1. b[N] = Shown
    <3>1. Len(g) \in Nat /\ Len(file) \in Nat /\ N <= Len(g) /\ N <= Len(file)
      BY <1>5, <1>6
    <3>2. Book(g)[N] = Book(file)[N]
      BY <1>6, <3>1, BookAgrees
    <3>3. QED
      BY <1>5, <3>2 DEF Shown
  <2>2. b[N + 2] = Shown'
    BY <1>6 DEF Shown, g
  <2>3. /\ \A k \in 0 .. N + 2 : Shaped(b[k])
        /\ \A k \in 1 .. N + 2 : b[k] = Entered(b[k - 1], g[k])
    <3>1. PICK m \in Nat : m = N + 2
      OBVIOUS
    <3>2. \A k \in 0 .. m : Shaped(Book(g)[k])
      BY <1>6, <3>1, BookShaped
    <3>3. \A k \in 1 .. m : Book(g)[k] = Entered(Book(g)[k - 1], g[k])
      BY <1>6, <3>1, BookUnfolds
    <3>4. QED
      BY <3>1, <3>2, <3>3
  <2> HIDE DEF b
  <2>4. /\ N + 1 \in 1 .. N + 2 /\ N + 2 \in 1 .. N + 2 /\ N + 1 - 1 = N /\ N + 2 - 1 = N + 1
        /\ N \in 0 .. N + 2 /\ N + 1 \in 0 .. N + 2
    OBVIOUS
  <2>5. b[N + 1] = Entered(b[N], a) /\ b[N + 2] = Entered(b[N + 1], d)
    BY <1>7, <2>3, <2>4
  <2> DEFINE v == b[N]
             w == b[N + 1]
             z == b[N + 2]
  <2>6. Shaped(v) /\ Shaped(w) /\ w = Apply(v, a) /\ z = Apply(w, d)
    BY <1>7, <1>10, <1>11, <2>3, <2>4, <2>5 DEF Entered
  <2> HIDE DEF v, w, z
  <2>7. Apply(v, a).target = v.target /\ Apply(v, a).servers = v.servers
    <3>1. Still(a.type)
      BY <1>7 DEF Still
    <3>2. QED
      BY <2>6, <3>1, ApplyStill
  <2>8. /\ Apply(w, d).target = w.target
        /\ DOMAIN Apply(w, d).servers = DOMAIN w.servers
        /\ \A s \in DOMAIN w.servers :
              Apply(w, d).servers[s] = IF s \in d.servers THEN Source ELSE w.servers[s]
    BY <1>7, <2>6, ApplyRollback
  <2>9. /\ DOMAIN v.servers = updated /\ v.target = Target
    <3>1. v = Shown
      BY <2>1 DEF v
    <3>2. QED
      BY <1>1, <1>10, <1>11, <3>1 DEF ServersShown
  <2>10. z.target = Target /\ DOMAIN z.servers = updated /\ \A s \in updated : z.servers[s] = Source
    BY <1>9, <2>6, <2>7, <2>8, <2>9
  <2>11. ASSUME NEW s \in updated, s \in Ordinary PROVE server'[s].version # Target
    <3>1. server'[s].version = before[s]
      BY <1>1, <1>3 DEF Reverted, Restored
    <3>2. before[s] # Target
      BY <2>11, SourceAssumption DEF Ordinary
    <3>3. QED
      BY <3>1, <3>2
  <2>12. Ordinary' = Ordinary
    BY <1>1 DEF Ordinary
  <2>13. z = Shown'
    BY <2>2 DEF z
  <2>14. /\ DOMAIN z.servers = updated'
         /\ pc' # "start" => z.target = Target
         /\ pc' # "done" => \A s \in updated' : z.servers[s] = Target
         /\ pc' = "done" => \A s \in updated' \cap Ordinary' :
                               z.servers[s] = Target <=> server'[s].version = Target
    BY <1>1, <2>10, <2>11, <2>12, SourceAssumption
  <2>15. QED
    BY <2>13, <2>14 DEF ServersShown
<1>12. ServersShown'
  BY <1>11 DEF ServersShown
<1>13. QED
  BY <1>4, <1>12

LEMMA ReplayStart == AuditInit => Books /\ Framed /\ ServersShown
<1> SUFFICES ASSUME AuditInit PROVE Books /\ Framed /\ ServersShown
  OBVIOUS
<1>1. Init /\ file = EarlierTrail
  BY DEF AuditInit, TrailInit
<1>2. Books
  BY <1>1 DEF Init, Books, Restored, Events, Deploying
<1>3. FileTyped
  BY AuditStart DEF AuditInv, Linked
<1>4. Len(file) = 3 /\ \A k \in 1 .. 3 : file[k].deployment = "earlier"
  <2>1. \A k \in 1 .. 3 : k = 1 \/ k = 2 \/ k = 3
    OBVIOUS
  <2>2. file[1].deployment = "earlier" /\ file[2].deployment = "earlier" /\ file[3].deployment = "earlier"
    BY <1>1 DEF EarlierTrail
  <2>3. Len(file) = 3
    BY <1>1 DEF EarlierTrail
  <2>4. QED
    BY <2>1, <2>2, <2>3
<1>5. Framed
  BY <1>4 DEF Framed, StartFirst, HandLast, Positions, This
<1>6. Shown = Blank
  <2>1. PICK m \in Nat : m = 3
    OBVIOUS
  <2> DEFINE b == Book(file)
  <2>2. b[0] = Blank /\ \A k \in 1 .. m : b[k] = Entered(b[k - 1], file[k])
    BY <1>4, <2>1, BookUnfolds
  <2> HIDE DEF b
  <2>3. \A k \in 1 .. 3 : b[k] = b[k - 1]
    BY <1>4, <2>1, <2>2 DEF Entered
  <2>4. b[1] = b[0] /\ b[2] = b[1] /\ b[3] = b[2]
    <3>1. 1 \in 1 .. 3 /\ 2 \in 1 .. 3 /\ 3 \in 1 .. 3 /\ 1 - 1 = 0 /\ 2 - 1 = 1 /\ 3 - 1 = 2
      OBVIOUS
    <3>2. QED
      BY <2>3, <3>1
  <2>5. QED
    BY <1>4, <2>2, <2>4 DEF Shown, b
<1>7. Blank.servers = <<>> /\ DOMAIN <<>> = {}
  BY DEF Blank
<1>8. ServersShown
  BY <1>1, <1>6, <1>7 DEF ServersShown, Init
<1>9. QED
  BY <1>2, <1>5, <1>8

\* Whatever is lost, the rollout's events begin with its start and end with a
\* rollback by hand.
LEMMA FramedInvariant == AuditSpec => []Framed
<1>1. AuditInit => Framed
  BY ReplayStart
<1>2. AuditInv /\ AuditInv' /\ Framed /\ [AuditNext]_allVars => Framed'
  <2>1. ASSUME AuditInv, AuditInv', Framed, AuditNext PROVE Framed'
    BY <2>1, RolloutStepFrames, FailedWriteShows, LostResultFrames, RollBackByHandFrames
       DEF AuditNext
  <2>2. ASSUME Framed, UNCHANGED allVars PROVE Framed'
    <3>1. UNCHANGED <<pc, updated, server, before, file>>
      BY <2>2 DEF allVars, trailVars, vars, dataVars, outsideVars, clusterVars, histVars
    <3>2. QED
      BY <2>2, <3>1, FileStays
  <2>3. QED
    BY <2>1, <2>2
<1>3. QED
  BY <1>1, <1>2, AuditInvariant, PTL DEF AuditSpec

\* While no activity result is lost, the books are kept, and the file shows them.
LEMMA ReplayInvariant == MaxLost = 0 => (AuditSpec => []ReplayInv)
<1> SUFFICES ASSUME MaxLost = 0 PROVE AuditSpec => []ReplayInv
  OBVIOUS
<1> DEFINE I == Books /\ ServersShown
<1>1. AuditInit => I
  BY ReplayStart
<1>2. AuditInv /\ AuditInv' /\ I /\ [AuditNext]_allVars => I'
  <2>1. ASSUME AuditInv, AuditInv', I, RolloutStep PROVE I'
    <3>1. TypeOK /\ Next
      BY <2>1 DEF AuditInv, TypeInv, RolloutStep
    <3>2. Books'
      BY <2>1, <3>1, BooksStep
    <3>3. QED
      BY <2>1, <3>2, ShownKeeps
  <2>2. ASSUME AuditInv, AuditInv', I, AuditNext PROVE I'
    BY <2>1, <2>2, FailedWriteShows, LostResultShows, RollBackByHandShows DEF AuditNext
  <2>3. ASSUME I, UNCHANGED allVars PROVE I'
    <3>1. UNCHANGED <<vars, file>>
      BY <2>3 DEF allVars, trailVars
    <3>2. UNCHANGED <<pc, updated, server, before, file>>
      BY <3>1 DEF vars, dataVars, outsideVars, clusterVars, histVars
    <3>3. QED
      BY <2>3, <3>1, <3>2, FileStays, BooksStay
  <2>4. QED
    BY <2>2, <2>3
<1>3. ReplayInv <=> AuditInv /\ Framed /\ I
  BY DEF ReplayInv
<1>4. QED
  BY <1>1, <1>2, <1>3, AuditInvariant, FramedInvariant, PTL DEF AuditSpec

-----------------------------------------------------------------------------
(***************************************************************************)
(* The properties of a replay.                                             *)
(***************************************************************************)

\* Where there is an event of the rollout, there is its first.
LEMMA FirstOurs ==
    ASSUME NEW n \in Nat, NEW k \in 1 .. n, This(k)
    PROVE  \E first \in 1 .. k : This(first) /\ \A j \in 1 .. first - 1 : ~This(j)
<1> DEFINE Ours == {x \in 1 .. k : This(x)}
<1>1. Ours \in SUBSET Nat /\ k \in Ours
  OBVIOUS
<1>2. PICK first \in Ours : \A j \in Ours : first <= j
  BY <1>1, Least
<1>3. first \in 1 .. k /\ This(first)
  OBVIOUS
<1>4. \A j \in 1 .. first - 1 : j \in 1 .. k /\ ~(first <= j)
  BY <1>3
<1>5. QED
  BY <1>2, <1>3, <1>4

\* Nothing off the chain changes a virtual state but a rollback by hand, the last
\* event of the file and later than the chain.
LEMMA OffChain ==
    ASSUME Framed, NEW first \in Positions, Chained(first), NEW x \in Positions, This(x)
    PROVE  \/ Chained(x)
           \/ Quiet(file[x])
           \/ x = Len(file) /\ file[first].stamp < file[x].stamp
<1>1. file[x].type \in Hushed => Quiet(file[x])
  BY DEF Hushed, RootTypes, Quiet, Entered, Apply
<1>2. QED
  BY <1>1 DEF Framed, HandLast

\* Whatever writes fail or are repeated, and whatever is done by hand afterwards,
\* what a replay shows of an event of the chain is what it showed at the time.
THEOREM HistoryStableHolds == AuditSpec => []HistoryStable
<1>1. ASSUME AuditInv, Framed PROVE HistoryStable
  <2> DEFINE order == Timeline(file, Scope(file, "this"))
  <2> SUFFICES ASSUME NEW k \in DOMAIN file, file[k].deployment = "this",
                      file[k].parent # NoEvent
               PROVE  ReplayAlong(file, order, file[k])
                        = ReplayAt(SubSeq(file, 1, k), file[k])
    BY DEF HistoryStable
  <2>1. Linked
    BY <1>1 DEF AuditInv
  <2>2. PICK n \in Nat : n = Len(file)
    BY <2>1 DEF Linked, FileTyped
  <2>3. DOMAIN file = 1 .. n /\ Positions = 1 .. n /\ k \in 1 .. n /\ n \in 1 .. n
    BY <2>1, <2>2 DEF Linked, FileTyped, Positions
  <2> DEFINE g == SubSeq(file, 1, k)
  <2>4. DOMAIN g = 1 .. k /\ Len(g) = k /\ \A x \in 1 .. k : g[x] = file[x]
    <3>1. file \in Seq(Entry)
      BY <2>1 DEF Linked, FileTyped
    <3>2. QED
      BY <2>2, <2>3, <3>1
  <2> HIDE DEF g
  <2>5. This(k) /\ Chained(k)
    BY DEF Chained, This
  <2>6. PICK first \in 1 .. k : This(first) /\ \A j \in 1 .. first - 1 : ~This(j)
    BY <2>3, <2>5, FirstOurs
  <2> DEFINE S == Scope(file, "this")
             T == Scope(g, "this")
             C == {x \in 1 .. n : Chained(x)}
             D == {x \in 1 .. k : Chained(x)}
  <2>7. /\ first \in 1 .. n /\ k \in Positions /\ n \in Positions /\ Chained(first)
        /\ \A x \in 1 .. k : x \in 1 .. n
    BY <2>3, <2>6 DEF Chained
  <2>8. ChainOf(file, S, C, first)
    BY <2>1, <2>3, <2>6, <2>7, FileIsChain
  <2>9. ChainOf(g, T, D, first)
    BY <2>1, <2>4, <2>6, <2>7, FileIsChain
  <2>10. /\ \A x : x \in S <=> x \in 1 .. Len(file) /\ file[x].deployment = "this"
         /\ \A x : x \in T <=> x \in 1 .. Len(g) /\ g[x].deployment = "this"
    BY <2>2, <2>3, <2>4 DEF Scope
  <2>11. k \in C /\ k \in D /\ k \in S /\ k \in T
    BY <2>2, <2>3, <2>4, <2>5, <2>10
  <2>12. \A x \in 1 .. n : This(x) =>
            Chained(x) \/ Quiet(file[x]) \/ (x = n /\ file[first].stamp < file[x].stamp)
    BY <1>1, <2>2, <2>3, <2>7, OffChain
  <2>13. \A x \in S :
            x \in C \/ Quiet(file[x]) \/ (k <= x /\ file[first].stamp < file[x].stamp)
    <3>1. \A x \in S : x \in 1 .. n /\ This(x)
      BY <2>2, <2>10 DEF This
    <3>2. k <= n
      BY <2>3
    <3>3. QED
      BY <2>12, <3>1, <3>2
  <2>14. \A x \in T :
            x \in D \/ Quiet(g[x]) \/ (k <= x /\ g[first].stamp < g[x].stamp)
    <3> SUFFICES ASSUME NEW x \in T, x \notin D, ~Quiet(g[x]) PROVE FALSE
      OBVIOUS
    <3>1. x \in 1 .. k /\ This(x) /\ g[x] = file[x] /\ x \in 1 .. n
      BY <2>4, <2>7, <2>10 DEF This
    <3>2. x = n
      BY <2>12, <3>1
    <3>3. x = k
      BY <2>3, <3>1, <3>2
    <3>4. QED
      BY <2>11, <3>3
  <2> HIDE DEF C, D, S, T
  <2>15. ReplayAlong(file, Timeline(file, S), file[k]) = Book(file)[k]
    BY <2>2, <2>8, <2>10, <2>11, <2>13, ReplayReadsBook
  <2>16. ReplayAlong(g, Timeline(g, T), g[k]) = Book(g)[k]
    <3>1. Len(g) \in Nat
      BY <2>3, <2>4
    <3>2. QED
      BY <2>9, <2>10, <2>11, <2>14, <3>1, ReplayReadsBook
  <2>17. Book(file)[k] = Book(g)[k] /\ g[k] = file[k]
    <3>1. k \in Nat /\ k <= Len(file) /\ k <= Len(g) /\ Len(file) \in Nat /\ Len(g) \in Nat
          /\ k \in 1 .. k
      BY <2>2, <2>3, <2>4
    <3>2. QED
      BY <2>4, <3>1, BookAgrees
  <2>18. QED
    BY <2>15, <2>16, <2>17 DEF ReplayAt, g, S, T
<1>2. QED
  BY <1>1, AuditInvariant, FramedInvariant, PTL

\* A replay of the newest event reads the events of the rollout in the order of
\* the file: the chain comes before it, and what is off the chain moves no server,
\* but for the event that ends a rollback by hand.
LEMMA ReplayIsBook ==
    ASSUME Linked, Framed, Last(file).deployment = "this", AfterStart(Last(file))
    PROVE  ReplayAt(file, Last(file)) = Shown
<1>1. PICK m \in Nat : m = Len(file)
  BY DEF Linked, FileTyped
<1>2. /\ file \in Seq(Entry) /\ Positions = 1 .. m /\ DOMAIN file = 1 .. m
      /\ m \in 1 .. m /\ Last(file) = file[m]
  BY <1>1 DEF Linked, FileTyped, Positions, Last
<1>3. This(m)
  BY <1>2 DEF This
<1>4. PICK first \in 1 .. m : This(first) /\ \A j \in 1 .. first - 1 : ~This(j)
  BY <1>2, <1>3, FirstOurs
<1> DEFINE S == Scope(file, "this")
           C == {x \in 1 .. m : Chained(x)}
<1>5. ChainOf(file, S, C, first)
  BY <1>2, <1>4, FileIsChain
<1>6. \A x : x \in S <=> x \in 1 .. m /\ file[x].deployment = "this"
  BY <1>2 DEF Scope
<1>7. m \in S
  BY <1>2, <1>6
<1>8. Chained(first)
  BY <1>4 DEF Chained
<1>9. m \in C \/ file[first].stamp < file[m].stamp
  <2>1. CASE file[m].parent # NoEvent
    BY <1>2, <1>3, <2>1 DEF Chained
  <2>2. CASE file[m].parent = NoEvent
    <3>1. first \in S /\ file[first].type = "deployment_start"
      BY <1>2, <1>4, <1>6 DEF Framed, StartFirst, This
    <3>2. QED
      BY <1>2, <2>2, <3>1 DEF AfterStart
  <2>3. QED
    BY <2>1, <2>2
<1>10. ASSUME NEW x \in S
       PROVE  x \in C \/ Quiet(file[x]) \/ (m <= x /\ file[first].stamp < file[x].stamp)
  <2>1. x \in 1 .. m /\ This(x)
    BY <1>6 DEF This
  <2>2. Chained(x) \/ Quiet(file[x]) \/ (x = m /\ file[first].stamp < file[x].stamp)
    BY <1>1, <1>2, <1>8, <2>1, OffChain
  <2>3. QED
    BY <2>1, <2>2
<1> HIDE DEF S, C
<1>11. ReplayAlong(file, Timeline(file, S), file[m]) = Book(file)[m]
  <2>1. m \in C \/ (m = Len(file) /\ file[first].stamp < file[m].stamp)
    BY <1>1, <1>9
  <2>2. Len(file) \in Nat
    BY <1>1
  <2>3. \A x : x \in S <=> x \in 1 .. Len(file) /\ file[x].deployment = "this"
    BY <1>1, <1>6
  <2>4. QED
    BY <1>5, <1>7, <1>10, <2>1, <2>2, <2>3, ReplayReadsBook
<1>12. QED
  BY <1>1, <1>2, <1>11 DEF ReplayAt, Shown, S

\* While no activity result is lost, a replay of the newest event shows the
\* deployment's books, and which ordinary servers on them run the new version,
\* whatever writes failed or were repeated, whatever stamps are equal, and after a
\* rollback by hand that is recorded under the rollout's id.
THEOREM ReplayNowHolds == MaxLost = 0 => (AuditSpec => []ReplayNow)
<1> SUFFICES ASSUME MaxLost = 0 PROVE AuditSpec => []ReplayNow
  OBVIOUS
<1>1. ASSUME ReplayInv PROVE ReplayNow
  <2> SUFFICES ASSUME file # <<>>, Last(file).deployment = "this", pc # "rolled",
                      AfterStart(Last(file))
               PROVE  LET shown == ReplayAt(file, Last(file)).servers
                      IN  /\ DOMAIN shown = updated
                          /\ \A s \in updated \cap Ordinary :
                                shown[s] = Target <=> server[s].version = Target
    BY DEF ReplayNow
  <2>1. AuditInv /\ Linked /\ Books /\ Framed /\ ServersShown
    BY <1>1 DEF ReplayInv, AuditInv
  <2>2. ReplayAt(file, Last(file)) = Shown
    BY <2>1, ReplayIsBook
  <2>3. ~Astray
    <3>1. Last(file) = file[Len(file)]
      BY DEF Last
    <3>2. QED
      BY <2>1, <3>1 DEF Astray, Framed, HandLast
  <2>4. pc # "done" => \A s \in updated : server[s].version = Target
    BY <2>1 DEF Books, Deployed
  <2>5. DOMAIN Shown.servers = updated
    BY <2>1, <2>3 DEF ServersShown
  <2>6. \A s \in updated \cap Ordinary :
           Shown.servers[s] = Target <=> server[s].version = Target
    BY <2>1, <2>3, <2>4 DEF ServersShown
  <2>7. QED
    BY <2>2, <2>5, <2>6
<1>2. QED
  BY <1>1, ReplayInvariant, PTL

=============================================================================
