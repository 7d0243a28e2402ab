------------------------- MODULE QueriesTreapProofs -------------------------
(***************************************************************************)
(* Theorems about QueriesTreap, for every finite set of scores, every set   *)
(* of priorities and any number of documents and queries.                   *)
(*                                                                          *)
(* Each method of the treap is a recursive function on Tree.  For each one  *)
(*   <Op>Step     is one call, given a function f for the calls it makes;   *)
(*   <Op>Local    says that those are on trees one lower;                   *)
(*   <Op>Exists   has the function, by induction on the height;             *)
(*   <Op>Is       unfolds a call;                                           *)
(* and a last lemma, by induction on the height, says what the call does to *)
(*   Labels       the pairs of a key and its priority;                      *)
(*   Held(n, acc) the entries, under the additions acc from above;          *)
(*   Sound        every node holds items, its cached maxima bound what is   *)
(*                below it, and keys and priorities are in order.           *)
(***************************************************************************)
EXTENDS QueriesTreap, FiniteSetTheorems, WellFoundedInduction, TLAPS

-----------------------------------------------------------------------------
(* Induction over a set of numbers.                                         *)

\* A set of numbers that is not empty has a least one.
LEMMA LeastNat ==
  ASSUME NEW T \in SUBSET Nat, T # {}
  PROVE  \E x \in T : \A y \in T : x <= y
<1> DEFINE R == OpToRel(<, Nat)
<1>1. IsWellFoundedOn(R, Nat)
  BY NatLessThanWellFounded
<1>2. \A x, y \in Nat : y < x => <<y, x>> \in R
  BY DEF OpToRel
<1> HIDE DEF R
<1>3. PICK x \in T : \A y \in T : ~ (<<y, x>> \in R)
  BY <1>1, WFMin
<1>4. \A y \in T : x \in Nat /\ y \in Nat /\ ~ (y < x)
  BY <1>2, <1>3
<1>5. \A y \in T : x <= y
  BY <1>4
<1> QED
  BY <1>5

\* Induction: a set that has 0, and with a number the next, has them all.
LEMMA NatSet ==
  ASSUME NEW T \in SUBSET Nat, 0 \in T, \A n \in T : n + 1 \in T
  PROVE  T = Nat
<1> SUFFICES ASSUME Nat \ T # {}
             PROVE  FALSE
  OBVIOUS
<1>1. Nat \ T \in SUBSET Nat
  OBVIOUS
<1>2. PICK x \in Nat \ T : \A y \in Nat \ T : x <= y
  BY <1>1, LeastNat
<1>3. x - 1 \in Nat /\ (x - 1) + 1 = x
  BY <1>2
<1>4. x - 1 \in T
  BY <1>2, <1>3
<1> QED
  BY <1>2, <1>3, <1>4

-----------------------------------------------------------------------------
(* The trees.                                                               *)

LEMMA MaxHeightType == MaxHeight \in Nat /\ Cardinality(Scores) \in Nat
BY ScoresAssumption, FS_CardinalityType DEF MaxHeight

LEMMA TreesUpToIs ==
  \A h \in 0..MaxHeight :
    TreesUpTo[h] = IF h = 0 THEN {Nil} ELSE {Nil} \cup NodesOver(TreesUpTo[h - 1])
<1> DEFINE Is(f, m) == f = [h \in 0..m |-> IF h = 0 THEN {Nil}
                                          ELSE {Nil} \cup NodesOver(f[h - 1])]
           T == {m \in Nat : \E f : Is(f, m)}
<1>1. 0 \in T
  <2>1. Is([h \in 0..0 |-> {Nil}], 0)
    OBVIOUS
  <2> QED
    BY <2>1
<1>2. ASSUME NEW m \in T
      PROVE  m + 1 \in T
  <2>1. PICK f : Is(f, m)
    OBVIOUS
  <2> DEFINE g == [h \in 0..(m + 1) |-> IF h = 0 THEN {Nil}
                                       ELSE {Nil} \cup NodesOver(f[h - 1])]
  <2>2. ASSUME NEW h \in 0..(m + 1), h # 0
        PROVE  g[h - 1] = f[h - 1]
    <3>1. h - 1 \in 0..m /\ h - 1 \in 0..(m + 1)
      BY <2>2
    <3>2. f[h - 1] = IF h - 1 = 0 THEN {Nil} ELSE {Nil} \cup NodesOver(f[h - 1 - 1])
      BY <2>1, <3>1
    <3> QED
      BY <3>1, <3>2
  <2>3. g = [h \in 0..(m + 1) |-> IF h = 0 THEN {Nil}
                                 ELSE {Nil} \cup NodesOver(g[h - 1])]
    BY <2>2
  <2> HIDE DEF g
  <2> QED
    BY <2>3
<1>3. T = Nat
  <2> HIDE DEF T
  <2>1. T \in SUBSET Nat
    BY DEF T
  <2> QED
    BY <1>1, <1>2, <2>1, NatSet
<1>4. \E f : Is(f, MaxHeight)
  BY <1>3, MaxHeightType
<1>5. Is(TreesUpTo, MaxHeight)
  BY <1>4 DEF TreesUpTo
<1> QED
  BY <1>5

LEMMA TreesZero == TreesUpTo[0] = {Nil}
<1>1. 0 \in 0..MaxHeight
  BY MaxHeightType
<1> QED
  BY <1>1, TreesUpToIs

LEMMA TreesNext ==
  ASSUME NEW h \in Nat, h < MaxHeight
  PROVE  TreesUpTo[h + 1] = {Nil} \cup NodesOver(TreesUpTo[h])
<1>1. h + 1 \in 0..MaxHeight /\ h + 1 # 0 /\ (h + 1) - 1 = h
  BY MaxHeightType
<1> QED
  BY <1>1, TreesUpToIs

LEMMA NodesOverMonotone ==
  ASSUME NEW S, NEW R, S \subseteq R
  PROVE  NodesOver(S) \subseteq NodesOver(R)
BY DEF NodesOver

LEMMA TreesGrow ==
  \A h \in Nat : h < MaxHeight => TreesUpTo[h] \subseteq TreesUpTo[h + 1]
<1> DEFINE T == {h \in Nat : h < MaxHeight => TreesUpTo[h] \subseteq TreesUpTo[h + 1]}
<1>1. 0 \in T
  BY TreesZero, TreesNext
<1>2. ASSUME NEW h \in T
      PROVE  h + 1 \in T
  <2> SUFFICES ASSUME h + 1 < MaxHeight
               PROVE  TreesUpTo[h + 1] \subseteq TreesUpTo[h + 1 + 1]
    OBVIOUS
  <2>1. h \in Nat /\ h + 1 \in Nat /\ h < MaxHeight
    BY MaxHeightType
  <2>2. /\ TreesUpTo[h + 1] = {Nil} \cup NodesOver(TreesUpTo[h])
        /\ TreesUpTo[h + 1 + 1] = {Nil} \cup NodesOver(TreesUpTo[h + 1])
    BY <2>1, TreesNext
  <2>3. TreesUpTo[h] \subseteq TreesUpTo[h + 1]
    BY <2>1
  <2> QED
    BY <2>2, <2>3, NodesOverMonotone
<1>3. T = Nat
  <2> HIDE DEF T
  <2>1. T \in SUBSET Nat
    BY DEF T
  <2> QED
    BY <1>1, <1>2, <2>1, NatSet
<1> QED
  BY <1>3

LEMMA TreesMonotone ==
  ASSUME NEW i \in Nat, NEW j \in Nat, i <= j, j <= MaxHeight
  PROVE  TreesUpTo[i] \subseteq TreesUpTo[j]
<1> DEFINE T == {k \in Nat : i + k <= MaxHeight => TreesUpTo[i] \subseteq TreesUpTo[i + k]}
<1>1. 0 \in T
  OBVIOUS
<1>2. ASSUME NEW k \in T
      PROVE  k + 1 \in T
  <2> SUFFICES ASSUME i + (k + 1) <= MaxHeight
               PROVE  TreesUpTo[i] \subseteq TreesUpTo[i + (k + 1)]
    OBVIOUS
  <2>1. k \in Nat /\ i + k \in Nat /\ i + k < MaxHeight /\ i + (k + 1) = (i + k) + 1
    BY MaxHeightType
  <2>2. TreesUpTo[i] \subseteq TreesUpTo[i + k]
    BY <2>1, MaxHeightType
  <2>3. TreesUpTo[i + k] \subseteq TreesUpTo[(i + k) + 1]
    BY <2>1, TreesGrow
  <2> QED
    BY <2>1, <2>2, <2>3
<1>3. T = Nat
  <2> HIDE DEF T
  <2>1. T \in SUBSET Nat
    BY DEF T
  <2> QED
    BY <1>1, <1>2, <2>1, NatSet
<1>4. j - i \in Nat /\ i + (j - i) = j
  OBVIOUS
<1>5. j - i \in T
  BY <1>3, <1>4
<1> QED
  BY <1>4, <1>5

LEMMA TreesInTree ==
  ASSUME NEW h \in 0..MaxHeight
  PROVE  TreesUpTo[h] \subseteq Tree /\ Nil \in TreesUpTo[h]
<1>1. TreesUpTo[h] \subseteq TreesUpTo[MaxHeight]
  BY MaxHeightType, TreesMonotone
<1>2. Nil \in TreesUpTo[h]
  BY TreesUpToIs
<1> QED
  BY <1>1, <1>2 DEF Tree

LEMMA NodeParts ==
  ASSUME NEW S, NEW n \in NodesOver(S)
  PROVE  /\ n # Nil
         /\ n.key \in Scores /\ n.prio \in Prios /\ n.add \in Int /\ n.localAdd \in Int
         /\ n.items \in SUBSET (Int \X (1..MaxQueries) \X Scores)
         /\ n.top \in Int /\ n.capTop \in Int /\ n.l \in S /\ n.r \in S
<1>1. n # Nil
  <2> SUFFICES ASSUME n = Nil PROVE FALSE
    OBVIOUS
  <2>1. DOMAIN n = {"nil"}
    BY DEF Nil
  <2>2. "key" \in DOMAIN n
    BY DEF NodesOver
  <2> QED
    BY <2>1, <2>2
<1> QED
  BY <1>1 DEF NodesOver

\* The cases of a tree.
LEMMA TreeParts ==
  ASSUME NEW h \in Nat, h < MaxHeight, NEW n \in TreesUpTo[h + 1], n # Nil
  PROVE  /\ n \in NodesOver(TreesUpTo[h])
         /\ n.key \in Scores /\ n.prio \in Prios /\ n.add \in Int /\ n.localAdd \in Int
         /\ n.items \in SUBSET (Int \X (1..MaxQueries) \X Scores)
         /\ n.top \in Int /\ n.capTop \in Int
         /\ n.l \in TreesUpTo[h] /\ n.r \in TreesUpTo[h]
<1>1. n \in NodesOver(TreesUpTo[h])
  BY TreesNext
<1> QED
  BY <1>1, NodeParts

-----------------------------------------------------------------------------
(* The recursive methods: each is the function its equation says.           *)

NodesStep(f, n) == IF n = Nil THEN {} ELSE {n} \cup f[n.l] \cup f[n.r]

LEMMA NodesLocal ==
  ASSUME NEW h \in Nat, h < MaxHeight, NEW n \in TreesUpTo[h + 1], NEW f, NEW g,
         \A x \in TreesUpTo[h] : f[x] = g[x]
  PROVE  NodesStep(f, n) = NodesStep(g, n)
BY TreeParts DEF NodesStep

LEMMA NodesExists ==
  \E f : f = [n \in Tree |-> NodesStep(f, n)]
<1> DEFINE T == {h \in Nat : h <= MaxHeight =>
                     \E f : f = [n \in TreesUpTo[h] |-> NodesStep(f, n)]}
<1>1. 0 \in T
  <2> DEFINE f == [n \in TreesUpTo[0] |-> {}]
  <2>1. f = [n \in TreesUpTo[0] |-> NodesStep(f, n)]
    BY TreesZero DEF NodesStep
  <2> QED
    BY <2>1
<1>2. ASSUME NEW h \in T
      PROVE  h + 1 \in T
  <2> SUFFICES ASSUME h + 1 <= MaxHeight
               PROVE  \E f : f = [n \in TreesUpTo[h + 1] |-> NodesStep(f, n)]
    OBVIOUS
  <2>1. h \in Nat /\ h < MaxHeight /\ h <= MaxHeight
    BY MaxHeightType
  <2>2. PICK f : f = [n \in TreesUpTo[h] |-> NodesStep(f, n)]
    BY <2>1
  <2> DEFINE g == [n \in TreesUpTo[h + 1] |-> NodesStep(f, n)]
  <2>3. \A x \in TreesUpTo[h] : f[x] = g[x]
    <3>1. TreesUpTo[h] \subseteq TreesUpTo[h + 1]
      BY <2>1, TreesGrow
    <3> QED
      BY <2>2, <3>1
  <2>4. \A n \in TreesUpTo[h + 1] : NodesStep(f, n) = NodesStep(g, n)
    <3> HIDE DEF g
    <3> QED
      BY <2>1, <2>3, NodesLocal
  <2>5. g = [n \in TreesUpTo[h + 1] |-> NodesStep(g, n)]
    <3> DEFINE G(n) == NodesStep(f, n)
               H(n) == NodesStep(g, n)
    <3>1. \A n \in TreesUpTo[h + 1] : G(n) = H(n)
      BY <2>4
    <3>2. g = [n \in TreesUpTo[h + 1] |-> G(n)]
      OBVIOUS
    <3> HIDE DEF g, G, H
    <3>3. g = [n \in TreesUpTo[h + 1] |-> H(n)]
      BY <3>1, <3>2
    <3> QED
      BY <3>3 DEF H
  <2> HIDE DEF g
  <2> QED
    BY <2>5
<1>3. T = Nat
  <2> HIDE DEF T
  <2>1. T \in SUBSET Nat
    BY DEF T
  <2> QED
    BY <1>1, <1>2, <2>1, NatSet
<1>4. MaxHeight \in T
  BY <1>3, MaxHeightType
<1> QED
  BY <1>4, MaxHeightType DEF Tree

LEMMA NodesIs ==
  /\ Nodes(Nil) = {}
  /\ \A n \in Tree : n # Nil => Nodes(n) = {n} \cup Nodes(n.l) \cup Nodes(n.r)
<1> DEFINE F == CHOOSE f : f = [n \in Tree |->
                   IF n = Nil THEN {} ELSE {n} \cup f[n.l] \cup f[n.r]]
<1>1. F = [n \in Tree |-> IF n = Nil THEN {} ELSE {n} \cup F[n.l] \cup F[n.r]]
  BY NodesExists DEF NodesStep
<1>2. \A n : Nodes(n) = F[n]
  BY DEF Nodes
<1>3. Nil \in Tree
  BY TreesInTree, MaxHeightType DEF Tree
<1> HIDE DEF F
<1> QED
  BY <1>1, <1>2, <1>3

-----------------------------------------------------------------------------
(* Push and the changes to one node.                                        *)

LEMMA AddParts ==
  ASSUME NEW h \in Nat, h <= MaxHeight, NEW n \in TreesUpTo[h], NEW d \in Int
  PROVE  /\ AddToSubtree(n, d) \in TreesUpTo[h]
         /\ n = Nil => AddToSubtree(n, d) = Nil
         /\ n # Nil => LET a == AddToSubtree(n, d)
                       IN  /\ a # Nil /\ a.key = n.key /\ a.prio = n.prio
                           /\ a.add = n.add + d /\ a.localAdd = n.localAdd
                           /\ a.items = n.items /\ a.top = n.top + d
                           /\ a.capTop = n.capTop /\ a.l = n.l /\ a.r = n.r
<1>1. CASE n = Nil
  BY <1>1 DEF AddToSubtree
<1>2. CASE n # Nil
  <2>1. h # 0
    BY <1>2, TreesZero
  <2>2. /\ h - 1 \in Nat /\ h - 1 < MaxHeight /\ (h - 1) + 1 = h
    BY <2>1, MaxHeightType
  <2>3. n \in NodesOver(TreesUpTo[h - 1])
    BY <1>2, <2>2, TreeParts
  <2>4. AddToSubtree(n, d) = [n EXCEPT !.add = n.add + d, !.top = n.top + d]
    BY <1>2 DEF AddToSubtree
  <2>5. AddToSubtree(n, d) \in NodesOver(TreesUpTo[h - 1])
    <3>1. n.add + d \in Int /\ n.top + d \in Int
      BY <2>3, NodeParts
    <3> QED
      BY <2>3, <2>4, <3>1 DEF NodesOver
  <2>6. AddToSubtree(n, d) # Nil
    BY <2>5, NodeParts
  <2>7. AddToSubtree(n, d) \in TreesUpTo[h]
    BY <2>2, <2>5, TreesNext
  <2> QED
    BY <1>2, <2>3, <2>4, <2>6, <2>7 DEF NodesOver
<1> QED
  BY <1>1, <1>2

LEMMA PushParts ==
  ASSUME NEW h \in Nat, h <= MaxHeight, NEW n \in NodesOver(TreesUpTo[h])
  PROVE  LET m == Push(n)
         IN  /\ m \in NodesOver(TreesUpTo[h])
             /\ m.key = n.key /\ m.prio = n.prio /\ m.add = 0
             /\ m.localAdd = n.localAdd + n.add /\ m.items = n.items
             /\ m.top = n.top /\ m.capTop = n.capTop
             /\ m.l = AddToSubtree(n.l, n.add) /\ m.r = AddToSubtree(n.r, n.add)
<1> DEFINE L == AddToSubtree(n.l, n.add)
           R == AddToSubtree(n.r, n.add)
<1>1. L \in TreesUpTo[h] /\ R \in TreesUpTo[h]
  BY NodeParts, AddParts
<1>2. Push(n) = [n EXCEPT !.l = L, !.r = R, !.localAdd = n.localAdd + n.add, !.add = 0]
  BY DEF Push
<1> HIDE DEF L, R
<1>3. Push(n) \in NodesOver(TreesUpTo[h])
  <2>1. n.localAdd + n.add \in Int
    BY NodeParts
  <2>2. Push(n) = [key |-> n.key, prio |-> n.prio, add |-> 0,
                   localAdd |-> n.localAdd + n.add, items |-> n.items,
                   top |-> n.top, capTop |-> n.capTop, l |-> L, r |-> R]
    BY <1>2 DEF NodesOver
  <2> QED
    BY <1>1, <2>1, <2>2, NodeParts DEF NodesOver
<1>4. /\ Push(n).l = L /\ Push(n).r = R /\ Push(n).localAdd = n.localAdd + n.add
      /\ Push(n).add = 0 /\ Push(n).key = n.key /\ Push(n).prio = n.prio
      /\ Push(n).items = n.items /\ Push(n).top = n.top /\ Push(n).capTop = n.capTop
  BY <1>2 DEF NodesOver
<1> QED
  BY <1>3, <1>4 DEF L, R

LEMMA SetLeft ==
  ASSUME NEW S, NEW m \in NodesOver(S), NEW v, NEW R, S \subseteq R, v \in R
  PROVE  LET p == [m EXCEPT !.l = v]
         IN  /\ p \in NodesOver(R)
             /\ p.key = m.key /\ p.prio = m.prio /\ p.add = m.add
             /\ p.localAdd = m.localAdd /\ p.items = m.items
             /\ p.l = v /\ p.r = m.r
BY DEF NodesOver

LEMMA SetRight ==
  ASSUME NEW S, NEW m \in NodesOver(S), NEW v, NEW R, S \subseteq R, v \in R
  PROVE  LET p == [m EXCEPT !.r = v]
         IN  /\ p \in NodesOver(R)
             /\ p.key = m.key /\ p.prio = m.prio /\ p.add = m.add
             /\ p.localAdd = m.localAdd /\ p.items = m.items
             /\ p.l = m.l /\ p.r = v
BY DEF NodesOver

LEMMA SetItems ==
  ASSUME NEW S, NEW m \in NodesOver(S),
         NEW v \in SUBSET (Int \X (1..MaxQueries) \X Scores)
  PROVE  LET p == [m EXCEPT !.items = v]
         IN  /\ p \in NodesOver(S)
             /\ p.key = m.key /\ p.prio = m.prio /\ p.add = m.add
             /\ p.localAdd = m.localAdd /\ p.items = v
             /\ p.l = m.l /\ p.r = m.r
BY DEF NodesOver

\* The subtrees a pushed node goes on with.
LEMMA PushedParts ==
  ASSUME NEW h \in Nat, h < MaxHeight, NEW n \in TreesUpTo[h + 1], n # Nil
  PROVE  Push(n).l \in TreesUpTo[h] /\ Push(n).r \in TreesUpTo[h]
<1>1. n \in NodesOver(TreesUpTo[h])
  BY TreeParts
<1>2. Push(n) \in NodesOver(TreesUpTo[h])
  BY <1>1, PushParts, MaxHeightType
<1> QED
  BY <1>2, NodeParts

-----------------------------------------------------------------------------
(* The cached maxima.                                                       *)

LEMMA FiniteImage ==
  ASSUME NEW S, IsFiniteSet(S), NEW f
  PROVE  IsFiniteSet({f[x] : x \in S})
<1> DEFINE T == {f[x] : x \in S}
           g == [x \in S |-> f[x]]
<1>1. g \in Surjection(S, T)
  BY DEF Surjection
<1> HIDE DEF g, T
<1>2. IsFiniteSet(T)
  BY <1>1, FS_Surjection
<1> QED
  BY <1>2 DEF T

LEMMA PairIsFinite ==
  ASSUME NEW x, NEW y
  PROVE  IsFiniteSet({x, y})
<1>1. IsFiniteSet({x} \cup {y})
  BY FS_Singleton, FS_AddElement
<1>2. {x} \cup {y} = {x, y}
  OBVIOUS
<1> QED
  BY <1>1, <1>2

LEMMA ItemParts ==
  ASSUME NEW i \in Int \X (1..MaxQueries) \X Scores
  PROVE  /\ i[1] \in Int /\ i[2] \in 1..MaxQueries
         /\ i[3] \in Scores /\ i[3] \in Int
<1>1. \A A, B, C : \A j \in A \X B \X C : j[1] \in A /\ j[2] \in B /\ j[3] \in C
  OBVIOUS
<1>2. i[1] \in Int /\ i[2] \in 1..MaxQueries /\ i[3] \in Scores
  BY <1>1
<1>3. \A s \in Scores : s \in Int
  BY ScoresAssumption
<1> QED
  BY <1>2, <1>3

\* A finite set of numbers that is not empty has a highest one.
LEMMA HighestIs ==
  ASSUME NEW S \in SUBSET Int, IsFiniteSet(S), S # {}
  PROVE  Highest(S) \in S /\ \A y \in S : y <= Highest(S)
<1> DEFINE Has(R) == \E x \in R : \A y \in R : y <= x
           T == {k \in Nat : \A R \in SUBSET Int :
                   IsFiniteSet(R) /\ Cardinality(R) = k + 1 => Has(R)}
<1>1. 0 \in T
  <2> SUFFICES ASSUME NEW R \in SUBSET Int, IsFiniteSet(R), Cardinality(R) = 1
               PROVE  Has(R)
    OBVIOUS
  <2>1. PICK x : R = {x}
    BY FS_Singleton
  <2> QED
    BY <2>1
<1>2. ASSUME NEW k \in T
      PROVE  k + 1 \in T
  <2> SUFFICES ASSUME NEW R \in SUBSET Int, IsFiniteSet(R),
                      Cardinality(R) = (k + 1) + 1
               PROVE  Has(R)
    OBVIOUS
  <2>1. k \in Nat
    OBVIOUS
  <2>2. R # {}
    BY <2>1, FS_EmptySet
  <2>3. PICK z \in R : TRUE
    BY <2>2
  <2>4. IsFiniteSet(R \ {z}) /\ Cardinality(R \ {z}) = k + 1
    BY <2>1, <2>3, FS_RemoveElement
  <2>5. Has(R \ {z})
    BY <2>4
  <2>6. PICK x \in R \ {z} : \A y \in R \ {z} : y <= x
    BY <2>5
  <2>7. x \in Int /\ z \in Int
    BY <2>3, <2>6
  <2>8. CASE z <= x
    BY <2>6, <2>8
  <2>9. CASE x < z
    <3>1. \A y \in R : y \in Int /\ y <= z
      BY <2>6, <2>7, <2>9
    <3> QED
      BY <2>3, <3>1
  <2> QED
    BY <2>7, <2>8, <2>9
<1>3. T = Nat
  <2> HIDE DEF T
  <2>1. T \in SUBSET Nat
    BY DEF T
  <2> QED
    BY <1>1, <1>2, <2>1, NatSet
<1>4. Cardinality(S) \in Nat /\ Cardinality(S) # 0
  BY FS_CardinalityType, FS_EmptySet
<1>5. Cardinality(S) - 1 \in Nat /\ Cardinality(S) = (Cardinality(S) - 1) + 1
  BY <1>4
<1>6. Cardinality(S) - 1 \in T
  BY <1>3, <1>5
<1>7. Has(S)
  BY <1>5, <1>6
<1> QED
  BY <1>7 DEF Highest

\* The cached maxima bound the items and the maxima of the subtrees.
Cached(n) ==
  /\ \A i \in n.items : i[1] + n.localAdd + n.add <= n.top /\ i[3] <= n.capTop
  /\ \A c \in Children(n) : c.top + n.add <= n.top /\ c.capTop <= n.capTop

LEMMA ChildParts ==
  ASSUME NEW h \in Nat, h <= MaxHeight, NEW n \in TreesUpTo[h], n # Nil
  PROVE  n.top \in Int /\ n.capTop \in Int
<1>1. h # 0
  BY TreesZero
<1>2. h - 1 \in Nat /\ h - 1 < MaxHeight /\ (h - 1) + 1 = h
  BY <1>1, MaxHeightType
<1> QED
  BY <1>2, TreeParts

LEMMA PullParts ==
  ASSUME NEW h \in Nat, h <= MaxHeight, NEW n \in NodesOver(TreesUpTo[h]),
         n.items # {}, IsFiniteSet(n.items)
  PROVE  LET m == Pull(n)
         IN  /\ m \in NodesOver(TreesUpTo[h])
             /\ m.key = n.key /\ m.prio = n.prio /\ m.add = n.add
             /\ m.localAdd = n.localAdd /\ m.items = n.items
             /\ m.l = n.l /\ m.r = n.r
             /\ Cached(m)
<1> DEFINE A == {i[1] + n.localAdd : i \in n.items}
           B == {i[3] : i \in n.items}
           C == {c.top : c \in Children(n)}
           D == {c.capTop : c \in Children(n)}
<1>1. /\ n.key \in Scores /\ n.prio \in Prios /\ n.add \in Int /\ n.localAdd \in Int
      /\ n.items \in SUBSET (Int \X (1..MaxQueries) \X Scores)
      /\ n.l \in TreesUpTo[h] /\ n.r \in TreesUpTo[h]
  BY NodeParts
<1>2. \A i \in n.items : i[1] \in Int /\ i[3] \in Int
  BY <1>1, ItemParts
<1>3. A \in SUBSET Int /\ B \in SUBSET Int /\ A # {} /\ B # {}
  BY <1>1, <1>2
<1>4. C \in SUBSET Int /\ D \in SUBSET Int
  BY <1>1, ChildParts DEF Children
<1>5. IsFiniteSet(A) /\ IsFiniteSet(B)
  <2> DEFINE f == [i \in n.items |-> i[1] + n.localAdd]
             g == [i \in n.items |-> i[3]]
  <2>1. A = {f[i] : i \in n.items} /\ B = {g[i] : i \in n.items}
    OBVIOUS
  <2> HIDE DEF f, g, A, B
  <2> QED
    BY <2>1, FiniteImage
<1>6. IsFiniteSet(C) /\ IsFiniteSet(D)
  <2>1. IsFiniteSet({n.l, n.r})
    BY PairIsFinite
  <2>2. IsFiniteSet(Children(n))
    <3>1. Children(n) \in SUBSET {n.l, n.r}
      BY DEF Children
    <3> QED
      BY <2>1, <3>1, FS_Subset
  <2> DEFINE f == [c \in Children(n) |-> c.top]
             g == [c \in Children(n) |-> c.capTop]
  <2>3. C = {f[c] : c \in Children(n)} /\ D = {g[c] : c \in Children(n)}
    OBVIOUS
  <2> HIDE DEF f, g, C, D
  <2> QED
    BY <2>2, <2>3, FiniteImage
<1> DEFINE x == Highest(A \cup C)
           y == Highest(B \cup D)
<1>7. x \in Int /\ \A z \in A \cup C : z <= x
  <2> HIDE DEF A, C
  <2>1. A \cup C \in SUBSET Int /\ A \cup C # {} /\ IsFiniteSet(A \cup C)
    BY <1>3, <1>4, <1>5, <1>6, FS_Union
  <2> QED
    BY <2>1, HighestIs
<1>8. y \in Int /\ \A z \in B \cup D : z <= y
  <2> HIDE DEF B, D
  <2>1. B \cup D \in SUBSET Int /\ B \cup D # {} /\ IsFiniteSet(B \cup D)
    BY <1>3, <1>4, <1>5, <1>6, FS_Union
  <2> QED
    BY <2>1, HighestIs
<1> DEFINE m == [n EXCEPT !.top = n.add + x, !.capTop = y]
<1>9. Pull(n) = m
  BY DEF Pull
<1>10. n.add + x \in Int
  BY <1>1, <1>7
<1>11. /\ m \in NodesOver(TreesUpTo[h])
       /\ m.key = n.key /\ m.prio = n.prio /\ m.add = n.add
       /\ m.localAdd = n.localAdd /\ m.items = n.items
       /\ m.l = n.l /\ m.r = n.r /\ m.top = n.add + x /\ m.capTop = y
  <2> HIDE DEF x, y
  <2> QED
    BY <1>8, <1>10 DEF NodesOver
<1>12. Cached(m)
  <2> HIDE DEF x, y, m
  <2>1. ASSUME NEW i \in m.items
        PROVE  i[1] + m.localAdd + m.add <= m.top /\ i[3] <= m.capTop
    <3>1. i \in n.items /\ i[1] + n.localAdd \in A /\ i[3] \in B
      BY <1>11, <2>1
    <3>2. i[1] + n.localAdd <= x /\ i[3] <= y
      BY <1>7, <1>8, <3>1
    <3> QED
      BY <1>1, <1>2, <1>7, <1>11, <3>1, <3>2
  <2>2. ASSUME NEW c \in Children(m)
        PROVE  c.top + m.add <= m.top /\ c.capTop <= m.capTop
    <3>1. c \in Children(n) /\ c.top \in C /\ c.capTop \in D
      BY <1>11, <2>2 DEF Children
    <3>2. c.top <= x /\ c.capTop <= y /\ c.top \in Int
      BY <1>4, <1>7, <1>8, <3>1
    <3> QED
      BY <1>1, <1>7, <1>11, <3>2
  <2> QED
    BY <2>1, <2>2 DEF Cached
<1> HIDE DEF m
<1> QED
  BY <1>9, <1>11, <1>12

\* What the items of a node stand for, under the additions acc.
Own(n, acc) == {[id |-> i[2], key |-> n.key, cap |-> i[3],
                 score |-> i[1] + acc + n.localAdd] : i \in n.items}

ContentsStep(f, n) ==
  [accAdd \in Int |->
     IF n = Nil THEN {}
     ELSE Own(n, accAdd + n.add) \cup f[n.l][accAdd + n.add]
                                 \cup f[n.r][accAdd + n.add]]

LEMMA ContentsLocal ==
  ASSUME NEW h \in Nat, h < MaxHeight, NEW n \in TreesUpTo[h + 1], NEW f, NEW g,
         \A x \in TreesUpTo[h] : f[x] = g[x]
  PROVE  ContentsStep(f, n) = ContentsStep(g, n)
<1>1. CASE n = Nil
  BY <1>1 DEF ContentsStep
<1>2. CASE n # Nil
  <2>1. f[n.l] = g[n.l] /\ f[n.r] = g[n.r]
    BY <1>2, TreeParts
  <2> QED
    BY <2>1 DEF ContentsStep
<1> QED
  BY <1>1, <1>2

LEMMA ContentsExists ==
  \E f : f = [n \in Tree |-> ContentsStep(f, n)]
<1> DEFINE T == {h \in Nat : h <= MaxHeight =>
                     \E f : f = [n \in TreesUpTo[h] |-> ContentsStep(f, n)]}
<1>1. 0 \in T
  <2> DEFINE f == [n \in TreesUpTo[0] |-> [accAdd \in Int |-> {}]]
  <2>1. f = [n \in TreesUpTo[0] |-> ContentsStep(f, n)]
    BY TreesZero DEF ContentsStep
  <2> QED
    BY <2>1
<1>2. ASSUME NEW h \in T
      PROVE  h + 1 \in T
  <2> SUFFICES ASSUME h + 1 <= MaxHeight
               PROVE  \E f : f = [n \in TreesUpTo[h + 1] |-> ContentsStep(f, n)]
    OBVIOUS
  <2>1. h \in Nat /\ h < MaxHeight /\ h <= MaxHeight
    BY MaxHeightType
  <2>2. PICK f : f = [n \in TreesUpTo[h] |-> ContentsStep(f, n)]
    BY <2>1
  <2> DEFINE g == [n \in TreesUpTo[h + 1] |-> ContentsStep(f, n)]
  <2>3. \A x \in TreesUpTo[h] : f[x] = g[x]
    <3>1. TreesUpTo[h] \subseteq TreesUpTo[h + 1]
      BY <2>1, TreesGrow
    <3> QED
      BY <2>2, <3>1
  <2>4. \A n \in TreesUpTo[h + 1] : ContentsStep(f, n) = ContentsStep(g, n)
    <3> HIDE DEF g
    <3> QED
      BY <2>1, <2>3, ContentsLocal
  <2>5. g = [n \in TreesUpTo[h + 1] |-> ContentsStep(g, n)]
    <3> DEFINE G(n) == ContentsStep(f, n)
               H(n) == ContentsStep(g, n)
    <3>1. \A n \in TreesUpTo[h + 1] : G(n) = H(n)
      BY <2>4
    <3>2. g = [n \in TreesUpTo[h + 1] |-> G(n)]
      OBVIOUS
    <3> HIDE DEF g, G, H
    <3>3. g = [n \in TreesUpTo[h + 1] |-> H(n)]
      BY <3>1, <3>2
    <3> QED
      BY <3>3 DEF H
  <2> HIDE DEF g
  <2> QED
    BY <2>5
<1>3. T = Nat
  <2> HIDE DEF T
  <2>1. T \in SUBSET Nat
    BY DEF T
  <2> QED
    BY <1>1, <1>2, <2>1, NatSet
<1>4. MaxHeight \in T
  BY <1>3, MaxHeightType
<1> QED
  BY <1>4, MaxHeightType DEF Tree

ContentsFcn ==
  CHOOSE f : f = [n \in Tree |->
                   [accAdd \in Int |->
                     IF n = Nil THEN {}
                     ELSE {[id |-> i[2], key |-> n.key, cap |-> i[3],
                            score |-> i[1] + (accAdd + n.add) + n.localAdd] :
                              i \in n.items}
                            \cup f[n.l][accAdd + n.add]
                            \cup f[n.r][accAdd + n.add]]]

\* What a treap holds under the additions acc.
Held(n, acc) == ContentsFcn[n][acc]

LEMMA HeldIs ==
  /\ \A n \in Tree : Contents(n) = Held(n, 0)
  /\ \A acc \in Int : Held(Nil, acc) = {}
  /\ \A n \in Tree : \A acc \in Int : n # Nil =>
       Held(n, acc) = Own(n, acc + n.add) \cup Held(n.l, acc + n.add)
                                         \cup Held(n.r, acc + n.add)
<1>1. ContentsFcn = [n \in Tree |-> ContentsStep(ContentsFcn, n)]
  BY ContentsExists DEF ContentsStep, ContentsFcn, Own
<1>2. \A n : Contents(n) = Held(n, 0)
  BY DEF Contents, Held, ContentsFcn
<1>3. Nil \in Tree
  BY TreesInTree, MaxHeightType DEF Tree
<1>4. ASSUME NEW n \in Tree, NEW acc \in Int
      PROVE  Held(n, acc) = IF n = Nil THEN {}
                            ELSE Own(n, acc + n.add) \cup Held(n.l, acc + n.add)
                                                    \cup Held(n.r, acc + n.add)
  <2>1. ContentsFcn[n] = ContentsStep(ContentsFcn, n)
    BY <1>1
  <2>2. ContentsStep(ContentsFcn, n)[acc] =
          IF n = Nil THEN {}
          ELSE Own(n, acc + n.add) \cup ContentsFcn[n.l][acc + n.add]
                                  \cup ContentsFcn[n.r][acc + n.add]
    BY DEF ContentsStep
  <2> QED
    BY <2>1, <2>2 DEF Held
<1> QED
  BY <1>2, <1>3, <1>4

-----------------------------------------------------------------------------
(* What the operations keep: the keys and priorities of the nodes, what the  *)
(* treap holds, and that its nodes are in order with their maxima right.     *)

\* The keys of a tree with their priorities.
Labels(n) == {<<m.key, m.prio>> : m \in Nodes(n)}

\* Search order by key and heap order by priority, at one node.
Ordered(n) ==
  /\ \A p \in Labels(n.l) : p[1] < n.key /\ p[2] < n.prio
  /\ \A p \in Labels(n.r) : p[1] > n.key /\ p[2] < n.prio

NodeOK(n) == n.items # {} /\ IsFiniteSet(n.items) /\ Cached(n) /\ Ordered(n)

\* Every node of the tree is as the methods leave it.
Sound(n) == \A m \in Nodes(n) : NodeOK(m)

\* What an entry may be.
Entries == [id : 1..MaxQueries, key : Scores, cap : Scores, score : Int]

LEMMA UpIsTree ==
  ASSUME NEW h \in Nat, h <= MaxHeight
  PROVE  TreesUpTo[h] \subseteq Tree /\ Nil \in TreesUpTo[h]
BY TreesInTree, MaxHeightType

LEMMA NodeUp ==
  ASSUME NEW h \in Nat, h < MaxHeight, NEW n \in NodesOver(TreesUpTo[h])
  PROVE  /\ n \in TreesUpTo[h + 1] /\ n \in Tree /\ n # Nil
         /\ n.l \in Tree /\ n.r \in Tree
<1>1. n \in TreesUpTo[h + 1]
  BY TreesNext
<1>2. h + 1 \in Nat /\ h + 1 <= MaxHeight /\ h <= MaxHeight
  BY MaxHeightType
<1> QED
  BY <1>1, <1>2, UpIsTree, NodeParts

LEMMA LabelsIs ==
  /\ Labels(Nil) = {}
  /\ \A n \in Tree : n # Nil =>
       Labels(n) = {<<n.key, n.prio>>} \cup Labels(n.l) \cup Labels(n.r)
BY NodesIs DEF Labels

LEMMA SoundIs ==
  /\ Sound(Nil)
  /\ \A n \in Tree : n # Nil =>
       (Sound(n) <=> NodeOK(n) /\ Sound(n.l) /\ Sound(n.r))
BY NodesIs DEF Sound

LEMMA OwnParts ==
  ASSUME NEW S, NEW n \in NodesOver(S), NEW acc \in Int, NEW e \in Own(n, acc)
  PROVE  /\ e \in Entries /\ e.key = n.key
         /\ \E i \in n.items : e.id = i[2] /\ e.cap = i[3]
                               /\ e.score = i[1] + acc + n.localAdd
<1>1. PICK i \in n.items : e = [id |-> i[2], key |-> n.key, cap |-> i[3],
                                score |-> i[1] + acc + n.localAdd]
  BY DEF Own
<1>2. /\ i \in Int \X (1..MaxQueries) \X Scores
      /\ n.key \in Scores /\ n.localAdd \in Int
  BY NodeParts
<1>3. i[1] \in Int /\ i[2] \in 1..MaxQueries /\ i[3] \in Scores
  BY <1>2, ItemParts
<1> QED
  BY <1>1, <1>2, <1>3 DEF Entries

LEMMA HeldParts ==
  \A h \in Nat : h <= MaxHeight => \A n \in TreesUpTo[h] :
    /\ Labels(n) \subseteq Scores \X Prios
    /\ \A acc \in Int : \A e \in Held(n, acc) :
         e \in Entries /\ \E p \in Labels(n) : p[1] = e.key
<1> DEFINE P(n) == /\ Labels(n) \subseteq Scores \X Prios
                   /\ \A acc \in Int : \A e \in Held(n, acc) :
                        e \in Entries /\ \E p \in Labels(n) : p[1] = e.key
           T == {h \in Nat : h <= MaxHeight => \A n \in TreesUpTo[h] : P(n)}
<1>1. 0 \in T
  BY TreesZero, LabelsIs, HeldIs
<1>2. ASSUME NEW h \in T
      PROVE  h + 1 \in T
  <2> SUFFICES ASSUME h + 1 <= MaxHeight, NEW n \in TreesUpTo[h + 1], n # Nil
               PROVE  P(n)
    BY LabelsIs, HeldIs
  <2>1. h \in Nat /\ h < MaxHeight /\ h <= MaxHeight
    BY MaxHeightType
  <2>2. n \in NodesOver(TreesUpTo[h])
    BY <2>1, TreeParts
  <2>3. /\ n \in Tree /\ n.l \in TreesUpTo[h] /\ n.r \in TreesUpTo[h]
        /\ n.key \in Scores /\ n.prio \in Prios /\ n.add \in Int
    BY <2>1, <2>2, NodeUp, NodeParts
  <2>4. P(n.l) /\ P(n.r)
    BY <2>1, <2>3
  <2>5. Labels(n) = {<<n.key, n.prio>>} \cup Labels(n.l) \cup Labels(n.r)
    BY <2>2, <2>3, LabelsIs
  <2>6. ASSUME NEW acc \in Int, NEW e \in Held(n, acc)
        PROVE  e \in Entries /\ \E p \in Labels(n) : p[1] = e.key
    <3>1. acc + n.add \in Int
      BY <2>3
    <3>2. Held(n, acc) = Own(n, acc + n.add) \cup Held(n.l, acc + n.add)
                                            \cup Held(n.r, acc + n.add)
      BY <2>3, HeldIs
    <3>3. CASE e \in Own(n, acc + n.add)
      <4>1. e \in Entries /\ e.key = n.key
        BY <2>2, <3>1, <3>3, OwnParts
      <4>2. <<n.key, n.prio>> \in Labels(n) /\ <<n.key, n.prio>>[1] = n.key
        BY <2>5
      <4> QED
        BY <4>1, <4>2
    <3>4. CASE e \notin Own(n, acc + n.add)
      BY <2>4, <2>5, <3>1, <3>2, <3>4
    <3> QED
      BY <3>3, <3>4
  <2> QED
    BY <2>3, <2>4, <2>5, <2>6
<1>3. T = Nat
  <2> HIDE DEF T
  <2>1. T \in SUBSET Nat
    BY DEF T
  <2> QED
    BY <1>1, <1>2, <2>1, NatSet
<1> QED
  BY <1>3

\* Additions to a whole subtree change the scores alone.
LEMMA AddIs ==
  ASSUME NEW h \in Nat, h <= MaxHeight, NEW n \in TreesUpTo[h], NEW d \in Int
  PROVE  LET a == AddToSubtree(n, d)
         IN  /\ a \in TreesUpTo[h] /\ Labels(a) = Labels(n)
             /\ \A acc \in Int : Held(a, acc) = Held(n, acc + d)
             /\ Sound(n) => Sound(a)
<1>1. CASE n = Nil
  <2>1. AddToSubtree(n, d) = n
    BY <1>1, AddParts
  <2>2. \A acc \in Int : acc + d \in Int
    OBVIOUS
  <2> QED
    BY <1>1, <2>1, <2>2, HeldIs
<1>2. CASE n # Nil
  <2> DEFINE a == AddToSubtree(n, d)
  <2>1. /\ a \in TreesUpTo[h] /\ a # Nil /\ a.key = n.key /\ a.prio = n.prio
        /\ a.add = n.add + d /\ a.localAdd = n.localAdd
        /\ a.items = n.items /\ a.top = n.top + d
        /\ a.capTop = n.capTop /\ a.l = n.l /\ a.r = n.r
    BY <1>2, AddParts
  <2>2. h # 0
    BY <1>2, TreesZero
  <2>3. h - 1 \in Nat /\ h - 1 < MaxHeight /\ (h - 1) + 1 = h
    BY <2>2, MaxHeightType
  <2>4. n \in NodesOver(TreesUpTo[h - 1])
    BY <1>2, <2>3, TreeParts
  <2>5. /\ n.add \in Int /\ n.localAdd \in Int /\ n.top \in Int
        /\ n.items \in SUBSET (Int \X (1..MaxQueries) \X Scores)
        /\ n.l \in TreesUpTo[h - 1] /\ n.r \in TreesUpTo[h - 1]
    BY <2>4, NodeParts
  <2>6. n \in Tree /\ a \in Tree
    BY <2>1, UpIsTree
  <2> HIDE DEF a
  <2>7. Labels(a) = Labels(n)
    BY <1>2, <2>1, <2>6, LabelsIs
  <2>8. ASSUME NEW acc \in Int
        PROVE  Held(a, acc) = Held(n, acc + d)
    <3>1. acc + a.add = (acc + d) + n.add /\ acc + d \in Int
      BY <2>1, <2>5
    <3>2. \A x : Own(a, x) = Own(n, x)
      BY <2>1 DEF Own
    <3> DEFINE x == (acc + d) + n.add
    <3>3. Held(a, acc) = Own(a, acc + a.add) \cup Held(a.l, acc + a.add)
                                            \cup Held(a.r, acc + a.add)
      BY <2>1, <2>6, HeldIs
    <3>4. Held(n, acc + d) = Own(n, x) \cup Held(n.l, x) \cup Held(n.r, x)
      BY <1>2, <2>6, <3>1, HeldIs
    <3>5. acc + a.add = x
      BY <3>1
    <3> HIDE DEF x
    <3> QED
      BY <2>1, <3>2, <3>3, <3>4, <3>5
  <2>9. ASSUME Sound(n)
        PROVE  Sound(a)
    <3>1. NodeOK(n) /\ Sound(n.l) /\ Sound(n.r)
      BY <1>2, <2>6, <2>9, SoundIs
    <3>2. Cached(a)
      <4>1. ASSUME NEW i \in a.items
            PROVE  i[1] + a.localAdd + a.add <= a.top /\ i[3] <= a.capTop
        <5>1. i \in n.items /\ i[1] \in Int
          BY <2>1, <2>5, ItemParts
        <5>2. i[1] + n.localAdd + n.add <= n.top /\ i[3] <= n.capTop
          BY <3>1, <5>1 DEF NodeOK, Cached
        <5> QED
          BY <2>1, <2>5, <5>1, <5>2
      <4>2. ASSUME NEW c \in Children(a)
            PROVE  c.top + a.add <= a.top /\ c.capTop <= a.capTop
        <5>1. c \in Children(n) /\ c \in TreesUpTo[h - 1] /\ c # Nil
          BY <2>1, <2>5, <4>2 DEF Children
        <5>2. c.top + n.add <= n.top /\ c.capTop <= n.capTop
          BY <3>1, <5>1 DEF NodeOK, Cached
        <5>3. c.top \in Int
          <6>1. h - 1 <= MaxHeight
            BY <2>3, MaxHeightType
          <6> QED
            BY <2>3, <5>1, <6>1, ChildParts
        <5> QED
          BY <2>1, <2>5, <5>2, <5>3
      <4> QED
        BY <4>1, <4>2 DEF Cached
    <3>3. NodeOK(a)
      BY <2>1, <3>1, <3>2 DEF NodeOK, Ordered
    <3> QED
      BY <2>1, <2>6, <3>1, <3>3, SoundIs
  <2> QED
    BY <2>1, <2>7, <2>8, <2>9 DEF a
<1> QED
  BY <1>1, <1>2

\* Pushing a node changes nothing of what its tree stands for.
LEMMA PushIs ==
  ASSUME NEW h \in Nat, h < MaxHeight, NEW n \in NodesOver(TreesUpTo[h])
  PROVE  LET m == Push(n)
         IN  /\ m \in NodesOver(TreesUpTo[h])
             /\ m.key = n.key /\ m.prio = n.prio /\ m.items = n.items /\ m.add = 0
             /\ m.l \in TreesUpTo[h] /\ m.r \in TreesUpTo[h]
             /\ m.l = Nil <=> n.l = Nil
             /\ m.r = Nil <=> n.r = Nil
             /\ Labels(m.l) = Labels(n.l) /\ Labels(m.r) = Labels(n.r)
             /\ \A acc \in Int : Own(m, acc + m.add) = Own(n, acc + n.add)
             /\ \A acc \in Int : Held(m, acc) = Held(n, acc)
             /\ Sound(n.l) => Sound(m.l)
             /\ Sound(n.r) => Sound(m.r)
<1> DEFINE m == Push(n)
<1>0. h \in Nat /\ h <= MaxHeight
  BY MaxHeightType
<1>1. /\ m \in NodesOver(TreesUpTo[h])
      /\ m.key = n.key /\ m.prio = n.prio /\ m.add = 0
      /\ m.localAdd = n.localAdd + n.add /\ m.items = n.items
      /\ m.l = AddToSubtree(n.l, n.add) /\ m.r = AddToSubtree(n.r, n.add)
  BY <1>0, PushParts
<1>2. /\ n.l \in TreesUpTo[h] /\ n.r \in TreesUpTo[h] /\ n.add \in Int
      /\ n.localAdd \in Int
      /\ n.items \in SUBSET (Int \X (1..MaxQueries) \X Scores)
      /\ n \in Tree /\ n # Nil
  BY NodeParts, NodeUp
<1> HIDE DEF m
<1>3. /\ m.l \in TreesUpTo[h] /\ m.r \in TreesUpTo[h] /\ m \in Tree /\ m # Nil
  BY <1>1, NodeParts, NodeUp
<1>4. /\ Labels(m.l) = Labels(n.l) /\ Labels(m.r) = Labels(n.r)
      /\ Sound(n.l) => Sound(m.l)
      /\ Sound(n.r) => Sound(m.r)
      /\ \A acc \in Int : /\ Held(m.l, acc) = Held(n.l, acc + n.add)
                          /\ Held(m.r, acc) = Held(n.r, acc + n.add)
  <2>1. /\ Labels(m.l) = Labels(n.l)
        /\ Sound(n.l) => Sound(m.l)
        /\ \A acc \in Int : Held(m.l, acc) = Held(n.l, acc + n.add)
    <3> DEFINE c == n.l  d == n.add
    <3>1. c \in TreesUpTo[h] /\ d \in Int
      BY <1>2
    <3>2. m.l = AddToSubtree(c, d)
      BY <1>1
    <3> HIDE DEF c, d
    <3>3. /\ Labels(m.l) = Labels(c)
          /\ Sound(c) => Sound(m.l)
          /\ \A acc \in Int : Held(m.l, acc) = Held(c, acc + d)
      BY <1>0, <3>1, <3>2, AddIs
    <3> QED
      BY <3>3 DEF c, d
  <2>2. /\ Labels(m.r) = Labels(n.r)
        /\ Sound(n.r) => Sound(m.r)
        /\ \A acc \in Int : Held(m.r, acc) = Held(n.r, acc + n.add)
    <3> DEFINE c == n.r  d == n.add
    <3>1. c \in TreesUpTo[h] /\ d \in Int
      BY <1>2
    <3>2. m.r = AddToSubtree(c, d)
      BY <1>1
    <3> HIDE DEF c, d
    <3>3. /\ Labels(m.r) = Labels(c)
          /\ Sound(c) => Sound(m.r)
          /\ \A acc \in Int : Held(m.r, acc) = Held(c, acc + d)
      BY <1>0, <3>1, <3>2, AddIs
    <3> QED
      BY <3>3 DEF c, d
  <2> QED
    BY <2>1, <2>2
<1>5. (m.l = Nil <=> n.l = Nil) /\ (m.r = Nil <=> n.r = Nil)
  BY <1>0, <1>1, <1>2, AddParts
<1>6. ASSUME NEW acc \in Int
      PROVE  /\ Own(m, acc + m.add) = Own(n, acc + n.add)
             /\ Held(m, acc) = Held(n, acc)
  <2>1. \A i \in n.items :
          i[1] + (acc + m.add) + m.localAdd = i[1] + (acc + n.add) + n.localAdd
    <3>1. \A i \in n.items : i[1] \in Int
      BY <1>2, ItemParts
    <3> QED
      BY <1>1, <1>2, <3>1
  <2>2. Own(m, acc + m.add) = Own(n, acc + n.add)
    BY <1>1, <2>1 DEF Own
  <2>3. Held(m, acc) = Own(m, acc + m.add) \cup Held(m.l, acc + m.add)
                                          \cup Held(m.r, acc + m.add)
    BY <1>3, HeldIs
  <2>4. Held(n, acc) = Own(n, acc + n.add) \cup Held(n.l, acc + n.add)
                                          \cup Held(n.r, acc + n.add)
    BY <1>2, HeldIs
  <2>5. acc + m.add = acc
    BY <1>1
  <2> QED
    BY <1>4, <2>2, <2>3, <2>4, <2>5
<1> QED
  BY <1>1, <1>3, <1>4, <1>5, <1>6 DEF m

\* Pulling a node over sound subtrees in order makes a sound tree.
LEMMA PullIs ==
  ASSUME NEW h \in Nat, h < MaxHeight, NEW n \in NodesOver(TreesUpTo[h]),
         n.items # {}, IsFiniteSet(n.items)
  PROVE  LET m == Pull(n)
         IN  /\ m \in NodesOver(TreesUpTo[h])
             /\ m.key = n.key /\ m.prio = n.prio /\ m.add = n.add
             /\ m.items = n.items /\ m.l = n.l /\ m.r = n.r
             /\ Labels(m) = {<<n.key, n.prio>>} \cup Labels(n.l) \cup Labels(n.r)
             /\ \A acc \in Int :
                  Held(m, acc) = Own(n, acc + n.add) \cup Held(n.l, acc + n.add)
                                                    \cup Held(n.r, acc + n.add)
             /\ Sound(n.l) /\ Sound(n.r) /\ Ordered(n) => Sound(m)
<1> DEFINE m == Pull(n)
<1>1. /\ m \in NodesOver(TreesUpTo[h])
      /\ m.key = n.key /\ m.prio = n.prio /\ m.add = n.add
      /\ m.localAdd = n.localAdd /\ m.items = n.items
      /\ m.l = n.l /\ m.r = n.r /\ Cached(m)
  BY PullParts, MaxHeightType
<1> HIDE DEF m
<1>2. m \in Tree /\ m # Nil
  BY <1>1, NodeUp
<1>3. Labels(m) = {<<n.key, n.prio>>} \cup Labels(n.l) \cup Labels(n.r)
  BY <1>1, <1>2, LabelsIs
<1>4. ASSUME NEW acc \in Int
      PROVE  Held(m, acc) = Own(n, acc + n.add) \cup Held(n.l, acc + n.add)
                                               \cup Held(n.r, acc + n.add)
  <2>1. Held(m, acc) = Own(m, acc + m.add) \cup Held(m.l, acc + m.add)
                                          \cup Held(m.r, acc + m.add)
    BY <1>2, HeldIs
  <2>2. Own(m, acc + m.add) = Own(n, acc + n.add)
    BY <1>1 DEF Own
  <2> QED
    BY <1>1, <2>1, <2>2
<1>5. ASSUME Sound(n.l), Sound(n.r), Ordered(n)
      PROVE  Sound(m)
  <2>1. NodeOK(m)
    BY <1>1, <1>5 DEF NodeOK, Ordered
  <2> QED
    BY <1>1, <1>2, <1>5, <2>1, SoundIs
<1> QED
  BY <1>1, <1>3, <1>4, <1>5 DEF m

-----------------------------------------------------------------------------
(* splitByKey.                                                              *)

SplitStep(f, n, t) ==
  IF n = Nil THEN <<Nil, Nil>>
  ELSE LET m == Push(n)
           s == f[IF t < m.key THEN m.l ELSE m.r]
       IN  IF t < m.key THEN <<s[1], Pull([m EXCEPT !.l = s[2]])>>
                        ELSE <<Pull([m EXCEPT !.r = s[1]]), s[2]>>

LEMMA SplitLocal ==
  ASSUME NEW h \in Nat, h < MaxHeight, NEW n \in TreesUpTo[h + 1], NEW f, NEW g,
         NEW t, \A x \in TreesUpTo[h] : f[x] = g[x]
  PROVE  SplitStep(f, n, t) = SplitStep(g, n, t)
<1>1. CASE n = Nil
  BY <1>1 DEF SplitStep
<1>2. CASE n # Nil
  <2> DEFINE m == Push(n)
             x == IF t < m.key THEN m.l ELSE m.r
  <2>1. x \in TreesUpTo[h]
    BY <1>2, PushedParts
  <2>2. f[x] = g[x]
    BY <2>1
  <2> QED
    BY <1>2, <2>2 DEF SplitStep
<1> QED
  BY <1>1, <1>2

LEMMA SplitExists ==
  ASSUME NEW t
  PROVE  \E f : f = [n \in Tree |-> SplitStep(f, n, t)]
<1> DEFINE T == {h \in Nat : h <= MaxHeight =>
                     \E f : f = [n \in TreesUpTo[h] |-> SplitStep(f, n, t)]}
<1>1. 0 \in T
  <2> DEFINE f == [n \in TreesUpTo[0] |-> <<Nil, Nil>>]
  <2>1. f = [n \in TreesUpTo[0] |-> SplitStep(f, n, t)]
    BY TreesZero DEF SplitStep
  <2> QED
    BY <2>1
<1>2. ASSUME NEW h \in T
      PROVE  h + 1 \in T
  <2> SUFFICES ASSUME h + 1 <= MaxHeight
               PROVE  \E f : f = [n \in TreesUpTo[h + 1] |-> SplitStep(f, n, t)]
    OBVIOUS
  <2>1. h \in Nat /\ h < MaxHeight /\ h <= MaxHeight
    BY MaxHeightType
  <2>2. PICK f : f = [n \in TreesUpTo[h] |-> SplitStep(f, n, t)]
    BY <2>1
  <2> DEFINE g == [n \in TreesUpTo[h + 1] |-> SplitStep(f, n, t)]
  <2>3. \A x \in TreesUpTo[h] : f[x] = g[x]
    <3>1. TreesUpTo[h] \subseteq TreesUpTo[h + 1]
      BY <2>1, TreesGrow
    <3> QED
      BY <2>2, <3>1
  <2>4. \A n \in TreesUpTo[h + 1] : SplitStep(f, n, t) = SplitStep(g, n, t)
    <3> HIDE DEF g
    <3> QED
      BY <2>1, <2>3, SplitLocal
  <2>5. g = [n \in TreesUpTo[h + 1] |-> SplitStep(g, n, t)]
    <3> DEFINE G(n) == SplitStep(f, n, t)
               H(n) == SplitStep(g, n, t)
    <3>1. \A n \in TreesUpTo[h + 1] : G(n) = H(n)
      BY <2>4
    <3>2. g = [n \in TreesUpTo[h + 1] |-> G(n)]
      OBVIOUS
    <3> HIDE DEF g, G, H
    <3>3. g = [n \in TreesUpTo[h + 1] |-> H(n)]
      BY <3>1, <3>2
    <3> QED
      BY <3>3 DEF H
  <2> HIDE DEF g
  <2> QED
    BY <2>5
<1>3. T = Nat
  <2> HIDE DEF T
  <2>1. T \in SUBSET Nat
    BY DEF T
  <2> QED
    BY <1>1, <1>2, <2>1, NatSet
<1>4. MaxHeight \in T
  BY <1>3, MaxHeightType
<1> QED
  BY <1>4, MaxHeightType DEF Tree

LEMMA SplitIs ==
  ASSUME NEW t
  PROVE  /\ Split(Nil, t) = <<Nil, Nil>>
         /\ \A n \in Tree : n # Nil =>
              LET m == Push(n)
                  s == Split(IF t < m.key THEN m.l ELSE m.r, t)
              IN  Split(n, t) =
                    IF t < m.key THEN <<s[1], Pull([m EXCEPT !.l = s[2]])>>
                                 ELSE <<Pull([m EXCEPT !.r = s[1]]), s[2]>>
<1> DEFINE F == CHOOSE f : f = [n \in Tree |->
                   IF n = Nil THEN <<Nil, Nil>>
                   ELSE LET m == Push(n)
                            s == f[IF t < m.key THEN m.l ELSE m.r]
                        IN  IF t < m.key THEN <<s[1], Pull([m EXCEPT !.l = s[2]])>>
                                         ELSE <<Pull([m EXCEPT !.r = s[1]]), s[2]>>]
<1>1. F = [n \in Tree |-> SplitStep(F, n, t)]
  BY SplitExists DEF SplitStep
<1>2. \A n : Split(n, t) = F[n]
  BY DEF Split
<1>3. Nil \in Tree
  BY UpIsTree, MaxHeightType DEF Tree
<1> HIDE DEF F
<1>4. \A n \in Tree : F[n] = SplitStep(F, n, t)
  BY <1>1
<1> QED
  BY <1>2, <1>3, <1>4 DEF SplitStep

\* The entries, and the labels, of the keys up to t.
UpTo(H, t) == {e \in H : e.key <= t}
Beyond(H, t) == {e \in H : e.key > t}
LabelsUpTo(L, t) == {p \in L : p[1] <= t}
LabelsBeyond(L, t) == {p \in L : p[1] > t}

\* s is the tree n taken apart at t.
SplitsAt(n, s, t, h) ==
  /\ s = <<s[1], s[2]>>
  /\ s[1] \in TreesUpTo[h] /\ s[2] \in TreesUpTo[h]
  /\ Sound(s[1]) /\ Sound(s[2])
  /\ Labels(s[1]) = LabelsUpTo(Labels(n), t)
  /\ Labels(s[2]) = LabelsBeyond(Labels(n), t)
  /\ \A acc \in Int : /\ Held(s[1], acc) = UpTo(Held(n, acc), t)
                       /\ Held(s[2], acc) = Beyond(Held(n, acc), t)

LEMMA PushedIs ==
  ASSUME NEW h \in Nat, h < MaxHeight, NEW n \in TreesUpTo[h + 1], n # Nil, Sound(n)
  PROVE  LET m == Push(n)
         IN  /\ m \in NodesOver(TreesUpTo[h])
             /\ m.key = n.key /\ m.prio = n.prio /\ m.add = 0 /\ m.key \in Nat
             /\ m.l \in TreesUpTo[h] /\ m.r \in TreesUpTo[h]
             /\ m.items # {} /\ IsFiniteSet(m.items)
             /\ Ordered(m) /\ Sound(m.l) /\ Sound(m.r)
             /\ Labels(n) = {<<m.key, m.prio>>} \cup Labels(m.l) \cup Labels(m.r)
             /\ \A acc \in Int : Held(n, acc) = Own(m, acc + m.add)
                  \cup Held(m.l, acc + m.add) \cup Held(m.r, acc + m.add)
<1> DEFINE m == Push(n)
<1>1. n \in NodesOver(TreesUpTo[h]) /\ n \in Tree
  BY TreeParts, NodeUp
<1>2. NodeOK(n) /\ Sound(n.l) /\ Sound(n.r)
  BY <1>1, SoundIs
<1>3. /\ m \in NodesOver(TreesUpTo[h])
      /\ m.key = n.key /\ m.prio = n.prio /\ m.items = n.items /\ m.add = 0
      /\ m.l \in TreesUpTo[h] /\ m.r \in TreesUpTo[h]
      /\ Labels(m.l) = Labels(n.l) /\ Labels(m.r) = Labels(n.r)
      /\ \A acc \in Int : Held(m, acc) = Held(n, acc)
      /\ Sound(n.l) => Sound(m.l)
      /\ Sound(n.r) => Sound(m.r)
  BY <1>1, PushIs
<1> HIDE DEF m
<1>4. m \in Tree /\ m # Nil
  BY <1>3, NodeUp
<1>5. Ordered(m) /\ m.items # {} /\ IsFiniteSet(m.items)
  BY <1>2, <1>3 DEF NodeOK, Ordered
<1>6. Labels(n) = {<<m.key, m.prio>>} \cup Labels(m.l) \cup Labels(m.r)
  BY <1>1, <1>3, LabelsIs
<1>7. m.key \in Nat
  BY <1>3, NodeParts, ScoresAssumption
<1>8. \A acc \in Int : Held(n, acc) = Own(m, acc + m.add)
                  \cup Held(m.l, acc + m.add) \cup Held(m.r, acc + m.add)
  BY <1>3, <1>4, HeldIs
<1> QED
  BY <1>2, <1>3, <1>5, <1>6, <1>7, <1>8 DEF m

\* What is held left of a node, at it and right of it.
LEMMA KeysAround ==
  ASSUME NEW h \in Nat, h < MaxHeight, NEW n \in NodesOver(TreesUpTo[h]), Ordered(n),
         NEW acc \in Int
  PROVE  /\ \A e \in Own(n, acc) : e.key = n.key
         /\ \A e \in Held(n.l, acc) : e.key \in Nat /\ e.key < n.key
         /\ \A e \in Held(n.r, acc) : e.key \in Nat /\ e.key > n.key
         /\ \A p \in Labels(n.l) \cup Labels(n.r) : p[1] \in Nat
<1>1. n.l \in TreesUpTo[h] /\ n.r \in TreesUpTo[h]
  BY NodeParts
<1>2. h <= MaxHeight
  BY MaxHeightType
<1>3. \A x \in TreesUpTo[h] :
        /\ Labels(x) \subseteq Scores \X Prios
        /\ \A e \in Held(x, acc) : e \in Entries /\ \E p \in Labels(x) : p[1] = e.key
  BY <1>2, HeldParts
<1>4. \A e \in Entries : e.key \in Nat
  BY ScoresAssumption DEF Entries
<1>5. \A p \in Scores \X Prios : p[1] \in Nat
  BY ScoresAssumption
<1>6. \A e \in Own(n, acc) : e.key = n.key
  BY OwnParts
<1> QED
  BY <1>1, <1>3, <1>4, <1>5, <1>6 DEF Ordered

\* The labels of a node over subtrees with the labels L and R.
Joined(c, L, R) == {c} \cup L \cup R

LEMMA LabelsParted ==
  ASSUME NEW L, NEW R, NEW c, NEW k \in Nat, c[1] = k, NEW t \in Nat,
         \A p \in L : p[1] \in Nat /\ p[1] < k,
         \A p \in R : p[1] \in Nat /\ k < p[1]
  PROVE  /\ t < k =>
              /\ LabelsUpTo(Joined(c, L, R), t) = LabelsUpTo(L, t)
              /\ LabelsBeyond(Joined(c, L, R), t) = Joined(c, LabelsBeyond(L, t), R)
         /\ ~ (t < k) =>
              /\ LabelsUpTo(Joined(c, L, R), t) = Joined(c, L, LabelsUpTo(R, t))
              /\ LabelsBeyond(Joined(c, L, R), t) = LabelsBeyond(R, t)
<1>1. ASSUME t < k
      PROVE  /\ \A p \in L : p[1] <= t <=> ~ (p[1] > t)
             /\ \A p \in R : p[1] > t /\ ~ (p[1] <= t)
             /\ c[1] > t /\ ~ (c[1] <= t)
  BY <1>1
<1>2. ASSUME ~ (t < k)
      PROVE  /\ \A p \in L : p[1] <= t /\ ~ (p[1] > t)
             /\ c[1] <= t /\ ~ (c[1] > t)
  BY <1>2
<1>3. CASE t < k
  BY <1>1, <1>3 DEF Joined, LabelsUpTo, LabelsBeyond
<1>4. CASE ~ (t < k)
  BY <1>2, <1>4 DEF Joined, LabelsUpTo, LabelsBeyond
<1> QED
  BY <1>3, <1>4

LEMMA SplitSplits ==
  ASSUME NEW t \in Scores
  PROVE  \A h \in Nat : h <= MaxHeight =>
           \A n \in TreesUpTo[h] : Sound(n) => SplitsAt(n, Split(n, t), t, h)
<1> DEFINE T == {h \in Nat : h <= MaxHeight =>
                   \A n \in TreesUpTo[h] : Sound(n) => SplitsAt(n, Split(n, t), t, h)}
<1>0. ASSUME NEW h \in Nat, h <= MaxHeight
      PROVE  SplitsAt(Nil, Split(Nil, t), t, h)
  <2>1. Split(Nil, t) = <<Nil, Nil>>
    BY SplitIs
  <2>2. Nil \in TreesUpTo[h]
    BY <1>0, UpIsTree
  <2> QED
    BY <2>1, <2>2, SoundIs, LabelsIs, HeldIs
       DEF SplitsAt, LabelsUpTo, LabelsBeyond, UpTo, Beyond
<1>1. 0 \in T
  BY <1>0, TreesZero, MaxHeightType
<1>2. ASSUME NEW h \in T
      PROVE  h + 1 \in T
  <2> SUFFICES ASSUME h + 1 <= MaxHeight, NEW n \in TreesUpTo[h + 1], n # Nil, Sound(n)
               PROVE  SplitsAt(n, Split(n, t), t, h + 1)
    BY <1>0
  <2> DEFINE m == Push(n)
  <2>1. h \in Nat /\ h < MaxHeight /\ h <= MaxHeight /\ h + 1 \in Nat /\ t \in Nat
    BY MaxHeightType, ScoresAssumption
  <2>2. /\ m \in NodesOver(TreesUpTo[h])
        /\ m.key = n.key /\ m.prio = n.prio /\ m.add = 0 /\ m.key \in Nat
        /\ m.l \in TreesUpTo[h] /\ m.r \in TreesUpTo[h]
        /\ m.items # {} /\ IsFiniteSet(m.items)
        /\ Ordered(m) /\ Sound(m.l) /\ Sound(m.r)
        /\ Labels(n) = {<<m.key, m.prio>>} \cup Labels(m.l) \cup Labels(m.r)
        /\ \A acc \in Int : Held(n, acc) = Own(m, acc + m.add)
             \cup Held(m.l, acc + m.add) \cup Held(m.r, acc + m.add)
    BY <2>1, PushedIs
  <2>3. \A acc \in Int :
         /\ \A e \in Own(m, acc) : e.key = m.key
         /\ \A e \in Held(m.l, acc) : e.key \in Nat /\ e.key < m.key
         /\ \A e \in Held(m.r, acc) : e.key \in Nat /\ e.key > m.key
         /\ \A p \in Labels(m.l) \cup Labels(m.r) : p[1] \in Nat
    BY <2>1, <2>2, KeysAround
  <2>9. /\ \A p \in Labels(m.l) : p[1] \in Nat /\ p[1] < m.key
        /\ \A p \in Labels(m.r) : p[1] \in Nat /\ m.key < p[1]
    <3>1. 0 \in Int
      OBVIOUS
    <3>2. \A p \in Labels(m.l) \cup Labels(m.r) : p[1] \in Nat
      BY <2>3, <3>1
    <3> QED
      BY <2>2, <3>2 DEF Ordered
  <2>10. /\ t < m.key =>
              /\ LabelsUpTo(Labels(n), t) = LabelsUpTo(Labels(m.l), t)
              /\ LabelsBeyond(Labels(n), t) =
                   {<<m.key, m.prio>>} \cup LabelsBeyond(Labels(m.l), t) \cup Labels(m.r)
         /\ ~ (t < m.key) =>
              /\ LabelsUpTo(Labels(n), t) =
                   {<<m.key, m.prio>>} \cup Labels(m.l) \cup LabelsUpTo(Labels(m.r), t)
              /\ LabelsBeyond(Labels(n), t) = LabelsBeyond(Labels(m.r), t)
    <3> HIDE DEF m
    <3> DEFINE L == Labels(m.l)  R == Labels(m.r)  k == m.key  c == <<m.key, m.prio>>
    <3>1. /\ k \in Nat /\ Labels(n) = Joined(c, L, R) /\ c[1] = k
          /\ \A p \in L : p[1] \in Nat /\ p[1] < k
          /\ \A p \in R : p[1] \in Nat /\ k < p[1]
      BY <2>2, <2>9 DEF Joined
    <3> HIDE DEF L, R, k, c
    <3>2. /\ t < k =>
               /\ LabelsUpTo(Joined(c, L, R), t) = LabelsUpTo(L, t)
               /\ LabelsBeyond(Joined(c, L, R), t) = Joined(c, LabelsBeyond(L, t), R)
          /\ ~ (t < k) =>
               /\ LabelsUpTo(Joined(c, L, R), t) = Joined(c, L, LabelsUpTo(R, t))
               /\ LabelsBeyond(Joined(c, L, R), t) = LabelsBeyond(R, t)
      BY <2>1, <3>1, LabelsParted
    <3> QED
      BY <3>1, <3>2 DEF L, R, k, c, Joined
  <2>4. n \in Tree
    BY <2>1, UpIsTree
  <2>5. TreesUpTo[h] \subseteq TreesUpTo[h + 1]
    BY <2>1, TreesGrow
  <2>6. \A acc \in Int : acc + m.add = acc
    BY <2>2
  <2>7. CASE t < m.key
    <3> DEFINE s == Split(m.l, t)
               p == [m EXCEPT !.l = s[2]]
               q == Pull(p)
    <3>1. Split(n, t) = <<s[1], q>>
      BY <2>4, <2>7, SplitIs
    <3>2. SplitsAt(m.l, s, t, h)
      BY <2>1, <2>2
    <3> HIDE DEF m, s
    <3>3. /\ p \in NodesOver(TreesUpTo[h])
          /\ p.key = m.key /\ p.prio = m.prio /\ p.add = m.add
          /\ p.localAdd = m.localAdd /\ p.items = m.items
          /\ p.l = s[2] /\ p.r = m.r
      BY <2>2, <3>2, SetLeft DEF SplitsAt
    <3> HIDE DEF p
    <3>4. Ordered(p) /\ Sound(p.l) /\ Sound(p.r)
      BY <2>2, <3>2, <3>3 DEF Ordered, SplitsAt, LabelsBeyond
    <3>5. /\ q \in NodesOver(TreesUpTo[h]) /\ Sound(q)
          /\ Labels(q) = {<<p.key, p.prio>>} \cup Labels(p.l) \cup Labels(p.r)
          /\ \A acc \in Int :
               Held(q, acc) = Own(p, acc + p.add) \cup Held(p.l, acc + p.add)
                                                 \cup Held(p.r, acc + p.add)
      BY <2>1, <2>2, <3>3, <3>4, PullIs
    <3> HIDE DEF q
    <3>6. q \in TreesUpTo[h + 1]
      BY <2>1, <3>5, NodeUp
    <3>7. Labels(s[1]) = LabelsUpTo(Labels(n), t)
      BY <2>7, <2>10, <3>2 DEF SplitsAt
    <3>8. Labels(q) = LabelsBeyond(Labels(n), t)
      BY <2>7, <2>10, <3>2, <3>3, <3>5 DEF SplitsAt
    <3>9. ASSUME NEW acc \in Int
          PROVE  /\ Held(s[1], acc) = UpTo(Held(n, acc), t)
                 /\ Held(q, acc) = Beyond(Held(n, acc), t)
      <4>1. Held(n, acc) = Own(m, acc) \cup Held(m.l, acc) \cup Held(m.r, acc)
        BY <2>2, <2>6
      <4>2. Own(p, acc) = Own(m, acc)
        BY <3>3 DEF Own
      <4>3. Held(q, acc) = Own(m, acc) \cup Held(s[2], acc) \cup Held(m.r, acc)
        BY <2>6, <3>3, <3>5, <4>2
      <4>4. /\ Held(s[1], acc) = UpTo(Held(m.l, acc), t)
            /\ Held(s[2], acc) = Beyond(Held(m.l, acc), t)
        BY <3>2 DEF SplitsAt
      <4> QED
        BY <2>1, <2>2, <2>3, <2>7, <4>1, <4>3, <4>4 DEF UpTo, Beyond
    <3>10. <<s[1], q>>[1] = s[1] /\ <<s[1], q>>[2] = q
      OBVIOUS
    <3> QED
      BY <2>5, <3>1, <3>2, <3>5, <3>6, <3>7, <3>8, <3>9, <3>10 DEF SplitsAt
  <2>8. CASE ~ (t < m.key)
    <3> DEFINE s == Split(m.r, t)
               p == [m EXCEPT !.r = s[1]]
               q == Pull(p)
    <3>1. Split(n, t) = <<q, s[2]>>
      BY <2>4, <2>8, SplitIs
    <3>2. SplitsAt(m.r, s, t, h)
      BY <2>1, <2>2
    <3> HIDE DEF m, s
    <3>3. /\ p \in NodesOver(TreesUpTo[h])
          /\ p.key = m.key /\ p.prio = m.prio /\ p.add = m.add
          /\ p.localAdd = m.localAdd /\ p.items = m.items
          /\ p.l = m.l /\ p.r = s[1]
      BY <2>2, <3>2, SetRight DEF SplitsAt
    <3> HIDE DEF p
    <3>4. Ordered(p) /\ Sound(p.l) /\ Sound(p.r)
      BY <2>2, <3>2, <3>3 DEF Ordered, SplitsAt, LabelsUpTo
    <3>5. /\ q \in NodesOver(TreesUpTo[h]) /\ Sound(q)
          /\ Labels(q) = {<<p.key, p.prio>>} \cup Labels(p.l) \cup Labels(p.r)
          /\ \A acc \in Int :
               Held(q, acc) = Own(p, acc + p.add) \cup Held(p.l, acc + p.add)
                                                 \cup Held(p.r, acc + p.add)
      BY <2>1, <2>2, <3>3, <3>4, PullIs
    <3> HIDE DEF q
    <3>6. q \in TreesUpTo[h + 1]
      BY <2>1, <3>5, NodeUp
    <3>7. Labels(q) = LabelsUpTo(Labels(n), t)
      BY <2>8, <2>10, <3>2, <3>3, <3>5 DEF SplitsAt
    <3>8. Labels(s[2]) = LabelsBeyond(Labels(n), t)
      BY <2>8, <2>10, <3>2 DEF SplitsAt
    <3>9. ASSUME NEW acc \in Int
          PROVE  /\ Held(q, acc) = UpTo(Held(n, acc), t)
                 /\ Held(s[2], acc) = Beyond(Held(n, acc), t)
      <4>1. Held(n, acc) = Own(m, acc) \cup Held(m.l, acc) \cup Held(m.r, acc)
        BY <2>2, <2>6
      <4>2. Own(p, acc) = Own(m, acc)
        BY <3>3 DEF Own
      <4>3. Held(q, acc) = Own(m, acc) \cup Held(m.l, acc) \cup Held(s[1], acc)
        BY <2>6, <3>3, <3>5, <4>2
      <4>4. /\ Held(s[1], acc) = UpTo(Held(m.r, acc), t)
            /\ Held(s[2], acc) = Beyond(Held(m.r, acc), t)
        BY <3>2 DEF SplitsAt
      <4> QED
        BY <2>1, <2>2, <2>3, <2>8, <4>1, <4>3, <4>4 DEF UpTo, Beyond
    <3>10. <<q, s[2]>>[1] = q /\ <<q, s[2]>>[2] = s[2]
      OBVIOUS
    <3> QED
      BY <2>5, <3>1, <3>2, <3>5, <3>6, <3>7, <3>8, <3>9, <3>10 DEF SplitsAt
  <2> QED
    BY <2>7, <2>8
<1>3. T = Nat
  <2> HIDE DEF T
  <2>1. T \in SUBSET Nat
    BY DEF T
  <2> QED
    BY <1>1, <1>2, <2>1, NatSet
<1> QED
  BY <1>3

-----------------------------------------------------------------------------
(* merge.                                                                   *)

LEMMA PushSound ==
  ASSUME NEW h \in Nat, h < MaxHeight, NEW n \in TreesUpTo[h + 1], n # Nil, Sound(n)
  PROVE  /\ Push(n) \in TreesUpTo[h + 1] /\ Push(n) # Nil /\ Sound(Push(n))
         /\ Labels(Push(n)) = Labels(n)
         /\ \A acc \in Int : Held(Push(n), acc) = Held(n, acc)
<1> DEFINE m == Push(n)
<1>1. n \in NodesOver(TreesUpTo[h]) /\ n \in Tree
  BY TreeParts, NodeUp
<1>2. NodeOK(n) /\ Sound(n.l) /\ Sound(n.r)
  BY <1>1, SoundIs
<1>3. /\ m \in NodesOver(TreesUpTo[h])
      /\ m.key = n.key /\ m.prio = n.prio /\ m.add = 0
      /\ m.localAdd = n.localAdd + n.add /\ m.items = n.items
      /\ m.top = n.top /\ m.capTop = n.capTop
      /\ m.l = AddToSubtree(n.l, n.add) /\ m.r = AddToSubtree(n.r, n.add)
  BY <1>1, PushParts, MaxHeightType
<1>4. /\ m.l \in TreesUpTo[h] /\ m.r \in TreesUpTo[h]
      /\ m.items # {} /\ IsFiniteSet(m.items)
      /\ Ordered(m) /\ Sound(m.l) /\ Sound(m.r)
      /\ Labels(n) = {<<m.key, m.prio>>} \cup Labels(m.l) \cup Labels(m.r)
      /\ \A acc \in Int : Held(n, acc) = Own(m, acc + m.add)
           \cup Held(m.l, acc + m.add) \cup Held(m.r, acc + m.add)
  BY PushedIs
<1> HIDE DEF m
<1>5. m \in TreesUpTo[h + 1] /\ m # Nil /\ m \in Tree
  BY <1>3, NodeUp
<1>6. /\ n.add \in Int /\ n.localAdd \in Int /\ n.top \in Int
      /\ n.items \in SUBSET (Int \X (1..MaxQueries) \X Scores)
      /\ n.l \in TreesUpTo[h] /\ n.r \in TreesUpTo[h]
  BY <1>1, NodeParts
<1>7. ASSUME NEW x \in TreesUpTo[h], x # Nil
      PROVE  /\ AddToSubtree(x, n.add).top = x.top + n.add
             /\ AddToSubtree(x, n.add).capTop = x.capTop /\ x.top \in Int
  <2>1. h \in Nat /\ h <= MaxHeight /\ n.add \in Int
    BY <1>6, MaxHeightType
  <2> DEFINE d == n.add
  <2>2. d \in Int
    BY <2>1
  <2> HIDE DEF d
  <2>3. /\ AddToSubtree(x, d).top = x.top + d
        /\ AddToSubtree(x, d).capTop = x.capTop
    BY <1>7, <2>1, <2>2, AddParts
  <2> QED
    BY <1>7, <2>1, <2>3, ChildParts DEF d
<1>8. AddToSubtree(Nil, n.add) = Nil
  BY DEF AddToSubtree
<1>9. Cached(m)
  <2>1. ASSUME NEW i \in m.items
        PROVE  i[1] + m.localAdd + m.add <= m.top /\ i[3] <= m.capTop
    <3>1. i \in n.items /\ i[1] \in Int
      BY <1>3, <1>6, ItemParts
    <3>2. i[1] + n.localAdd + n.add <= n.top /\ i[3] <= n.capTop
      BY <1>2, <3>1 DEF NodeOK, Cached
    <3> QED
      BY <1>3, <1>6, <3>1, <3>2
  <2>2. ASSUME NEW c \in Children(m)
        PROVE  c.top + m.add <= m.top /\ c.capTop <= m.capTop
    <3>1. PICK x \in {n.l, n.r} : c = AddToSubtree(x, n.add)
      BY <1>3, <2>2 DEF Children
    <3>2. x # Nil
      BY <1>8, <2>2, <3>1 DEF Children
    <3>3. x \in Children(n) /\ x \in TreesUpTo[h]
      BY <1>6, <3>1, <3>2 DEF Children
    <3>4. x.top + n.add <= n.top /\ x.capTop <= n.capTop
      BY <1>2, <3>3 DEF NodeOK, Cached
    <3>5. c.top = x.top + n.add /\ c.capTop = x.capTop /\ x.top \in Int
      BY <1>7, <3>1, <3>2, <3>3
    <3> QED
      BY <1>3, <1>6, <3>4, <3>5
  <2> QED
    BY <2>1, <2>2 DEF Cached
<1>10. Sound(m)
  BY <1>4, <1>5, <1>9, SoundIs DEF NodeOK
<1>11. Labels(m) = Labels(n)
  BY <1>4, <1>5, LabelsIs
<1>12. \A acc \in Int : Held(m, acc) = Held(n, acc)
  BY <1>4, <1>5, HeldIs
<1> QED
  BY <1>5, <1>10, <1>11, <1>12 DEF m

\* The pairs of trees with heights that come to h.
Pairs(h) == {p \in Tree \X Tree :
               \E i, j \in 0..MaxHeight : /\ i + j <= h
                                          /\ p[1] \in TreesUpTo[i]
                                          /\ p[2] \in TreesUpTo[j]}

MergeStep(f, p) ==
  LET x == Push(p[1])  y == Push(p[2])
  IN  IF p[1] = Nil THEN p[2]
      ELSE IF p[2] = Nil THEN p[1]
      ELSE IF x.prio > y.prio
        THEN Pull([x EXCEPT !.r = f[<<x.r, y>>]])
        ELSE Pull([y EXCEPT !.l = f[<<x, y.l>>]])

LEMMA PushUp ==
  ASSUME NEW i \in 0..MaxHeight, NEW n \in TreesUpTo[i], n # Nil
  PROVE  /\ i - 1 \in Nat /\ i - 1 < MaxHeight /\ i - 1 \in 0..MaxHeight
         /\ n \in TreesUpTo[(i - 1) + 1] /\ (i - 1) + 1 = i
         /\ Push(n) \in TreesUpTo[i]
         /\ Push(n).l \in TreesUpTo[i - 1] /\ Push(n).r \in TreesUpTo[i - 1]
<1>1. i # 0
  BY TreesZero
<1>2. /\ i - 1 \in Nat /\ i - 1 < MaxHeight /\ i - 1 \in 0..MaxHeight
      /\ (i - 1) + 1 = i /\ i - 1 <= MaxHeight
  BY <1>1, MaxHeightType
<1>3. n \in NodesOver(TreesUpTo[i - 1])
  BY <1>2, TreeParts
<1>4. Push(n) \in NodesOver(TreesUpTo[i - 1])
  BY <1>2, <1>3, PushParts
<1>5. Push(n) \in TreesUpTo[i]
  BY <1>2, <1>4, TreesNext
<1> QED
  BY <1>2, <1>4, <1>5, NodeParts

LEMMA MergeLocal ==
  ASSUME NEW h \in Nat, NEW p \in Pairs(h + 1), NEW f, NEW g,
         \A q \in Pairs(h) : f[q] = g[q]
  PROVE  MergeStep(f, p) = MergeStep(g, p)
<1>1. CASE p[1] = Nil \/ p[2] = Nil
  BY <1>1 DEF MergeStep
<1>2. CASE p[1] # Nil /\ p[2] # Nil
  <2> DEFINE x == Push(p[1])  y == Push(p[2])
  <2>1. PICK i, j \in 0..MaxHeight : /\ i + j <= h + 1
                                     /\ p[1] \in TreesUpTo[i] /\ p[2] \in TreesUpTo[j]
    BY DEF Pairs
  <2>2. /\ i - 1 \in 0..MaxHeight /\ x \in TreesUpTo[i] /\ x.r \in TreesUpTo[i - 1]
        /\ j - 1 \in 0..MaxHeight /\ y \in TreesUpTo[j] /\ y.l \in TreesUpTo[j - 1]
    BY <1>2, <2>1, PushUp
  <2> HIDE DEF x, y
  <2>3. (i - 1) + j <= h /\ i + (j - 1) <= h
    BY <2>1, <2>2
  <2>4. x.r \in Tree /\ y \in Tree /\ x \in Tree /\ y.l \in Tree
    BY <2>2, TreesInTree
  <2>5. <<x.r, y>> \in Pairs(h) /\ <<x, y.l>> \in Pairs(h)
    BY <2>2, <2>3, <2>4 DEF Pairs
  <2>6. f[<<x.r, y>>] = g[<<x.r, y>>] /\ f[<<x, y.l>>] = g[<<x, y.l>>]
    BY <2>5
  <2> QED
    BY <1>2, <2>6 DEF MergeStep, x, y
<1> QED
  BY <1>1, <1>2

LEMMA MergeExists ==
  \E f : f = [p \in Tree \X Tree |-> MergeStep(f, p)]
<1> DEFINE T == {h \in Nat : \E f : f = [p \in Pairs(h) |-> MergeStep(f, p)]}
<1>1. 0 \in T
  <2> DEFINE f == [p \in Pairs(0) |-> Nil]
  <2>1. \A p \in Pairs(0) : p[1] = Nil /\ p[2] = Nil
    BY TreesZero, MaxHeightType DEF Pairs
  <2>2. f = [p \in Pairs(0) |-> MergeStep(f, p)]
    BY <2>1 DEF MergeStep
  <2> QED
    BY <2>2
<1>2. ASSUME NEW h \in T
      PROVE  h + 1 \in T
  <2>1. h \in Nat
    OBVIOUS
  <2>2. PICK f : f = [p \in Pairs(h) |-> MergeStep(f, p)]
    OBVIOUS
  <2> DEFINE g == [p \in Pairs(h + 1) |-> MergeStep(f, p)]
  <2>3. Pairs(h) \subseteq Pairs(h + 1)
    <3>1. \A i, j \in 0..MaxHeight : i + j <= h => i + j <= h + 1
      BY <2>1
    <3> QED
      BY <3>1 DEF Pairs
  <2>4. \A q \in Pairs(h) : f[q] = g[q]
    BY <2>2, <2>3
  <2>5. \A p \in Pairs(h + 1) : MergeStep(f, p) = MergeStep(g, p)
    <3> HIDE DEF g
    <3> QED
      BY <2>1, <2>4, MergeLocal
  <2>6. g = [p \in Pairs(h + 1) |-> MergeStep(g, p)]
    <3> DEFINE G(p) == MergeStep(f, p)
               H(p) == MergeStep(g, p)
    <3>1. \A p \in Pairs(h + 1) : G(p) = H(p)
      BY <2>5
    <3>2. g = [p \in Pairs(h + 1) |-> G(p)]
      OBVIOUS
    <3> HIDE DEF g, G, H
    <3>3. g = [p \in Pairs(h + 1) |-> H(p)]
      BY <3>1, <3>2
    <3> QED
      BY <3>3 DEF H
  <2> HIDE DEF g
  <2> QED
    BY <2>6
<1>3. T = Nat
  <2> HIDE DEF T
  <2>1. T \in SUBSET Nat
    BY DEF T
  <2> QED
    BY <1>1, <1>2, <2>1, NatSet
<1>4. MaxHeight + MaxHeight \in T
  BY <1>3, MaxHeightType
<1>5. Pairs(MaxHeight + MaxHeight) = Tree \X Tree
  <2>1. MaxHeight \in 0..MaxHeight /\ MaxHeight + MaxHeight <= MaxHeight + MaxHeight
    BY MaxHeightType
  <2>2. \A p \in Tree \X Tree : p[1] \in TreesUpTo[MaxHeight] /\ p[2] \in TreesUpTo[MaxHeight]
    BY DEF Tree
  <2> QED
    BY <2>1, <2>2 DEF Pairs
<1> QED
  BY <1>4, <1>5

LEMMA MergeIs ==
  /\ \A x \in Tree : Merge(Nil, x) = x /\ Merge(x, Nil) = x
  /\ \A x, y \in Tree : x # Nil /\ y # Nil =>
       LET x1 == Push(x)  y1 == Push(y)
       IN  Merge(x, y) = IF x1.prio > y1.prio
                           THEN Pull([x1 EXCEPT !.r = Merge(x1.r, y1)])
                           ELSE Pull([y1 EXCEPT !.l = Merge(x1, y1.l)])
<1> DEFINE F == CHOOSE f : f = [p \in Tree \X Tree |->
                  LET x == Push(p[1])  y == Push(p[2])
                  IN  IF p[1] = Nil THEN p[2]
                      ELSE IF p[2] = Nil THEN p[1]
                      ELSE IF x.prio > y.prio
                        THEN Pull([x EXCEPT !.r = f[<<x.r, y>>]])
                        ELSE Pull([y EXCEPT !.l = f[<<x, y.l>>]])]
<1>1. F = [p \in Tree \X Tree |-> MergeStep(F, p)]
  BY MergeExists DEF MergeStep
<1>2. \A x, y : Merge(x, y) = F[<<x, y>>]
  BY DEF Merge
<1>3. Nil \in Tree
  BY UpIsTree, MaxHeightType DEF Tree
<1> HIDE DEF F
<1>4. \A x, y \in Tree : F[<<x, y>>] = MergeStep(F, <<x, y>>)
  BY <1>1
<1>5. ASSUME NEW x \in Tree
      PROVE  Merge(Nil, x) = x /\ Merge(x, Nil) = x
  BY <1>2, <1>3, <1>4 DEF MergeStep
<1>6. ASSUME NEW x \in Tree, NEW y \in Tree, x # Nil, y # Nil
      PROVE  LET x1 == Push(x)  y1 == Push(y)
             IN  Merge(x, y) = IF x1.prio > y1.prio
                                 THEN Pull([x1 EXCEPT !.r = Merge(x1.r, y1)])
                                 ELSE Pull([y1 EXCEPT !.l = Merge(x1, y1.l)])
  <2>1. Merge(x, y) = MergeStep(F, <<x, y>>)
    BY <1>2, <1>4
  <2>2. <<x, y>>[1] = x /\ <<x, y>>[2] = y
    OBVIOUS
  <2> QED
    BY <1>2, <1>6, <2>1, <2>2 DEF MergeStep
<1> QED
  BY <1>5, <1>6

\* The keys of x are below those of y, and no priority is in both.
Apart(x, y) == \A p \in Labels(x), q \in Labels(y) : p[1] < q[1] /\ p[2] # q[2]

\* r is the trees x and y together.
MergesTo(x, y, r, h) ==
  /\ r \in TreesUpTo[h] /\ Sound(r)
  /\ Labels(r) = Labels(x) \cup Labels(y)
  /\ \A acc \in Int : Held(r, acc) = Held(x, acc) \cup Held(y, acc)

LEMMA LabelTypes ==
  ASSUME NEW h \in Nat, h <= MaxHeight, NEW n \in TreesUpTo[h]
  PROVE  \A p \in Labels(n) : p[1] \in Nat /\ p[2] \in Nat /\ p[1] \in Scores
<1>1. Labels(n) \subseteq Scores \X Prios
  BY HeldParts
<1>2. \A p \in Scores \X Prios : p[1] \in Scores /\ p[2] \in Prios
  OBVIOUS
<1> QED
  BY <1>1, <1>2, ScoresAssumption, PriosAssumption

\* No label has a higher priority than the root.
LEMMA RootIsHighest ==
  ASSUME NEW h \in Nat, h < MaxHeight, NEW n \in TreesUpTo[h + 1], n # Nil, Sound(n)
  PROVE  /\ <<n.key, n.prio>> \in Labels(n) /\ n.prio \in Nat /\ n.key \in Nat
         /\ \A p \in Labels(n) : p[2] <= n.prio
<1>1. n \in NodesOver(TreesUpTo[h]) /\ n \in Tree
  BY TreeParts, NodeUp
<1>2. Labels(n) = {<<n.key, n.prio>>} \cup Labels(n.l) \cup Labels(n.r)
  BY <1>1, LabelsIs
<1>3. Ordered(n)
  BY <1>1, SoundIs DEF NodeOK
<1>4. n.l \in TreesUpTo[h] /\ n.r \in TreesUpTo[h] /\ n.prio \in Nat /\ n.key \in Nat
  BY <1>1, NodeParts, ScoresAssumption, PriosAssumption
<1>5. \A p \in Labels(n.l) \cup Labels(n.r) : p[2] \in Nat
  BY <1>4, LabelTypes, MaxHeightType
<1>6. \A p \in Labels(n.l) \cup Labels(n.r) : p[2] <= n.prio
  BY <1>3, <1>4, <1>5 DEF Ordered
<1>7. <<n.key, n.prio>>[2] <= n.prio
  BY <1>4
<1> QED
  BY <1>2, <1>4, <1>6, <1>7

LEMMA MergeMerges ==
  \A h \in Nat : h <= MaxHeight => \A i, j \in Nat : i + j = h =>
    \A x \in TreesUpTo[i], y \in TreesUpTo[j] :
      Sound(x) /\ Sound(y) /\ Apart(x, y) => MergesTo(x, y, Merge(x, y), h)
<1> DEFINE P(h) == \A i, j \in Nat : i + j = h =>
             \A x \in TreesUpTo[i], y \in TreesUpTo[j] :
               Sound(x) /\ Sound(y) /\ Apart(x, y) => MergesTo(x, y, Merge(x, y), h)
           T == {h \in Nat : h <= MaxHeight => P(h)}
<1>0. ASSUME NEW h \in Nat, h <= MaxHeight, NEW i \in Nat, NEW j \in Nat, i + j = h,
             NEW x \in TreesUpTo[i], NEW y \in TreesUpTo[j], Sound(x), Sound(y),
             x = Nil \/ y = Nil
      PROVE  MergesTo(x, y, Merge(x, y), h)
  <2>1. TreesUpTo[i] \subseteq TreesUpTo[h] /\ TreesUpTo[j] \subseteq TreesUpTo[h]
    BY <1>0, TreesMonotone
  <2>2. x \in Tree /\ y \in Tree
    BY <1>0, <2>1, UpIsTree
  <2>3. CASE x = Nil
    BY <1>0, <2>1, <2>2, <2>3, MergeIs, LabelsIs, HeldIs DEF MergesTo
  <2>4. CASE y = Nil
    BY <1>0, <2>1, <2>2, <2>4, MergeIs, LabelsIs, HeldIs DEF MergesTo
  <2> QED
    BY <1>0, <2>3, <2>4
<1>1. 0 \in T
  <2> SUFFICES ASSUME NEW i \in Nat, NEW j \in Nat, i + j = 0,
                      NEW x \in TreesUpTo[i], NEW y \in TreesUpTo[j],
                      Sound(x), Sound(y)
               PROVE  MergesTo(x, y, Merge(x, y), 0)
    OBVIOUS
  <2>1. i = 0
    OBVIOUS
  <2>2. x = Nil
    BY <2>1, TreesZero
  <2> QED
    BY <1>0, <2>2, MaxHeightType
<1>2. ASSUME NEW h \in T
      PROVE  h + 1 \in T
  <2> SUFFICES ASSUME h + 1 <= MaxHeight, NEW i \in Nat, NEW j \in Nat, i + j = h + 1,
                      NEW x \in TreesUpTo[i], NEW y \in TreesUpTo[j],
                      Sound(x), Sound(y), Apart(x, y), x # Nil, y # Nil
               PROVE  MergesTo(x, y, Merge(x, y), h + 1)
    BY <1>0
  <2>1. /\ h \in Nat /\ h < MaxHeight /\ h <= MaxHeight /\ h + 1 \in Nat
        /\ i \in 0..MaxHeight /\ j \in 0..MaxHeight
    BY MaxHeightType
  <2>2. /\ i - 1 \in Nat /\ i - 1 < MaxHeight /\ (i - 1) + 1 = i /\ (i - 1) + j = h
        /\ j - 1 \in Nat /\ j - 1 < MaxHeight /\ (j - 1) + 1 = j /\ i + (j - 1) = h
    BY <2>1, PushUp
  <2>3. P(h)
    BY <2>1
  <2> HIDE DEF P, T
  <2>4. x \in Tree /\ y \in Tree
    BY <2>1, TreesInTree
  <2>5. /\ TreesUpTo[i - 1] \subseteq TreesUpTo[h] /\ TreesUpTo[j - 1] \subseteq TreesUpTo[h]
    BY <2>1, <2>2, TreesMonotone
  <2> DEFINE X == Push(x)  Y == Push(y)
  <2>6. /\ X \in NodesOver(TreesUpTo[i - 1])
        /\ X.key = x.key /\ X.prio = x.prio /\ X.add = 0 /\ X.key \in Nat
        /\ X.l \in TreesUpTo[i - 1] /\ X.r \in TreesUpTo[i - 1]
        /\ X.items # {} /\ IsFiniteSet(X.items)
        /\ Ordered(X) /\ Sound(X.l) /\ Sound(X.r)
        /\ Labels(x) = {<<X.key, X.prio>>} \cup Labels(X.l) \cup Labels(X.r)
        /\ \A acc \in Int : Held(x, acc) = Own(X, acc + X.add)
             \cup Held(X.l, acc + X.add) \cup Held(X.r, acc + X.add)
    BY <2>2, PushedIs
  <2>7. /\ Y \in NodesOver(TreesUpTo[j - 1])
        /\ Y.key = y.key /\ Y.prio = y.prio /\ Y.add = 0 /\ Y.key \in Nat
        /\ Y.l \in TreesUpTo[j - 1] /\ Y.r \in TreesUpTo[j - 1]
        /\ Y.items # {} /\ IsFiniteSet(Y.items)
        /\ Ordered(Y) /\ Sound(Y.l) /\ Sound(Y.r)
        /\ Labels(y) = {<<Y.key, Y.prio>>} \cup Labels(Y.l) \cup Labels(Y.r)
        /\ \A acc \in Int : Held(y, acc) = Own(Y, acc + Y.add)
             \cup Held(Y.l, acc + Y.add) \cup Held(Y.r, acc + Y.add)
    BY <2>2, PushedIs
  <2>8. /\ X \in TreesUpTo[i] /\ Sound(X) /\ Labels(X) = Labels(x)
        /\ \A acc \in Int : Held(X, acc) = Held(x, acc)
    BY <2>2, PushSound
  <2>9. /\ Y \in TreesUpTo[j] /\ Sound(Y) /\ Labels(Y) = Labels(y)
        /\ \A acc \in Int : Held(Y, acc) = Held(y, acc)
    BY <2>2, PushSound
  <2>10. /\ x.prio \in Nat /\ <<x.key, x.prio>> \in Labels(x)
         /\ \A p \in Labels(x) : p[2] <= x.prio
    BY <2>2, RootIsHighest
  <2>11. /\ y.prio \in Nat /\ <<y.key, y.prio>> \in Labels(y)
         /\ \A p \in Labels(y) : p[2] <= y.prio
    BY <2>2, RootIsHighest
  <2>12. /\ \A p \in Labels(x) : p[1] \in Nat /\ p[2] \in Nat
         /\ \A p \in Labels(y) : p[1] \in Nat /\ p[2] \in Nat
    BY <2>1, LabelTypes
  <2>13. x.prio # y.prio
    BY <2>10, <2>11 DEF Apart
  <2>14. Merge(x, y) = IF X.prio > Y.prio THEN Pull([X EXCEPT !.r = Merge(X.r, Y)])
                                          ELSE Pull([Y EXCEPT !.l = Merge(X, Y.l)])
    BY <2>4, MergeIs
  <2> HIDE DEF X, Y
  <2>15. CASE X.prio > Y.prio
    <3> DEFINE s == Merge(X.r, Y)
               p == [X EXCEPT !.r = s]
               q == Pull(p)
    <3>1. Apart(X.r, Y)
      BY <2>6, <2>9 DEF Apart
    <3>2. MergesTo(X.r, Y, s, h)
      BY <2>2, <2>3, <2>6, <2>9, <3>1 DEF P
    <3> HIDE DEF s
    <3>3. /\ p \in NodesOver(TreesUpTo[h])
          /\ p.key = X.key /\ p.prio = X.prio /\ p.add = X.add
          /\ p.localAdd = X.localAdd /\ p.items = X.items
          /\ p.l = X.l /\ p.r = s
      BY <2>5, <2>6, <3>2, SetRight DEF MergesTo
    <3> HIDE DEF p
    <3>4. \A u \in Labels(s) : u[1] > X.key /\ u[2] < X.prio
      <4>1. ASSUME NEW u \in Labels(y)
            PROVE  u[1] > X.key /\ u[2] < X.prio
        <5>1. u[2] <= y.prio /\ u[1] \in Nat /\ u[2] \in Nat
          BY <2>11, <2>12
        <5>2. <<x.key, x.prio>>[1] < u[1]
          BY <2>10 DEF Apart
        <5> QED
          BY <2>6, <2>7, <2>10, <2>11, <2>15, <5>1, <5>2
      <4>2. ASSUME NEW u \in Labels(X.r)
            PROVE  u[1] > X.key /\ u[2] < X.prio
        BY <2>6 DEF Ordered
      <4> QED
        BY <2>9, <3>2, <4>1, <4>2 DEF MergesTo
    <3>5. Ordered(p) /\ Sound(p.l) /\ Sound(p.r)
      BY <2>6, <3>2, <3>3, <3>4 DEF Ordered, MergesTo
    <3>6. /\ q \in NodesOver(TreesUpTo[h]) /\ Sound(q)
          /\ Labels(q) = {<<p.key, p.prio>>} \cup Labels(p.l) \cup Labels(p.r)
          /\ \A acc \in Int :
               Held(q, acc) = Own(p, acc + p.add) \cup Held(p.l, acc + p.add)
                                                 \cup Held(p.r, acc + p.add)
      BY <2>1, <2>6, <3>3, <3>5, PullIs
    <3>7. Merge(x, y) = q
      BY <2>14, <2>15 DEF p, s
    <3> HIDE DEF q
    <3>8. q \in TreesUpTo[h + 1]
      BY <2>1, <3>6, NodeUp
    <3>9. Labels(q) = Labels(x) \cup Labels(y)
      BY <2>6, <2>9, <3>2, <3>3, <3>6 DEF MergesTo
    <3>10. ASSUME NEW acc \in Int
           PROVE  Held(q, acc) = Held(x, acc) \cup Held(y, acc)
      <4>1. acc + X.add = acc /\ acc + p.add = acc
        BY <2>6, <3>3
      <4>2. Own(p, acc) = Own(X, acc)
        BY <3>3 DEF Own
      <4>3. Held(q, acc) = Own(X, acc) \cup Held(X.l, acc) \cup Held(s, acc)
        BY <3>3, <3>6, <4>1, <4>2
      <4>4. Held(s, acc) = Held(X.r, acc) \cup Held(y, acc)
        BY <2>9, <3>2 DEF MergesTo
      <4>5. Held(x, acc) = Own(X, acc) \cup Held(X.l, acc) \cup Held(X.r, acc)
        BY <2>6, <4>1
      <4> QED
        BY <4>3, <4>4, <4>5
    <3> QED
      BY <3>6, <3>7, <3>8, <3>9, <3>10 DEF MergesTo
  <2>16. CASE ~ (X.prio > Y.prio)
    <3> DEFINE s == Merge(X, Y.l)
               p == [Y EXCEPT !.l = s]
               q == Pull(p)
    <3>1. Apart(X, Y.l)
      BY <2>7, <2>8 DEF Apart
    <3>2. MergesTo(X, Y.l, s, h)
      BY <2>2, <2>3, <2>7, <2>8, <3>1 DEF P
    <3> HIDE DEF s
    <3>3. /\ p \in NodesOver(TreesUpTo[h])
          /\ p.key = Y.key /\ p.prio = Y.prio /\ p.add = Y.add
          /\ p.localAdd = Y.localAdd /\ p.items = Y.items
          /\ p.l = s /\ p.r = Y.r
      BY <2>5, <2>7, <3>2, SetLeft DEF MergesTo
    <3> HIDE DEF p
    <3>4. \A u \in Labels(s) : u[1] < Y.key /\ u[2] < Y.prio
      <4>1. ASSUME NEW u \in Labels(x)
            PROVE  u[1] < Y.key /\ u[2] < Y.prio
        <5>1. u[2] <= x.prio /\ u[1] \in Nat /\ u[2] \in Nat
          BY <2>10, <2>12
        <5>2. u[1] < <<y.key, y.prio>>[1]
          BY <2>11 DEF Apart
        <5> QED
          BY <2>6, <2>7, <2>10, <2>11, <2>13, <2>16, <5>1, <5>2
      <4>2. ASSUME NEW u \in Labels(Y.l)
            PROVE  u[1] < Y.key /\ u[2] < Y.prio
        BY <2>7 DEF Ordered
      <4> QED
        BY <2>8, <3>2, <4>1, <4>2 DEF MergesTo
    <3>5. Ordered(p) /\ Sound(p.l) /\ Sound(p.r)
      BY <2>7, <3>2, <3>3, <3>4 DEF Ordered, MergesTo
    <3>6. /\ q \in NodesOver(TreesUpTo[h]) /\ Sound(q)
          /\ Labels(q) = {<<p.key, p.prio>>} \cup Labels(p.l) \cup Labels(p.r)
          /\ \A acc \in Int :
               Held(q, acc) = Own(p, acc + p.add) \cup Held(p.l, acc + p.add)
                                                 \cup Held(p.r, acc + p.add)
      BY <2>1, <2>7, <3>3, <3>5, PullIs
    <3>7. Merge(x, y) = q
      BY <2>14, <2>16 DEF p, s
    <3> HIDE DEF q
    <3>8. q \in TreesUpTo[h + 1]
      BY <2>1, <3>6, NodeUp
    <3>9. Labels(q) = Labels(x) \cup Labels(y)
      BY <2>7, <2>8, <3>2, <3>3, <3>6 DEF MergesTo
    <3>10. ASSUME NEW acc \in Int
           PROVE  Held(q, acc) = Held(x, acc) \cup Held(y, acc)
      <4>1. acc + Y.add = acc /\ acc + p.add = acc
        BY <2>7, <3>3
      <4>2. Own(p, acc) = Own(Y, acc)
        BY <3>3 DEF Own
      <4>3. Held(q, acc) = Own(Y, acc) \cup Held(s, acc) \cup Held(Y.r, acc)
        BY <3>3, <3>6, <4>1, <4>2
      <4>4. Held(s, acc) = Held(x, acc) \cup Held(Y.l, acc)
        BY <2>8, <3>2 DEF MergesTo
      <4>5. Held(y, acc) = Own(Y, acc) \cup Held(Y.l, acc) \cup Held(Y.r, acc)
        BY <2>7, <4>1
      <4> QED
        BY <4>3, <4>4, <4>5
    <3> QED
      BY <3>6, <3>7, <3>8, <3>9, <3>10 DEF MergesTo
  <2> QED
    BY <2>15, <2>16
<1>3. T = Nat
  <2> HIDE DEF T
  <2>1. T \in SUBSET Nat
    BY DEF T
  <2> QED
    BY <1>1, <1>2, <2>1, NatSet
<1> QED
  BY <1>3

-----------------------------------------------------------------------------
(* _remove.                                                                 *)

RemoveStep(f, n, a, item) ==
  IF n = Nil THEN n
  ELSE LET m == Push(n)
           u == IF a = m.key THEN [m EXCEPT !.items = @ \ {item}]
                ELSE IF a < m.key THEN [m EXCEPT !.l = f[m.l]]
                ELSE [m EXCEPT !.r = f[m.r]]
       IN  IF u.items = {} THEN Merge(u.l, u.r) ELSE Pull(u)

LEMMA RemoveLocal ==
  ASSUME NEW h \in Nat, h < MaxHeight, NEW n \in TreesUpTo[h + 1], NEW f, NEW g,
         NEW a, NEW item, \A x \in TreesUpTo[h] : f[x] = g[x]
  PROVE  RemoveStep(f, n, a, item) = RemoveStep(g, n, a, item)
<1>1. CASE n = Nil
  BY <1>1 DEF RemoveStep
<1>2. CASE n # Nil
  <2> DEFINE m == Push(n)
  <2>1. m.l \in TreesUpTo[h] /\ m.r \in TreesUpTo[h]
    BY <1>2, PushedParts
  <2>2. f[m.l] = g[m.l] /\ f[m.r] = g[m.r]
    BY <2>1
  <2> QED
    BY <1>2, <2>2 DEF RemoveStep
<1> QED
  BY <1>1, <1>2

LEMMA RemoveExists ==
  ASSUME NEW a, NEW item
  PROVE  \E f : f = [n \in Tree |-> RemoveStep(f, n, a, item)]
<1> DEFINE T == {h \in Nat : h <= MaxHeight =>
                     \E f : f = [n \in TreesUpTo[h] |-> RemoveStep(f, n, a, item)]}
<1>1. 0 \in T
  <2> DEFINE f == [n \in TreesUpTo[0] |-> Nil]
  <2>1. f = [n \in TreesUpTo[0] |-> RemoveStep(f, n, a, item)]
    BY TreesZero DEF RemoveStep
  <2> QED
    BY <2>1
<1>2. ASSUME NEW h \in T
      PROVE  h + 1 \in T
  <2> SUFFICES ASSUME h + 1 <= MaxHeight
               PROVE  \E f : f = [n \in TreesUpTo[h + 1] |-> RemoveStep(f, n, a, item)]
    OBVIOUS
  <2>1. h \in Nat /\ h < MaxHeight /\ h <= MaxHeight
    BY MaxHeightType
  <2>2. PICK f : f = [n \in TreesUpTo[h] |-> RemoveStep(f, n, a, item)]
    BY <2>1
  <2> DEFINE g == [n \in TreesUpTo[h + 1] |-> RemoveStep(f, n, a, item)]
  <2>3. \A x \in TreesUpTo[h] : f[x] = g[x]
    <3>1. TreesUpTo[h] \subseteq TreesUpTo[h + 1]
      BY <2>1, TreesGrow
    <3> QED
      BY <2>2, <3>1
  <2>4. \A n \in TreesUpTo[h + 1] : RemoveStep(f, n, a, item) = RemoveStep(g, n, a, item)
    <3> HIDE DEF g
    <3> QED
      BY <2>1, <2>3, RemoveLocal
  <2>5. g = [n \in TreesUpTo[h + 1] |-> RemoveStep(g, n, a, item)]
    <3> DEFINE G(n) == RemoveStep(f, n, a, item)
               H(n) == RemoveStep(g, n, a, item)
    <3>1. \A n \in TreesUpTo[h + 1] : G(n) = H(n)
      BY <2>4
    <3>2. g = [n \in TreesUpTo[h + 1] |-> G(n)]
      OBVIOUS
    <3> HIDE DEF g, G, H
    <3>3. g = [n \in TreesUpTo[h + 1] |-> H(n)]
      BY <3>1, <3>2
    <3> QED
      BY <3>3 DEF H
  <2> HIDE DEF g
  <2> QED
    BY <2>5
<1>3. T = Nat
  <2> HIDE DEF T
  <2>1. T \in SUBSET Nat
    BY DEF T
  <2> QED
    BY <1>1, <1>2, <2>1, NatSet
<1>4. MaxHeight \in T
  BY <1>3, MaxHeightType
<1> QED
  BY <1>4, MaxHeightType DEF Tree

LEMMA RemoveIs ==
  ASSUME NEW a, NEW item
  PROVE  /\ Remove(Nil, a, item) = Nil
         /\ \A n \in Tree : n # Nil =>
              LET m == Push(n)
                  u == IF a = m.key THEN [m EXCEPT !.items = m.items \ {item}]
                       ELSE IF a < m.key THEN [m EXCEPT !.l = Remove(m.l, a, item)]
                       ELSE [m EXCEPT !.r = Remove(m.r, a, item)]
              IN  Remove(n, a, item) =
                    IF u.items = {} THEN Merge(u.l, u.r) ELSE Pull(u)
<1> DEFINE F == CHOOSE f : f = [n \in Tree |-> RemoveStep(f, n, a, item)]
<1>1. F = [n \in Tree |-> RemoveStep(F, n, a, item)]
  BY RemoveExists
<1>2. \A n : Remove(n, a, item) = F[n]
  BY DEF Remove, RemoveStep
<1>3. Nil \in Tree
  BY UpIsTree, MaxHeightType DEF Tree
<1> HIDE DEF F
<1>4. \A n \in Tree : F[n] = RemoveStep(F, n, a, item)
  BY <1>1
<1> QED
  BY <1>2, <1>3, <1>4 DEF RemoveStep

\* No two keys have one priority.
Distinct(n) == \A p, q \in Labels(n) : p[2] = q[2] => p[1] = q[1]

\* r is the tree n, with or without what was held for the query of the item.
Removes(n, r, item, h) ==
  /\ r \in TreesUpTo[h] /\ Sound(r) /\ Labels(r) \subseteq Labels(n)
  /\ \A acc \in Int :
       /\ Held(r, acc) \subseteq Held(n, acc)
       /\ \A e \in Held(n, acc) : e.id # item[2] => e \in Held(r, acc)

LEMMA RemoveRemoves ==
  ASSUME NEW a, NEW item
  PROVE  \A h \in Nat : h + h <= MaxHeight => \A n \in TreesUpTo[h] :
           Sound(n) /\ Distinct(n) => Removes(n, Remove(n, a, item), item, h + h)
<1> DEFINE T == {h \in Nat : h + h <= MaxHeight => \A n \in TreesUpTo[h] :
                   Sound(n) /\ Distinct(n) => Removes(n, Remove(n, a, item), item, h + h)}
<1>0. ASSUME NEW h \in Nat, h <= MaxHeight
      PROVE  Removes(Nil, Remove(Nil, a, item), item, h)
  BY <1>0, UpIsTree, RemoveIs, SoundIs, LabelsIs, HeldIs DEF Removes
<1>1. 0 \in T
  <2>1. 0 + 0 = 0 /\ 0 <= MaxHeight
    BY MaxHeightType
  <2> QED
    BY <1>0, <2>1, TreesZero
<1>2. ASSUME NEW h \in T
      PROVE  h + 1 \in T
  <2> SUFFICES ASSUME (h + 1) + (h + 1) <= MaxHeight, NEW n \in TreesUpTo[h + 1],
                      n # Nil, Sound(n), Distinct(n)
               PROVE  Removes(n, Remove(n, a, item), item, (h + 1) + (h + 1))
    <3>1. h \in Nat /\ (h + 1) + (h + 1) \in Nat
      OBVIOUS
    <3> QED
      BY <1>0, <3>1
  <2> DEFINE m == Push(n)
  <2>1. /\ h \in Nat /\ h < MaxHeight /\ h <= MaxHeight /\ h + h \in Nat
        /\ h + h < MaxHeight /\ h + h <= MaxHeight
    BY MaxHeightType
  <2>2. /\ m \in NodesOver(TreesUpTo[h])
        /\ m.key = n.key /\ m.prio = n.prio /\ m.add = 0 /\ m.key \in Nat
        /\ m.l \in TreesUpTo[h] /\ m.r \in TreesUpTo[h]
        /\ m.items # {} /\ IsFiniteSet(m.items)
        /\ Ordered(m) /\ Sound(m.l) /\ Sound(m.r)
        /\ Labels(n) = {<<m.key, m.prio>>} \cup Labels(m.l) \cup Labels(m.r)
        /\ \A acc \in Int : Held(n, acc) = Own(m, acc + m.add)
             \cup Held(m.l, acc + m.add) \cup Held(m.r, acc + m.add)
    BY <2>1, PushedIs
  <2>3. \A x \in TreesUpTo[h] :
          Sound(x) /\ Distinct(x) => Removes(x, Remove(x, a, item), item, h + h)
    BY <2>1
  <2>4. n \in Tree
    BY <2>1, TreeParts, NodeUp
  <2>5. Distinct(m.l) /\ Distinct(m.r)
    BY <2>2 DEF Distinct
  <2>6. /\ TreesUpTo[h] \subseteq TreesUpTo[h + h]
        /\ TreesUpTo[h + h] \subseteq TreesUpTo[(h + 1) + (h + 1)]
        /\ TreesUpTo[(h + h) + 1] \subseteq TreesUpTo[(h + 1) + (h + 1)]
    <3>1. /\ h <= h + h /\ h + h <= (h + 1) + (h + 1)
          /\ (h + h) + 1 <= (h + 1) + (h + 1)
          /\ (h + h) + 1 \in Nat /\ (h + 1) + (h + 1) \in Nat
      BY <2>1
    <3> QED
      BY <2>1, <3>1, TreesMonotone
  <2>7. ASSUME NEW acc \in Int
        PROVE  /\ acc + m.add = acc
               /\ Held(n, acc) = Own(m, acc) \cup Held(m.l, acc) \cup Held(m.r, acc)
    BY <2>2
  <2> HIDE DEF T
  <2>8. CASE a = m.key
    <3> DEFINE p == [m EXCEPT !.items = m.items \ {item}]
               q == Pull(p)
    <3>1. /\ p \in NodesOver(TreesUpTo[h])
          /\ p.key = m.key /\ p.prio = m.prio /\ p.add = m.add
          /\ p.localAdd = m.localAdd /\ p.items = m.items \ {item}
          /\ p.l = m.l /\ p.r = m.r
      <4> HIDE DEF m
      <4> DEFINE v == m.items \ {item}
      <4>1. v \in SUBSET (Int \X (1..MaxQueries) \X Scores)
        BY <2>2, NodeParts
      <4> HIDE DEF v
      <4>2. LET z == [m EXCEPT !.items = v]
            IN  /\ z \in NodesOver(TreesUpTo[h])
                /\ z.key = m.key /\ z.prio = m.prio /\ z.add = m.add
                /\ z.localAdd = m.localAdd /\ z.items = v
                /\ z.l = m.l /\ z.r = m.r
        BY <2>2, <4>1, SetItems
      <4> QED
        BY <4>2 DEF v
    <3>2. Remove(n, a, item) = IF p.items = {} THEN Merge(p.l, p.r) ELSE Pull(p)
      BY <2>4, <2>8, RemoveIs
    <3> HIDE DEF m, p
    <3>3. ASSUME NEW acc \in Int
          PROVE  /\ Own(p, acc) \subseteq Own(m, acc)
                 /\ \A e \in Own(m, acc) : e.id # item[2] => e \in Own(p, acc)
      BY <3>1 DEF Own
    <3>4. CASE p.items = {}
      <4> DEFINE r == Merge(m.l, m.r)
      <4>1. Apart(m.l, m.r)
        <5>1. \A u \in Labels(m.l), w \in Labels(m.r) :
                u[1] \in Nat /\ w[1] \in Nat /\ u[1] < m.key /\ m.key < w[1]
          BY <2>1, <2>2, LabelTypes DEF Ordered
        <5>2. \A u \in Labels(m.l), w \in Labels(m.r) : u[1] < w[1]
          BY <2>2, <5>1
        <5>3. \A u \in Labels(m.l), w \in Labels(m.r) : u[1] # w[1]
          BY <5>1, <5>2
        <5> QED
          BY <2>2, <5>2, <5>3 DEF Apart, Distinct
      <4>2. MergesTo(m.l, m.r, r, h + h)
        BY <2>1, <2>2, <4>1, MergeMerges
      <4>3. Remove(n, a, item) = r
        BY <3>1, <3>2, <3>4
      <4> HIDE DEF r
      <4>4. ASSUME NEW acc \in Int
            PROVE  /\ Held(r, acc) \subseteq Held(n, acc)
                   /\ \A e \in Held(n, acc) : e.id # item[2] => e \in Held(r, acc)
        <5>1. Own(p, acc) = {}
          BY <3>4 DEF Own
        <5> QED
          BY <2>7, <3>3, <4>2, <5>1 DEF MergesTo
      <4> QED
        BY <2>2, <2>6, <4>2, <4>3, <4>4 DEF MergesTo, Removes
    <3>5. CASE p.items # {}
      <4>1. IsFiniteSet(p.items)
        <5>1. p.items \in SUBSET m.items
          BY <3>1
        <5> QED
          BY <2>2, <5>1, FS_Subset
      <4>2. Ordered(p) /\ Sound(p.l) /\ Sound(p.r)
        BY <2>2, <3>1 DEF Ordered
      <4>3. /\ q \in NodesOver(TreesUpTo[h]) /\ Sound(q)
            /\ Labels(q) = {<<p.key, p.prio>>} \cup Labels(p.l) \cup Labels(p.r)
            /\ \A acc \in Int :
                 Held(q, acc) = Own(p, acc + p.add) \cup Held(p.l, acc + p.add)
                                                   \cup Held(p.r, acc + p.add)
        BY <2>1, <3>1, <3>5, <4>1, <4>2, PullIs
      <4>4. Remove(n, a, item) = q
        BY <3>2, <3>5
      <4> HIDE DEF q
      <4>5. q \in TreesUpTo[(h + 1) + (h + 1)]
        <5>1. q \in TreesUpTo[h + 1]
          BY <2>1, <4>3, NodeUp
        <5>2. /\ h + 1 \in Nat /\ (h + 1) + (h + 1) \in Nat
              /\ h + 1 <= (h + 1) + (h + 1)
          BY <2>1
        <5>3. TreesUpTo[h + 1] \subseteq TreesUpTo[(h + 1) + (h + 1)]
          BY <5>2, TreesMonotone
        <5> QED
          BY <5>1, <5>3
      <4>6. ASSUME NEW acc \in Int
            PROVE  /\ Held(q, acc) \subseteq Held(n, acc)
                   /\ \A e \in Held(n, acc) : e.id # item[2] => e \in Held(q, acc)
        <5>1. Held(q, acc) = Own(p, acc) \cup Held(m.l, acc) \cup Held(m.r, acc)
          BY <2>7, <3>1, <4>3
        <5> QED
          BY <2>7, <3>3, <5>1
      <4>7. Labels(q) = Labels(n)
        BY <2>2, <3>1, <4>3
      <4> QED
        BY <4>3, <4>4, <4>5, <4>6, <4>7 DEF Removes
    <3> QED
      BY <3>4, <3>5
  <2>9. CASE a # m.key /\ a < m.key
    <3> DEFINE s == Remove(m.l, a, item)
               p == [m EXCEPT !.l = s]
               q == Pull(p)
    <3>1. Removes(m.l, s, item, h + h)
      BY <2>1, <2>2, <2>3, <2>5 DEF Distinct
    <3> HIDE DEF s
    <3>2. /\ p \in NodesOver(TreesUpTo[h + h])
          /\ p.key = m.key /\ p.prio = m.prio /\ p.add = m.add
          /\ p.localAdd = m.localAdd /\ p.items = m.items
          /\ p.l = s /\ p.r = m.r
      BY <2>2, <2>6, <3>1, SetLeft DEF Removes
    <3>3. Remove(n, a, item) = q
      <4>1. Remove(n, a, item) = IF p.items = {} THEN Merge(p.l, p.r) ELSE q
        <5> DEFINE u == IF a = m.key THEN [m EXCEPT !.items = m.items \ {item}]
                        ELSE IF a < m.key THEN [m EXCEPT !.l = Remove(m.l, a, item)]
                        ELSE [m EXCEPT !.r = Remove(m.r, a, item)]
        <5>1. Remove(n, a, item) = IF u.items = {} THEN Merge(u.l, u.r) ELSE Pull(u)
          BY <2>4, RemoveIs
        <5>2. u = p
          BY <2>9 DEF s
        <5> HIDE DEF u, p
        <5> QED
          BY <5>1, <5>2
      <4>2. p.items # {}
        BY <2>2, <3>2
      <4> HIDE DEF p, q
      <4> QED
        BY <4>1, <4>2
    <3> HIDE DEF p
    <3>4. Ordered(p) /\ Sound(p.l) /\ Sound(p.r)
      BY <2>2, <3>1, <3>2 DEF Ordered, Removes
    <3>5. /\ q \in NodesOver(TreesUpTo[h + h]) /\ Sound(q)
          /\ Labels(q) = {<<p.key, p.prio>>} \cup Labels(p.l) \cup Labels(p.r)
          /\ \A acc \in Int :
               Held(q, acc) = Own(p, acc + p.add) \cup Held(p.l, acc + p.add)
                                                 \cup Held(p.r, acc + p.add)
      BY <2>1, <2>2, <3>2, <3>4, PullIs
    <3> HIDE DEF q
    <3>6. q \in TreesUpTo[(h + 1) + (h + 1)]
      BY <2>1, <2>6, <3>5, NodeUp
    <3>7. Labels(q) \subseteq Labels(n)
      BY <2>2, <3>1, <3>2, <3>5 DEF Removes
    <3>8. ASSUME NEW acc \in Int
          PROVE  /\ Held(q, acc) \subseteq Held(n, acc)
                 /\ \A e \in Held(n, acc) : e.id # item[2] => e \in Held(q, acc)
      <4>1. Own(p, acc) = Own(m, acc)
        BY <3>2 DEF Own
      <4>2. Held(q, acc) = Own(m, acc) \cup Held(s, acc) \cup Held(m.r, acc)
        BY <2>7, <3>2, <3>5, <4>1
      <4> QED
        BY <2>7, <3>1, <4>2 DEF Removes
    <3> QED
      BY <3>3, <3>5, <3>6, <3>7, <3>8 DEF Removes
  <2>10. CASE a # m.key /\ ~ (a < m.key)
    <3> DEFINE s == Remove(m.r, a, item)
               p == [m EXCEPT !.r = s]
               q == Pull(p)
    <3>1. Removes(m.r, s, item, h + h)
      BY <2>1, <2>2, <2>3, <2>5 DEF Distinct
    <3> HIDE DEF s
    <3>2. /\ p \in NodesOver(TreesUpTo[h + h])
          /\ p.key = m.key /\ p.prio = m.prio /\ p.add = m.add
          /\ p.localAdd = m.localAdd /\ p.items = m.items
          /\ p.r = s /\ p.l = m.l
      BY <2>2, <2>6, <3>1, SetRight DEF Removes
    <3>3. Remove(n, a, item) = q
      <4>1. Remove(n, a, item) = IF p.items = {} THEN Merge(p.l, p.r) ELSE q
        <5> DEFINE u == IF a = m.key THEN [m EXCEPT !.items = m.items \ {item}]
                        ELSE IF a < m.key THEN [m EXCEPT !.l = Remove(m.l, a, item)]
                        ELSE [m EXCEPT !.r = Remove(m.r, a, item)]
        <5>1. Remove(n, a, item) = IF u.items = {} THEN Merge(u.l, u.r) ELSE Pull(u)
          BY <2>4, RemoveIs
        <5>2. u = p
          BY <2>10 DEF s
        <5> HIDE DEF u, p
        <5> QED
          BY <5>1, <5>2
      <4>2. p.items # {}
        BY <2>2, <3>2
      <4> HIDE DEF p, q
      <4> QED
        BY <4>1, <4>2
    <3> HIDE DEF p
    <3>4. Ordered(p) /\ Sound(p.l) /\ Sound(p.r)
      BY <2>2, <3>1, <3>2 DEF Ordered, Removes
    <3>5. /\ q \in NodesOver(TreesUpTo[h + h]) /\ Sound(q)
          /\ Labels(q) = {<<p.key, p.prio>>} \cup Labels(p.l) \cup Labels(p.r)
          /\ \A acc \in Int :
               Held(q, acc) = Own(p, acc + p.add) \cup Held(p.l, acc + p.add)
                                                 \cup Held(p.r, acc + p.add)
      BY <2>1, <2>2, <3>2, <3>4, PullIs
    <3> HIDE DEF q
    <3>6. q \in TreesUpTo[(h + 1) + (h + 1)]
      BY <2>1, <2>6, <3>5, NodeUp
    <3>7. Labels(q) \subseteq Labels(n)
      BY <2>2, <3>1, <3>2, <3>5 DEF Removes
    <3>8. ASSUME NEW acc \in Int
          PROVE  /\ Held(q, acc) \subseteq Held(n, acc)
                 /\ \A e \in Held(n, acc) : e.id # item[2] => e \in Held(q, acc)
      <4>1. Own(p, acc) = Own(m, acc)
        BY <3>2 DEF Own
      <4>2. Held(q, acc) = Own(m, acc) \cup Held(s, acc) \cup Held(m.l, acc)
        BY <2>7, <3>2, <3>5, <4>1
      <4> QED
        BY <2>7, <3>1, <4>2 DEF Removes
    <3> QED
      BY <3>3, <3>5, <3>6, <3>7, <3>8 DEF Removes
  <2> QED
    BY <2>8, <2>9, <2>10
<1>3. T = Nat
  <2> HIDE DEF T
  <2>1. T \in SUBSET Nat
    BY DEF T
  <2> QED
    BY <1>1, <1>2, <2>1, NatSet
<1> QED
  BY <1>3

-----------------------------------------------------------------------------
(* The rotations.                                                           *)

LEMMA NodeNarrow ==
  ASSUME NEW S, NEW R, NEW n \in NodesOver(R), n.l \in S, n.r \in S
  PROVE  n \in NodesOver(S)
BY DEF NodesOver

\* The left child, which alone has a higher priority, comes up.
LEMMA RotateRightIs ==
  ASSUME NEW h \in Nat, (h + 1) + 1 <= MaxHeight, NEW m \in NodesOver(TreesUpTo[h + 1]),
         m.l # Nil, m.r \in TreesUpTo[h], m.items # {}, IsFiniteSet(m.items),
         Sound(m.l), Sound(m.r), m.l.prio > m.prio,
         \A u \in Labels(m.l) : u[1] < m.key /\ (u[1] # m.l.key => u[2] < m.prio),
         \A u \in Labels(m.r) : u[1] > m.key /\ u[2] < m.prio
  PROVE  LET r == RotateRight(m)
         IN  /\ r \in NodesOver(TreesUpTo[h + 1]) /\ Sound(r)
             /\ Labels(r) = {<<m.key, m.prio>>} \cup Labels(m.l) \cup Labels(m.r)
             /\ \A acc \in Int : Held(r, acc) = Held(m, acc)
<1> DEFINE p == Push(m)
           c == Push(p.l)
<1>1. /\ h + 1 \in Nat /\ h + 1 < MaxHeight /\ h + 1 <= MaxHeight
      /\ h < MaxHeight /\ h <= MaxHeight
  BY MaxHeightType
<1>2. /\ p \in NodesOver(TreesUpTo[h + 1])
      /\ p.key = m.key /\ p.prio = m.prio /\ p.items = m.items /\ p.add = 0
      /\ p.l \in TreesUpTo[h + 1] /\ p.r \in TreesUpTo[h + 1]
      /\ p.l = Nil <=> m.l = Nil
      /\ Labels(p.l) = Labels(m.l) /\ Labels(p.r) = Labels(m.r)
      /\ \A acc \in Int : Held(p, acc) = Held(m, acc)
      /\ Sound(m.l) => Sound(p.l)
      /\ Sound(m.r) => Sound(p.r)
  BY <1>1, PushIs
<1>3. p.l = AddToSubtree(m.l, m.add) /\ p.r = AddToSubtree(m.r, m.add)
  BY <1>1, PushParts
<1>4. m.l \in TreesUpTo[h + 1] /\ m.r \in TreesUpTo[h + 1] /\ m.add \in Int
  BY NodeParts
<1>5. p.l.key = m.l.key /\ p.l.prio = m.l.prio
  <2> DEFINE x == m.l  d == m.add
  <2>1. x \in TreesUpTo[h + 1] /\ x # Nil /\ d \in Int /\ p.l = AddToSubtree(x, d)
    BY <1>3, <1>4
  <2> HIDE DEF x, d, p
  <2>2. AddToSubtree(x, d).key = x.key /\ AddToSubtree(x, d).prio = x.prio
    BY <1>1, <2>1, AddParts
  <2> QED
    BY <2>1, <2>2 DEF x
<1>6. p.r \in TreesUpTo[h]
  <2> DEFINE x == m.r  d == m.add
  <2>1. x \in TreesUpTo[h] /\ d \in Int /\ p.r = AddToSubtree(x, d)
    BY <1>3, <1>4
  <2> HIDE DEF x, d, p
  <2> QED
    BY <1>1, <2>1, AddParts
<1> HIDE DEF p
<1>7. p.l \in TreesUpTo[h + 1] /\ p.l # Nil /\ Sound(p.l)
  BY <1>2
<1>8. /\ c \in NodesOver(TreesUpTo[h])
      /\ c.key = p.l.key /\ c.prio = p.l.prio /\ c.add = 0 /\ c.key \in Nat
      /\ c.l \in TreesUpTo[h] /\ c.r \in TreesUpTo[h]
      /\ c.items # {} /\ IsFiniteSet(c.items)
      /\ Ordered(c) /\ Sound(c.l) /\ Sound(c.r)
      /\ Labels(p.l) = {<<c.key, c.prio>>} \cup Labels(c.l) \cup Labels(c.r)
      /\ \A acc \in Int : Held(p.l, acc) = Own(c, acc + c.add)
           \cup Held(c.l, acc + c.add) \cup Held(c.r, acc + c.add)
  BY <1>1, <1>7, PushedIs
<1> HIDE DEF c
<1> DEFINE d == [p EXCEPT !.l = c.r]
           e == Pull(d)
           k == [c EXCEPT !.r = e]
           r == Pull(k)
<1>9. RotateRight(m) = r
  BY DEF RotateRight, p, c
<1>10. /\ d \in NodesOver(TreesUpTo[h])
       /\ d.key = m.key /\ d.prio = m.prio /\ d.add = 0
       /\ d.localAdd = p.localAdd /\ d.items = m.items
       /\ d.l = c.r /\ d.r = p.r
  <2>1. TreesUpTo[h] \subseteq TreesUpTo[h + 1]
    BY <1>1, TreesGrow
  <2>2. /\ d \in NodesOver(TreesUpTo[h + 1])
        /\ d.key = p.key /\ d.prio = p.prio /\ d.add = p.add
        /\ d.localAdd = p.localAdd /\ d.items = p.items
        /\ d.l = c.r /\ d.r = p.r
    BY <1>2, <1>8, <2>1, SetLeft
  <2> HIDE DEF d
  <2>3. d \in NodesOver(TreesUpTo[h])
    BY <1>6, <1>8, <2>2, NodeNarrow
  <2> QED
    BY <1>2, <2>2, <2>3
<1> HIDE DEF d
<1>11. /\ \A u \in Labels(p.l) \cup Labels(p.r) : u[1] \in Nat /\ u[2] \in Nat
       /\ m.key \in Nat /\ m.prio \in Nat /\ c.prio \in Nat
  <2>1. \A u \in Labels(p.l) \cup Labels(p.r) : u[1] \in Nat /\ u[2] \in Nat
    BY <1>1, <1>2, LabelTypes
  <2> QED
    BY <1>8, <2>1, NodeParts, ScoresAssumption, PriosAssumption
<1>12. c.key < m.key /\ m.prio < c.prio /\ c.key = m.l.key
  <2>1. <<c.key, c.prio>> \in Labels(m.l) /\ <<c.key, c.prio>>[1] = c.key
    BY <1>2, <1>8
  <2>2. c.key < m.key
    BY <2>1
  <2> QED
    BY <1>5, <1>8, <1>11, <2>2
<1>13. Ordered(d) /\ Sound(d.l) /\ Sound(d.r)
  <2>1. \A u \in Labels(c.r) : u[1] < m.key /\ u[2] < m.prio
    <3>1. \A u \in Labels(c.r) : u \in Labels(m.l) /\ u[1] \in Nat /\ u[1] > c.key
      BY <1>2, <1>8, <1>11 DEF Ordered
    <3> QED
      BY <1>8, <1>12, <3>1
  <2>2. \A u \in Labels(p.r) : u[1] > m.key /\ u[2] < m.prio
    BY <1>2
  <2> QED
    BY <1>2, <1>8, <1>10, <2>1, <2>2 DEF Ordered
<1>14. /\ e \in NodesOver(TreesUpTo[h]) /\ Sound(e)
       /\ Labels(e) = {<<d.key, d.prio>>} \cup Labels(d.l) \cup Labels(d.r)
       /\ \A acc \in Int :
            Held(e, acc) = Own(d, acc + d.add) \cup Held(d.l, acc + d.add)
                                              \cup Held(d.r, acc + d.add)
  BY <1>1, <1>10, <1>13, PullIs
<1> HIDE DEF e
<1>15. e \in TreesUpTo[h + 1]
  BY <1>1, <1>14, NodeUp
<1>16. /\ k \in NodesOver(TreesUpTo[h + 1])
       /\ k.key = c.key /\ k.prio = c.prio /\ k.add = 0
       /\ k.localAdd = c.localAdd /\ k.items = c.items
       /\ k.l = c.l /\ k.r = e
  <2>1. TreesUpTo[h] \subseteq TreesUpTo[h + 1]
    BY <1>1, TreesGrow
  <2> QED
    BY <1>8, <1>15, <2>1, SetRight
<1> HIDE DEF k
<1>17. Ordered(k) /\ Sound(k.l) /\ Sound(k.r)
  <2>1. \A u \in Labels(e) : u[1] > c.key /\ u[2] < c.prio
    <3>1. Labels(e) = {<<m.key, m.prio>>} \cup Labels(c.r) \cup Labels(p.r)
      BY <1>10, <1>14
    <3>2. \A u \in Labels(c.r) : u[1] > c.key /\ u[2] < c.prio
      BY <1>8 DEF Ordered
    <3>3. ASSUME NEW u \in Labels(p.r)
          PROVE  u[1] > c.key /\ u[2] < c.prio
      <4>1. u[1] > m.key /\ u[2] < m.prio /\ u[1] \in Nat /\ u[2] \in Nat
        BY <1>2, <1>11, <3>3
      <4> QED
        BY <1>8, <1>11, <1>12, <4>1
    <3>4. <<m.key, m.prio>>[1] > c.key /\ <<m.key, m.prio>>[2] < c.prio
      BY <1>8, <1>11, <1>12
    <3> QED
      BY <3>1, <3>2, <3>3, <3>4
  <2> QED
    BY <1>8, <1>14, <1>16, <2>1 DEF Ordered
<1>18. /\ r \in NodesOver(TreesUpTo[h + 1]) /\ Sound(r)
       /\ Labels(r) = {<<k.key, k.prio>>} \cup Labels(k.l) \cup Labels(k.r)
       /\ \A acc \in Int :
            Held(r, acc) = Own(k, acc + k.add) \cup Held(k.l, acc + k.add)
                                              \cup Held(k.r, acc + k.add)
  BY <1>1, <1>8, <1>16, <1>17, PullIs
<1> HIDE DEF r
<1>19. Labels(r) = {<<m.key, m.prio>>} \cup Labels(m.l) \cup Labels(m.r)
  BY <1>2, <1>8, <1>10, <1>14, <1>16, <1>18
<1>20. ASSUME NEW acc \in Int
       PROVE  Held(r, acc) = Held(m, acc)
  <2>1. /\ acc + c.add = acc /\ acc + d.add = acc
        /\ acc + k.add = acc /\ acc + p.add = acc
    BY <1>2, <1>8, <1>10, <1>16
  <2>2. p \in Tree /\ p # Nil
    BY <1>1, <1>2, NodeUp
  <2>3. Held(m, acc) = Own(p, acc) \cup Held(p.l, acc) \cup Held(p.r, acc)
    BY <1>2, <2>1, <2>2, HeldIs
  <2>4. Held(p.l, acc) = Own(c, acc) \cup Held(c.l, acc) \cup Held(c.r, acc)
    BY <1>8, <2>1
  <2>5. Own(d, acc) = Own(p, acc) /\ Own(k, acc) = Own(c, acc)
    BY <1>2, <1>10, <1>16 DEF Own
  <2>6. Held(e, acc) = Own(p, acc) \cup Held(c.r, acc) \cup Held(p.r, acc)
    BY <1>10, <1>14, <2>1, <2>5
  <2>7. Held(r, acc) = Own(c, acc) \cup Held(c.l, acc) \cup Held(e, acc)
    BY <1>16, <1>18, <2>1, <2>5
  <2> QED
    BY <2>3, <2>4, <2>6, <2>7
<1> QED
  BY <1>9, <1>18, <1>19, <1>20

\* The right child, which alone has a higher priority, comes up.
LEMMA RotateLeftIs ==
  ASSUME NEW h \in Nat, (h + 1) + 1 <= MaxHeight, NEW m \in NodesOver(TreesUpTo[h + 1]),
         m.r # Nil, m.l \in TreesUpTo[h], m.items # {}, IsFiniteSet(m.items),
         Sound(m.l), Sound(m.r), m.r.prio > m.prio,
         \A u \in Labels(m.r) : u[1] > m.key /\ (u[1] # m.r.key => u[2] < m.prio),
         \A u \in Labels(m.l) : u[1] < m.key /\ u[2] < m.prio
  PROVE  LET r == RotateLeft(m)
         IN  /\ r \in NodesOver(TreesUpTo[h + 1]) /\ Sound(r)
             /\ Labels(r) = {<<m.key, m.prio>>} \cup Labels(m.l) \cup Labels(m.r)
             /\ \A acc \in Int : Held(r, acc) = Held(m, acc)
<1> DEFINE p == Push(m)
           c == Push(p.r)
<1>1. /\ h + 1 \in Nat /\ h + 1 < MaxHeight /\ h + 1 <= MaxHeight
      /\ h < MaxHeight /\ h <= MaxHeight
  BY MaxHeightType
<1>2. /\ p \in NodesOver(TreesUpTo[h + 1])
      /\ p.key = m.key /\ p.prio = m.prio /\ p.items = m.items /\ p.add = 0
      /\ p.l \in TreesUpTo[h + 1] /\ p.r \in TreesUpTo[h + 1]
      /\ p.r = Nil <=> m.r = Nil
      /\ Labels(p.l) = Labels(m.l) /\ Labels(p.r) = Labels(m.r)
      /\ \A acc \in Int : Held(p, acc) = Held(m, acc)
      /\ Sound(m.l) => Sound(p.l)
      /\ Sound(m.r) => Sound(p.r)
  BY <1>1, PushIs
<1>3. p.r = AddToSubtree(m.r, m.add) /\ p.l = AddToSubtree(m.l, m.add)
  BY <1>1, PushParts
<1>4. m.l \in TreesUpTo[h + 1] /\ m.r \in TreesUpTo[h + 1] /\ m.add \in Int
  BY NodeParts
<1>5. p.r.key = m.r.key /\ p.r.prio = m.r.prio
  <2> DEFINE x == m.r  d == m.add
  <2>1. x \in TreesUpTo[h + 1] /\ x # Nil /\ d \in Int /\ p.r = AddToSubtree(x, d)
    BY <1>3, <1>4
  <2> HIDE DEF x, d, p
  <2>2. AddToSubtree(x, d).key = x.key /\ AddToSubtree(x, d).prio = x.prio
    BY <1>1, <2>1, AddParts
  <2> QED
    BY <2>1, <2>2 DEF x
<1>6. p.l \in TreesUpTo[h]
  <2> DEFINE x == m.l  d == m.add
  <2>1. x \in TreesUpTo[h] /\ d \in Int /\ p.l = AddToSubtree(x, d)
    BY <1>3, <1>4
  <2> HIDE DEF x, d, p
  <2> QED
    BY <1>1, <2>1, AddParts
<1> HIDE DEF p
<1>7. p.r \in TreesUpTo[h + 1] /\ p.r # Nil /\ Sound(p.r)
  BY <1>2
<1>8. /\ c \in NodesOver(TreesUpTo[h])
      /\ c.key = p.r.key /\ c.prio = p.r.prio /\ c.add = 0 /\ c.key \in Nat
      /\ c.l \in TreesUpTo[h] /\ c.r \in TreesUpTo[h]
      /\ c.items # {} /\ IsFiniteSet(c.items)
      /\ Ordered(c) /\ Sound(c.l) /\ Sound(c.r)
      /\ Labels(p.r) = {<<c.key, c.prio>>} \cup Labels(c.l) \cup Labels(c.r)
      /\ \A acc \in Int : Held(p.r, acc) = Own(c, acc + c.add)
           \cup Held(c.l, acc + c.add) \cup Held(c.r, acc + c.add)
  BY <1>1, <1>7, PushedIs
<1> HIDE DEF c
<1> DEFINE d == [p EXCEPT !.r = c.l]
           e == Pull(d)
           k == [c EXCEPT !.l = e]
           r == Pull(k)
<1>9. RotateLeft(m) = r
  BY DEF RotateLeft, p, c
<1>10. /\ d \in NodesOver(TreesUpTo[h])
       /\ d.key = m.key /\ d.prio = m.prio /\ d.add = 0
       /\ d.localAdd = p.localAdd /\ d.items = m.items
       /\ d.r = c.l /\ d.l = p.l
  <2>1. TreesUpTo[h] \subseteq TreesUpTo[h + 1]
    BY <1>1, TreesGrow
  <2>2. /\ d \in NodesOver(TreesUpTo[h + 1])
        /\ d.key = p.key /\ d.prio = p.prio /\ d.add = p.add
        /\ d.localAdd = p.localAdd /\ d.items = p.items
        /\ d.r = c.l /\ d.l = p.l
    BY <1>2, <1>8, <2>1, SetRight
  <2> HIDE DEF d
  <2>3. d \in NodesOver(TreesUpTo[h])
    BY <1>6, <1>8, <2>2, NodeNarrow
  <2> QED
    BY <1>2, <2>2, <2>3
<1> HIDE DEF d
<1>11. /\ \A u \in Labels(p.r) \cup Labels(p.l) : u[1] \in Nat /\ u[2] \in Nat
       /\ m.key \in Nat /\ m.prio \in Nat /\ c.prio \in Nat
  <2>1. \A u \in Labels(p.r) \cup Labels(p.l) : u[1] \in Nat /\ u[2] \in Nat
    BY <1>1, <1>2, LabelTypes
  <2> QED
    BY <1>8, <2>1, NodeParts, ScoresAssumption, PriosAssumption
<1>12. c.key > m.key /\ m.prio < c.prio /\ c.key = m.r.key
  <2>1. <<c.key, c.prio>> \in Labels(m.r) /\ <<c.key, c.prio>>[1] = c.key
    BY <1>2, <1>8
  <2>2. c.key > m.key
    BY <2>1
  <2> QED
    BY <1>5, <1>8, <1>11, <2>2
<1>13. Ordered(d) /\ Sound(d.l) /\ Sound(d.r)
  <2>1. \A u \in Labels(c.l) : u[1] > m.key /\ u[2] < m.prio
    <3>1. \A u \in Labels(c.l) : u \in Labels(m.r) /\ u[1] \in Nat /\ u[1] < c.key
      BY <1>2, <1>8, <1>11 DEF Ordered
    <3> QED
      BY <1>8, <1>12, <3>1
  <2>2. \A u \in Labels(p.l) : u[1] < m.key /\ u[2] < m.prio
    BY <1>2
  <2> QED
    BY <1>2, <1>8, <1>10, <2>1, <2>2 DEF Ordered
<1>14. /\ e \in NodesOver(TreesUpTo[h]) /\ Sound(e)
       /\ Labels(e) = {<<d.key, d.prio>>} \cup Labels(d.l) \cup Labels(d.r)
       /\ \A acc \in Int :
            Held(e, acc) = Own(d, acc + d.add) \cup Held(d.l, acc + d.add)
                                              \cup Held(d.r, acc + d.add)
  BY <1>1, <1>10, <1>13, PullIs
<1> HIDE DEF e
<1>15. e \in TreesUpTo[h + 1]
  BY <1>1, <1>14, NodeUp
<1>16. /\ k \in NodesOver(TreesUpTo[h + 1])
       /\ k.key = c.key /\ k.prio = c.prio /\ k.add = 0
       /\ k.localAdd = c.localAdd /\ k.items = c.items
       /\ k.r = c.r /\ k.l = e
  <2>1. TreesUpTo[h] \subseteq TreesUpTo[h + 1]
    BY <1>1, TreesGrow
  <2> QED
    BY <1>8, <1>15, <2>1, SetLeft
<1> HIDE DEF k
<1>17. Ordered(k) /\ Sound(k.l) /\ Sound(k.r)
  <2>1. \A u \in Labels(e) : u[1] < c.key /\ u[2] < c.prio
    <3>1. Labels(e) = {<<m.key, m.prio>>} \cup Labels(c.l) \cup Labels(p.l)
      BY <1>10, <1>14
    <3>2. \A u \in Labels(c.l) : u[1] < c.key /\ u[2] < c.prio
      BY <1>8 DEF Ordered
    <3>3. ASSUME NEW u \in Labels(p.l)
          PROVE  u[1] < c.key /\ u[2] < c.prio
      <4>1. u[1] < m.key /\ u[2] < m.prio /\ u[1] \in Nat /\ u[2] \in Nat
        BY <1>2, <1>11, <3>3
      <4> QED
        BY <1>8, <1>11, <1>12, <4>1
    <3>4. <<m.key, m.prio>>[1] < c.key /\ <<m.key, m.prio>>[2] < c.prio
      BY <1>8, <1>11, <1>12
    <3> QED
      BY <3>1, <3>2, <3>3, <3>4
  <2> QED
    BY <1>8, <1>14, <1>16, <2>1 DEF Ordered
<1>18. /\ r \in NodesOver(TreesUpTo[h + 1]) /\ Sound(r)
       /\ Labels(r) = {<<k.key, k.prio>>} \cup Labels(k.l) \cup Labels(k.r)
       /\ \A acc \in Int :
            Held(r, acc) = Own(k, acc + k.add) \cup Held(k.l, acc + k.add)
                                              \cup Held(k.r, acc + k.add)
  BY <1>1, <1>8, <1>16, <1>17, PullIs
<1> HIDE DEF r
<1>19. Labels(r) = {<<m.key, m.prio>>} \cup Labels(m.l) \cup Labels(m.r)
  BY <1>2, <1>8, <1>10, <1>14, <1>16, <1>18
<1>20. ASSUME NEW acc \in Int
       PROVE  Held(r, acc) = Held(m, acc)
  <2>1. /\ acc + c.add = acc /\ acc + d.add = acc
        /\ acc + k.add = acc /\ acc + p.add = acc
    BY <1>2, <1>8, <1>10, <1>16
  <2>2. p \in Tree /\ p # Nil
    BY <1>1, <1>2, NodeUp
  <2>3. Held(m, acc) = Own(p, acc) \cup Held(p.l, acc) \cup Held(p.r, acc)
    BY <1>2, <2>1, <2>2, HeldIs
  <2>4. Held(p.r, acc) = Own(c, acc) \cup Held(c.l, acc) \cup Held(c.r, acc)
    BY <1>8, <2>1
  <2>5. Own(d, acc) = Own(p, acc) /\ Own(k, acc) = Own(c, acc)
    BY <1>2, <1>10, <1>16 DEF Own
  <2>6. Held(e, acc) = Own(p, acc) \cup Held(c.l, acc) \cup Held(p.l, acc)
    BY <1>10, <1>14, <2>1, <2>5
  <2>7. Held(r, acc) = Own(c, acc) \cup Held(c.r, acc) \cup Held(e, acc)
    BY <1>16, <1>18, <2>1, <2>5
  <2> QED
    BY <2>3, <2>4, <2>6, <2>7
<1> QED
  BY <1>9, <1>18, <1>19, <1>20

-----------------------------------------------------------------------------
(* _insert.                                                                 *)

InsertStep(f, n, a, id, effective, cap, prio) ==
  [accAdd \in Int |->
    IF n = Nil THEN Leaf(a, prio, <<effective - accAdd, id, cap>>)
    ELSE IF a = n.key
      THEN Pull([n EXCEPT !.items = @ \cup
                   {<<effective - accAdd - n.add - n.localAdd, id, cap>>}])
    ELSE IF a < n.key
      THEN LET m == [n EXCEPT !.l = f[n.l][accAdd + n.add]]
           IN  IF m.l.prio > m.prio THEN Pull(RotateRight(m)) ELSE Pull(m)
      ELSE LET m == [n EXCEPT !.r = f[n.r][accAdd + n.add]]
           IN  IF m.r.prio > m.prio THEN Pull(RotateLeft(m)) ELSE Pull(m)]

LEMMA InsertLocal ==
  ASSUME NEW h \in Nat, h < MaxHeight, NEW n \in TreesUpTo[h + 1], NEW f, NEW g,
         NEW a, NEW id, NEW effective, NEW cap, NEW prio,
         \A x \in TreesUpTo[h] : f[x] = g[x]
  PROVE  InsertStep(f, n, a, id, effective, cap, prio)
           = InsertStep(g, n, a, id, effective, cap, prio)
<1>1. CASE n = Nil
  BY <1>1 DEF InsertStep
<1>2. CASE n # Nil
  <2>1. f[n.l] = g[n.l] /\ f[n.r] = g[n.r]
    BY <1>2, TreeParts
  <2> QED
    BY <2>1 DEF InsertStep
<1> QED
  BY <1>1, <1>2

LEMMA InsertExists ==
  ASSUME NEW a, NEW id, NEW effective, NEW cap, NEW prio
  PROVE  \E f : f = [n \in Tree |-> InsertStep(f, n, a, id, effective, cap, prio)]
<1> DEFINE T == {h \in Nat : h <= MaxHeight =>
                     \E f : f = [n \in TreesUpTo[h] |-> InsertStep(f, n, a, id, effective, cap, prio)]}
<1>1. 0 \in T
  <2> DEFINE f == [n \in TreesUpTo[0] |-> [accAdd \in Int |-> Leaf(a, prio, <<effective - accAdd, id, cap>>)]]
  <2>1. f = [n \in TreesUpTo[0] |-> InsertStep(f, n, a, id, effective, cap, prio)]
    BY TreesZero DEF InsertStep
  <2> QED
    BY <2>1
<1>2. ASSUME NEW h \in T
      PROVE  h + 1 \in T
  <2> SUFFICES ASSUME h + 1 <= MaxHeight
               PROVE  \E f : f = [n \in TreesUpTo[h + 1] |-> InsertStep(f, n, a, id, effective, cap, prio)]
    OBVIOUS
  <2>1. h \in Nat /\ h < MaxHeight /\ h <= MaxHeight
    BY MaxHeightType
  <2>2. PICK f : f = [n \in TreesUpTo[h] |-> InsertStep(f, n, a, id, effective, cap, prio)]
    BY <2>1
  <2> DEFINE g == [n \in TreesUpTo[h + 1] |-> InsertStep(f, n, a, id, effective, cap, prio)]
  <2>3. \A x \in TreesUpTo[h] : f[x] = g[x]
    <3>1. TreesUpTo[h] \subseteq TreesUpTo[h + 1]
      BY <2>1, TreesGrow
    <3> QED
      BY <2>2, <3>1
  <2>4. \A n \in TreesUpTo[h + 1] : InsertStep(f, n, a, id, effective, cap, prio) = InsertStep(g, n, a, id, effective, cap, prio)
    <3> HIDE DEF g
    <3> QED
      BY <2>1, <2>3, InsertLocal
  <2>5. g = [n \in TreesUpTo[h + 1] |-> InsertStep(g, n, a, id, effective, cap, prio)]
    <3> DEFINE G(n) == InsertStep(f, n, a, id, effective, cap, prio)
               H(n) == InsertStep(g, n, a, id, effective, cap, prio)
    <3>1. \A n \in TreesUpTo[h + 1] : G(n) = H(n)
      BY <2>4
    <3>2. g = [n \in TreesUpTo[h + 1] |-> G(n)]
      OBVIOUS
    <3> HIDE DEF g, G, H
    <3>3. g = [n \in TreesUpTo[h + 1] |-> H(n)]
      BY <3>1, <3>2
    <3> QED
      BY <3>3 DEF H
  <2> HIDE DEF g
  <2> QED
    BY <2>5
<1>3. T = Nat
  <2> HIDE DEF T
  <2>1. T \in SUBSET Nat
    BY DEF T
  <2> QED
    BY <1>1, <1>2, <2>1, NatSet
<1>4. MaxHeight \in T
  BY <1>3, MaxHeightType
<1> QED
  BY <1>4, MaxHeightType DEF Tree

InsertFcn(a, id, effective, cap, prio) ==
  CHOOSE f : f = [n \in Tree |-> InsertStep(f, n, a, id, effective, cap, prio)]

\* _insert below the additions acc.
InsertAt(n, acc, a, id, effective, cap, prio) ==
  InsertFcn(a, id, effective, cap, prio)[n][acc]

\* What one call of _insert does.
InsertUnfolds(a, id, effective, cap, prio) ==
  /\ \A n : Insert(n, a, id, effective, cap, prio)
              = InsertAt(n, 0, a, id, effective, cap, prio)
  /\ \A acc \in Int :
       InsertAt(Nil, acc, a, id, effective, cap, prio)
         = Leaf(a, prio, <<effective - acc, id, cap>>)
  /\ \A n \in Tree, acc \in Int : n # Nil /\ a = n.key =>
       InsertAt(n, acc, a, id, effective, cap, prio)
         = Pull([n EXCEPT !.items = n.items \cup
              {<<effective - acc - n.add - n.localAdd, id, cap>>}])
  /\ \A n \in Tree, acc \in Int : n # Nil /\ a # n.key /\ a < n.key =>
       LET m == [n EXCEPT !.l =
                   InsertAt(n.l, acc + n.add, a, id, effective, cap, prio)]
       IN  InsertAt(n, acc, a, id, effective, cap, prio)
             = IF m.l.prio > m.prio THEN Pull(RotateRight(m)) ELSE Pull(m)
  /\ \A n \in Tree, acc \in Int : n # Nil /\ a # n.key /\ ~ (a < n.key) =>
       LET m == [n EXCEPT !.r =
                   InsertAt(n.r, acc + n.add, a, id, effective, cap, prio)]
       IN  InsertAt(n, acc, a, id, effective, cap, prio)
             = IF m.r.prio > m.prio THEN Pull(RotateLeft(m)) ELSE Pull(m)

LEMMA InsertIs ==
  ASSUME NEW a, NEW id, NEW effective, NEW cap, NEW prio
  PROVE  InsertUnfolds(a, id, effective, cap, prio)
<1> DEFINE F == InsertFcn(a, id, effective, cap, prio)
           I(n, acc) == InsertAt(n, acc, a, id, effective, cap, prio)
<1>1. F = [n \in Tree |-> InsertStep(F, n, a, id, effective, cap, prio)]
  BY InsertExists DEF InsertFcn
<1>2. \A n : Insert(n, a, id, effective, cap, prio) = F[n][0]
  BY DEF Insert, InsertFcn, InsertStep
<1>3. Nil \in Tree
  BY UpIsTree, MaxHeightType DEF Tree
<1>4. \A n, acc : F[n][acc] = I(n, acc)
  BY DEF InsertAt
<1> HIDE DEF F
<1>5. \A n \in Tree : F[n] = InsertStep(F, n, a, id, effective, cap, prio)
  BY <1>1
<1>6. ASSUME NEW n \in Tree, NEW acc \in Int
      PROVE  I(n, acc) =
        IF n = Nil THEN Leaf(a, prio, <<effective - acc, id, cap>>)
        ELSE IF a = n.key
          THEN Pull([n EXCEPT !.items = n.items \cup
                       {<<effective - acc - n.add - n.localAdd, id, cap>>}])
        ELSE IF a < n.key
          THEN LET m == [n EXCEPT !.l = I(n.l, acc + n.add)]
               IN  IF m.l.prio > m.prio THEN Pull(RotateRight(m)) ELSE Pull(m)
          ELSE LET m == [n EXCEPT !.r = I(n.r, acc + n.add)]
               IN  IF m.r.prio > m.prio THEN Pull(RotateLeft(m)) ELSE Pull(m)
  <2>1. /\ F[n.l][acc + n.add] = I(n.l, acc + n.add)
        /\ F[n.r][acc + n.add] = I(n.r, acc + n.add)
        /\ F[n][acc] = I(n, acc)
    BY <1>4
  <2> HIDE DEF I
  <2>2. F[n][acc] = InsertStep(F, n, a, id, effective, cap, prio)[acc]
    BY <1>5
  <2> QED
    BY <2>1, <2>2 DEF InsertStep
<1>7. \A n : Insert(n, a, id, effective, cap, prio) = I(n, 0)
  BY <1>2, <1>4
<1>8. \A acc \in Int : I(Nil, acc) = Leaf(a, prio, <<effective - acc, id, cap>>)
  BY <1>3, <1>6
<1> HIDE DEF I
<1>9. /\ \A n \in Tree, acc \in Int : n # Nil /\ a = n.key =>
           I(n, acc) = Pull([n EXCEPT !.items = n.items \cup
                          {<<effective - acc - n.add - n.localAdd, id, cap>>}])
      /\ \A n \in Tree, acc \in Int : n # Nil /\ a # n.key /\ a < n.key =>
           LET m == [n EXCEPT !.l = I(n.l, acc + n.add)]
           IN  I(n, acc) = IF m.l.prio > m.prio THEN Pull(RotateRight(m)) ELSE Pull(m)
      /\ \A n \in Tree, acc \in Int : n # Nil /\ a # n.key /\ ~ (a < n.key) =>
           LET m == [n EXCEPT !.r = I(n.r, acc + n.add)]
           IN  I(n, acc) = IF m.r.prio > m.prio THEN Pull(RotateLeft(m)) ELSE Pull(m)
  BY <1>6
<1> QED
  BY <1>7, <1>8, <1>9 DEF I, InsertUnfolds

\* The priority is that of the key, or no node has it.
Fits(n, a, prio) == \A p \in Labels(n) : p[2] = prio <=> p[1] = a

\* r is the tree n with the entry e, under the additions acc.
Inserts(n, r, a, prio, acc, e, h) ==
  /\ r \in TreesUpTo[h] /\ r # Nil /\ Sound(r)
  /\ Labels(r) = Labels(n) \cup {<<a, prio>>}
  /\ Held(r, acc) = Held(n, acc) \cup {e}

\* A leaf.
LEMMA LeafIs ==
  ASSUME NEW h \in Nat, h < MaxHeight, NEW a \in Scores, NEW prio \in Prios,
         NEW x \in Int, NEW id \in 1..MaxQueries, NEW cap \in Scores, NEW acc \in Int
  PROVE  Inserts(Nil, Leaf(a, prio, <<x, id, cap>>), a, prio, acc,
                 [id |-> id, key |-> a, cap |-> cap, score |-> x + acc], h + 1)
<1> DEFINE n == [key |-> a, prio |-> prio, add |-> 0, localAdd |-> 0,
                 items |-> {<<x, id, cap>>}, top |-> 0, capTop |-> 0, l |-> Nil, r |-> Nil]
           q == Pull(n)
<1>1. <<x, id, cap>> \in Int \X (1..MaxQueries) \X Scores
  OBVIOUS
<1>2. Nil \in TreesUpTo[h]
  BY UpIsTree, MaxHeightType
<1>3. /\ n \in NodesOver(TreesUpTo[h])
      /\ n.key = a /\ n.prio = prio /\ n.add = 0 /\ n.localAdd = 0
      /\ n.items = {<<x, id, cap>>} /\ n.l = Nil /\ n.r = Nil
  BY <1>1, <1>2 DEF NodesOver
<1>4. Leaf(a, prio, <<x, id, cap>>) = q
  BY DEF Leaf
<1> HIDE DEF n
<1>5. n.items # {} /\ IsFiniteSet(n.items)
  BY <1>3, FS_Singleton
<1>6. Ordered(n) /\ Sound(n.l) /\ Sound(n.r)
  BY <1>3, LabelsIs, SoundIs DEF Ordered
<1>7. /\ q \in NodesOver(TreesUpTo[h]) /\ Sound(q)
      /\ Labels(q) = {<<n.key, n.prio>>} \cup Labels(n.l) \cup Labels(n.r)
      /\ Held(q, acc) = Own(n, acc + n.add) \cup Held(n.l, acc + n.add)
                                            \cup Held(n.r, acc + n.add)
  BY <1>3, <1>5, <1>6, PullIs
<1> HIDE DEF q
<1>8. q \in TreesUpTo[h + 1] /\ q # Nil
  BY <1>7, NodeUp
<1>9. Own(n, acc + n.add) = {[id |-> id, key |-> a, cap |-> cap, score |-> x + acc]}
  <2> DEFINE i == <<x, id, cap>>
  <2>1. /\ i[1] = x /\ i[2] = id /\ i[3] = cap
        /\ i[1] + (acc + n.add) + n.localAdd = x + acc
    BY <1>3
  <2>2. n.items = {i}
    BY <1>3
  <2> HIDE DEF i
  <2> QED
    BY <1>3, <2>1, <2>2 DEF Own
<1>10. Held(q, acc) = {[id |-> id, key |-> a, cap |-> cap, score |-> x + acc]}
  <2>1. acc + n.add \in Int
    BY <1>3
  <2> QED
    BY <1>3, <1>7, <1>9, <2>1, HeldIs
<1> QED
  BY <1>3, <1>4, <1>7, <1>8, <1>10, LabelsIs, HeldIs DEF Inserts

\* One more item at the key.
LEMMA InsertHere ==
  ASSUME NEW h \in Nat, h < MaxHeight, NEW n \in TreesUpTo[h + 1], n # Nil, Sound(n),
         NEW prio \in Prios, Fits(n, n.key, prio), NEW acc \in Int,
         NEW effective \in Int, NEW id \in 1..MaxQueries, NEW cap \in Scores
  PROVE  Inserts(n, Pull([n EXCEPT !.items = n.items \cup
                            {<<effective - acc - n.add - n.localAdd, id, cap>>}]),
                 n.key, prio, acc,
                 [id |-> id, key |-> n.key, cap |-> cap, score |-> effective], h + 1)
<1> DEFINE x == effective - acc - n.add - n.localAdd
           i == <<x, id, cap>>
           v == n.items \cup {i}
           p == [n EXCEPT !.items = v]
           q == Pull(p)
           e == [id |-> id, key |-> n.key, cap |-> cap, score |-> effective]
<1>1. /\ n \in NodesOver(TreesUpTo[h]) /\ n \in Tree
      /\ n.key \in Scores /\ n.add \in Int /\ n.localAdd \in Int
      /\ n.items \in SUBSET (Int \X (1..MaxQueries) \X Scores)
      /\ n.l \in TreesUpTo[h] /\ n.r \in TreesUpTo[h]
  BY TreeParts, NodeUp
<1>2. NodeOK(n) /\ Sound(n.l) /\ Sound(n.r)
  BY <1>1, SoundIs
<1>3. /\ i \in Int \X (1..MaxQueries) \X Scores
      /\ i[2] = id /\ i[3] = cap
      /\ i[1] + (acc + n.add) + n.localAdd = effective
  BY <1>1
<1> HIDE DEF i
<1>4. v \in SUBSET (Int \X (1..MaxQueries) \X Scores)
  BY <1>1, <1>3
<1>5. IsFiniteSet(v) /\ v # {}
  BY <1>2, FS_AddElement DEF NodeOK
<1>6. v = n.items \cup {i}
  OBVIOUS
<1> HIDE DEF v
<1>7. /\ p \in NodesOver(TreesUpTo[h])
      /\ p.key = n.key /\ p.prio = n.prio /\ p.add = n.add
      /\ p.localAdd = n.localAdd /\ p.items = v
      /\ p.l = n.l /\ p.r = n.r
  BY <1>1, <1>4, SetItems
<1> HIDE DEF p
<1>8. Ordered(p) /\ Sound(p.l) /\ Sound(p.r)
  BY <1>2, <1>7 DEF Ordered, NodeOK
<1>9. /\ q \in NodesOver(TreesUpTo[h]) /\ Sound(q)
      /\ Labels(q) = {<<p.key, p.prio>>} \cup Labels(p.l) \cup Labels(p.r)
      /\ Held(q, acc) = Own(p, acc + p.add) \cup Held(p.l, acc + p.add)
                                            \cup Held(p.r, acc + p.add)
  BY <1>5, <1>7, <1>8, PullIs
<1> HIDE DEF q
<1>10. q \in TreesUpTo[h + 1] /\ q # Nil
  BY <1>9, NodeUp
<1>11. Own(p, acc + p.add) = Own(n, acc + n.add) \cup {e}
  <2> DEFINE E(j) == [id |-> j[2], key |-> n.key, cap |-> j[3],
                      score |-> j[1] + (acc + n.add) + n.localAdd]
  <2>1. /\ Own(n, acc + n.add) = {E(j) : j \in n.items}
        /\ Own(p, acc + p.add) = {E(j) : j \in v}
    BY <1>7 DEF Own
  <2>2. E(i) = e
    BY <1>3
  <2> HIDE DEF E, e
  <2> QED
    BY <1>6, <2>1, <2>2
<1>12. /\ Labels(n) = {<<n.key, n.prio>>} \cup Labels(n.l) \cup Labels(n.r)
       /\ Held(n, acc) = Own(n, acc + n.add) \cup Held(n.l, acc + n.add)
                                             \cup Held(n.r, acc + n.add)
  BY <1>1, LabelsIs, HeldIs
<1>13. n.prio = prio
  <2>1. <<n.key, n.prio>> \in Labels(n) /\ <<n.key, n.prio>>[1] = n.key
        /\ <<n.key, n.prio>>[2] = n.prio
    BY <1>12
  <2> QED
    BY <2>1 DEF Fits
<1>14. Held(q, acc) = Held(n, acc) \cup {e}
  BY <1>7, <1>9, <1>11, <1>12
<1>15. Labels(q) = Labels(n) \cup {<<n.key, prio>>}
  BY <1>7, <1>9, <1>12, <1>13
<1>16. Inserts(n, q, n.key, prio, acc, e, h + 1)
  BY <1>9, <1>10, <1>14, <1>15 DEF Inserts
<1> QED
  BY <1>16 DEF q, p, v, i

\* s is the left subtree with the new entry: the node goes on top of it, or is
\* rotated down.
LEMMA InsertLeft ==
  ASSUME NEW h \in Nat, (h + 1) + 1 <= MaxHeight, NEW n \in TreesUpTo[h + 1], n # Nil,
         Sound(n), NEW a \in Scores, NEW prio \in Prios, a < n.key, Fits(n, a, prio),
         NEW acc \in Int, NEW e, NEW s,
         Inserts(n.l, s, a, prio, acc + n.add, e, h + 1)
  PROVE  LET m == [n EXCEPT !.l = s]
         IN  Inserts(n, IF m.l.prio > m.prio THEN Pull(RotateRight(m)) ELSE Pull(m),
                     a, prio, acc, e, (h + 1) + 1)
<1> DEFINE m == [n EXCEPT !.l = s]
<1>1. /\ h + 1 \in Nat /\ h + 1 < MaxHeight /\ h + 1 <= MaxHeight
      /\ h < MaxHeight /\ h <= MaxHeight
  BY MaxHeightType
<1>2. /\ n \in NodesOver(TreesUpTo[h]) /\ n \in Tree
      /\ n.l \in TreesUpTo[h] /\ n.r \in TreesUpTo[h] /\ n.add \in Int
      /\ n.key \in Nat /\ n.prio \in Nat /\ a \in Nat /\ prio \in Nat
  BY <1>1, TreeParts, NodeUp, ScoresAssumption, PriosAssumption
<1>3. NodeOK(n) /\ Sound(n.l) /\ Sound(n.r)
  BY <1>2, SoundIs
<1>4. /\ s \in TreesUpTo[h + 1] /\ s # Nil /\ Sound(s)
      /\ Labels(s) = Labels(n.l) \cup {<<a, prio>>}
      /\ Held(s, acc + n.add) = Held(n.l, acc + n.add) \cup {e}
  BY DEF Inserts
<1>5. TreesUpTo[h] \subseteq TreesUpTo[h + 1]
  BY <1>1, TreesGrow
<1>6. /\ m \in NodesOver(TreesUpTo[h + 1])
      /\ m.key = n.key /\ m.prio = n.prio /\ m.add = n.add
      /\ m.localAdd = n.localAdd /\ m.items = n.items
      /\ m.l = s /\ m.r = n.r
  BY <1>2, <1>4, <1>5, SetLeft
<1> HIDE DEF m
<1>7. m \in Tree /\ m # Nil
  BY <1>1, <1>6, NodeUp
<1>8. /\ <<s.key, s.prio>> \in Labels(s) /\ s.prio \in Nat /\ s.key \in Nat
      /\ \A p \in Labels(s) : p[2] <= s.prio
  BY <1>1, <1>4, RootIsHighest
<1>9. /\ Labels(n) = {<<n.key, n.prio>>} \cup Labels(n.l) \cup Labels(n.r)
      /\ \A x \in Int : Held(n, x) = Own(n, x + n.add)
           \cup Held(n.l, x + n.add) \cup Held(n.r, x + n.add)
      /\ \A x \in Int : Held(m, x) = Own(m, x + m.add)
           \cup Held(m.l, x + m.add) \cup Held(m.r, x + m.add)
  BY <1>2, <1>7, LabelsIs, HeldIs
<1>10. /\ \A u \in Labels(n.l) : u[1] < n.key /\ u[2] < n.prio
       /\ \A u \in Labels(n.r) : u[1] > n.key /\ u[2] < n.prio
  BY <1>3 DEF NodeOK, Ordered
<1>11. prio # n.prio
  <2>1. <<n.key, n.prio>> \in Labels(n) /\ <<n.key, n.prio>>[1] = n.key
        /\ <<n.key, n.prio>>[2] = n.prio
    BY <1>9
  <2>2. n.key # a
    BY <1>2
  <2> QED
    BY <2>1, <2>2 DEF Fits
<1>12. Held(m, acc) = Held(n, acc) \cup {e}
  <2>1. Own(m, acc + m.add) = Own(n, acc + n.add)
    BY <1>6 DEF Own
  <2> QED
    BY <1>4, <1>6, <1>9, <2>1
<1>13. {<<m.key, m.prio>>} \cup Labels(m.l) \cup Labels(m.r)
         = Labels(n) \cup {<<a, prio>>}
  BY <1>4, <1>6, <1>9
<1>14. /\ m.items # {} /\ IsFiniteSet(m.items) /\ Sound(m.l) /\ Sound(m.r)
  BY <1>3, <1>4, <1>6 DEF NodeOK
<1>15. <<a, prio>>[1] = a /\ <<a, prio>>[2] = prio
       /\ <<s.key, s.prio>>[1] = s.key /\ <<s.key, s.prio>>[2] = s.prio
  OBVIOUS
<1>16. CASE m.l.prio > m.prio
  <2> DEFINE r == RotateRight(m)
             q == Pull(r)
  <2>1. s.prio > n.prio /\ s.key = a
    <3>1. s.prio > n.prio
      BY <1>6, <1>16
    <3>2. ASSUME <<s.key, s.prio>> \in Labels(n.l)
          PROVE  FALSE
      BY <1>2, <1>8, <1>10, <1>15, <3>1, <3>2
    <3>3. <<s.key, s.prio>> = <<a, prio>>
      BY <1>4, <1>8, <3>2
    <3> QED
      BY <1>15, <3>1, <3>3
  <2>2. \A u \in Labels(m.l) : u[1] < m.key /\ (u[1] # m.l.key => u[2] < m.prio)
    BY <1>4, <1>6, <1>10, <1>15, <2>1
  <2>3. \A u \in Labels(m.r) : u[1] > m.key /\ u[2] < m.prio
    BY <1>6, <1>10
  <2>4. m.l # Nil /\ m.r \in TreesUpTo[h]
    BY <1>2, <1>4, <1>6
  <2>5. /\ r \in NodesOver(TreesUpTo[h + 1]) /\ Sound(r)
        /\ Labels(r) = {<<m.key, m.prio>>} \cup Labels(m.l) \cup Labels(m.r)
        /\ \A x \in Int : Held(r, x) = Held(m, x)
    BY <1>6, <1>14, <1>16, <2>2, <2>3, <2>4, RotateRightIs
  <2> HIDE DEF r
  <2>6. r \in Tree /\ r # Nil
    BY <1>1, <2>5, NodeUp
  <2>7. NodeOK(r) /\ Sound(r.l) /\ Sound(r.r)
    BY <2>5, <2>6, SoundIs
  <2>8. r.items # {} /\ IsFiniteSet(r.items) /\ Ordered(r)
    BY <2>7 DEF NodeOK
  <2>9. /\ q \in NodesOver(TreesUpTo[h + 1]) /\ Sound(q)
        /\ Labels(q) = {<<r.key, r.prio>>} \cup Labels(r.l) \cup Labels(r.r)
        /\ \A x \in Int :
             Held(q, x) = Own(r, x + r.add) \cup Held(r.l, x + r.add)
                                            \cup Held(r.r, x + r.add)
    BY <1>1, <2>5, <2>7, <2>8, PullIs
  <2> HIDE DEF q
  <2>10. q \in TreesUpTo[(h + 1) + 1] /\ q # Nil
    BY <1>1, <2>9, NodeUp
  <2>11. Labels(q) = Labels(r) /\ \A x \in Int : Held(q, x) = Held(r, x)
    BY <2>6, <2>9, LabelsIs, HeldIs
  <2>12. Inserts(n, q, a, prio, acc, e, (h + 1) + 1)
    BY <1>12, <1>13, <2>5, <2>9, <2>10, <2>11 DEF Inserts
  <2> QED
    BY <1>16, <2>12 DEF q, r, m
<1>17. CASE ~ (m.l.prio > m.prio)
  <2> DEFINE q == Pull(m)
  <2>1. ~ (s.prio > n.prio)
    BY <1>6, <1>17
  <2>2. prio <= s.prio
    BY <1>4, <1>8, <1>15
  <2>3. prio < n.prio
    BY <1>2, <1>8, <1>11, <2>1, <2>2
  <2>4. \A u \in Labels(m.l) : u[1] < m.key /\ u[2] < m.prio
    BY <1>4, <1>6, <1>10, <1>15, <2>3
  <2>5. Ordered(m)
    BY <1>6, <1>10, <2>4 DEF Ordered
  <2>6. /\ q \in NodesOver(TreesUpTo[h + 1]) /\ Sound(q)
        /\ Labels(q) = {<<m.key, m.prio>>} \cup Labels(m.l) \cup Labels(m.r)
        /\ \A x \in Int :
             Held(q, x) = Own(m, x + m.add) \cup Held(m.l, x + m.add)
                                            \cup Held(m.r, x + m.add)
    BY <1>1, <1>6, <1>14, <2>5, PullIs
  <2> HIDE DEF q
  <2>7. q \in TreesUpTo[(h + 1) + 1] /\ q # Nil
    BY <1>1, <2>6, NodeUp
  <2>8. Held(q, acc) = Held(m, acc)
    BY <1>9, <2>6
  <2>9. Inserts(n, q, a, prio, acc, e, (h + 1) + 1)
    BY <1>12, <1>13, <2>6, <2>7, <2>8 DEF Inserts
  <2> QED
    BY <1>17, <2>9 DEF q, m
<1> QED
  BY <1>16, <1>17 DEF m

\* s is the right subtree with the new entry: the node goes on top of it, or is
\* rotated down.
LEMMA InsertRight ==
  ASSUME NEW h \in Nat, (h + 1) + 1 <= MaxHeight, NEW n \in TreesUpTo[h + 1], n # Nil,
         Sound(n), NEW a \in Scores, NEW prio \in Prios, a > n.key, Fits(n, a, prio),
         NEW acc \in Int, NEW e, NEW s,
         Inserts(n.r, s, a, prio, acc + n.add, e, h + 1)
  PROVE  LET m == [n EXCEPT !.r = s]
         IN  Inserts(n, IF m.r.prio > m.prio THEN Pull(RotateLeft(m)) ELSE Pull(m),
                     a, prio, acc, e, (h + 1) + 1)
<1> DEFINE m == [n EXCEPT !.r = s]
<1>1. /\ h + 1 \in Nat /\ h + 1 < MaxHeight /\ h + 1 <= MaxHeight
      /\ h < MaxHeight /\ h <= MaxHeight
  BY MaxHeightType
<1>2. /\ n \in NodesOver(TreesUpTo[h]) /\ n \in Tree
      /\ n.l \in TreesUpTo[h] /\ n.r \in TreesUpTo[h] /\ n.add \in Int
      /\ n.key \in Nat /\ n.prio \in Nat /\ a \in Nat /\ prio \in Nat
  BY <1>1, TreeParts, NodeUp, ScoresAssumption, PriosAssumption
<1>3. NodeOK(n) /\ Sound(n.l) /\ Sound(n.r)
  BY <1>2, SoundIs
<1>4. /\ s \in TreesUpTo[h + 1] /\ s # Nil /\ Sound(s)
      /\ Labels(s) = Labels(n.r) \cup {<<a, prio>>}
      /\ Held(s, acc + n.add) = Held(n.r, acc + n.add) \cup {e}
  BY DEF Inserts
<1>5. TreesUpTo[h] \subseteq TreesUpTo[h + 1]
  BY <1>1, TreesGrow
<1>6. /\ m \in NodesOver(TreesUpTo[h + 1])
      /\ m.key = n.key /\ m.prio = n.prio /\ m.add = n.add
      /\ m.localAdd = n.localAdd /\ m.items = n.items
      /\ m.r = s /\ m.l = n.l
  BY <1>2, <1>4, <1>5, SetRight
<1> HIDE DEF m
<1>7. m \in Tree /\ m # Nil
  BY <1>1, <1>6, NodeUp
<1>8. /\ <<s.key, s.prio>> \in Labels(s) /\ s.prio \in Nat /\ s.key \in Nat
      /\ \A p \in Labels(s) : p[2] <= s.prio
  BY <1>1, <1>4, RootIsHighest
<1>9. /\ Labels(n) = {<<n.key, n.prio>>} \cup Labels(n.l) \cup Labels(n.r)
      /\ \A x \in Int : Held(n, x) = Own(n, x + n.add)
           \cup Held(n.l, x + n.add) \cup Held(n.r, x + n.add)
      /\ \A x \in Int : Held(m, x) = Own(m, x + m.add)
           \cup Held(m.l, x + m.add) \cup Held(m.r, x + m.add)
  BY <1>2, <1>7, LabelsIs, HeldIs
<1>10. /\ \A u \in Labels(n.r) : u[1] > n.key /\ u[2] < n.prio
       /\ \A u \in Labels(n.l) : u[1] < n.key /\ u[2] < n.prio
  BY <1>3 DEF NodeOK, Ordered
<1>11. prio # n.prio
  <2>1. <<n.key, n.prio>> \in Labels(n) /\ <<n.key, n.prio>>[1] = n.key
        /\ <<n.key, n.prio>>[2] = n.prio
    BY <1>9
  <2>2. n.key # a
    BY <1>2
  <2> QED
    BY <2>1, <2>2 DEF Fits
<1>12. Held(m, acc) = Held(n, acc) \cup {e}
  <2>1. Own(m, acc + m.add) = Own(n, acc + n.add)
    BY <1>6 DEF Own
  <2> QED
    BY <1>4, <1>6, <1>9, <2>1
<1>13. {<<m.key, m.prio>>} \cup Labels(m.l) \cup Labels(m.r)
         = Labels(n) \cup {<<a, prio>>}
  BY <1>4, <1>6, <1>9
<1>14. /\ m.items # {} /\ IsFiniteSet(m.items) /\ Sound(m.l) /\ Sound(m.r)
  BY <1>3, <1>4, <1>6 DEF NodeOK
<1>15. <<a, prio>>[1] = a /\ <<a, prio>>[2] = prio
       /\ <<s.key, s.prio>>[1] = s.key /\ <<s.key, s.prio>>[2] = s.prio
  OBVIOUS
<1>16. CASE m.r.prio > m.prio
  <2> DEFINE r == RotateLeft(m)
             q == Pull(r)
  <2>1. s.prio > n.prio /\ s.key = a
    <3>1. s.prio > n.prio
      BY <1>6, <1>16
    <3>2. ASSUME <<s.key, s.prio>> \in Labels(n.r)
          PROVE  FALSE
      BY <1>2, <1>8, <1>10, <1>15, <3>1, <3>2
    <3>3. <<s.key, s.prio>> = <<a, prio>>
      BY <1>4, <1>8, <3>2
    <3> QED
      BY <1>15, <3>1, <3>3
  <2>2. \A u \in Labels(m.r) : u[1] > m.key /\ (u[1] # m.r.key => u[2] < m.prio)
    BY <1>4, <1>6, <1>10, <1>15, <2>1
  <2>3. \A u \in Labels(m.l) : u[1] < m.key /\ u[2] < m.prio
    BY <1>6, <1>10
  <2>4. m.r # Nil /\ m.l \in TreesUpTo[h]
    BY <1>2, <1>4, <1>6
  <2>5. /\ r \in NodesOver(TreesUpTo[h + 1]) /\ Sound(r)
        /\ Labels(r) = {<<m.key, m.prio>>} \cup Labels(m.l) \cup Labels(m.r)
        /\ \A x \in Int : Held(r, x) = Held(m, x)
    BY <1>6, <1>14, <1>16, <2>2, <2>3, <2>4, RotateLeftIs
  <2> HIDE DEF r
  <2>6. r \in Tree /\ r # Nil
    BY <1>1, <2>5, NodeUp
  <2>7. NodeOK(r) /\ Sound(r.l) /\ Sound(r.r)
    BY <2>5, <2>6, SoundIs
  <2>8. r.items # {} /\ IsFiniteSet(r.items) /\ Ordered(r)
    BY <2>7 DEF NodeOK
  <2>9. /\ q \in NodesOver(TreesUpTo[h + 1]) /\ Sound(q)
        /\ Labels(q) = {<<r.key, r.prio>>} \cup Labels(r.l) \cup Labels(r.r)
        /\ \A x \in Int :
             Held(q, x) = Own(r, x + r.add) \cup Held(r.l, x + r.add)
                                            \cup Held(r.r, x + r.add)
    BY <1>1, <2>5, <2>7, <2>8, PullIs
  <2> HIDE DEF q
  <2>10. q \in TreesUpTo[(h + 1) + 1] /\ q # Nil
    BY <1>1, <2>9, NodeUp
  <2>11. Labels(q) = Labels(r) /\ \A x \in Int : Held(q, x) = Held(r, x)
    BY <2>6, <2>9, LabelsIs, HeldIs
  <2>12. Inserts(n, q, a, prio, acc, e, (h + 1) + 1)
    BY <1>12, <1>13, <2>5, <2>9, <2>10, <2>11 DEF Inserts
  <2> QED
    BY <1>16, <2>12 DEF q, r, m
<1>17. CASE ~ (m.r.prio > m.prio)
  <2> DEFINE q == Pull(m)
  <2>1. ~ (s.prio > n.prio)
    BY <1>6, <1>17
  <2>2. prio <= s.prio
    BY <1>4, <1>8, <1>15
  <2>3. prio < n.prio
    BY <1>2, <1>8, <1>11, <2>1, <2>2
  <2>4. \A u \in Labels(m.r) : u[1] > m.key /\ u[2] < m.prio
    BY <1>4, <1>6, <1>10, <1>15, <2>3
  <2>5. Ordered(m)
    BY <1>6, <1>10, <2>4 DEF Ordered
  <2>6. /\ q \in NodesOver(TreesUpTo[h + 1]) /\ Sound(q)
        /\ Labels(q) = {<<m.key, m.prio>>} \cup Labels(m.l) \cup Labels(m.r)
        /\ \A x \in Int :
             Held(q, x) = Own(m, x + m.add) \cup Held(m.l, x + m.add)
                                            \cup Held(m.r, x + m.add)
    BY <1>1, <1>6, <1>14, <2>5, PullIs
  <2> HIDE DEF q
  <2>7. q \in TreesUpTo[(h + 1) + 1] /\ q # Nil
    BY <1>1, <2>6, NodeUp
  <2>8. Held(q, acc) = Held(m, acc)
    BY <1>9, <2>6
  <2>9. Inserts(n, q, a, prio, acc, e, (h + 1) + 1)
    BY <1>12, <1>13, <2>6, <2>7, <2>8 DEF Inserts
  <2> QED
    BY <1>17, <2>9 DEF q, m
<1> QED
  BY <1>16, <1>17 DEF m

LEMMA InsertInserts ==
  ASSUME NEW a \in Scores, NEW id \in 1..MaxQueries, NEW effective \in Int,
         NEW cap \in Scores, NEW prio \in Prios
  PROVE  \A h \in Nat : h + 1 <= MaxHeight => \A n \in TreesUpTo[h] :
           Sound(n) /\ Fits(n, a, prio) => \A acc \in Int :
             Inserts(n, InsertAt(n, acc, a, id, effective, cap, prio), a, prio, acc,
                     [id |-> id, key |-> a, cap |-> cap, score |-> effective], h + 1)
<1> DEFINE e == [id |-> id, key |-> a, cap |-> cap, score |-> effective]
           I(n, acc) == InsertAt(n, acc, a, id, effective, cap, prio)
           T == {h \in Nat : h + 1 <= MaxHeight => \A n \in TreesUpTo[h] :
                   Sound(n) /\ Fits(n, a, prio) => \A acc \in Int :
                     Inserts(n, I(n, acc), a, prio, acc, e, h + 1)}
<1>8. InsertUnfolds(a, id, effective, cap, prio)
  BY InsertIs
<1>4. \A acc \in Int : I(Nil, acc) = Leaf(a, prio, <<effective - acc, id, cap>>)
  BY <1>8 DEF InsertUnfolds
<1>5. ASSUME NEW n \in Tree, NEW acc \in Int, n # Nil, a = n.key
      PROVE  I(n, acc) = Pull([n EXCEPT !.items = n.items \cup
                          {<<effective - acc - n.add - n.localAdd, id, cap>>}])
  BY <1>5, <1>8 DEF InsertUnfolds
<1>6. ASSUME NEW n \in Tree, NEW acc \in Int, n # Nil, a # n.key, a < n.key
      PROVE  LET m == [n EXCEPT !.l = I(n.l, acc + n.add)]
             IN  I(n, acc) = IF m.l.prio > m.prio THEN Pull(RotateRight(m)) ELSE Pull(m)
  BY <1>6, <1>8 DEF InsertUnfolds
<1>7. ASSUME NEW n \in Tree, NEW acc \in Int, n # Nil, a # n.key, ~ (a < n.key)
      PROVE  LET m == [n EXCEPT !.r = I(n.r, acc + n.add)]
             IN  I(n, acc) = IF m.r.prio > m.prio THEN Pull(RotateLeft(m)) ELSE Pull(m)
  BY <1>7, <1>8 DEF InsertUnfolds
<1> HIDE DEF I, e
<1>0. ASSUME NEW h \in Nat, h + 1 <= MaxHeight, NEW acc \in Int
      PROVE  Inserts(Nil, I(Nil, acc), a, prio, acc, e, h + 1)
  <2> DEFINE x == effective - acc
  <2>1. h < MaxHeight /\ x \in Int /\ x + acc = effective
    BY <1>0, MaxHeightType
  <2>2. I(Nil, acc) = Leaf(a, prio, <<x, id, cap>>)
    BY <1>4
  <2> HIDE DEF x
  <2>3. Inserts(Nil, Leaf(a, prio, <<x, id, cap>>), a, prio, acc,
                [id |-> id, key |-> a, cap |-> cap, score |-> x + acc], h + 1)
    BY <2>1, LeafIs
  <2> QED
    BY <2>1, <2>2, <2>3 DEF e
<1>1. 0 \in T
  BY <1>0, TreesZero
<1>2. ASSUME NEW h \in T
      PROVE  h + 1 \in T
  <2> SUFFICES ASSUME (h + 1) + 1 <= MaxHeight, NEW n \in TreesUpTo[h + 1], n # Nil,
                      Sound(n), Fits(n, a, prio), NEW acc \in Int
               PROVE  Inserts(n, I(n, acc), a, prio, acc, e, (h + 1) + 1)
    <3>1. h + 1 \in Nat
      OBVIOUS
    <3> QED
      BY <1>0, <3>1
  <2>1. h \in Nat /\ h < MaxHeight /\ h + 1 <= MaxHeight /\ h + 1 \in Nat
        /\ h + 1 < MaxHeight
    BY MaxHeightType
  <2>2. /\ n \in NodesOver(TreesUpTo[h]) /\ n \in Tree
        /\ n.l \in TreesUpTo[h] /\ n.r \in TreesUpTo[h] /\ n.add \in Int
        /\ n.key \in Nat /\ a \in Nat
    BY <2>1, TreeParts, NodeUp, ScoresAssumption
  <2>3. /\ Sound(n.l) /\ Sound(n.r)
        /\ Labels(n) = {<<n.key, n.prio>>} \cup Labels(n.l) \cup Labels(n.r)
    BY <2>2, SoundIs, LabelsIs
  <2>4. Fits(n.l, a, prio) /\ Fits(n.r, a, prio)
    BY <2>3 DEF Fits
  <2>5. acc + n.add \in Int
    BY <2>2
  <2>6. /\ Inserts(n.l, I(n.l, acc + n.add), a, prio, acc + n.add, e, h + 1)
        /\ Inserts(n.r, I(n.r, acc + n.add), a, prio, acc + n.add, e, h + 1)
    BY <2>1, <2>2, <2>3, <2>4, <2>5
  <2> HIDE DEF T
  <2>7. CASE a = n.key
    <3> DEFINE q == Pull([n EXCEPT !.items = n.items \cup
                          {<<effective - acc - n.add - n.localAdd, id, cap>>}])
    <3>1. I(n, acc) = q
      BY <1>5, <2>2, <2>7
    <3>2. Inserts(n, q, n.key, prio, acc,
                  [id |-> id, key |-> n.key, cap |-> cap, score |-> effective], h + 1)
      BY <2>1, <2>7, InsertHere
    <3> HIDE DEF q
    <3>3. Inserts(n, q, a, prio, acc, e, h + 1)
      BY <2>7, <3>2 DEF e
    <3>4. TreesUpTo[h + 1] \subseteq TreesUpTo[(h + 1) + 1]
      BY <2>1, TreesGrow
    <3> QED
      BY <3>1, <3>3, <3>4 DEF Inserts
  <2>8. CASE a # n.key /\ a < n.key
    <3> DEFINE s == I(n.l, acc + n.add)
               m == [n EXCEPT !.l = s]
    <3>1. I(n, acc) = IF m.l.prio > m.prio THEN Pull(RotateRight(m)) ELSE Pull(m)
      BY <1>6, <2>2, <2>8
    <3> HIDE DEF s
    <3>2. Inserts(n.l, s, a, prio, acc + n.add, e, h + 1)
      BY <2>6 DEF s
    <3>3. Inserts(n, IF m.l.prio > m.prio THEN Pull(RotateRight(m)) ELSE Pull(m),
                  a, prio, acc, e, (h + 1) + 1)
      BY <2>1, <2>8, <3>2, InsertLeft
    <3> QED
      BY <3>1, <3>3
  <2>9. CASE a # n.key /\ ~ (a < n.key)
    <3> DEFINE s == I(n.r, acc + n.add)
               m == [n EXCEPT !.r = s]
    <3>1. I(n, acc) = IF m.r.prio > m.prio THEN Pull(RotateLeft(m)) ELSE Pull(m)
      BY <1>7, <2>2, <2>9
    <3> HIDE DEF s
    <3>2. Inserts(n.r, s, a, prio, acc + n.add, e, h + 1)
      BY <2>6 DEF s
    <3>3. a > n.key
      BY <2>2, <2>9
    <3>4. Inserts(n, IF m.r.prio > m.prio THEN Pull(RotateLeft(m)) ELSE Pull(m),
                  a, prio, acc, e, (h + 1) + 1)
      BY <2>1, <3>2, <3>3, InsertRight
    <3> QED
      BY <3>1, <3>4
  <2> QED
    BY <2>7, <2>8, <2>9
<1>3. T = Nat
  <2> HIDE DEF T
  <2>1. T \in SUBSET Nat
    BY DEF T
  <2> QED
    BY <1>1, <1>2, <2>1, NatSet
<1> QED
  BY <1>3 DEF I, e

-----------------------------------------------------------------------------
(* A sound tree is no higher than there are keys.                           *)

LEMMA KeysBound ==
  \A h \in Nat : h <= MaxHeight => \A K \in SUBSET Scores : \A n \in TreesUpTo[h] :
    Sound(n) /\ (\A p \in Labels(n) : p[1] \in K) => n \in TreesUpTo[Cardinality(K)]
<1> DEFINE T == {h \in Nat : h <= MaxHeight => \A K \in SUBSET Scores :
                   \A n \in TreesUpTo[h] :
                     Sound(n) /\ (\A p \in Labels(n) : p[1] \in K)
                       => n \in TreesUpTo[Cardinality(K)]}
<1>0. ASSUME NEW K \in SUBSET Scores
      PROVE  /\ IsFiniteSet(K) /\ Cardinality(K) \in Nat
             /\ Cardinality(K) <= MaxHeight /\ Nil \in TreesUpTo[Cardinality(K)]
  <2>1. IsFiniteSet(K) /\ Cardinality(K) \in Nat /\ Cardinality(K) <= Cardinality(Scores)
    BY ScoresAssumption, FS_Subset, FS_CardinalityType
  <2>2. Cardinality(Scores) <= MaxHeight
    BY MaxHeightType DEF MaxHeight
  <2>3. Cardinality(K) <= MaxHeight
    BY <2>1, <2>2, MaxHeightType
  <2> QED
    BY <2>1, <2>3, UpIsTree
<1>1. 0 \in T
  BY <1>0, TreesZero
<1>2. ASSUME NEW h \in T
      PROVE  h + 1 \in T
  <2> SUFFICES ASSUME h + 1 <= MaxHeight, NEW K \in SUBSET Scores,
                      NEW n \in TreesUpTo[h + 1], n # Nil, Sound(n),
                      \A p \in Labels(n) : p[1] \in K
               PROVE  n \in TreesUpTo[Cardinality(K)]
    BY <1>0
  <2>1. h \in Nat /\ h < MaxHeight /\ h <= MaxHeight
    BY MaxHeightType
  <2>2. /\ n \in NodesOver(TreesUpTo[h]) /\ n \in Tree
        /\ n.l \in TreesUpTo[h] /\ n.r \in TreesUpTo[h] /\ n.key \in Nat
    BY <2>1, TreeParts, NodeUp, ScoresAssumption
  <2>3. /\ Sound(n.l) /\ Sound(n.r) /\ Ordered(n)
        /\ Labels(n) = {<<n.key, n.prio>>} \cup Labels(n.l) \cup Labels(n.r)
    BY <2>2, SoundIs, LabelsIs DEF NodeOK
  <2> DEFINE L == K \ {n.key}
  <2>4. n.key \in K
    <3>1. <<n.key, n.prio>> \in Labels(n) /\ <<n.key, n.prio>>[1] = n.key
      BY <2>3
    <3> QED
      BY <3>1
  <2>5. L \in SUBSET Scores /\ Cardinality(L) + 1 = Cardinality(K)
        /\ Cardinality(L) \in Nat /\ Cardinality(L) < MaxHeight
    <3>1. Cardinality(L) = Cardinality(K) - 1
      BY <1>0, <2>4, FS_RemoveElement
    <3> HIDE DEF L
    <3>2. L \in SUBSET Scores
      BY DEF L
    <3> QED
      BY <1>0, <3>1, <3>2, MaxHeightType
  <2>6. /\ \A p \in Labels(n.l) : p[1] \in L
        /\ \A p \in Labels(n.r) : p[1] \in L
    <3>1. \A p \in Labels(n.l) \cup Labels(n.r) : p[1] # n.key
      BY <2>2, <2>3 DEF Ordered
    <3> QED
      BY <2>3, <3>1
  <2> HIDE DEF L
  <2>7. n.l \in TreesUpTo[Cardinality(L)] /\ n.r \in TreesUpTo[Cardinality(L)]
    BY <2>1, <2>2, <2>3, <2>5, <2>6
  <2>8. n \in NodesOver(TreesUpTo[Cardinality(L)])
    BY <2>2, <2>7, NodeNarrow
  <2>9. n \in TreesUpTo[Cardinality(L) + 1]
    BY <2>5, <2>8, NodeUp
  <2> QED
    BY <2>5, <2>9
<1>3. T = Nat
  <2> HIDE DEF T
  <2>1. T \in SUBSET Nat
    BY DEF T
  <2> QED
    BY <1>1, <1>2, <2>1, NatSet
<1> QED
  BY <1>3

LEMMA HeightBound ==
  ASSUME NEW n \in Tree, Sound(n)
  PROVE  n \in TreesUpTo[Cardinality(Scores)]
<1>1. n \in TreesUpTo[MaxHeight] /\ MaxHeight \in Nat /\ MaxHeight <= MaxHeight
  BY MaxHeightType DEF Tree
<1>2. \A p \in Labels(n) : p[1] \in Scores
  BY <1>1, LabelTypes
<1> QED
  BY <1>1, <1>2, KeysBound

-----------------------------------------------------------------------------
(* Additions, and the ranks that follow them.                               *)

\* An entry with d more on its score.
Shifted(e, d) == [id |-> e.id, key |-> e.key, cap |-> e.cap, score |-> e.score + d]

LEMMA HeldShifts ==
  \A h \in Nat : h <= MaxHeight => \A n \in TreesUpTo[h] : \A acc, d \in Int :
    \A e \in Held(n, acc) : Shifted(e, d) \in Held(n, acc + d)
<1> DEFINE T == {h \in Nat : h <= MaxHeight => \A n \in TreesUpTo[h] :
                   \A acc, d \in Int :
                     \A e \in Held(n, acc) : Shifted(e, d) \in Held(n, acc + d)}
<1>1. 0 \in T
  BY TreesZero, HeldIs
<1>2. ASSUME NEW h \in T
      PROVE  h + 1 \in T
  <2> SUFFICES ASSUME h + 1 <= MaxHeight, NEW n \in TreesUpTo[h + 1], n # Nil,
                      NEW acc \in Int, NEW d \in Int, NEW e \in Held(n, acc)
               PROVE  Shifted(e, d) \in Held(n, acc + d)
    BY HeldIs
  <2>1. h \in Nat /\ h < MaxHeight /\ h <= MaxHeight
    BY MaxHeightType
  <2>2. /\ n \in NodesOver(TreesUpTo[h]) /\ n \in Tree
        /\ n.l \in TreesUpTo[h] /\ n.r \in TreesUpTo[h]
        /\ n.add \in Int /\ n.localAdd \in Int
        /\ n.items \in SUBSET (Int \X (1..MaxQueries) \X Scores)
    BY <2>1, TreeParts, NodeUp
  <2>3. \A x \in Int : Held(n, x) = Own(n, x + n.add)
           \cup Held(n.l, x + n.add) \cup Held(n.r, x + n.add)
    BY <2>2, HeldIs
  <2>4. (acc + d) + n.add = (acc + n.add) + d /\ acc + n.add \in Int /\ acc + d \in Int
    BY <2>2
  <2>5. CASE e \in Own(n, acc + n.add)
    <3>1. PICK i \in n.items : e = [id |-> i[2], key |-> n.key, cap |-> i[3],
                                    score |-> i[1] + (acc + n.add) + n.localAdd]
      BY <2>5 DEF Own
    <3>2. i[1] \in Int
      BY <2>2, ItemParts
    <3>3. (i[1] + (acc + n.add) + n.localAdd) + d
            = i[1] + ((acc + d) + n.add) + n.localAdd
      BY <2>2, <3>2
    <3>4. Shifted(e, d) = [id |-> i[2], key |-> n.key, cap |-> i[3],
                           score |-> i[1] + ((acc + d) + n.add) + n.localAdd]
      BY <3>1, <3>3 DEF Shifted
    <3>5. Shifted(e, d) \in Own(n, (acc + d) + n.add)
      BY <3>4 DEF Own
    <3> QED
      BY <2>3, <2>4, <3>5
  <2>6. CASE e \in Held(n.l, acc + n.add)
    <3>1. Shifted(e, d) \in Held(n.l, (acc + n.add) + d)
      BY <2>1, <2>2, <2>4, <2>6
    <3> QED
      BY <2>3, <2>4, <3>1
  <2>7. CASE e \in Held(n.r, acc + n.add)
    <3>1. Shifted(e, d) \in Held(n.r, (acc + n.add) + d)
      BY <2>1, <2>2, <2>4, <2>7
    <3> QED
      BY <2>3, <2>4, <3>1
  <2> QED
    BY <2>3, <2>5, <2>6, <2>7
<1>3. T = Nat
  <2> HIDE DEF T
  <2>1. T \in SUBSET Nat
    BY DEF T
  <2> QED
    BY <1>1, <1>2, <2>1, NatSet
<1> QED
  BY <1>3

\* The documents below v.
DocsBelow(c, v) == {d \in Scores \X (1..MaxDocs) : d[1] < v /\ d[2] <= c[d[1]]}

LEMMA BelowIsFinite ==
  ASSUME NEW c, NEW v
  PROVE  IsFiniteSet(DocsBelow(c, v)) /\ Cardinality(DocsBelow(c, v)) \in Nat
<1>1. IsFiniteSet(1..MaxDocs)
  BY BoundsAssumption, FS_Interval
<1>2. IsFiniteSet(Scores \X (1..MaxDocs))
  BY <1>1, ScoresAssumption, FS_Product
<1>3. DocsBelow(c, v) \in SUBSET (Scores \X (1..MaxDocs))
  BY DEF DocsBelow
<1> QED
  BY <1>2, <1>3, FS_Subset, FS_CardinalityType

\* A document more of score t is one more below the scores above t.
LEMMA OneMoreBelow ==
  ASSUME NEW c \in [Scores -> 0..MaxDocs], NEW t \in Scores, c[t] < MaxDocs,
         NEW v \in Scores
  PROVE  LET c1 == [c EXCEPT ![t] = c[t] + 1]
         IN  Cardinality(DocsBelow(c1, v))
               = Cardinality(DocsBelow(c, v)) + (IF v > t THEN 1 ELSE 0)
<1> DEFINE c1 == [c EXCEPT ![t] = c[t] + 1]
           d == <<t, c[t] + 1>>
<1>1. t \in Nat /\ v \in Nat /\ c[t] \in Nat /\ Cardinality(DocsBelow(c, v)) \in Nat
  BY ScoresAssumption, BelowIsFinite
<1>2. d \in Scores \X (1..MaxDocs) /\ d[1] = t /\ d[2] = c[t] + 1
  BY <1>1, BoundsAssumption
<1>3. ASSUME NEW x \in Scores \X (1..MaxDocs)
      PROVE  /\ x[1] \in Nat /\ x[2] \in Nat /\ c[x[1]] \in Nat
             /\ x[2] <= c1[x[1]] <=> x[2] <= c[x[1]] \/ x = d
  <2>1. x = <<x[1], x[2]>> /\ x[1] \in Scores /\ x[2] \in Nat /\ c[x[1]] \in Nat
    OBVIOUS
  <2>2. CASE x[1] = t
    <3>1. c1[x[1]] = c[t] + 1
      BY <2>2
    <3>2. x = d <=> x[2] = c[t] + 1
      BY <2>1, <2>2
    <3> HIDE DEF c1, d
    <3> QED
      BY <1>1, <2>1, <2>2, <3>1, <3>2, ScoresAssumption
  <2>3. CASE x[1] # t
    <3>1. c1[x[1]] = c[x[1]] /\ x # d
      BY <1>2, <2>1, <2>3
    <3> QED
      BY <2>1, <3>1, ScoresAssumption
  <2> QED
    BY <2>2, <2>3
<1>4. ~ (d[2] <= c[d[1]])
  BY <1>1
<1> HIDE DEF c1, d
<1>5. CASE v > t
  <2>1. DocsBelow(c1, v) = DocsBelow(c, v) \cup {d} /\ d \notin DocsBelow(c, v)
    BY <1>1, <1>2, <1>3, <1>4, <1>5 DEF DocsBelow
  <2>2. Cardinality(DocsBelow(c1, v)) = Cardinality(DocsBelow(c, v)) + 1
    BY <2>1, BelowIsFinite, FS_AddElement
  <2> QED
    BY <1>5, <2>2 DEF c1
<1>6. CASE ~ (v > t)
  <2>1. DocsBelow(c1, v) = DocsBelow(c, v)
    BY <1>1, <1>2, <1>3, <1>6 DEF DocsBelow
  <2> QED
    BY <1>1, <1>6, <2>1 DEF c1
<1> QED
  BY <1>5, <1>6

LEMMA OneLessBelow ==
  ASSUME NEW c \in [Scores -> 0..MaxDocs], NEW t \in Scores, c[t] > 0,
         NEW v \in Scores
  PROVE  LET c1 == [c EXCEPT ![t] = c[t] - 1]
         IN  Cardinality(DocsBelow(c1, v))
               = Cardinality(DocsBelow(c, v)) + (IF v > t THEN -1 ELSE 0)
<1> DEFINE c1 == [c EXCEPT ![t] = c[t] - 1]
           c2 == [c1 EXCEPT ![t] = c1[t] + 1]
<1>1. c[t] \in 0..MaxDocs /\ c[t] - 1 \in 0..MaxDocs
  BY BoundsAssumption
<1>2. /\ c1 \in [Scores -> 0..MaxDocs] /\ c1[t] < MaxDocs /\ c1[t] + 1 = c[t]
      /\ \A x \in Scores : x # t => c1[x] = c[x]
  BY <1>1, BoundsAssumption
<1> HIDE DEF c1
<1>3. c2 = c
  <2>1. \A x \in Scores : c2[x] = c[x]
    BY <1>2
  <2>2. c2 \in [Scores -> 0..MaxDocs]
    BY <1>1, <1>2
  <2> HIDE DEF c2
  <2> QED
    BY <2>1, <2>2
<1>4. Cardinality(DocsBelow(c2, v))
        = Cardinality(DocsBelow(c1, v)) + (IF v > t THEN 1 ELSE 0)
  BY <1>2, OneMoreBelow
<1> HIDE DEF c2
<1>5. Cardinality(DocsBelow(c1, v)) \in Nat /\ Cardinality(DocsBelow(c, v)) \in Nat
  BY BelowIsFinite
<1> QED
  BY <1>3, <1>4, <1>5 DEF c1

-----------------------------------------------------------------------------
(* The traversals.                                                          *)

\* The cached maxima of a node bound everything its tree holds.
LEMMA Bounded ==
  \A h \in Nat : h <= MaxHeight => \A n \in TreesUpTo[h] : Sound(n) =>
    \A acc \in Int : \A e \in Held(n, acc) :
      n # Nil /\ e.cap <= n.capTop /\ e.score <= n.top + acc
<1> DEFINE T == {h \in Nat : h <= MaxHeight => \A n \in TreesUpTo[h] : Sound(n) =>
                   \A acc \in Int : \A e \in Held(n, acc) :
                     n # Nil /\ e.cap <= n.capTop /\ e.score <= n.top + acc}
<1>1. 0 \in T
  BY TreesZero, HeldIs
<1>2. ASSUME NEW h \in T
      PROVE  h + 1 \in T
  <2> SUFFICES ASSUME h + 1 <= MaxHeight, NEW n \in TreesUpTo[h + 1], n # Nil, Sound(n),
                      NEW acc \in Int, NEW e \in Held(n, acc)
               PROVE  e.cap <= n.capTop /\ e.score <= n.top + acc
    BY HeldIs
  <2>1. h \in Nat /\ h < MaxHeight /\ h <= MaxHeight
    BY MaxHeightType
  <2>2. /\ n \in NodesOver(TreesUpTo[h]) /\ n \in Tree
        /\ n.l \in TreesUpTo[h] /\ n.r \in TreesUpTo[h]
        /\ n.add \in Int /\ n.localAdd \in Int /\ n.top \in Int /\ n.capTop \in Int
        /\ n.items \in SUBSET (Int \X (1..MaxQueries) \X Scores)
    BY <2>1, TreeParts, NodeUp
  <2>3. Cached(n) /\ Sound(n.l) /\ Sound(n.r)
    BY <2>2, SoundIs DEF NodeOK
  <2>4. Held(n, acc) = Own(n, acc + n.add)
           \cup Held(n.l, acc + n.add) \cup Held(n.r, acc + n.add)
    BY <2>2, HeldIs
  <2>5. acc + n.add \in Int
    BY <2>2
  <2>6. CASE e \in Own(n, acc + n.add)
    <3>1. PICK i \in n.items : e.cap = i[3] /\ e.score = i[1] + (acc + n.add) + n.localAdd
      BY <2>2, <2>5, <2>6, OwnParts
    <3>2. i[1] \in Int /\ i[3] \in Int
      BY <2>2, ItemParts
    <3>3. i[1] + n.localAdd + n.add <= n.top /\ i[3] <= n.capTop
      BY <2>3 DEF Cached
    <3> QED
      BY <2>2, <3>1, <3>2, <3>3
  <2>7. ASSUME NEW c \in {n.l, n.r}, e \in Held(c, acc + n.add)
        PROVE  e.cap <= n.capTop /\ e.score <= n.top + acc
    <3>1. c \in TreesUpTo[h] /\ Sound(c)
      BY <2>2, <2>3
    <3>2. c # Nil /\ e.cap <= c.capTop /\ e.score <= c.top + (acc + n.add)
      BY <2>1, <2>5, <2>7, <3>1
    <3>3. c.top \in Int /\ c.capTop \in Int
      BY <2>1, <3>1, <3>2, ChildParts
    <3>4. c.top + n.add <= n.top /\ c.capTop <= n.capTop
      BY <2>3, <3>2 DEF Cached, Children
    <3>5. e.cap \in Nat /\ e.score \in Int
      <4>1. e \in Entries
        BY <2>1, <2>5, <2>7, <3>1, HeldParts
      <4> HIDE DEF T
      <4>2. \A z \in Entries : z.cap \in Scores /\ z.score \in Int
        BY DEF Entries
      <4> QED
        BY <4>1, <4>2, ScoresAssumption
    <3> QED
      BY <2>2, <3>2, <3>3, <3>4, <3>5
  <2> QED
    BY <2>4, <2>6, <2>7
<1>3. T = Nat
  <2> HIDE DEF T
  <2>1. T \in SUBSET Nat
    BY DEF T
  <2> QED
    BY <1>1, <1>2, <2>1, NatSet
<1> QED
  BY <1>3

\* ids has the queries of the entries in both H and W with a key up to v, or at
\* least those of them whose bound reaches v.
Finds(ids, H, W, v) ==
  /\ \A q \in ids : \E e \in H : e \in W /\ e.id = q /\ e.key <= v
  /\ \A e \in H : e \in W /\ e.key <= v /\ e.cap >= v => e.id \in ids

\* Left out: a tree with bounds all below v, or scores all up to the cutoff, and
\* the right subtree of a key above v.
LEMMA FindsJoined ==
  ASSUME NEW h \in Nat, h < MaxHeight, NEW n \in TreesUpTo[h + 1], n # Nil, Sound(n),
         NEW acc \in Int, NEW v \in Scores, NEW low \in Int,
         NEW W, \A e \in W : e.score \in Int /\ e.score > low,
         NEW A, NEW B, NEW here,
         Finds(A, Held(n.l, acc + n.add), W, v), Finds(B, Held(n.r, acc + n.add), W, v),
         \A q \in here : \E e \in Own(n, acc + n.add) : e \in W /\ e.id = q,
         \A e \in Own(n, acc + n.add) : e \in W => e.id \in here
  PROVE  Finds(IF n.capTop < v \/ n.top + acc <= low THEN {}
               ELSE A \cup (IF n.key > v THEN {} ELSE here \cup B), Held(n, acc), W, v)
<1>1. h <= MaxHeight /\ v \in Nat /\ h + 1 \in Nat /\ h + 1 <= MaxHeight
  BY MaxHeightType, ScoresAssumption
<1>2. /\ n \in NodesOver(TreesUpTo[h]) /\ n \in Tree
      /\ n.l \in TreesUpTo[h] /\ n.r \in TreesUpTo[h] /\ n.key \in Nat
      /\ n.add \in Int /\ n.top \in Int /\ n.capTop \in Int
  BY TreeParts, NodeUp, ScoresAssumption
<1> DEFINE x == acc + n.add
<1>3. x \in Int
  BY <1>2
<1>4. Held(n, acc) = Own(n, x) \cup Held(n.l, x) \cup Held(n.r, x)
  BY <1>2, HeldIs
<1>5. Ordered(n)
  BY <1>2, SoundIs DEF NodeOK
<1>6. /\ \A e \in Own(n, x) : e.key = n.key
      /\ \A e \in Held(n.r, x) : e.key \in Nat /\ e.key > n.key
  BY <1>2, <1>3, <1>5, KeysAround
<1>7. \A e \in Held(n, acc) : /\ e.cap <= n.capTop /\ e.score <= n.top + acc
                              /\ e.cap \in Nat /\ e.key \in Nat
  <2>1. \A e \in Held(n, acc) : e \in Entries
    BY <1>1, HeldParts
  <2>2. \A e \in Entries : e.cap \in Nat /\ e.key \in Nat
    BY ScoresAssumption DEF Entries
  <2> QED
    BY <1>1, <2>1, <2>2, Bounded
<1> HIDE DEF x
<1>8. CASE n.capTop < v \/ n.top + acc <= low
  <2>1. ASSUME NEW e \in Held(n, acc), e \in W, e.cap >= v
        PROVE  FALSE
    BY <1>1, <1>2, <1>7, <1>8, <2>1
  <2> QED
    BY <1>8, <2>1 DEF Finds
<1>9. CASE ~ (n.capTop < v \/ n.top + acc <= low) /\ n.key > v
  <2>1. \A e \in Own(n, x) \cup Held(n.r, x) : ~ (e.key <= v)
    BY <1>1, <1>2, <1>6, <1>9
  <2> QED
    BY <1>4, <1>9, <2>1 DEF Finds, x
<1>10. CASE ~ (n.capTop < v \/ n.top + acc <= low) /\ ~ (n.key > v)
  <2>1. \A e \in Own(n, x) : e.key <= v
    BY <1>1, <1>2, <1>6, <1>10
  <2> QED
    BY <1>4, <1>10, <2>1 DEF Finds, x
<1> QED
  BY <1>8, <1>9, <1>10

\* The entries above a cutoff.
Over(cutoff) == {e \in Entries : e.score > cutoff}

\* The queries of the node itself that a traversal takes.
Here(n, x, cutoff) == {i[2] : i \in {j \in n.items : j[1] + x + n.localAdd > cutoff}}

LEMMA HereIs ==
  ASSUME NEW S, NEW n \in NodesOver(S), NEW x \in Int, NEW cutoff \in Int
  PROVE  /\ \A q \in Here(n, x, cutoff) :
              \E e \in Own(n, x) : e \in Over(cutoff) /\ e.id = q
         /\ \A e \in Own(n, x) : e \in Over(cutoff) => e.id \in Here(n, x, cutoff)
<1>1. ASSUME NEW i \in n.items
      PROVE  [id |-> i[2], key |-> n.key, cap |-> i[3],
              score |-> i[1] + x + n.localAdd] \in Own(n, x)
  BY DEF Own
<1>2. \A e \in Own(n, x) : e \in Entries /\ \E i \in n.items :
        e.id = i[2] /\ e.cap = i[3] /\ e.score = i[1] + x + n.localAdd
  BY OwnParts
<1>3. ASSUME NEW q \in Here(n, x, cutoff)
      PROVE  \E e \in Own(n, x) : e \in Over(cutoff) /\ e.id = q
  <2>1. PICK i \in n.items : q = i[2] /\ i[1] + x + n.localAdd > cutoff
    BY <1>3 DEF Here
  <2> DEFINE e == [id |-> i[2], key |-> n.key, cap |-> i[3],
                   score |-> i[1] + x + n.localAdd]
  <2>2. e \in Own(n, x) /\ e.score = i[1] + x + n.localAdd /\ e.id = q
    BY <1>1, <2>1
  <2> HIDE DEF e
  <2> QED
    BY <1>2, <2>1, <2>2 DEF Over
<1>4. ASSUME NEW e \in Own(n, x), e \in Over(cutoff)
      PROVE  e.id \in Here(n, x, cutoff)
  BY <1>2, <1>4 DEF Over, Here
<1> QED
  BY <1>3, <1>4

\* The entries above the included cutoff, without those above the excluded one
\* whose bound reaches the excluded value.
OverBut(inCut, exCut, ex) ==
  {e \in Entries : e.score > inCut /\ ~ (e.score > exCut /\ e.cap >= ex)}

LEMMA LocalDifferenceIs ==
  ASSUME NEW S, NEW n \in NodesOver(S), NEW x \in Int,
         NEW inCut \in Int, NEW exCut \in Int, NEW ex \in Scores
  PROVE  LET here == LocalDifference(n, x + n.localAdd, inCut, exCut, ex)
         IN  /\ \A q \in here :
                  \E e \in Own(n, x) : e \in OverBut(inCut, exCut, ex) /\ e.id = q
             /\ \A e \in Own(n, x) : e \in OverBut(inCut, exCut, ex) => e.id \in here
<1> DEFINE y == x + n.localAdd
           wanted == {i \in n.items : i[1] + y > inCut /\ ~ (i[1] + y > exCut /\ i[3] >= ex)}
           here == LocalDifference(n, y, inCut, exCut, ex)
<1>1. /\ y \in Int /\ n.localAdd \in Int
      /\ \A i \in n.items : /\ i[1] \in Int /\ i[3] \in Int
                            /\ i[1] + y = i[1] + x + n.localAdd
  BY NodeParts, ItemParts
<1>2. ex \in Int
  BY ScoresAssumption
<1> HIDE DEF y
<1>3. here = {i[2] : i \in wanted}
  <2> DEFINE included  == {i \in n.items : i[1] + y > inCut}
             allOut    == \A i \in n.items : i[3] < ex
             allIn     == \A i \in n.items : i[3] >= ex
             between   == {i \in included : exCut >= inCut /\ i[1] + y <= exCut}
             kept      == {i \in included \ between : ~(i[1] + y > exCut /\ i[3] >= ex)}
  <2>1. here = {i[2] : i \in IF allOut THEN included
                             ELSE IF allIn THEN between ELSE between \cup kept}
    BY DEF LocalDifference
  <2>2. allOut => included = wanted
    BY <1>1, <1>2
  <2>3. allIn => between = wanted
    BY <1>1, <1>2
  <2>4. between \cup kept = wanted
    BY <1>1, <1>2
  <2> HIDE DEF included, allOut, allIn, between, kept, wanted, here
  <2> QED
    BY <2>1, <2>2, <2>3, <2>4
<1>4. ASSUME NEW i \in n.items
      PROVE  [id |-> i[2], key |-> n.key, cap |-> i[3],
              score |-> i[1] + x + n.localAdd] \in Own(n, x)
  BY DEF Own
<1>5. \A e \in Own(n, x) : e \in Entries /\ \E i \in n.items :
        e.id = i[2] /\ e.cap = i[3] /\ e.score = i[1] + x + n.localAdd
  BY OwnParts
<1> HIDE DEF here
<1>6. ASSUME NEW q \in here
      PROVE  \E e \in Own(n, x) : e \in OverBut(inCut, exCut, ex) /\ e.id = q
  <2>1. PICK i \in wanted : q = i[2]
    BY <1>3, <1>6
  <2> DEFINE e == [id |-> i[2], key |-> n.key, cap |-> i[3],
                   score |-> i[1] + x + n.localAdd]
  <2>2. /\ e \in Own(n, x) /\ e.score = i[1] + y /\ e.id = q /\ e.cap = i[3]
    BY <1>1, <1>4, <2>1
  <2> HIDE DEF e
  <2> QED
    BY <1>5, <2>1, <2>2 DEF OverBut
<1>7. ASSUME NEW e \in Own(n, x), e \in OverBut(inCut, exCut, ex)
      PROVE  e.id \in here
  <2>1. PICK i \in n.items : e.id = i[2] /\ e.cap = i[3] /\ e.score = i[1] + x + n.localAdd
    BY <1>5
  <2>2. i \in wanted
    BY <1>1, <1>7, <2>1 DEF OverBut
  <2> QED
    BY <1>3, <2>1, <2>2
<1> QED
  BY <1>6, <1>7 DEF here, y

CollectStep(f, n, cutoff, v) ==
  [accAdd \in Int |->
    IF n = Nil THEN {}
    ELSE IF n.capTop < v \/ n.top + accAdd <= cutoff THEN {}
    ELSE f[n.l][accAdd + n.add]
           \cup (IF n.key > v THEN {}
                 ELSE Here(n, accAdd + n.add, cutoff) \cup f[n.r][accAdd + n.add])]

LEMMA CollectLocal ==
  ASSUME NEW h \in Nat, h < MaxHeight, NEW n \in TreesUpTo[h + 1], NEW f, NEW g,
         NEW cutoff, NEW v, \A x \in TreesUpTo[h] : f[x] = g[x]
  PROVE  CollectStep(f, n, cutoff, v) = CollectStep(g, n, cutoff, v)
<1>1. CASE n = Nil
  BY <1>1 DEF CollectStep
<1>2. CASE n # Nil
  <2>1. f[n.l] = g[n.l] /\ f[n.r] = g[n.r]
    BY <1>2, TreeParts
  <2> QED
    BY <2>1 DEF CollectStep
<1> QED
  BY <1>1, <1>2

LEMMA CollectExists ==
  ASSUME NEW cutoff, NEW v
  PROVE  \E f : f = [n \in Tree |-> CollectStep(f, n, cutoff, v)]
<1> DEFINE T == {h \in Nat : h <= MaxHeight =>
                     \E f : f = [n \in TreesUpTo[h] |-> CollectStep(f, n, cutoff, v)]}
<1>1. 0 \in T
  <2> DEFINE f == [n \in TreesUpTo[0] |-> [accAdd \in Int |-> {}]]
  <2>1. f = [n \in TreesUpTo[0] |-> CollectStep(f, n, cutoff, v)]
    BY TreesZero DEF CollectStep
  <2> QED
    BY <2>1
<1>2. ASSUME NEW h \in T
      PROVE  h + 1 \in T
  <2> SUFFICES ASSUME h + 1 <= MaxHeight
               PROVE  \E f : f = [n \in TreesUpTo[h + 1] |-> CollectStep(f, n, cutoff, v)]
    OBVIOUS
  <2>1. h \in Nat /\ h < MaxHeight /\ h <= MaxHeight
    BY MaxHeightType
  <2>2. PICK f : f = [n \in TreesUpTo[h] |-> CollectStep(f, n, cutoff, v)]
    BY <2>1
  <2> DEFINE g == [n \in TreesUpTo[h + 1] |-> CollectStep(f, n, cutoff, v)]
  <2>3. \A x \in TreesUpTo[h] : f[x] = g[x]
    <3>1. TreesUpTo[h] \subseteq TreesUpTo[h + 1]
      BY <2>1, TreesGrow
    <3> QED
      BY <2>2, <3>1
  <2>4. \A n \in TreesUpTo[h + 1] : CollectStep(f, n, cutoff, v) = CollectStep(g, n, cutoff, v)
    <3> HIDE DEF g
    <3> QED
      BY <2>1, <2>3, CollectLocal
  <2>5. g = [n \in TreesUpTo[h + 1] |-> CollectStep(g, n, cutoff, v)]
    <3> DEFINE G(n) == CollectStep(f, n, cutoff, v)
               H(n) == CollectStep(g, n, cutoff, v)
    <3>1. \A n \in TreesUpTo[h + 1] : G(n) = H(n)
      BY <2>4
    <3>2. g = [n \in TreesUpTo[h + 1] |-> G(n)]
      OBVIOUS
    <3> HIDE DEF g, G, H
    <3>3. g = [n \in TreesUpTo[h + 1] |-> H(n)]
      BY <3>1, <3>2
    <3> QED
      BY <3>3 DEF H
  <2> HIDE DEF g
  <2> QED
    BY <2>5
<1>3. T = Nat
  <2> HIDE DEF T
  <2>1. T \in SUBSET Nat
    BY DEF T
  <2> QED
    BY <1>1, <1>2, <2>1, NatSet
<1>4. MaxHeight \in T
  BY <1>3, MaxHeightType
<1> QED
  BY <1>4, MaxHeightType DEF Tree

CollectFcn(cutoff, v) == CHOOSE f : f = [n \in Tree |-> CollectStep(f, n, cutoff, v)]

\* What the traversal of n finds under the additions acc.
CollectAt(n, acc, cutoff, v) == CollectFcn(cutoff, v)[n][acc]

LEMMA CollectIs ==
  ASSUME NEW cutoff, NEW v
  PROVE  \A n : Collect(n, cutoff, v) = CollectAt(n, 0, cutoff, v)
BY DEF Collect, CollectAt, CollectFcn, CollectStep, Here

LEMMA CollectAtIs ==
  ASSUME NEW cutoff, NEW v, NEW n \in Tree, NEW acc \in Int
  PROVE  CollectAt(n, acc, cutoff, v) =
           IF n = Nil THEN {}
           ELSE IF n.capTop < v \/ n.top + acc <= cutoff THEN {}
           ELSE CollectAt(n.l, acc + n.add, cutoff, v)
                  \cup (IF n.key > v THEN {}
                        ELSE Here(n, acc + n.add, cutoff)
                               \cup CollectAt(n.r, acc + n.add, cutoff, v))
<1> DEFINE F == CollectFcn(cutoff, v)
<1>1. F = [x \in Tree |-> CollectStep(F, x, cutoff, v)]
  BY CollectExists DEF CollectFcn
<1>2. /\ CollectAt(n, acc, cutoff, v) = F[n][acc]
      /\ CollectAt(n.l, acc + n.add, cutoff, v) = F[n.l][acc + n.add]
      /\ CollectAt(n.r, acc + n.add, cutoff, v) = F[n.r][acc + n.add]
  BY DEF CollectAt
<1> HIDE DEF F
<1>3. F[n][acc] = CollectStep(F, n, cutoff, v)[acc]
  BY <1>1
<1> QED
  BY <1>2, <1>3 DEF CollectStep

LEMMA CollectFinds ==
  ASSUME NEW cutoff \in Int, NEW v \in Scores
  PROVE  \A h \in Nat : h <= MaxHeight => \A n \in TreesUpTo[h] : Sound(n) =>
           \A acc \in Int :
             Finds(CollectAt(n, acc, cutoff, v), Held(n, acc), Over(cutoff), v)
<1> DEFINE C(n, acc) == CollectAt(n, acc, cutoff, v)
           W == Over(cutoff)
           T == {h \in Nat : h <= MaxHeight => \A n \in TreesUpTo[h] : Sound(n) =>
                   \A acc \in Int : Finds(C(n, acc), Held(n, acc), W, v)}
<1> HIDE DEF W
<1>0. ASSUME NEW acc \in Int
      PROVE  Finds(C(Nil, acc), Held(Nil, acc), W, v)
  <2>1. Nil \in Tree
    BY UpIsTree, MaxHeightType
  <2> QED
    BY <2>1, HeldIs, CollectAtIs DEF Finds
<1>1. 0 \in T
  <2> HIDE DEF C
  <2> QED
    BY <1>0, TreesZero
<1>2. ASSUME NEW h \in T
      PROVE  h + 1 \in T
  <2> HIDE DEF C
  <2> SUFFICES ASSUME h + 1 <= MaxHeight, NEW n \in TreesUpTo[h + 1], n # Nil,
                      Sound(n), NEW acc \in Int
               PROVE  Finds(C(n, acc), Held(n, acc), W, v)
    BY <1>0
  <2>1. h \in Nat /\ h < MaxHeight /\ h <= MaxHeight
    BY MaxHeightType
  <2>2. /\ n \in NodesOver(TreesUpTo[h]) /\ n \in Tree
        /\ n.l \in TreesUpTo[h] /\ n.r \in TreesUpTo[h] /\ n.add \in Int
    BY <2>1, TreeParts, NodeUp
  <2>3. Sound(n.l) /\ Sound(n.r)
    BY <2>2, SoundIs
  <2> DEFINE x == acc + n.add
             A == C(n.l, x)
             B == C(n.r, x)
             here == Here(n, x, cutoff)
  <2>4. x \in Int
    BY <2>2
  <2>5. Finds(A, Held(n.l, x), W, v) /\ Finds(B, Held(n.r, x), W, v)
    BY <2>1, <2>2, <2>3, <2>4
  <2>6. C(n, acc) = IF n.capTop < v \/ n.top + acc <= cutoff THEN {}
                    ELSE A \cup (IF n.key > v THEN {} ELSE here \cup B)
    BY <2>2, CollectAtIs DEF C
  <2>7. /\ \A q \in here : \E e \in Own(n, x) : e \in W /\ e.id = q
        /\ \A e \in Own(n, x) : e \in W => e.id \in here
    <3> HIDE DEF x, A, B
    <3> QED
      BY <2>2, <2>4, HereIs DEF W
  <2>8. \A e \in W : e.score \in Int /\ e.score > cutoff
    BY DEF W, Over, Entries
  <2> HIDE DEF T, A, B, here
  <2>9. Finds(IF n.capTop < v \/ n.top + acc <= cutoff THEN {}
              ELSE A \cup (IF n.key > v THEN {} ELSE here \cup B),
              Held(n, acc), W, v)
    BY <2>1, <2>5, <2>7, <2>8, FindsJoined
  <2> QED
    BY <2>6, <2>9
<1>3. T = Nat
  <2> HIDE DEF T
  <2>1. T \in SUBSET Nat
    BY DEF T
  <2> QED
    BY <1>1, <1>2, <2>1, NatSet
<1> QED
  BY <1>3 DEF W

CollectDifferenceStep(f, n, inCut, exCut, in, ex) ==
  [accAdd \in Int |->
    IF n = Nil THEN {}
    ELSE IF n.capTop < in \/ n.top + accAdd <= inCut THEN {}
    ELSE f[n.l][accAdd + n.add]
           \cup (IF n.key > in THEN {}
                 ELSE LocalDifference(n, accAdd + n.add + n.localAdd, inCut, exCut, ex) \cup f[n.r][accAdd + n.add])]

LEMMA CollectDifferenceLocal ==
  ASSUME NEW h \in Nat, h < MaxHeight, NEW n \in TreesUpTo[h + 1], NEW f, NEW g,
         NEW inCut, NEW exCut, NEW in, NEW ex, \A x \in TreesUpTo[h] : f[x] = g[x]
  PROVE  CollectDifferenceStep(f, n, inCut, exCut, in, ex) = CollectDifferenceStep(g, n, inCut, exCut, in, ex)
<1>1. CASE n = Nil
  BY <1>1 DEF CollectDifferenceStep
<1>2. CASE n # Nil
  <2>1. f[n.l] = g[n.l] /\ f[n.r] = g[n.r]
    BY <1>2, TreeParts
  <2> QED
    BY <2>1 DEF CollectDifferenceStep
<1> QED
  BY <1>1, <1>2

LEMMA CollectDifferenceExists ==
  ASSUME NEW inCut, NEW exCut, NEW in, NEW ex
  PROVE  \E f : f = [n \in Tree |-> CollectDifferenceStep(f, n, inCut, exCut, in, ex)]
<1> DEFINE T == {h \in Nat : h <= MaxHeight =>
                     \E f : f = [n \in TreesUpTo[h] |-> CollectDifferenceStep(f, n, inCut, exCut, in, ex)]}
<1>1. 0 \in T
  <2> DEFINE f == [n \in TreesUpTo[0] |-> [accAdd \in Int |-> {}]]
  <2>1. f = [n \in TreesUpTo[0] |-> CollectDifferenceStep(f, n, inCut, exCut, in, ex)]
    BY TreesZero DEF CollectDifferenceStep
  <2> QED
    BY <2>1
<1>2. ASSUME NEW h \in T
      PROVE  h + 1 \in T
  <2> SUFFICES ASSUME h + 1 <= MaxHeight
               PROVE  \E f : f = [n \in TreesUpTo[h + 1] |-> CollectDifferenceStep(f, n, inCut, exCut, in, ex)]
    OBVIOUS
  <2>1. h \in Nat /\ h < MaxHeight /\ h <= MaxHeight
    BY MaxHeightType
  <2>2. PICK f : f = [n \in TreesUpTo[h] |-> CollectDifferenceStep(f, n, inCut, exCut, in, ex)]
    BY <2>1
  <2> DEFINE g == [n \in TreesUpTo[h + 1] |-> CollectDifferenceStep(f, n, inCut, exCut, in, ex)]
  <2>3. \A x \in TreesUpTo[h] : f[x] = g[x]
    <3>1. TreesUpTo[h] \subseteq TreesUpTo[h + 1]
      BY <2>1, TreesGrow
    <3> QED
      BY <2>2, <3>1
  <2>4. \A n \in TreesUpTo[h + 1] : CollectDifferenceStep(f, n, inCut, exCut, in, ex) = CollectDifferenceStep(g, n, inCut, exCut, in, ex)
    <3> HIDE DEF g
    <3> QED
      BY <2>1, <2>3, CollectDifferenceLocal
  <2>5. g = [n \in TreesUpTo[h + 1] |-> CollectDifferenceStep(g, n, inCut, exCut, in, ex)]
    <3> DEFINE G(n) == CollectDifferenceStep(f, n, inCut, exCut, in, ex)
               H(n) == CollectDifferenceStep(g, n, inCut, exCut, in, ex)
    <3>1. \A n \in TreesUpTo[h + 1] : G(n) = H(n)
      BY <2>4
    <3>2. g = [n \in TreesUpTo[h + 1] |-> G(n)]
      OBVIOUS
    <3> HIDE DEF g, G, H
    <3>3. g = [n \in TreesUpTo[h + 1] |-> H(n)]
      BY <3>1, <3>2
    <3> QED
      BY <3>3 DEF H
  <2> HIDE DEF g
  <2> QED
    BY <2>5
<1>3. T = Nat
  <2> HIDE DEF T
  <2>1. T \in SUBSET Nat
    BY DEF T
  <2> QED
    BY <1>1, <1>2, <2>1, NatSet
<1>4. MaxHeight \in T
  BY <1>3, MaxHeightType
<1> QED
  BY <1>4, MaxHeightType DEF Tree

CollectDifferenceFcn(inCut, exCut, in, ex) == CHOOSE f : f = [n \in Tree |-> CollectDifferenceStep(f, n, inCut, exCut, in, ex)]

\* What the traversal of n finds under the additions acc.
CollectDifferenceAt(n, acc, inCut, exCut, in, ex) == CollectDifferenceFcn(inCut, exCut, in, ex)[n][acc]

LEMMA CollectDifferenceIs ==
  ASSUME NEW inCut, NEW exCut, NEW in, NEW ex
  PROVE  \A n : CollectDifference(n, inCut, exCut, in, ex) = CollectDifferenceAt(n, 0, inCut, exCut, in, ex)
BY DEF CollectDifference, CollectDifferenceAt, CollectDifferenceFcn, CollectDifferenceStep

LEMMA CollectDifferenceAtIs ==
  ASSUME NEW inCut, NEW exCut, NEW in, NEW ex, NEW n \in Tree, NEW acc \in Int
  PROVE  CollectDifferenceAt(n, acc, inCut, exCut, in, ex) =
           IF n = Nil THEN {}
           ELSE IF n.capTop < in \/ n.top + acc <= inCut THEN {}
           ELSE CollectDifferenceAt(n.l, acc + n.add, inCut, exCut, in, ex)
                  \cup (IF n.key > in THEN {}
                        ELSE LocalDifference(n, acc + n.add + n.localAdd, inCut, exCut, ex)
                               \cup CollectDifferenceAt(n.r, acc + n.add, inCut, exCut, in, ex))
<1> DEFINE F == CollectDifferenceFcn(inCut, exCut, in, ex)
<1>1. F = [x \in Tree |-> CollectDifferenceStep(F, x, inCut, exCut, in, ex)]
  BY CollectDifferenceExists DEF CollectDifferenceFcn
<1>2. /\ CollectDifferenceAt(n, acc, inCut, exCut, in, ex) = F[n][acc]
      /\ CollectDifferenceAt(n.l, acc + n.add, inCut, exCut, in, ex) = F[n.l][acc + n.add]
      /\ CollectDifferenceAt(n.r, acc + n.add, inCut, exCut, in, ex) = F[n.r][acc + n.add]
  BY DEF CollectDifferenceAt
<1> HIDE DEF F
<1>3. F[n][acc] = CollectDifferenceStep(F, n, inCut, exCut, in, ex)[acc]
  BY <1>1
<1> QED
  BY <1>2, <1>3 DEF CollectDifferenceStep

LEMMA CollectDifferenceFinds ==
  ASSUME NEW inCut \in Int, NEW exCut \in Int, NEW in \in Scores, NEW ex \in Scores
  PROVE  \A h \in Nat : h <= MaxHeight => \A n \in TreesUpTo[h] : Sound(n) =>
           \A acc \in Int :
             Finds(CollectDifferenceAt(n, acc, inCut, exCut, in, ex), Held(n, acc), OverBut(inCut, exCut, ex), in)
<1> DEFINE C(n, acc) == CollectDifferenceAt(n, acc, inCut, exCut, in, ex)
           W == OverBut(inCut, exCut, ex)
           T == {h \in Nat : h <= MaxHeight => \A n \in TreesUpTo[h] : Sound(n) =>
                   \A acc \in Int : Finds(C(n, acc), Held(n, acc), W, in)}
<1> HIDE DEF W
<1>0. ASSUME NEW acc \in Int
      PROVE  Finds(C(Nil, acc), Held(Nil, acc), W, in)
  <2>1. Nil \in Tree
    BY UpIsTree, MaxHeightType
  <2> QED
    BY <2>1, HeldIs, CollectDifferenceAtIs DEF Finds
<1>1. 0 \in T
  <2> HIDE DEF C
  <2> QED
    BY <1>0, TreesZero
<1>2. ASSUME NEW h \in T
      PROVE  h + 1 \in T
  <2> HIDE DEF C
  <2> SUFFICES ASSUME h + 1 <= MaxHeight, NEW n \in TreesUpTo[h + 1], n # Nil,
                      Sound(n), NEW acc \in Int
               PROVE  Finds(C(n, acc), Held(n, acc), W, in)
    BY <1>0
  <2>1. h \in Nat /\ h < MaxHeight /\ h <= MaxHeight
    BY MaxHeightType
  <2>2. /\ n \in NodesOver(TreesUpTo[h]) /\ n \in Tree
        /\ n.l \in TreesUpTo[h] /\ n.r \in TreesUpTo[h] /\ n.add \in Int
    BY <2>1, TreeParts, NodeUp
  <2>3. Sound(n.l) /\ Sound(n.r)
    BY <2>2, SoundIs
  <2> DEFINE x == acc + n.add
             A == C(n.l, x)
             B == C(n.r, x)
             here == LocalDifference(n, x + n.localAdd, inCut, exCut, ex)
  <2>4. x \in Int
    BY <2>2
  <2>5. Finds(A, Held(n.l, x), W, in) /\ Finds(B, Held(n.r, x), W, in)
    BY <2>1, <2>2, <2>3, <2>4
  <2>6. C(n, acc) = IF n.capTop < in \/ n.top + acc <= inCut THEN {}
                    ELSE A \cup (IF n.key > in THEN {} ELSE here \cup B)
    BY <2>2, CollectDifferenceAtIs DEF C
  <2>7. /\ \A q \in here : \E e \in Own(n, x) : e \in W /\ e.id = q
        /\ \A e \in Own(n, x) : e \in W => e.id \in here
    <3> HIDE DEF x, A, B
    <3> QED
      BY <2>2, <2>4, LocalDifferenceIs DEF W
  <2>8. \A e \in W : e.score \in Int /\ e.score > inCut
    BY DEF W, OverBut, Entries
  <2> HIDE DEF T, A, B, here
  <2>9. Finds(IF n.capTop < in \/ n.top + acc <= inCut THEN {}
              ELSE A \cup (IF n.key > in THEN {} ELSE here \cup B),
              Held(n, acc), W, in)
    BY <2>1, <2>5, <2>7, <2>8, FindsJoined
  <2> QED
    BY <2>6, <2>9
<1>3. T = Nat
  <2> HIDE DEF T
  <2>1. T \in SUBSET Nat
    BY DEF T
  <2> QED
    BY <1>1, <1>2, <2>1, NatSet
<1> QED
  BY <1>3 DEF W

-----------------------------------------------------------------------------
(* The operations on the whole treap.                                       *)

LEMMA RootHeight ==
  LET N == Cardinality(Scores)
  IN  N \in Nat /\ N + N = MaxHeight /\ N <= MaxHeight /\ N \in 0..MaxHeight
BY MaxHeightType DEF MaxHeight

\* rangeAddKeysGreaterThan: the keys up to t keep their scores.
LEMMA RangeAddIs ==
  ASSUME NEW n \in TreesUpTo[Cardinality(Scores)], Sound(n), Distinct(n),
         NEW t \in Scores, NEW d \in Int
  PROVE  LET r == RangeAddKeysGreaterThan(n, t, d)
         IN  /\ r \in TreesUpTo[Cardinality(Scores)] /\ Sound(r) /\ Distinct(r)
             /\ Held(r, 0) = UpTo(Held(n, 0), t) \cup Beyond(Held(n, d), t)
<1> DEFINE N == Cardinality(Scores)
           s == Split(n, t)
           x == s[1]
           y == s[2]
           z == AddToSubtree(y, d)
           r == Merge(x, z)
<1>1. N \in Nat /\ N + N = MaxHeight /\ N <= MaxHeight /\ MaxHeight \in Nat
  BY RootHeight, MaxHeightType
<1> HIDE DEF N
<1>2. SplitsAt(n, s, t, N)
  BY <1>1, SplitSplits DEF N
<1>3. RangeAddKeysGreaterThan(n, t, d) = r
  BY DEF RangeAddKeysGreaterThan
<1>4. /\ x \in TreesUpTo[N] /\ y \in TreesUpTo[N] /\ Sound(x) /\ Sound(y)
      /\ Labels(x) = LabelsUpTo(Labels(n), t) /\ Labels(y) = LabelsBeyond(Labels(n), t)
      /\ \A acc \in Int : /\ Held(x, acc) = UpTo(Held(n, acc), t)
                          /\ Held(y, acc) = Beyond(Held(n, acc), t)
  BY <1>2 DEF SplitsAt
<1> HIDE DEF s, x, y
<1>5. /\ z \in TreesUpTo[N] /\ Labels(z) = Labels(y)
      /\ \A acc \in Int : Held(z, acc) = Held(y, acc + d)
      /\ Sound(z)
  BY <1>1, <1>4, AddIs
<1> HIDE DEF z
<1>6. \A p \in Labels(n) : p[1] \in Nat
  BY <1>1, LabelTypes DEF N
<1>7. Apart(x, z)
  <2> SUFFICES ASSUME NEW p \in Labels(x), NEW q \in Labels(z)
               PROVE  p[1] < q[1] /\ p[2] # q[2]
    BY DEF Apart
  <2>1. p \in Labels(n) /\ q \in Labels(n) /\ p[1] <= t /\ q[1] > t
    BY <1>4, <1>5 DEF LabelsUpTo, LabelsBeyond
  <2>2. p[1] < q[1]
    BY <1>6, <2>1, ScoresAssumption
  <2>3. p[1] # q[1]
    BY <1>6, <2>1, <2>2
  <2> QED
    BY <2>1, <2>2, <2>3 DEF Distinct
<1>8. MergesTo(x, z, r, MaxHeight)
  BY <1>1, <1>4, <1>5, <1>7, MergeMerges
<1> HIDE DEF r
<1>9. r \in TreesUpTo[N]
  BY <1>8, HeightBound DEF MergesTo, Tree, N
<1>10. Distinct(r)
  BY <1>4, <1>5, <1>8 DEF MergesTo, Distinct, LabelsUpTo, LabelsBeyond
<1>11. Held(r, 0) = UpTo(Held(n, 0), t) \cup Beyond(Held(n, d), t)
  <2>1. 0 \in Int /\ 0 + d = d
    OBVIOUS
  <2>2. /\ Held(x, 0) = UpTo(Held(n, 0), t) /\ Held(z, 0) = Held(y, d)
        /\ Held(y, d) = Beyond(Held(n, d), t)
    BY <1>4, <1>5, <2>1
  <2> QED
    BY <1>8, <2>2 DEF MergesTo
<1> QED
  BY <1>3, <1>8, <1>9, <1>10, <1>11 DEF MergesTo, N

\* What is held under the additions d is what is held, with d on every score.
LEMMA HeldUnder ==
  ASSUME NEW n \in TreesUpTo[Cardinality(Scores)], NEW d \in Int
  PROVE  /\ Held(n, 0) \subseteq Entries /\ Held(n, d) \subseteq Entries
         /\ \A e \in Held(n, 0) : Shifted(e, d) \in Held(n, d)
         /\ \A e \in Held(n, d) : \E f \in Held(n, 0) : e = Shifted(f, d)
<1> DEFINE N == Cardinality(Scores)
<1>1. N \in Nat /\ N <= MaxHeight /\ 0 \in Int /\ -d \in Int /\ 0 + d = d /\ d + (-d) = 0
  BY RootHeight
<1>2. Held(n, 0) \subseteq Entries /\ Held(n, d) \subseteq Entries
  BY <1>1, HeldParts
<1>3. \A e \in Held(n, 0) : Shifted(e, d) \in Held(n, d)
  BY <1>1, HeldShifts
<1>4. ASSUME NEW e \in Held(n, d)
      PROVE  \E f \in Held(n, 0) : e = Shifted(f, d)
  <2> DEFINE f == Shifted(e, -d)
  <2>1. f \in Held(n, d + (-d))
    BY <1>1, HeldShifts
  <2>2. e \in Entries
    BY <1>2
  <2>3. e = [id |-> e.id, key |-> e.key, cap |-> e.cap, score |-> e.score] /\ e.score \in Int
    BY <2>2 DEF Entries
  <2>4. /\ f.id = e.id /\ f.key = e.key /\ f.cap = e.cap /\ f.score = e.score + (-d)
    BY DEF Shifted
  <2> HIDE DEF f
  <2>5. f.score + d = e.score
    BY <2>3, <2>4
  <2>6. e = Shifted(f, d)
    BY <2>3, <2>4, <2>5 DEF Shifted
  <2> QED
    BY <1>1, <2>1, <2>6
<1> QED
  BY <1>2, <1>3, <1>4

\* The entries of a query.
Of(H, q) == {e \in H : e.id = q}

LEMMA RangeAddScores ==
  ASSUME NEW n \in TreesUpTo[Cardinality(Scores)], Sound(n), Distinct(n),
         NEW t \in Scores, NEW d \in Int, NEW q, NEW e, Of(Held(n, 0), q) = {e}
  PROVE  Of(Held(RangeAddKeysGreaterThan(n, t, d), 0), q)
           = {Shifted(e, IF e.key > t THEN d ELSE 0)}
<1> DEFINE r == RangeAddKeysGreaterThan(n, t, d)
<1>1. Held(r, 0) = UpTo(Held(n, 0), t) \cup Beyond(Held(n, d), t)
  BY RangeAddIs
<1>2. /\ Held(n, 0) \subseteq Entries /\ Held(n, d) \subseteq Entries
      /\ \A f \in Held(n, 0) : Shifted(f, d) \in Held(n, d)
      /\ \A f \in Held(n, d) : \E g \in Held(n, 0) : f = Shifted(g, d)
  BY HeldUnder
<1>3. e \in Held(n, 0) /\ e.id = q /\ \A f \in Held(n, 0) : f.id = q => f = e
  BY DEF Of
<1>4. \A f : Shifted(f, d).id = f.id /\ Shifted(f, d).key = f.key
  BY DEF Shifted
<1>5. e \in Entries /\ e.key \in Nat /\ t \in Nat /\ e.score \in Int
  <2>1. e \in Entries
    BY <1>2, <1>3
  <2> QED
    BY <2>1, ScoresAssumption DEF Entries
<1>6. Shifted(e, 0) = e
  <2>1. e = [id |-> e.id, key |-> e.key, cap |-> e.cap, score |-> e.score]
    BY <1>5 DEF Entries
  <2>2. e.score + 0 = e.score
    BY <1>5
  <2> QED
    BY <2>1, <2>2 DEF Shifted
<1> HIDE DEF r
<1>7. CASE e.key > t
  <2>1. Shifted(e, d) \in Beyond(Held(n, d), t) /\ Shifted(e, d).id = q
    BY <1>2, <1>3, <1>4, <1>7 DEF Beyond
  <2>2. \A f \in UpTo(Held(n, 0), t) : f.id # q
    BY <1>3, <1>5, <1>7 DEF UpTo
  <2>3. \A f \in Beyond(Held(n, d), t) : f.id = q => f = Shifted(e, d)
    BY <1>2, <1>3, <1>4 DEF Beyond
  <2>4. Of(Held(r, 0), q) = {Shifted(e, d)}
    BY <1>1, <2>1, <2>2, <2>3 DEF Of
  <2> QED
    BY <1>7, <2>4 DEF r
<1>8. CASE ~ (e.key > t)
  <2>1. e \in UpTo(Held(n, 0), t)
    BY <1>3, <1>5, <1>8 DEF UpTo
  <2>2. \A f \in UpTo(Held(n, 0), t) : f.id = q => f = e
    BY <1>3 DEF UpTo
  <2>3. \A f \in Beyond(Held(n, d), t) : f.id # q
    BY <1>2, <1>3, <1>4, <1>8 DEF Beyond
  <2>4. Of(Held(r, 0), q) = {e}
    BY <1>1, <1>3, <2>1, <2>2, <2>3 DEF Of
  <2> QED
    BY <1>6, <1>8, <2>4 DEF r
<1> QED
  BY <1>7, <1>8

\* The ids are those of before.
LEMMA RangeAddIds ==
  ASSUME NEW n \in TreesUpTo[Cardinality(Scores)], Sound(n), Distinct(n),
         NEW t \in Scores, NEW d \in Int,
         NEW f \in Held(RangeAddKeysGreaterThan(n, t, d), 0)
  PROVE  \E e \in Held(n, 0) : e.id = f.id
<1>1. f \in UpTo(Held(n, 0), t) \cup Beyond(Held(n, d), t)
  BY RangeAddIs
<1>2. \A x \in Held(n, d) : \E g \in Held(n, 0) : x = Shifted(g, d)
  BY HeldUnder
<1>3. \A g : Shifted(g, d).id = g.id
  BY DEF Shifted
<1> QED
  BY <1>1, <1>2, <1>3 DEF UpTo, Beyond

-----------------------------------------------------------------------------
(* The inductive invariant.                                                 *)

\* The score a live query should have.
Expected(q) ==
  [id |-> q, key |-> queries[q].a, cap |-> queries[q].max,
   score |-> RankOf(queries[q].a) + queries[q].k]

\* A sound treap no higher than there are scores.
Shape ==
  /\ root \in TreesUpTo[Cardinality(Scores)] /\ Sound(root) /\ Distinct(root)

\* What the maps beside the treap hold.
Maps ==
  /\ count \in [Scores -> 0 .. MaxDocs]
  /\ nextId \in 1 .. MaxQueries + 1
  /\ DOMAIN base = DOMAIN queries /\ DOMAIN queries \subseteq 1 .. nextId - 1
  /\ \A q \in DOMAIN queries : queries[q] \in Specs

\* The inductive invariant.  Ids up to nextId - 1 only: a removed query may stay
\* in the treap, so the live ones are told apart by their ids.
IInv ==
  /\ Maps /\ Shape
  /\ \A e \in Held(root, 0) : e.id \in 1 .. nextId - 1
  /\ \A q \in DOMAIN queries : Of(Held(root, 0), q) = {Expected(q)}

LEMMA RootIs ==
  ASSUME Shape
  PROVE  root \in Tree /\ Contents(root) = Held(root, 0)
<1>1. root \in Tree
  BY RootHeight, UpIsTree DEF Shape
<1> QED
  BY <1>1, HeldIs

LEMMA RankIs ==
  ASSUME NEW v \in Scores
  PROVE  RankOf(v) = Cardinality(DocsBelow(count, v)) /\ RankOf(v) \in Nat
<1>1. RankOf(v) = Cardinality(DocsBelow(count, v))
  BY DEF RankOf, DocsBelow
<1> QED
  BY <1>1, BelowIsFinite

LEMMA SpecParts ==
  ASSUME NEW s \in Specs
  PROVE  s.a \in Scores /\ s.k \in Nat /\ s.max \in Scores
BY SpecsAssumption

LEMMA InitIInv == Init => IInv
<1> SUFFICES ASSUME Init
             PROVE  IInv
  OBVIOUS
<1>1. DOMAIN queries = {} /\ DOMAIN base = {} /\ root = Nil /\ nextId = 1
  BY DEF Init
<1>2. Maps
  BY <1>1, BoundsAssumption DEF Init, Maps
<1>3. Shape
  BY <1>1, RootHeight, UpIsTree, SoundIs, LabelsIs DEF Shape, Distinct
<1>4. Held(root, 0) = {}
  BY <1>1, HeldIs
<1> QED
  BY <1>1, <1>2, <1>3, <1>4 DEF IInv

\* A document of score t comes or goes, and the scores above t follow.
LEMMA ShiftIInv ==
  ASSUME IInv, NEW t \in Scores, NEW d \in Int,
         root' = RangeAddKeysGreaterThan(root, t, d),
         count' \in [Scores -> 0 .. MaxDocs],
         \A v \in Scores : Cardinality(DocsBelow(count', v))
                             = Cardinality(DocsBelow(count, v)) + (IF v > t THEN d ELSE 0),
         UNCHANGED <<queries, base, nextId>>
  PROVE  IInv'
<1>1. root \in TreesUpTo[Cardinality(Scores)] /\ Sound(root) /\ Distinct(root)
  BY DEF IInv, Shape
<1>2. Shape'
  BY <1>1, RangeAddIs DEF Shape
<1>3. Maps'
  BY DEF IInv, Maps
<1>4. ASSUME NEW f \in Held(root', 0)
      PROVE  f.id \in 1 .. nextId' - 1
  BY <1>1, <1>4, RangeAddIds DEF IInv
<1>5. ASSUME NEW q \in DOMAIN queries
      PROVE  Of(Held(root', 0), q) = {Expected(q)'}
  <2> DEFINE a == queries[q].a
  <2>1. a \in Scores /\ queries[q].k \in Nat /\ queries' = queries
    BY SpecParts DEF IInv, Maps
  <2>2. RankOf(a)' = RankOf(a) + (IF a > t THEN d ELSE 0) /\ RankOf(a) \in Nat
    <3>1. RankOf(a)' = Cardinality(DocsBelow(count', a))
      BY <2>1 DEF RankOf, DocsBelow
    <3> QED
      BY <2>1, <3>1, RankIs
  <2>3. Of(Held(root, 0), q) = {Expected(q)}
    BY DEF IInv
  <2>4. Of(Held(root', 0), q) = {Shifted(Expected(q), IF Expected(q).key > t THEN d ELSE 0)}
    BY <1>1, <2>3, RangeAddScores
  <2>5. (RankOf(a) + queries[q].k) + (IF a > t THEN d ELSE 0) = RankOf(a)' + queries[q].k
    BY <2>1, <2>2
  <2>6. Shifted(Expected(q), IF Expected(q).key > t THEN d ELSE 0) = Expected(q)'
    BY <2>1, <2>5 DEF Shifted, Expected
  <2> QED
    BY <2>4, <2>6
<1>6. DOMAIN queries' = DOMAIN queries
  OBVIOUS
<1> QED
  BY <1>2, <1>3, <1>4, <1>5, <1>6 DEF IInv

LEMMA AddDocIInv ==
  ASSUME IInv, NEW v \in Scores, AddDoc(v)
  PROVE  IInv'
<1> DEFINE d == 1
<1>1. /\ count \in [Scores -> 0 .. MaxDocs] /\ count[v] < MaxDocs
      /\ count' = [count EXCEPT ![v] = count[v] + 1]
      /\ root' = RangeAddKeysGreaterThan(root, v, d)
      /\ UNCHANGED <<queries, base, nextId>>
  BY DEF IInv, Maps, AddDoc
<1>2. count' \in [Scores -> 0 .. MaxDocs]
  BY <1>1, BoundsAssumption
<1>3. \A w \in Scores : Cardinality(DocsBelow(count', w))
                          = Cardinality(DocsBelow(count, w)) + (IF w > v THEN d ELSE 0)
  BY <1>1, OneMoreBelow
<1>4. d \in Int
  OBVIOUS
<1> HIDE DEF d
<1> QED
  BY <1>1, <1>2, <1>3, <1>4, ShiftIInv

LEMMA RemoveDocIInv ==
  ASSUME IInv, NEW v \in Scores, RemoveDoc(v)
  PROVE  IInv'
<1> DEFINE d == -1
<1>1. /\ count \in [Scores -> 0 .. MaxDocs] /\ count[v] > 0
      /\ count' = [count EXCEPT ![v] = count[v] - 1]
      /\ root' = RangeAddKeysGreaterThan(root, v, d)
      /\ UNCHANGED <<queries, base, nextId>>
  BY DEF IInv, Maps, RemoveDoc
<1>2. count' \in [Scores -> 0 .. MaxDocs]
  BY <1>1, BoundsAssumption
<1>3. \A w \in Scores : Cardinality(DocsBelow(count', w))
                          = Cardinality(DocsBelow(count, w)) + (IF w > v THEN d ELSE 0)
  BY <1>1, OneLessBelow
<1>4. d \in Int
  OBVIOUS
<1> HIDE DEF d
<1> QED
  BY <1>1, <1>2, <1>3, <1>4, ShiftIInv

LEMMA AddQueryIInv ==
  ASSUME IInv, NEW spec \in Specs, NEW prio \in Prios, AddQuery(spec, prio)
  PROVE  IInv'
<1> DEFINE N == Cardinality(Scores)
           a == spec.a
           effective == RankOf(a) + spec.k
           e == [id |-> nextId, key |-> a, cap |-> spec.max, score |-> effective]
<1>1. a \in Scores /\ spec.k \in Nat /\ spec.max \in Scores
  BY SpecParts
<1>2. /\ nextId \in 1..MaxQueries /\ nextId' = nextId + 1 /\ count' = count
      /\ root' = Insert(root, a, nextId, effective, spec.max, prio)
      /\ queries' = [q \in DOMAIN queries \cup {nextId} |->
                       IF q = nextId THEN spec ELSE queries[q]]
      /\ DOMAIN base' = DOMAIN base \cup {nextId}
      /\ \A n \in Nodes(root) : n.prio = prio <=> n.key = a
  BY BoundsAssumption DEF AddQuery, IInv, Maps
<1>3. root \in TreesUpTo[N] /\ Sound(root) /\ Distinct(root)
  BY DEF IInv, Shape
<1>4. effective \in Int
  BY <1>1, RankIs
<1>5. N \in Nat /\ N + 1 \in Nat /\ N + 1 <= MaxHeight
  <2>1. N \in Nat /\ N + N = MaxHeight
    BY RootHeight
  <2>2. N # 0
    BY <1>1, ScoresAssumption, FS_EmptySet
  <2> HIDE DEF N
  <2> QED
    BY <2>1, <2>2
<1> HIDE DEF N, a, effective
<1>6. Fits(root, a, prio)
  BY <1>2 DEF Fits, Labels
<1>7. Inserts(root, root', a, prio, 0, e, N + 1)
  <2>1. root' = InsertAt(root, 0, a, nextId, effective, spec.max, prio)
    <3>1. InsertUnfolds(a, nextId, effective, spec.max, prio)
      BY InsertIs
    <3>2. Insert(root, a, nextId, effective, spec.max, prio)
            = InsertAt(root, 0, a, nextId, effective, spec.max, prio)
      BY <3>1 DEF InsertUnfolds
    <3> QED
      BY <1>2, <3>2
  <2> QED
    BY <1>1, <1>2, <1>3, <1>4, <1>5, <1>6, <2>1, InsertInserts
<1>8. /\ root' \in TreesUpTo[N + 1] /\ Sound(root')
      /\ Labels(root') = Labels(root) \cup {<<a, prio>>}
      /\ Held(root', 0) = Held(root, 0) \cup {e}
  BY <1>7 DEF Inserts
<1>9. Shape'
  <2>1. root' \in Tree
    BY <1>5, <1>8, UpIsTree
  <2>2. root' \in TreesUpTo[Cardinality(Scores)]
    BY <1>8, <2>1, HeightBound
  <2>3. Distinct(root')
    <3>1. <<a, prio>>[1] = a /\ <<a, prio>>[2] = prio
      OBVIOUS
    <3> QED
      BY <1>3, <1>6, <1>8, <3>1 DEF Distinct, Fits
  <2> QED
    BY <1>8, <2>2, <2>3 DEF Shape
<1>10. /\ DOMAIN queries' = DOMAIN queries \cup {nextId} /\ queries'[nextId] = spec
       /\ \A q \in DOMAIN queries : q # nextId /\ queries'[q] = queries[q]
       /\ DOMAIN queries \subseteq 1 .. nextId - 1
  <2>1. DOMAIN queries \subseteq 1 .. nextId - 1
    BY DEF IInv, Maps
  <2>2. \A q \in 1 .. nextId - 1 : q # nextId
    BY <1>2
  <2> QED
    BY <1>2, <2>1, <2>2
<1>11. Maps'
  <2>1. nextId' \in 1 .. MaxQueries + 1 /\ nextId' - 1 = nextId
    BY <1>2, BoundsAssumption
  <2>2. DOMAIN queries' \subseteq 1 .. nextId' - 1
    BY <1>2, <1>10, <2>1
  <2>3. DOMAIN base' = DOMAIN queries'
    BY <1>2, <1>10 DEF IInv, Maps
  <2>4. \A q \in DOMAIN queries' : queries'[q] \in Specs
    BY <1>10 DEF IInv, Maps
  <2>5. count' \in [Scores -> 0 .. MaxDocs]
    BY <1>2 DEF IInv, Maps
  <2> QED
    BY <2>1, <2>2, <2>3, <2>4, <2>5 DEF Maps
<1>12. \A f \in Held(root, 0) : f.id \in 1 .. nextId - 1
  BY DEF IInv
<1>13. ASSUME NEW f \in Held(root', 0)
       PROVE  f.id \in 1 .. nextId' - 1
  <2>1. CASE f = e
    BY <1>2, <2>1
  <2>2. CASE f \in Held(root, 0)
    BY <1>2, <1>12, <2>2
  <2> QED
    BY <1>8, <2>1, <2>2
<1>14. ASSUME NEW q \in DOMAIN queries'
       PROVE  Of(Held(root', 0), q) = {Expected(q)'}
  <2>1. \A v : RankOf(v)' = RankOf(v)
    BY <1>2 DEF RankOf
  <2>2. CASE q = nextId
    <3>1. \A f \in Held(root, 0) : f.id # q
      BY <1>2, <1>12, <2>2
    <3>2. e.id = q
      BY <2>2
    <3>3. Expected(q)' = e
      BY <1>10, <2>1, <2>2 DEF Expected, a, effective
    <3> HIDE DEF e
    <3> QED
      BY <1>8, <3>1, <3>2, <3>3 DEF Of
  <2>3. CASE q \in DOMAIN queries
    <3>1. Of(Held(root, 0), q) = {Expected(q)}
      BY <2>3 DEF IInv
    <3>2. e.id # q
      BY <1>10, <2>3
    <3>3. Expected(q)' = Expected(q)
      BY <1>10, <2>1, <2>3 DEF Expected
    <3> HIDE DEF e
    <3> QED
      BY <1>8, <3>1, <3>2, <3>3 DEF Of
  <2> QED
    BY <1>10, <2>2, <2>3
<1> QED
  BY <1>9, <1>11, <1>13, <1>14 DEF IInv

LEMMA RemoveQueryIInv ==
  ASSUME IInv, NEW q \in 1 .. MaxQueries, RemoveQuery(q)
  PROVE  IInv'
<1> DEFINE N == Cardinality(Scores)
           a == queries[q].a
           item == <<base[q], q, queries[q].max>>
<1>1. /\ root' = Remove(root, a, item) /\ item[2] = q
      /\ queries' = [p \in DOMAIN queries \ {q} |-> queries[p]]
      /\ DOMAIN base' = DOMAIN base \ {q} /\ count' = count /\ nextId' = nextId
  BY DEF RemoveQuery
<1> HIDE DEF a, item
<1>2. root \in TreesUpTo[N] /\ Sound(root) /\ Distinct(root)
  BY DEF IInv, Shape
<1>3. N \in Nat /\ N + N \in Nat /\ N + N = MaxHeight /\ N + N <= MaxHeight
  BY RootHeight
<1>4. Removes(root, root', item, N + N)
  <2> HIDE DEF N
  <2> QED
    BY <1>1, <1>2, <1>3, RemoveRemoves
<1>5. /\ root' \in Tree /\ Sound(root') /\ Labels(root') \subseteq Labels(root)
      /\ Held(root', 0) \subseteq Held(root, 0)
      /\ \A e \in Held(root, 0) : e.id # q => e \in Held(root', 0)
  BY <1>1, <1>3, <1>4 DEF Removes, Tree
<1>6. Shape'
  BY <1>2, <1>5, HeightBound DEF Shape, Distinct
<1>7. /\ DOMAIN queries' = DOMAIN queries \ {q}
      /\ \A p \in DOMAIN queries' : p \in DOMAIN queries /\ p # q /\ queries'[p] = queries[p]
  BY <1>1
<1>8. Maps'
  BY <1>1, <1>7 DEF IInv, Maps
<1>9. ASSUME NEW p \in DOMAIN queries'
      PROVE  Of(Held(root', 0), p) = {Expected(p)'}
  <2>1. \A v : RankOf(v)' = RankOf(v)
    BY <1>1 DEF RankOf
  <2>2. Of(Held(root, 0), p) = {Expected(p)}
    BY <1>7 DEF IInv
  <2>3. Expected(p)' = Expected(p)
    BY <1>7, <2>1 DEF Expected
  <2>4. p # q
    BY <1>7
  <2> QED
    BY <1>5, <2>2, <2>3, <2>4 DEF Of
<1>10. \A e \in Held(root', 0) : e.id \in 1 .. nextId' - 1
  BY <1>1, <1>5 DEF IInv
<1> QED
  BY <1>6, <1>8, <1>9, <1>10 DEF IInv

\* The invariant holds in every state.
THEOREM Inductive == Spec => []IInv
<1>1. Init => IInv
  BY InitIInv
<1>2. IInv /\ [Next]_vars => IInv'
  <2> SUFFICES ASSUME IInv, [Next]_vars
               PROVE  IInv'
    OBVIOUS
  <2>1. CASE \E v \in Scores : AddDoc(v)
    BY <2>1, AddDocIInv
  <2>2. CASE \E v \in Scores : RemoveDoc(v)
    BY <2>2, RemoveDocIInv
  <2>3. CASE \E spec \in Specs, prio \in Prios : AddQuery(spec, prio)
    BY <2>3, AddQueryIInv
  <2>4. CASE \E q \in 1 .. MaxQueries : RemoveQuery(q)
    BY <2>4, RemoveQueryIInv
  <2>5. CASE UNCHANGED vars
    BY <2>5 DEF vars, IInv, Maps, Shape, Expected, RankOf
  <2> QED
    BY <2>1, <2>2, <2>3, <2>4, <2>5 DEF Next
<1> QED
  BY <1>1, <1>2, PTL DEF Spec

-----------------------------------------------------------------------------
(* The properties.                                                          *)

\* The treap holds queries given out so far, and the two maps have the same ids.
THEOREM TypeCorrect == Spec => []TypeOK
<1>1. IInv => TypeOK
  <2> SUFFICES ASSUME IInv
               PROVE  TypeOK
    OBVIOUS
  <2>1. root \in Tree /\ Contents(root) = Held(root, 0)
    BY RootIs DEF IInv
  <2> QED
    BY <2>1 DEF IInv, Maps, TypeOK
<1> QED
  BY <1>1, Inductive, PTL

LEMMA InvImpliesTreap == IInv => IsTreap
<1> SUFFICES ASSUME IInv, NEW n \in Nodes(root)
             PROVE  /\ \A m \in Nodes(n.l) : m.key < n.key /\ m.prio < n.prio
                    /\ \A m \in Nodes(n.r) : m.key > n.key /\ m.prio < n.prio
  BY DEF IsTreap
<1>1. Ordered(n)
  BY DEF IInv, Shape, Sound, NodeOK
<1>2. /\ \A m \in Nodes(n.l) : <<m.key, m.prio>> \in Labels(n.l)
      /\ \A m \in Nodes(n.r) : <<m.key, m.prio>> \in Labels(n.r)
  BY DEF Labels
<1>3. \A m : <<m.key, m.prio>>[1] = m.key /\ <<m.key, m.prio>>[2] = m.prio
  OBVIOUS
<1> QED
  BY <1>1, <1>2, <1>3 DEF Ordered

\* Splits, merges and rotations keep a search tree by key and a heap by priority.
THEOREM TreapShape == Spec => []IsTreap
BY Inductive, InvImpliesTreap, PTL

LEMMA InvImpliesScores == IInv => ScoresExact
<1> SUFFICES ASSUME IInv, NEW q \in DOMAIN queries
             PROVE  {s \in Contents(root) : s.id = q} =
                      {[id |-> q, key |-> queries[q].a, cap |-> queries[q].max,
                        score |-> RankOf(queries[q].a) + queries[q].k]}
  BY DEF ScoresExact
<1>1. Contents(root) = Held(root, 0)
  BY RootIs DEF IInv
<1>2. Of(Held(root, 0), q) = {Expected(q)}
  BY DEF IInv
<1> QED
  BY <1>1, <1>2 DEF Of, Expected

\* Through the lazy additions, each live query is in the treap once, under the
\* score it should have.
THEOREM ScoresAreExact == Spec => []ScoresExact
BY Inductive, InvImpliesScores, PTL

\* What a traversal finds of the live queries, given what it finds of the treap.
LEMMA FoundLive ==
  ASSUME IInv, NEW v \in Scores, NEW W, NEW ids, Finds(ids, Held(root, 0), W, v)
  PROVE  Allowed(ids, v) =
           {q \in DOMAIN queries : /\ queries[q].a <= v /\ queries[q].max >= v
                                   /\ Expected(q) \in W}
<1>1. ASSUME NEW q \in DOMAIN queries
      PROVE  /\ Expected(q) \in Held(root, 0) /\ Expected(q).id = q
             /\ Expected(q).key = queries[q].a /\ Expected(q).cap = queries[q].max
             /\ \A e \in Held(root, 0) : e.id = q => e = Expected(q)
  BY DEF IInv, Of, Expected
<1>2. ASSUME NEW q \in DOMAIN queries, q \in ids
      PROVE  queries[q].a <= v /\ Expected(q) \in W
  <2>1. PICK e \in Held(root, 0) : e \in W /\ e.id = q /\ e.key <= v
    BY <1>2 DEF Finds
  <2> QED
    BY <1>1, <2>1
<1>3. ASSUME NEW q \in DOMAIN queries, queries[q].a <= v, queries[q].max >= v,
             Expected(q) \in W
      PROVE  q \in ids
  BY <1>1, <1>3 DEF Finds
<1> QED
  BY <1>2, <1>3 DEF Allowed

LEMMA CutoffType ==
  ASSUME IInv, NEW v \in Scores, NEW c \in Cutoffs(v)
  PROVE  c \in Int
<1>1. RankOf(v) \in Nat /\ count[v] \in Nat
  BY RankIs, BoundsAssumption DEF IInv, Maps
<1> QED
  BY <1>1 DEF Cutoffs

LEMMA ExpectedType ==
  ASSUME IInv, NEW q \in DOMAIN queries
  PROVE  /\ Expected(q) \in Entries
         /\ Expected(q).score = RankOf(queries[q].a) + queries[q].k
         /\ Expected(q).cap = queries[q].max
<1>1. Expected(q) \in Held(root, 0)
  BY DEF IInv, Of
<1>2. Held(root, 0) \subseteq Entries
  <2>1. 0 \in Int
    OBVIOUS
  <2> QED
    BY <2>1, HeldUnder DEF IInv, Shape
<1> QED
  BY <1>1, <1>2 DEF Expected

LEMMA InvImpliesCollect == IInv => CollectExact
<1> SUFFICES ASSUME IInv, NEW v \in Scores, NEW cutoff \in Cutoffs(v)
             PROVE  Allowed(Collect(root, cutoff, v), v) = Above(cutoff, v)
  BY DEF CollectExact
<1>1. cutoff \in Int
  BY CutoffType
<1>2. Finds(Collect(root, cutoff, v), Held(root, 0), Over(cutoff), v)
  <2>1. Finds(CollectAt(root, 0, cutoff, v), Held(root, 0), Over(cutoff), v)
    BY <1>1, RootHeight, CollectFinds DEF IInv, Shape
  <2>2. Collect(root, cutoff, v) = CollectAt(root, 0, cutoff, v)
    BY CollectIs
  <2> QED
    BY <2>1, <2>2
<1>3. Allowed(Collect(root, cutoff, v), v) =
        {q \in DOMAIN queries : /\ queries[q].a <= v /\ queries[q].max >= v
                                /\ Expected(q) \in Over(cutoff)}
  BY <1>2, FoundLive
<1>4. \A q \in DOMAIN queries :
        Expected(q) \in Over(cutoff) <=> RankOf(queries[q].a) + queries[q].k > cutoff
  BY ExpectedType DEF Over
<1> QED
  BY <1>3, <1>4 DEF Above

\* Whatever the cached maxima prune, a traversal finds every live query that
\* covers the value above the cutoff, and no other.
THEOREM CollectIsExact == Spec => []CollectExact
BY Inductive, InvImpliesCollect, PTL

LEMMA InvImpliesDifference == IInv => DifferenceExact
<1> SUFFICES ASSUME IInv, NEW in \in Scores, NEW ex \in Scores,
                    NEW inCut \in Cutoffs(in), NEW exCut \in Cutoffs(ex)
             PROVE  Allowed(CollectDifference(root, inCut, exCut, in, ex), in) =
                      {q \in Above(inCut, in) :
                         ~(/\ RankOf(queries[q].a) + queries[q].k > exCut
                           /\ queries[q].max >= ex)}
  BY DEF DifferenceExact
<1> DEFINE ids == CollectDifference(root, inCut, exCut, in, ex)
           W == OverBut(inCut, exCut, ex)
<1>1. inCut \in Int /\ exCut \in Int
  BY CutoffType
<1>2. Finds(ids, Held(root, 0), W, in)
  <2>1. Finds(CollectDifferenceAt(root, 0, inCut, exCut, in, ex), Held(root, 0), W, in)
    BY <1>1, RootHeight, CollectDifferenceFinds DEF IInv, Shape
  <2>2. ids = CollectDifferenceAt(root, 0, inCut, exCut, in, ex)
    BY CollectDifferenceIs
  <2> QED
    BY <2>1, <2>2
<1> HIDE DEF ids, W
<1>3. Allowed(ids, in) =
        {q \in DOMAIN queries : /\ queries[q].a <= in /\ queries[q].max >= in
                                /\ Expected(q) \in W}
  BY <1>2, FoundLive
<1>4. \A q \in DOMAIN queries :
        Expected(q) \in W <=>
          /\ RankOf(queries[q].a) + queries[q].k > inCut
          /\ ~(/\ RankOf(queries[q].a) + queries[q].k > exCut
               /\ queries[q].max >= ex)
  BY ExpectedType DEF W, OverBut
<1> QED
  BY <1>3, <1>4 DEF Above, ids

\* The difference traversal finds the live queries above the included cutoff,
\* less those above the excluded one whose bound reaches the excluded value.
THEOREM DifferenceIsExact == Spec => []DifferenceExact
BY Inductive, InvImpliesDifference, PTL
==============================================================================
