--------------------------- MODULE DocsIndexProofs ---------------------------
(***************************************************************************)
(* Facts about the ranks and counts of the document index, for every finite *)
(* index: they count, they follow the order of the entries, and every rank  *)
(* below the size of the index is the rank of an entry.                     *)
(***************************************************************************)
EXTENDS DocsIndex, FiniteSetTheorems, FunctionTheorems, TLAPS

-----------------------------------------------------------------------------
(* How the counts change with the entries.                                  *)

\* The counts of the index are numbers.
LEMMA RankOfScoreType ==
  ASSUME NEW D, IsFiniteSet(D), NEW t
  PROVE  RankOfScore(D, t) \in Nat /\ CountAtMost(D, t) \in Nat
<1> DEFINE L == {e \in D : e[1] < t}
           M == {e \in D : e[1] <= t}
<1>1. L \subseteq D /\ M \subseteq D
  OBVIOUS
<1>2. IsFiniteSet(L) /\ IsFiniteSet(M)
  BY <1>1, FS_Subset
<1> QED
  BY <1>2, FS_CardinalityType DEF RankOfScore, CountAtMost

\* add(score, id) of a new pair moves the ranks of the scores above it by one.
LEMMA RankOfScoreAdd ==
  ASSUME NEW D, IsFiniteSet(D), NEW v, NEW d, <<v, d>> \notin D, NEW t
  PROVE  RankOfScore(AddEntry(D, v, d), t) =
           IF v < t THEN RankOfScore(D, t) + 1 ELSE RankOfScore(D, t)
<1> DEFINE L == {e \in D : e[1] < t}
           M == {e \in D \cup {<<v, d>>} : e[1] < t}
<1>1. IsFiniteSet(L)
  <2>1. L \subseteq D
    OBVIOUS
  <2> QED
    BY <2>1, FS_Subset
<1>2. CASE v < t
  <2>1. M = L \cup {<<v, d>>} /\ <<v, d>> \notin L
    BY <1>2
  <2>2. Cardinality(M) = Cardinality(L) + 1
    BY <1>1, <2>1, FS_AddElement
  <2> QED
    BY <1>2, <2>2 DEF RankOfScore, AddEntry
<1>3. CASE ~(v < t)
  <2>1. M = L
    BY <1>3
  <2> QED
    BY <1>3, <2>1 DEF RankOfScore, AddEntry
<1> QED
  BY <1>2, <1>3

\* remove(score, id) of a stored pair moves them back.
LEMMA RankOfScoreRemove ==
  ASSUME NEW D, IsFiniteSet(D), NEW v, NEW d, <<v, d>> \in D, NEW t
  PROVE  RankOfScore(RemoveEntry(D, v, d), t) =
           IF v < t THEN RankOfScore(D, t) - 1 ELSE RankOfScore(D, t)
<1> DEFINE E == D \ {<<v, d>>}
<1>1. IsFiniteSet(E)
  BY FS_RemoveElement
<1>2. AddEntry(E, v, d) = D
  BY DEF AddEntry
<1>3. RankOfScore(D, t) =
        IF v < t THEN RankOfScore(E, t) + 1 ELSE RankOfScore(E, t)
  <2>1. <<v, d>> \notin E
    OBVIOUS
  <2> HIDE DEF E
  <2> QED
    BY <1>1, <1>2, <2>1, RankOfScoreAdd
<1>4. RankOfScore(E, t) \in Nat
  BY <1>1, RankOfScoreType
<1> QED
  BY <1>3, <1>4 DEF RemoveEntry

LEMMA CountAtMostAdd ==
  ASSUME NEW D, IsFiniteSet(D), NEW v, NEW d, <<v, d>> \notin D, NEW t
  PROVE  CountAtMost(AddEntry(D, v, d), t) =
           IF v <= t THEN CountAtMost(D, t) + 1 ELSE CountAtMost(D, t)
<1> DEFINE L == {e \in D : e[1] <= t}
           M == {e \in D \cup {<<v, d>>} : e[1] <= t}
<1>1. IsFiniteSet(L)
  <2>1. L \subseteq D
    OBVIOUS
  <2> QED
    BY <2>1, FS_Subset
<1>2. CASE v <= t
  <2>1. M = L \cup {<<v, d>>} /\ <<v, d>> \notin L
    BY <1>2
  <2>2. Cardinality(M) = Cardinality(L) + 1
    BY <1>1, <2>1, FS_AddElement
  <2> QED
    BY <1>2, <2>2 DEF CountAtMost, AddEntry
<1>3. CASE ~(v <= t)
  <2>1. M = L
    BY <1>3
  <2> QED
    BY <1>3, <2>1 DEF CountAtMost, AddEntry
<1> QED
  BY <1>2, <1>3

-----------------------------------------------------------------------------
(* Ranks follow the order.                                                  *)

\* A smaller set of entries has fewer of them.
LEMMA Fewer ==
  ASSUME NEW D, IsFiniteSet(D), NEW S, NEW T, S \subseteq T, T \subseteq D
  PROVE  /\ Cardinality(S) \in Nat /\ Cardinality(T) \in Nat
         /\ Cardinality(S) <= Cardinality(T)
         /\ S # T => Cardinality(S) < Cardinality(T)
<1>1. IsFiniteSet(T)
  BY FS_Subset
<1>2. IsFiniteSet(S) /\ Cardinality(S) <= Cardinality(T)
      /\ (Cardinality(S) = Cardinality(T) => S = T)
  BY <1>1, FS_Subset
<1>3. Cardinality(S) \in Nat /\ Cardinality(T) \in Nat
  BY <1>1, <1>2, FS_CardinalityType
<1> QED
  BY <1>2, <1>3

\* The rank of a position against the counts of the scores around it.
LEMMA RankBounds ==
  ASSUME NEW D, IsFiniteSet(D), D \subseteq Nat \X Nat,
         NEW v \in Nat, NEW d \in Nat, NEW t \in Nat
  PROVE  /\ Rank(D, v, d) \in Nat
         /\ t <= v => RankOfScore(D, t) <= Rank(D, v, d)
         /\ v <= t => Rank(D, v, d) <= CountAtMost(D, t)
         /\ t < v => CountAtMost(D, t) <= Rank(D, v, d)
         /\ <<v, d>> \in D /\ v <= t => Rank(D, v, d) < CountAtMost(D, t)
         /\ <<v, d>> \in D /\ v < t => Rank(D, v, d) < RankOfScore(D, t)
         /\ <<v, d>> \in D => Rank(D, v, d) < Cardinality(D)
<1> DEFINE R == {e \in D : Precedes(e, v, d)}
           L == {e \in D : e[1] < t}
           M == {e \in D : e[1] <= t}
<1>1. R \subseteq D /\ L \subseteq D /\ M \subseteq D
  OBVIOUS
<1>2. \A e \in D : e[1] \in Nat /\ e[2] \in Nat
  OBVIOUS
<1>3. Cardinality(R) \in Nat
  BY <1>1, Fewer
<1>4. ASSUME t <= v PROVE Cardinality(L) <= Cardinality(R)
  <2>1. L \subseteq R
    BY <1>2, <1>4 DEF Precedes
  <2> QED
    BY <1>1, <2>1, Fewer
<1>5. ASSUME v <= t PROVE Cardinality(R) <= Cardinality(M)
  <2>1. R \subseteq M
    BY <1>2, <1>5 DEF Precedes
  <2> QED
    BY <1>1, <2>1, Fewer
<1>6. ASSUME t < v PROVE Cardinality(M) <= Cardinality(R)
  <2>1. M \subseteq R
    BY <1>2, <1>6 DEF Precedes
  <2> QED
    BY <1>1, <2>1, Fewer
<1>7. <<v, d>> \notin R
  BY DEF Precedes
<1>8. ASSUME <<v, d>> \in D, v <= t PROVE Cardinality(R) < Cardinality(M)
  <2>1. R \subseteq M /\ R # M
    BY <1>2, <1>7, <1>8 DEF Precedes
  <2> QED
    BY <1>1, <2>1, Fewer
<1>9. ASSUME <<v, d>> \in D, v < t PROVE Cardinality(R) < Cardinality(L)
  <2>1. R \subseteq L /\ R # L
    BY <1>2, <1>7, <1>9 DEF Precedes
  <2> QED
    BY <1>1, <2>1, Fewer
<1>10. ASSUME <<v, d>> \in D PROVE Cardinality(R) < Cardinality(D)
  BY <1>1, <1>7, <1>10, Fewer
<1> QED
  BY <1>3, <1>4, <1>5, <1>6, <1>8, <1>9, <1>10
     DEF Rank, RankOfScore, CountAtMost

\* The counts against each other.
LEMMA CountBounds ==
  ASSUME NEW D, IsFiniteSet(D), D \subseteq Nat \X Nat,
         NEW lo \in Nat, NEW hi \in Nat
  PROVE  /\ CountAtMost(D, hi) <= Cardinality(D)
         /\ lo <= hi => RankOfScore(D, lo) <= CountAtMost(D, hi)
         /\ hi < lo => CountAtMost(D, hi) <= RankOfScore(D, lo)
<1> DEFINE L == {e \in D : e[1] < lo}
           M == {e \in D : e[1] <= hi}
<1>1. L \subseteq D /\ M \subseteq D
  OBVIOUS
<1>2. \A e \in D : e[1] \in Nat
  OBVIOUS
<1>3. Cardinality(M) <= Cardinality(D)
  BY <1>1, Fewer
<1>4. ASSUME lo <= hi PROVE Cardinality(L) <= Cardinality(M)
  <2>1. L \subseteq M
    BY <1>2, <1>4
  <2> QED
    BY <1>1, <2>1, Fewer
<1>5. ASSUME hi < lo PROVE Cardinality(M) <= Cardinality(L)
  <2>1. M \subseteq L
    BY <1>2, <1>5
  <2> QED
    BY <1>1, <2>1, Fewer
<1> QED
  BY <1>3, <1>4, <1>5 DEF RankOfScore, CountAtMost

\* Entries have different ranks.
LEMMA RankInjective ==
  ASSUME NEW D, IsFiniteSet(D), D \subseteq Nat \X Nat,
         NEW e \in D, NEW f \in D, Rank(D, e[1], e[2]) = Rank(D, f[1], f[2])
  PROVE  e = f
<1>1. ASSUME NEW g \in D, NEW h \in D, Precedes(g, h[1], h[2])
      PROVE  Rank(D, g[1], g[2]) < Rank(D, h[1], h[2])
  <2> DEFINE R(x) == {y \in D : Precedes(y, x[1], x[2])}
  <2>1. \A y \in D : y[1] \in Nat /\ y[2] \in Nat
    OBVIOUS
  <2>2. R(g) \subseteq R(h)
    BY <1>1, <2>1 DEF Precedes
  <2>3. g \in R(h) /\ g \notin R(g)
    BY <1>1, <2>1 DEF Precedes
  <2>4. R(h) \subseteq D
    OBVIOUS
  <2>5. Cardinality(R(g)) < Cardinality(R(h))
    <3> HIDE DEF R
    <3> QED
      BY <2>2, <2>3, <2>4, Fewer
  <2> QED
    BY <2>5 DEF Rank
<1>2. e \in Nat \X Nat /\ f \in Nat \X Nat
  OBVIOUS
<1>3. Rank(D, e[1], e[2]) \in Nat
  BY <1>2, RankBounds
<1>4. ~Precedes(e, f[1], f[2]) /\ ~Precedes(f, e[1], e[2])
  BY <1>1, <1>3
<1> QED
  BY <1>2, <1>4 DEF Precedes

\* Every rank below the size of the index is the rank of an entry: the ranks
\* map the entries one-to-one into as many numbers.
LEMMA RankOnto ==
  ASSUME NEW D, IsFiniteSet(D), D \subseteq Nat \X Nat,
         NEW r \in Nat, r < Cardinality(D)
  PROVE  AtRank(D, r) # {}
<1> DEFINE n == Cardinality(D)
           T == 0 .. n - 1
           f == [e \in D |-> Rank(D, e[1], e[2])]
<1>1. n \in Nat
  BY FS_CardinalityType
<1>2. IsFiniteSet(T) /\ Cardinality(T) = n
  <2>1. 0 \in Int /\ n - 1 \in Int
    BY <1>1
  <2>2. /\ IsFiniteSet(0 .. n - 1)
        /\ Cardinality(0 .. n - 1) = IF 0 > n - 1 THEN 0 ELSE n - 1 - 0 + 1
    <3> HIDE DEF n
    <3> QED
      BY <2>1, FS_Interval
  <2> QED
    BY <1>1, <2>2
<1>3. f \in [D -> T]
  <2>1. ASSUME NEW e \in D
        PROVE  Rank(D, e[1], e[2]) \in Nat /\ Rank(D, e[1], e[2]) < n
    <3>1. e[1] \in Nat /\ e[2] \in Nat /\ <<e[1], e[2]>> \in D
      <4>1. e \in Nat \X Nat
        OBVIOUS
      <4> QED
        BY <4>1
    <3> QED
      BY <3>1, RankBounds
  <2> QED
    BY <1>1, <2>1
<1>4. \A a, b \in D : f[a] = f[b] => a = b
  BY RankInjective
<1> HIDE DEF f, T, n
<1>5. f \in Injection(D, T)
  BY <1>3, <1>4, Fun_IsInj
<1>6. f \in Surjection(D, T)
  BY <1>2, <1>5, FS_Injection DEF n
<1>7. \A t \in T : \E e \in D : f[e] = t
  BY <1>6, Fun_SurjectionProperties
<1>8. PICK e \in D : f[e] = r
  BY <1>1, <1>7 DEF T, n
<1> QED
  BY <1>8 DEF f, AtRank

-----------------------------------------------------------------------------
(* How one entry changes the windows.                                       *)

\* An entry moves the ranks of the positions after it by one.
LEMMA RankAdd ==
  ASSUME NEW D, IsFiniteSet(D), NEW v, NEW d, <<v, d>> \notin D, NEW w, NEW x
  PROVE  Rank(AddEntry(D, v, d), w, x) =
           IF Precedes(<<v, d>>, w, x) THEN Rank(D, w, x) + 1 ELSE Rank(D, w, x)
<1> DEFINE L == {e \in D : Precedes(e, w, x)}
           M == {e \in D \cup {<<v, d>>} : Precedes(e, w, x)}
<1>1. IsFiniteSet(L)
  <2>1. L \subseteq D
    OBVIOUS
  <2> QED
    BY <2>1, FS_Subset
<1>2. CASE Precedes(<<v, d>>, w, x)
  <2>1. M = L \cup {<<v, d>>} /\ <<v, d>> \notin L
    BY <1>2
  <2>2. Cardinality(M) = Cardinality(L) + 1
    BY <1>1, <2>1, FS_AddElement
  <2> QED
    BY <1>2, <2>2 DEF Rank, AddEntry
<1>3. CASE ~Precedes(<<v, d>>, w, x)
  <2>1. M = L
    BY <1>3
  <2> QED
    BY <1>3, <2>1 DEF Rank, AddEntry
<1> QED
  BY <1>2, <1>3

\* Of an entry and a position that is not its own, the earlier has the lower
\* rank.
LEMMA RankOrder ==
  ASSUME NEW D, IsFiniteSet(D), D \subseteq Nat \X Nat, NEW e \in D,
         NEW v \in Nat, NEW d \in Nat, e # <<v, d>>
  PROVE  /\ Rank(D, e[1], e[2]) \in Nat /\ Rank(D, v, d) \in Nat
         /\ Precedes(<<v, d>>, e[1], e[2]) => Rank(D, v, d) <= Rank(D, e[1], e[2])
         /\ ~Precedes(<<v, d>>, e[1], e[2]) => Rank(D, e[1], e[2]) < Rank(D, v, d)
<1> DEFINE A == {f \in D : Precedes(f, e[1], e[2])}
           B == {f \in D : Precedes(f, v, d)}
<1>1. /\ e = <<e[1], e[2]>> /\ e[1] \in Nat /\ e[2] \in Nat
      /\ \A f \in D : f[1] \in Nat /\ f[2] \in Nat
  <2>1. e \in Nat \X Nat
    OBVIOUS
  <2> QED
    BY <2>1
<1>2. A \subseteq D /\ B \subseteq D
  OBVIOUS
<1>3. Cardinality(A) \in Nat /\ Cardinality(B) \in Nat
  <2> HIDE DEF A, B
  <2> QED
    BY <1>2, Fewer
<1>4. ASSUME Precedes(<<v, d>>, e[1], e[2])
      PROVE  Cardinality(B) <= Cardinality(A)
  <2>1. B \subseteq A
    BY <1>1, <1>4 DEF Precedes
  <2> HIDE DEF A, B
  <2> QED
    BY <1>2, <2>1, Fewer
<1>5. ASSUME ~Precedes(<<v, d>>, e[1], e[2])
      PROVE  Cardinality(A) < Cardinality(B)
  <2>1. e[1] < v \/ (e[1] = v /\ e[2] < d)
    BY <1>1, <1>5 DEF Precedes
  <2>2. A \subseteq B /\ e \in B /\ e \notin A
    BY <1>1, <2>1 DEF Precedes
  <2> HIDE DEF A, B
  <2> QED
    BY <1>2, <2>2, Fewer
<1> QED
  BY <1>3, <1>4, <1>5 DEF Rank

\* What a new entry does to a window: it is shown when it is among the first k
\* from the start of the range; then it displaces the entry that was the k-th,
\* the one just after the window now; and nothing else changes.
LEMMA WindowAdd ==
  ASSUME NEW D, IsFiniteSet(D), D \subseteq Nat \X Nat,
         NEW v \in Nat, NEW d \in Nat, <<v, d>> \notin D,
         NEW lo \in Nat, NEW hi \in Nat, NEW k \in Nat,
         NEW E, E = AddEntry(D, v, d)
  PROVE  LET W == CollectRange(D, lo, hi, k)
             X == CollectRange(E, lo, hi, k)
             n == RankOfScore(D, lo)
             shown == /\ lo <= v /\ v <= hi
                      /\ Rank(D, v, d) < n + k
         IN  /\ <<v, d>> \in X <=> shown
             /\ \A e \in X : e # <<v, d>> => e \in W
             /\ ~shown => \A e \in W : e \in X
             /\ shown => \A e :
                  /\ e \in W /\ e \notin X
                       <=> e \in AtRank(D, n + k - 1) /\ e[1] <= hi
                  /\ e \in W /\ e \notin X
                       <=> e \in AtRank(E, RankOfScore(E, lo) + k) /\ e[1] <= hi
             /\ shown => RankOfScore(E, lo) = n
<1> DEFINE W == CollectRange(D, lo, hi, k)
           X == CollectRange(E, lo, hi, k)
           n == RankOfScore(D, lo)
           p == RankOfScore(E, lo)
           r == Rank(D, v, d)
           shown == /\ lo <= v /\ v <= hi
                    /\ r < n + k
<1>1. /\ n \in Nat /\ r \in Nat /\ p = (IF v < lo THEN n + 1 ELSE n)
      /\ lo <= v => n <= r
  BY RankOfScoreType, RankOfScoreAdd, RankBounds
<1>2. E = D \cup {<<v, d>>} /\ IsFiniteSet(E) /\ E \subseteq Nat \X Nat
  <2>1. E = D \cup {<<v, d>>} /\ E \subseteq Nat \X Nat
    BY DEF AddEntry
  <2>2. IsFiniteSet(D \cup {<<v, d>>})
    BY FS_AddElement
  <2> QED
    BY <2>1, <2>2
<1>3. Rank(E, v, d) = r
  <2>1. ~Precedes(<<v, d>>, v, d)
    BY DEF Precedes
  <2> QED
    BY <2>1, RankAdd
<1>4. ASSUME NEW e \in D
      PROVE  /\ e[1] \in Nat /\ e[2] \in Nat /\ e # <<v, d>> /\ e \in E
             /\ e = <<e[1], e[2]>>
             /\ Rank(D, e[1], e[2]) \in Nat
             /\ e[1] < lo => Rank(D, e[1], e[2]) < n
             /\ Rank(E, e[1], e[2]) = IF Precedes(<<v, d>>, e[1], e[2])
                                        THEN Rank(D, e[1], e[2]) + 1
                                        ELSE Rank(D, e[1], e[2])
             /\ v < e[1] => Precedes(<<v, d>>, e[1], e[2])
             /\ e[1] < v => ~Precedes(<<v, d>>, e[1], e[2])
             /\ Precedes(<<v, d>>, e[1], e[2]) => r <= Rank(D, e[1], e[2])
             /\ ~Precedes(<<v, d>>, e[1], e[2]) => Rank(D, e[1], e[2]) < r
  <2>1. e \in Nat \X Nat
    OBVIOUS
  <2>2. e[1] \in Nat /\ e[2] \in Nat /\ e # <<v, d>> /\ e \in E /\ e = <<e[1], e[2]>>
    BY <1>2, <2>1
  <2>3. Rank(D, e[1], e[2]) \in Nat /\ (e[1] < lo => Rank(D, e[1], e[2]) < n)
    BY <2>2, RankBounds
  <2>4. /\ v < e[1] => Precedes(<<v, d>>, e[1], e[2])
        /\ e[1] < v => ~Precedes(<<v, d>>, e[1], e[2])
    BY <2>2 DEF Precedes
  <2> QED
    BY <2>2, <2>3, <2>4, RankAdd, RankOrder
<1>5. /\ \A e \in D : e \in W <=> lo <= e[1] /\ e[1] <= hi /\ Rank(D, e[1], e[2]) - n < k
      /\ \A e \in E : e \in X <=> lo <= e[1] /\ e[1] <= hi /\ Rank(E, e[1], e[2]) - p < k
      /\ \A e : (e \in W => e \in D) /\ (e \in X => e \in E)
      /\ \A e, i : /\ e \in AtRank(D, i) <=> e \in D /\ Rank(D, e[1], e[2]) = i
                   /\ e \in AtRank(E, i) <=> e \in E /\ Rank(E, e[1], e[2]) = i
  BY DEF CollectRange, AtRank
<1>6. \A e : e \in E <=> (e \in D \/ e = <<v, d>>)
  BY <1>2
<1> HIDE DEF W, X, n, p, r
<1>7. <<v, d>> \in X <=> shown
  BY <1>1, <1>3, <1>5, <1>6
<1>8. \A e \in X : e # <<v, d>> => e \in W
  <2> SUFFICES ASSUME NEW e \in X, e # <<v, d>>
               PROVE  e \in W
    OBVIOUS
  <2>1. e \in D
    BY <1>5, <1>6
  <2>2. lo <= e[1] /\ e[1] <= hi /\ Rank(E, e[1], e[2]) - p < k
    BY <1>5, <1>6, <2>1
  <2>3. Rank(D, e[1], e[2]) - n < k
    BY <1>1, <1>4, <2>1, <2>2
  <2> QED
    BY <1>5, <2>1, <2>2, <2>3
<1>9. ASSUME ~shown, NEW e \in W
      PROVE  e \in X
  <2>1. e \in D /\ e \in E /\ lo <= e[1] /\ e[1] <= hi /\ Rank(D, e[1], e[2]) - n < k
    BY <1>5, <1>6
  <2>2. Rank(E, e[1], e[2]) - p < k
    BY <1>1, <1>4, <1>9, <2>1
  <2> QED
    BY <1>5, <2>1, <2>2
<1>10. ASSUME shown
       PROVE  p = n
  BY <1>1, <1>10
<1>11. ASSUME shown, NEW e
       PROVE  /\ e \in W /\ e \notin X <=> e \in AtRank(D, n + k - 1) /\ e[1] <= hi
              /\ e \in W /\ e \notin X <=> e \in AtRank(E, p + k) /\ e[1] <= hi
  <2>1. CASE e \notin E
    BY <1>5, <1>6, <2>1
  <2>2. CASE e = <<v, d>>
    <3>1. e \notin D /\ e \in E /\ e[1] = v /\ Rank(E, e[1], e[2]) = r
      BY <1>3, <1>6, <2>2
    <3>2. e \in X
      BY <1>7, <1>11, <2>2
    <3>3. r # p + k
      BY <1>1, <1>10, <1>11
    <3> QED
      BY <1>5, <3>1, <3>2, <3>3
  <2>3. CASE e \in D
    <3> DEFINE i == Rank(D, e[1], e[2])
               j == Rank(E, e[1], e[2])
               before == Precedes(<<v, d>>, e[1], e[2])
    <3>1. /\ e[1] \in Nat /\ i \in Nat /\ (e[1] < lo => i < n)
          /\ j = (IF before THEN i + 1 ELSE i)
          /\ (before => r <= i) /\ (~before => i < r)
      BY <1>4, <2>3
    <3>2. /\ e \in W <=> lo <= e[1] /\ e[1] <= hi /\ i - n < k
          /\ e \in X <=> lo <= e[1] /\ e[1] <= hi /\ j - p < k
          /\ e \in AtRank(D, n + k - 1) <=> i = n + k - 1
          /\ e \in AtRank(E, p + k) <=> j = p + k
      BY <1>5, <1>6, <2>3
    <3> HIDE DEF i, j, before
    <3> QED
      BY <1>1, <1>10, <1>11, <3>1, <3>2
  <2> QED
    BY <1>6, <2>1, <2>2, <2>3
<1> QED
  BY <1>7, <1>8, <1>9, <1>10, <1>11 DEF W, X, n, p, r

\* A document that goes to a higher score goes to a higher rank.
LEMMA RankGrows ==
  ASSUME NEW D, IsFiniteSet(D), D \subseteq Nat \X Nat,
         NEW v \in Nat, NEW w \in Nat, NEW d \in Nat, v <= w
  PROVE  Rank(D, v, d) <= Rank(D, w, d)
<1> DEFINE A == {e \in D : Precedes(e, v, d)}
           B == {e \in D : Precedes(e, w, d)}
<1>1. \A e \in D : e[1] \in Nat
  OBVIOUS
<1>2. A \subseteq B /\ B \subseteq D
  BY <1>1 DEF Precedes
<1> QED
  BY <1>2, Fewer DEF Rank

\* An entry that is beyond a bound, or after a rank, does not change which
\* entry within the bound has that rank.
LEMMA AtRankBefore ==
  ASSUME NEW D, IsFiniteSet(D), D \subseteq Nat \X Nat,
         NEW v \in Nat, NEW d \in Nat, <<v, d>> \notin D,
         NEW hi \in Nat, NEW r \in Nat,
         ~(v <= hi) \/ r < Rank(D, v, d),
         NEW E, E = AddEntry(D, v, d)
  PROVE  {f \in AtRank(E, r) : f[1] <= hi} = {f \in AtRank(D, r) : f[1] <= hi}
<1>1. \A f : f \in E <=> (f \in D \/ f = <<v, d>>)
  BY DEF AddEntry
<1>2. ~Precedes(<<v, d>>, v, d)
  BY DEF Precedes
<1>3. Rank(E, v, d) = Rank(D, v, d) /\ Rank(D, v, d) \in Nat
  BY <1>2, RankAdd, RankBounds
<1>4. ASSUME NEW f \in D, f[1] <= hi
      PROVE  Rank(E, f[1], f[2]) = r <=> Rank(D, f[1], f[2]) = r
  <2>1. f \in Nat \X Nat /\ f # <<v, d>>
    OBVIOUS
  <2>2. Rank(D, f[1], f[2]) \in Nat /\ f[1] \in Nat
    BY <2>1, RankBounds
  <2>3. Rank(E, f[1], f[2]) = IF Precedes(<<v, d>>, f[1], f[2])
                                THEN Rank(D, f[1], f[2]) + 1
                                ELSE Rank(D, f[1], f[2])
    BY RankAdd
  <2>4. Precedes(<<v, d>>, f[1], f[2]) => v <= hi /\ Rank(D, v, d) <= Rank(D, f[1], f[2])
    BY <1>4, <2>1, <2>2, RankOrder DEF Precedes
  <2> QED
    BY <1>3, <2>2, <2>3, <2>4
<1>5. <<v, d>>[1] = v /\ <<v, d>>[2] = d
  OBVIOUS
<1>6. ASSUME NEW f, f[1] <= hi
      PROVE  f \in AtRank(E, r) <=> f \in AtRank(D, r)
  <2>1. CASE f \in D
    BY <1>1, <1>4, <1>6, <2>1 DEF AtRank
  <2>2. CASE f = <<v, d>>
    <3>1. f \notin D
      BY <2>2
    <3>2. Rank(E, f[1], f[2]) # r
      BY <1>3, <1>5, <1>6, <2>2
    <3> QED
      BY <3>1, <3>2 DEF AtRank
  <2>3. CASE f \notin E
    BY <1>1, <2>3 DEF AtRank
  <2> QED
    BY <1>1, <2>1, <2>2, <2>3
<1> QED
  BY <1>6

==============================================================================
