------------------------------ MODULE DocsIndex ------------------------------
(***************************************************************************)
(* What the document index of thunderdb-ts promises: an order-statistic     *)
(* index over the pairs <<score, id>>, ordered by score and then by id      *)
(* (docs-index.treap.ts keeps one node per score, with a sorted list of     *)
(* ids).  The index is the finite set of the pairs it holds; every          *)
(* operation below is a method of DocsTreap on that set.                    *)
(***************************************************************************)
EXTENDS Integers, FiniteSets

\* Entry e comes before the position of document d at score v.
Precedes(e, v, d) == e[1] < v \/ (e[1] = v /\ e[2] < d)

\* rank(score, id): the number of entries before <<v, d>>, whether or not
\* that pair is in the index.
Rank(docs, v, d) == Cardinality({e \in docs : Precedes(e, v, d)})

\* rank(score, null): the number of entries with a strictly smaller score.
RankOfScore(docs, v) == Cardinality({e \in docs : e[1] < v})

\* countAtMost(score).
CountAtMost(docs, v) == Cardinality({e \in docs : e[1] <= v})

\* getAtRank(rank): the entry at that position, the empty set for null.
AtRank(docs, r) == {e \in docs : Rank(docs, e[1], e[2]) = r}

\* collectRange(min, max, limit): the first k entries of the range.
CollectRange(docs, lo, hi, k) ==
  {e \in docs : /\ lo <= e[1] /\ e[1] <= hi
                /\ Rank(docs, e[1], e[2]) - RankOfScore(docs, lo) < k}

\* add(score, id) and remove(score, id).
AddEntry(docs, v, d)    == docs \cup {<<v, d>>}
RemoveEntry(docs, v, d) == docs \ {<<v, d>>}

==============================================================================
