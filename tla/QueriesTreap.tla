----------------------------- MODULE QueriesTreap -----------------------------
(***************************************************************************)
(* The query index (queries-index/queries-index.treap.ts) as the class      *)
(* DynamicRangeQueries uses it.  A treap has one node per start `a` of a    *)
(* query.  Changing the effective score of every query with a > t adds a    *)
(* delta to one subtree, lazily: it is pushed down only by the operations   *)
(* that split, merge or rotate.  A node holds                               *)
(*   key, prio    the start, and the random priority                        *)
(*   add          the addition pending on the whole subtree                 *)
(*   localAdd     the addition applied to the items of this node            *)
(*   items        <<base, id, cap>>: the queries that start here, with their*)
(*                base score and their upper bound                          *)
(*   top, capTop  the cached subtreeMax and subtreeMaxCap                   *)
(*   l, r         the subtrees                                              *)
(* DynamicRangeQueries.tla uses what is checked and proved here, a map from *)
(* queries to effective scores.  The recursive methods are functions on the *)
(* set Tree.                                                                *)
(***************************************************************************)
EXTENDS Integers, FiniteSets

CONSTANTS Scores,      \* starts, bounds and document scores
          Specs,       \* the queries that may be added: [a, k, max]
          Prios,       \* priorities: at least as many as scores
          MaxQueries,  \* bound: queries added during a run
          MaxDocs      \* bound: documents of one score

ASSUME ScoresAssumption == Scores \subseteq Nat /\ IsFiniteSet(Scores)
ASSUME SpecsAssumption == Specs \subseteq [a : Scores, k : Nat, max : Scores]
ASSUME PriosAssumption ==
  Prios \subseteq Nat /\ Cardinality(Prios) >= Cardinality(Scores)
ASSUME BoundsAssumption == MaxQueries \in Nat /\ MaxDocs \in Nat

VARIABLES root,      \* the treap
          count,     \* how many documents have each score
          queries,   \* idToQuery: [a, k, max] of each live query
          base,      \* idToBaseScore
          nextId     \* the id of the next query

vars == <<root, count, queries, base, nextId>>

Nil == [nil |-> TRUE]

\* The nodes over a set S of subtrees, and the trees up to a height: that of
\* the merge of two treaps over Scores, the highest an operation builds.
NodesOver(S) ==
  [key : Scores, prio : Prios, add : Int, localAdd : Int,
   items : SUBSET (Int \X (1 .. MaxQueries) \X Scores),
   top : Int, capTop : Int, l : S, r : S]

MaxHeight == 2 * Cardinality(Scores)

TreesUpTo[h \in 0 .. MaxHeight] ==
  IF h = 0 THEN {Nil} ELSE {Nil} \cup NodesOver(TreesUpTo[h - 1])

Tree == TreesUpTo[MaxHeight]

Highest(S) == CHOOSE x \in S : \A y \in S : y <= x

Children(n) == {n.l, n.r} \ {Nil}

\* Mutant of Pull: the cached maximum leaves localAdd out.
PullWithoutLocalAdd(n) ==
  [n EXCEPT
     !.top    = n.add + Highest({i[1] : i \in n.items}
                                  \cup {c.top : c \in Children(n)}),
     !.capTop = Highest({i[3] : i \in n.items}
                          \cup {c.capTop : c \in Children(n)})]

\* pull, of a node that holds items.
Pull(n) ==
  [n EXCEPT
     !.top    = n.add + Highest({i[1] + n.localAdd : i \in n.items}
                                  \cup {c.top : c \in Children(n)}),
     !.capTop = Highest({i[3] : i \in n.items}
                          \cup {c.capTop : c \in Children(n)})]

\* Add delta to a whole subtree, lazily.
AddToSubtree(n, delta) ==
  IF n = Nil THEN n
  ELSE [n EXCEPT !.add = @ + delta, !.top = @ + delta]

\* Mutant of Push: the node's own items miss the addition.
PushToChildren(n) ==
  [n EXCEPT !.l = AddToSubtree(@, n.add), !.r = AddToSubtree(@, n.add), !.add = 0]

Push(n) ==
  [n EXCEPT !.l = AddToSubtree(@, n.add), !.r = AddToSubtree(@, n.add),
            !.localAdd = @ + n.add, !.add = 0]

\* rotateRight(p, l) and rotateLeft(p, r), where p is the root of the result's
\* lower node: the child comes up.
RotateRight(p) ==
  LET p1 == Push(p)
      l1 == Push(p1.l)
  IN  Pull([l1 EXCEPT !.r = Pull([p1 EXCEPT !.l = l1.r])])

RotateLeft(p) ==
  LET p1 == Push(p)
      r1 == Push(p1.r)
  IN  Pull([r1 EXCEPT !.l = Pull([p1 EXCEPT !.r = r1.l])])

Leaf(key, prio, item) ==
  Pull([key |-> key, prio |-> prio, add |-> 0, localAdd |-> 0,
        items |-> {item}, top |-> 0, capTop |-> 0, l |-> Nil, r |-> Nil])

\* _insert: nothing is pushed on the way down, the additions above are carried
\* in accAdd and taken off the effective score.
Insert(root0, a, id, effective, cap, prio) ==
  LET insert[n \in Tree] ==
        [accAdd \in Int |->
          IF n = Nil THEN Leaf(a, prio, <<effective - accAdd, id, cap>>)
          ELSE IF a = n.key
            THEN Pull([n EXCEPT !.items = @ \cup
                         {<<effective - accAdd - n.add - n.localAdd, id, cap>>}])
          ELSE IF a < n.key
            THEN LET m == [n EXCEPT !.l = insert[n.l][accAdd + n.add]]
                 IN  IF m.l.prio > m.prio THEN Pull(RotateRight(m)) ELSE Pull(m)
            ELSE LET m == [n EXCEPT !.r = insert[n.r][accAdd + n.add]]
                 IN  IF m.r.prio > m.prio THEN Pull(RotateLeft(m)) ELSE Pull(m)]
  IN  insert[root0][0]

\* Mutant of Merge: the root with the lower priority comes up.
MergeLowest(left, right) ==
  LET merge[p \in Tree \X Tree] ==
        LET x == Push(p[1])  y == Push(p[2])
        IN  IF p[1] = Nil THEN p[2]
            ELSE IF p[2] = Nil THEN p[1]
            ELSE IF x.prio < y.prio
              THEN Pull([x EXCEPT !.r = merge[<<x.r, y>>]])
              ELSE Pull([y EXCEPT !.l = merge[<<x, y.l>>]])
  IN  merge[<<left, right>>]

Merge(left, right) ==
  LET merge[p \in Tree \X Tree] ==
        LET x == Push(p[1])  y == Push(p[2])
        IN  IF p[1] = Nil THEN p[2]
            ELSE IF p[2] = Nil THEN p[1]
            ELSE IF x.prio > y.prio
              THEN Pull([x EXCEPT !.r = merge[<<x.r, y>>]])
              ELSE Pull([y EXCEPT !.l = merge[<<x, y.l>>]])
  IN  merge[<<left, right>>]

\* splitByKey: the keys up to t, and those above.
Split(root0, t) ==
  LET split[n \in Tree] ==
        IF n = Nil THEN <<Nil, Nil>>
        ELSE LET m == Push(n)
                 s == split[IF t < m.key THEN m.l ELSE m.r]
             IN  IF t < m.key THEN <<s[1], Pull([m EXCEPT !.l = s[2]])>>
                              ELSE <<Pull([m EXCEPT !.r = s[1]]), s[2]>>
  IN  split[root0]

RangeAddKeysGreaterThan(n, t, delta) ==
  LET s == Split(n, t)
  IN  Merge(s[1], AddToSubtree(s[2], delta))

\* _remove: the item must be found under its base score; a node left without
\* items is replaced by the merge of its subtrees.
Remove(root0, a, item) ==
  LET remove[n \in Tree] ==
        IF n = Nil THEN n
        ELSE LET m == Push(n)
                 u == IF a = m.key THEN [m EXCEPT !.items = @ \ {item}]
                      ELSE IF a < m.key THEN [m EXCEPT !.l = remove[m.l]]
                      ELSE [m EXCEPT !.r = remove[m.r]]
             IN  IF u.items = {} THEN Merge(u.l, u.r) ELSE Pull(u)
  IN  remove[root0]

\* The additions getBaseScoreAtKeyForValue (LimitQueries.ts) finds on the way
\* to a key: those pending on the nodes, not the localAdd of the last one.
AddAtKey(root0, a) ==
  LET walk[n \in Tree] ==
        IF n = Nil THEN 0
        ELSE n.add + (IF a = n.key THEN 0
                      ELSE IF a < n.key THEN walk[n.l] ELSE walk[n.r])
  IN  walk[root0]

\* _collectTraverse: the ids with key <= v and a score above the cutoff, where
\* the cached maxima allow whole subtrees to be left out.
Collect(root0, cutoff, v) ==
  LET collect[n \in Tree] ==
        [accAdd \in Int |->
          IF n = Nil THEN {}
          ELSE IF n.capTop < v \/ n.top + accAdd <= cutoff THEN {}
          ELSE LET below == accAdd + n.add
                   here  == {i[2] : i \in {j \in n.items :
                                      j[1] + below + n.localAdd > cutoff}}
               IN  collect[n.l][below]
                     \cup (IF n.key > v THEN {}
                           ELSE here \cup collect[n.r][below])]
  IN  collect[root0][0]

\* Mutant of LocalDifference: the excluded cutoff is itself excluded.
LocalDifferenceInclusive(n, here, inCut, exCut, ex) ==
  LET included  == {i \in n.items : i[1] + here > inCut}
  IN  {i[2] : i \in {j \in included : ~(j[1] + here >= exCut /\ j[3] >= ex)}}

\* visitLocalQueriesDifference: a node whose caps all reach the excluded value
\* leaves out every item above the excluded cutoff, one whose caps all fall
\* short leaves out none; between the two the caps are looked at one by one.
LocalDifference(n, here, inCut, exCut, ex) ==
  LET included  == {i \in n.items : i[1] + here > inCut}
      allOut    == \A i \in n.items : i[3] < ex
      allIn     == \A i \in n.items : i[3] >= ex
      between   == {i \in included : exCut >= inCut /\ i[1] + here <= exCut}
      kept      == {i \in included \ between : ~(i[1] + here > exCut /\ i[3] >= ex)}
  IN  {i[2] : i \in IF allOut THEN included
                    ELSE IF allIn THEN between ELSE between \cup kept}

\* _collectTraverseDifference
CollectDifference(root0, inCut, exCut, in, ex) ==
  LET collect[n \in Tree] ==
        [accAdd \in Int |->
          IF n = Nil THEN {}
          ELSE IF n.capTop < in \/ n.top + accAdd <= inCut THEN {}
          ELSE LET below == accAdd + n.add
                   here  == LocalDifference(n, below + n.localAdd, inCut, exCut, ex)
               IN  collect[n.l][below]
                     \cup (IF n.key > in THEN {}
                           ELSE here \cup collect[n.r][below])]
  IN  collect[root0][0]

\* The nodes of a treap.
Nodes(root0) ==
  LET nodes[n \in Tree] ==
        IF n = Nil THEN {} ELSE {n} \cup nodes[n.l] \cup nodes[n.r]
  IN  nodes[root0]

\* What a treap holds: each query with its start, its bound and the score its
\* base and all the additions above it come to.
Contents(root0) ==
  LET contents[n \in Tree] ==
        [accAdd \in Int |->
          IF n = Nil THEN {}
          ELSE LET below == accAdd + n.add
               IN  {[id |-> i[2], key |-> n.key, cap |-> i[3],
                     score |-> i[1] + below + n.localAdd] : i \in n.items}
                     \cup contents[n.l][below] \cup contents[n.r][below]]
  IN  contents[root0][0]

-----------------------------------------------------------------------------
(* The operations of DynamicRangeQueries that reach the treap.              *)

\* rank(v, null) of the document index.
RankOf(v) ==
  Cardinality({d \in Scores \X (1 .. MaxDocs) : d[1] < v /\ d[2] <= count[d[1]]})

AddDoc(v) ==
  /\ count[v] < MaxDocs
  /\ count' = [count EXCEPT ![v] = @ + 1]
  /\ root' = RangeAddKeysGreaterThan(root, v, 1)
  /\ UNCHANGED <<queries, base, nextId>>

RemoveDoc(v) ==
  /\ count[v] > 0
  /\ count' = [count EXCEPT ![v] = @ - 1]
  /\ root' = RangeAddKeysGreaterThan(root, v, -1)
  /\ UNCHANGED <<queries, base, nextId>>

\* addQuery: a new node gets a priority no other node has; the base score is
\* stored from a second walk down the treap, after the insertion.
AddQuery(spec, prio) ==
  LET effective == RankOf(spec.a) + spec.k
  IN  /\ nextId <= MaxQueries
      /\ \A n \in Nodes(root) : n.prio = prio <=> n.key = spec.a
      /\ root' = Insert(root, spec.a, nextId, effective, spec.max, prio)
      /\ base' = [q \in DOMAIN base \cup {nextId} |->
                    IF q = nextId THEN effective - AddAtKey(root', spec.a)
                                  ELSE base[q]]
      /\ queries' = [q \in DOMAIN queries \cup {nextId} |->
                       IF q = nextId THEN spec ELSE queries[q]]
      /\ nextId' = nextId + 1
      /\ UNCHANGED count

\* Mutant of RemoveQuery: idToBaseScore keeps the query.
RemoveQueryKeepsBase(q) ==
  /\ q \in DOMAIN queries
  /\ root' = Remove(root, queries[q].a, <<base[q], q, queries[q].max>>)
  /\ queries' = [p \in DOMAIN queries \ {q} |-> queries[p]]
  /\ UNCHANGED <<base, count, nextId>>

RemoveQuery(q) ==
  /\ q \in DOMAIN queries
  /\ root' = Remove(root, queries[q].a, <<base[q], q, queries[q].max>>)
  /\ base' = [p \in DOMAIN base \ {q} |-> base[p]]
  /\ queries' = [p \in DOMAIN queries \ {q} |-> queries[p]]
  /\ UNCHANGED <<count, nextId>>

Init ==
  /\ root = Nil
  /\ count = [v \in Scores |-> 0]
  /\ queries = << >> /\ base = << >> /\ nextId = 1

Next ==
  \/ \E v \in Scores : AddDoc(v)
  \/ \E v \in Scores : RemoveDoc(v)
  \/ \E spec \in Specs, prio \in Prios : AddQuery(spec, prio)
  \/ \E q \in 1 .. MaxQueries : RemoveQuery(q)

Spec == Init /\ [][Next]_vars

-----------------------------------------------------------------------------
(* Properties.                                                              *)

\* Type invariant of the class: a treap of queries given out so far, and the
\* same ids in the two maps.
TypeOK ==
  /\ count \in [Scores -> 0 .. MaxDocs]
  /\ nextId \in 1 .. MaxQueries + 1
  /\ DOMAIN base = DOMAIN queries /\ DOMAIN queries \subseteq 1 .. nextId - 1
  /\ root \in Tree
  /\ \A s \in Contents(root) : s.id \in 1 .. nextId - 1

\* The treap is a search tree by key and a heap by priority, after any
\* sequence of splits, merges and rotations (treap.ts:80-97, :480-509).
IsTreap ==
  \A n \in Nodes(root) :
    /\ \A m \in Nodes(n.l) : m.key < n.key /\ m.prio < n.prio
    /\ \A m \in Nodes(n.r) : m.key > n.key /\ m.prio < n.prio

\* Through every lazy addition, each live query is stored once, at its start
\* and under the effective score it should have: rank(a) + k, the score
\* DynamicRangeQueries.tla keeps (treap.ts:66-78, :163-200).
ScoresExact ==
  \A q \in DOMAIN queries :
    {s \in Contents(root) : s.id = q} =
      {[id |-> q, key |-> queries[q].a, cap |-> queries[q].max,
        score |-> RankOf(queries[q].a) + queries[q].k]}

\* The ranks a document of score v may have: the cutoffs of a traversal.
Cutoffs(v) == RankOf(v) .. RankOf(v) + count[v]

Above(cutoff, v) ==
  {q \in DOMAIN queries : /\ queries[q].a <= v /\ queries[q].max >= v
                          /\ RankOf(queries[q].a) + queries[q].k > cutoff}

\* The filters of LimitQueries.ts on what a traversal visits.
Allowed(ids, v) == {q \in ids \cap DOMAIN queries : queries[q].max >= v}

\* Whatever the cached maxima prune, a traversal finds every query that covers
\* the value, and no other (treap.ts:255-290, LimitQueries.ts:280-302).
CollectExact ==
  \A v \in Scores : \A cutoff \in Cutoffs(v) :
    Allowed(Collect(root, cutoff, v), v) = Above(cutoff, v)

\* The difference traversal finds the queries above the included cutoff, less
\* those above the excluded cutoff whose bound reaches the excluded value:
\* what CoveringButNot says in DynamicRangeQueries.tla (treap.ts:292-452).
DifferenceExact ==
  \A in \in Scores, ex \in Scores :
   \A inCut \in Cutoffs(in), exCut \in Cutoffs(ex) :
    Allowed(CollectDifference(root, inCut, exCut, in, ex), in) =
      {q \in Above(inCut, in) :
         ~(/\ RankOf(queries[q].a) + queries[q].k > exCut
           /\ queries[q].max >= ex)}

\* A removed query leaves the treap: LimitQueries.ts:24 keeps the "baseScore
\* stored at insertion for fast removal".
RemovedIsGone == \A s \in Contents(root) : s.id \in DOMAIN queries

==============================================================================
