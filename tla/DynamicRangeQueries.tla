------------------------- MODULE DynamicRangeQueries -------------------------
(***************************************************************************)
(* The class DynamicRangeQueries (limit-index/LimitQueries.ts): documents   *)
(* by score, and top-k range queries "the first k documents with score in   *)
(* [a, max]".  It is synchronous and driven by limitStream.ts alone, so its *)
(* methods are operators from a state to a state; LimitStream.tla holds the *)
(* instance.  A state is a record with                                      *)
(*   docs     the document index (DocsIndex.tla)                            *)
(*   eff      the query index: the effective score of each stored query,    *)
(*            meant to be rank(a) + k, so that q covers a document exactly  *)
(*            when the document's rank is below eff[q]                      *)
(*   queries  idToQuery, from the ids of live queries to [a, k, max,        *)
(*            currentMatches]                                               *)
(*   nextId   the id the next query gets                                    *)
(* The lazy additions by which the query treap keeps eff are QueriesTreap.  *)
(***************************************************************************)
EXTENDS DocsIndex

CONSTANTS Docs,        \* document ids, ordered as the bigints they are
          Scores,      \* scores a document or a bound may have
          Specs,       \* the query specs upstream may add: [a, k, max]
          MaxQueries   \* bound: queries added during a run

ASSUME DocsAssumption == Docs \subseteq Nat
ASSUME ScoresAssumption == Scores \subseteq Nat
ASSUME SpecsAssumption == Specs \subseteq [a : Scores, k : Nat, max : Scores]
ASSUME MaxQueriesAssumption == MaxQueries \in Nat

QueryIds  == 1 .. MaxQueries
QueryInfo == [a : Scores, k : Nat, max : Scores, currentMatches : Nat]

EmptyIndex == [docs |-> {}, eff |-> << >>, queries |-> << >>, nextId |-> 1]

Smaller(m, n) == IF m < n THEN m ELSE n

\* countDocsInRange(min, max), never negative even when max < min.
CountDocsInRange(docs, lo, hi) ==
  LET diff == CountAtMost(docs, hi) - RankOfScore(docs, lo)
  IN  IF diff < 0 THEN 0 ELSE diff

\* The query covers v through the treap (key <= v, score above the cutoff)
\* and through idToQuery (max >= v): collectQueriesForValue.
Covering(s, v, d) ==
  {q \in DOMAIN s.queries : /\ s.queries[q].a <= v
                            /\ s.eff[q] > Rank(s.docs, v, d)
                            /\ s.queries[q].max >= v}

\* Mutant of CoveringButNot: the excluded cutoff is taken with its own rank.
CoveringButNotInclusive(s, in, out, d) ==
  {q \in Covering(s, in, d) : ~ /\ s.eff[q] >= Rank(s.docs, out, d)
                                /\ s.queries[q].max >= out}

\* collectQueriesForDifference: the traversal visits the queries that cover
\* the value `in`, and leaves out those above the cutoff of `out` with
\* max >= out.  Unlike `in`, the value `out` is not compared with the key.
CoveringButNot(s, in, out, d) ==
  {q \in Covering(s, in, d) : ~ /\ s.eff[q] > Rank(s.docs, out, d)
                                /\ s.queries[q].max >= out}

\* Mutant of RangeAdd: the key t itself is included.
RangeAddFromKey(s, t, delta) ==
  [q \in DOMAIN s.eff |->
     IF s.queries[q].a >= t THEN s.eff[q] + delta ELSE s.eff[q]]

\* rangeAddKeysGreaterThan(t, delta).
RangeAdd(s, t, delta) ==
  [q \in DOMAIN s.eff |->
     IF s.queries[q].a > t THEN s.eff[q] + delta ELSE s.eff[q]]

\* currentMatches += delta on the queries of S.
Recount(queries, S, delta) ==
  [q \in DOMAIN queries |->
     IF q \in S
       THEN [queries[q] EXCEPT !.currentMatches = @ + delta]
       ELSE queries[q]]

IsFull(s, q) == s.queries[q].currentMatches >= s.queries[q].k

\* addDocument(value, id).  The covering queries are collected before the
\* document enters the index; those already full do not count it.
BlockedNever(s, v, d) == {}              \* mutant of Blocked
Blocked(s, v, d) == {q \in Covering(s, v, d) : IsFull(s, q)}

AddDocument(s, v, d) ==
  [docs    |-> AddEntry(s.docs, v, d),
   eff     |-> RangeAdd(s, v, 1),
   queries |-> Recount(s.queries, Covering(s, v, d) \ Blocked(s, v, d), 1),
   nextId  |-> s.nextId]

\* The order in which the query treap is traversed, and so in which a method or
\* a handler treats the queries it collects: by start, effective score and id.
Earlier(s, p, q) ==
  LET P == s.queries[p]  Q == s.queries[q]
  IN  \/ P.a < Q.a
      \/ P.a = Q.a /\ s.eff[p] < s.eff[q]
      \/ P.a = Q.a /\ s.eff[p] = s.eff[q] /\ p < q

\* removeDocument(value, id) throws on a covering query that counts no match.
CannotRemove(s, v, d) ==
  \E q \in Covering(s, v, d) : s.queries[q].currentMatches <= 0

\* The covering queries it counts down: all of them, or those before the first
\* that counts no match.
CountedDown(s, v, d) ==
  {q \in Covering(s, v, d) : \A p \in Covering(s, v, d) :
     s.queries[p].currentMatches <= 0 => Earlier(s, q, p)}

RemoveDocument(s, v, d) ==
  [docs    |-> RemoveEntry(s.docs, v, d),
   eff     |-> RangeAdd(s, v, -1),
   queries |-> Recount(s.queries, CountedDown(s, v, d), -1),
   nextId  |-> s.nextId]

\* addQuery(a, k, max).
AddQuery(s, spec) ==
  LET matches == Smaller(CountDocsInRange(s.docs, spec.a, spec.max), spec.k)
      info    == [a |-> spec.a, k |-> spec.k, max |-> spec.max,
                  currentMatches |-> matches]
      ids     == DOMAIN s.queries \cup {s.nextId}
  IN  [docs    |-> s.docs,
       eff     |-> [q \in ids |-> IF q = s.nextId
                                    THEN RankOfScore(s.docs, spec.a) + spec.k
                                    ELSE s.eff[q]],
       queries |-> [q \in ids |-> IF q = s.nextId THEN info
                                                  ELSE s.queries[q]],
       nextId  |-> s.nextId + 1]

\* Mutant of RemoveQuery: the query stays in the query index.
RemoveQueryKeepsScore(s, id) ==
  [s EXCEPT !.queries = [q \in DOMAIN s.queries \ {id} |-> s.queries[q]]]

\* removeQuery(id).
RemoveQuery(s, id) ==
  LET ids == DOMAIN s.queries \ {id}
  IN  [docs    |-> s.docs,
       eff     |-> [q \in ids |-> s.eff[q]],
       queries |-> [q \in ids |-> s.queries[q]],
       nextId  |-> s.nextId]

\* seedDocuments(entries): only the document index changes.
SeedDocuments(s, entries) ==
  [docs |-> s.docs \cup entries, eff |-> s.eff, queries |-> s.queries,
   nextId |-> s.nextId]

\* getDocsForQuery(id).
DocsForQuery(s, q) ==
  CollectRange(s.docs, s.queries[q].a, s.queries[q].max, s.queries[q].k)

\* docForQueryAt(info, offset), the empty set for null.
DocForQueryAt(s, q, offset) ==
  {e \in AtRank(s.docs, RankOfScore(s.docs, s.queries[q].a) + offset) :
     e[1] <= s.queries[q].max}

\* A DocId is a bigint and is tested by its truth value: 0n counts as absent.
Truthy(ids) == ids \ {0}

\* The document fillGap(id) returns, the empty set for null.
Replacement(s, q) ==
  IF IsFull(s, q) THEN {}
  ELSE Truthy({e[2] : e \in DocForQueryAt(s, q, s.queries[q].currentMatches)})

FillGapsUncounted(s, S) == s               \* mutant of FillGaps

\* fillGap on each of the queries of S: a replacement is counted as a match.
FillGaps(s, S) ==
  [docs    |-> s.docs,
   eff     |-> s.eff,
   queries |-> Recount(s.queries, {q \in S : Replacement(s, q) # {}}, 1),
   nextId  |-> s.nextId]

\* Mutant of OverflowDoc: the last document of the window.
OverflowDocAtLast(s, q) ==
  IF IsFull(s, q)
    THEN {e[2] : e \in DocForQueryAt(s, q, s.queries[q].k - 1)}
    ELSE {}

\* pickOverflowDoc(id), the empty set for null: the document just after the
\* k documents of a full query.
OverflowDoc(s, q) ==
  IF IsFull(s, q)
    THEN {e[2] : e \in DocForQueryAt(s, q, s.queries[q].k)}
    ELSE {}

-----------------------------------------------------------------------------
(* What makes a state correct.                                              *)

\* A document is indexed under one score at a time.
OneEntryPerDoc(D) == \A e, f \in D : e[2] = f[2] => e = f

\* A document has one entry, and the two halves of the index know the same
\* queries, with ids below nextId.
IsState(s) ==
  /\ s = [docs |-> s.docs, eff |-> s.eff, queries |-> s.queries,
          nextId |-> s.nextId]
  /\ s.docs \subseteq Scores \X Docs /\ IsFiniteSet(s.docs)
  /\ OneEntryPerDoc(s.docs)
  /\ s.nextId \in 1 .. MaxQueries + 1
  /\ DOMAIN s.queries \subseteq 1 .. s.nextId - 1
  /\ s.queries \in [DOMAIN s.queries -> QueryInfo]
  /\ s.eff \in [DOMAIN s.queries -> Int]

\* The effective score of a query is the one addQuery would compute now.
EffExactIn(s) ==
  \A q \in DOMAIN s.queries :
    s.eff[q] = RankOfScore(s.docs, s.queries[q].a) + s.queries[q].k

\* currentMatches is the number of documents in the window.
MatchesExactIn(s) ==
  \A q \in DOMAIN s.queries :
    s.queries[q].currentMatches =
      Smaller(CountDocsInRange(s.docs, s.queries[q].a, s.queries[q].max),
              s.queries[q].k)

==============================================================================
