-------------------------- MODULE LimitStreamProofs --------------------------
(***************************************************************************)
(* Theorems about LimitStream for every set of documents, scores and specs: *)
(* type correctness, the effective scores of the query index, its match     *)
(* counters, that the stream implements TopKQueries, and what the parties   *)
(* of LimitSystem may rely on.                                              *)
(***************************************************************************)
EXTENDS LimitStream, DocsIndexProofs

-----------------------------------------------------------------------------
(* The parts of a state the methods update.                                 *)

\* currentMatches += delta keeps the record of a query, and changes nothing
\* else in it.
LEMMA RecountKeepsInfo ==
  ASSUME NEW Q, Q \in [DOMAIN Q -> QueryInfo], NEW S, NEW delta \in Int,
         \A q \in DOMAIN Q : q \in S => Q[q].currentMatches + delta \in Nat
  PROVE  /\ Recount(Q, S, delta) \in [DOMAIN Q -> QueryInfo]
         /\ DOMAIN Recount(Q, S, delta) = DOMAIN Q
         /\ \A q \in DOMAIN Q : /\ Recount(Q, S, delta)[q].a = Q[q].a
                                /\ Recount(Q, S, delta)[q].k = Q[q].k
                                /\ Recount(Q, S, delta)[q].max = Q[q].max
<1> DEFINE R == Recount(Q, S, delta)
<1>1. DOMAIN R = DOMAIN Q
  BY DEF Recount
<1>2. ASSUME NEW q \in DOMAIN Q
      PROVE  /\ R[q] \in QueryInfo
             /\ R[q].a = Q[q].a /\ R[q].k = Q[q].k /\ R[q].max = Q[q].max
  <2>1. Q[q] \in QueryInfo
    OBVIOUS
  <2>2. CASE q \in S
    <3>1. R[q] = [Q[q] EXCEPT !.currentMatches = @ + delta]
      BY <2>2 DEF Recount
    <3> QED
      BY <2>1, <2>2, <3>1 DEF QueryInfo
  <2>3. CASE q \notin S
    BY <2>1, <2>3 DEF Recount
  <2> QED
    BY <2>2, <2>3
<1>3. R = [q \in DOMAIN Q |-> R[q]]
  BY DEF Recount
<1> QED
  BY <1>1, <1>2, <1>3

\* A range addition keeps the query index a map from the queries to numbers.
LEMMA RangeAddType ==
  ASSUME NEW s, s.eff \in [DOMAIN s.queries -> Int], NEW t, NEW delta \in Int
  PROVE  /\ RangeAdd(s, t, delta) \in [DOMAIN s.queries -> Int]
         /\ \A q \in DOMAIN s.queries :
              RangeAdd(s, t, delta)[q] =
                IF s.queries[q].a > t THEN s.eff[q] + delta ELSE s.eff[q]
  BY DEF RangeAdd

-----------------------------------------------------------------------------
(* The methods of DynamicRangeQueries keep a state a state.                 *)

LEMMA EmptyIsState == IsState(EmptyIndex) /\ EffExactIn(EmptyIndex)
<1>1. IsFiniteSet({})
  BY FS_EmptySet
<1>2. DOMAIN << >> = {}
  OBVIOUS
<1> QED
  BY <1>1, <1>2, MaxQueriesAssumption
     DEF EmptyIndex, IsState, EffExactIn, OneEntryPerDoc

LEMMA AddDocumentKeepsState ==
  ASSUME NEW s, IsState(s), NEW v \in Scores, NEW d \in Docs,
         \A e \in s.docs : e[2] # d
  PROVE  IsState(AddDocument(s, v, d))
<1> DEFINE t == AddDocument(s, v, d)
           S == Covering(s, v, d) \ Blocked(s, v, d)
<1>1. /\ t.docs = AddEntry(s.docs, v, d) /\ t.eff = RangeAdd(s, v, 1)
      /\ t.queries = Recount(s.queries, S, 1) /\ t.nextId = s.nextId
      /\ t = [docs |-> t.docs, eff |-> t.eff, queries |-> t.queries,
              nextId |-> t.nextId]
  BY DEF AddDocument
<1>2. s.queries \in [DOMAIN s.queries -> QueryInfo]
  BY DEF IsState
<1>3. \A q \in DOMAIN s.queries : s.queries[q].currentMatches + 1 \in Nat
  BY <1>2 DEF QueryInfo
<1> HIDE DEF S, t
<1>4. /\ t.queries \in [DOMAIN s.queries -> QueryInfo]
      /\ DOMAIN t.queries = DOMAIN s.queries
  BY <1>1, <1>2, <1>3, RecountKeepsInfo
<1>5. t.eff \in [DOMAIN s.queries -> Int]
  BY <1>1, RangeAddType DEF IsState
<1>6. t.docs \subseteq Scores \X Docs /\ OneEntryPerDoc(t.docs)
  BY <1>1 DEF IsState, AddEntry, OneEntryPerDoc
<1>7. IsFiniteSet(t.docs)
  <2>1. IsFiniteSet(s.docs)
    BY DEF IsState
  <2>2. IsFiniteSet(s.docs \cup {<<v, d>>})
    BY <2>1, FS_AddElement
  <2> QED
    BY <1>1, <2>2 DEF AddEntry
<1> QED
  BY <1>1, <1>4, <1>5, <1>6, <1>7 DEF IsState, t

\* No query comes before itself in the traversal.
LEMMA EarlierIrreflexive ==
  ASSUME NEW s, IsState(s), NEW q \in DOMAIN s.queries
  PROVE  ~Earlier(s, q, q)
<1>1. s.queries[q].a \in Nat /\ s.eff[q] \in Int /\ q \in Int
  BY ScoresAssumption DEF IsState, QueryInfo
<1> QED
  BY <1>1 DEF Earlier

\* Each query that removeDocument counts down had a match to lose.
LEMMA CountedDownHasMatch ==
  ASSUME NEW s, IsState(s), NEW v, NEW d, NEW q \in CountedDown(s, v, d)
  PROVE  s.queries[q].currentMatches + (-1) \in Nat
<1>1. q \in Covering(s, v, d) /\ q \in DOMAIN s.queries
  BY DEF CountedDown, Covering
<1>2. ~Earlier(s, q, q)
  BY <1>1, EarlierIrreflexive
<1>3. ~(s.queries[q].currentMatches <= 0)
  BY <1>1, <1>2 DEF CountedDown
<1>4. s.queries[q].currentMatches \in Nat
  BY <1>1 DEF IsState, QueryInfo
<1> QED
  BY <1>3, <1>4

\* When it does not throw, it counts down every covering query.
LEMMA CountedDownAll ==
  ASSUME NEW s, NEW v, NEW d, ~CannotRemove(s, v, d)
  PROVE  CountedDown(s, v, d) = Covering(s, v, d)
  BY DEF CountedDown, CannotRemove

LEMMA RemoveDocumentKeepsState ==
  ASSUME NEW s, IsState(s), NEW v, NEW d
  PROVE  IsState(RemoveDocument(s, v, d))
<1> DEFINE t == RemoveDocument(s, v, d)
           S == CountedDown(s, v, d)
<1>1. /\ t.docs = RemoveEntry(s.docs, v, d) /\ t.eff = RangeAdd(s, v, -1)
      /\ t.queries = Recount(s.queries, S, -1) /\ t.nextId = s.nextId
      /\ t = [docs |-> t.docs, eff |-> t.eff, queries |-> t.queries,
              nextId |-> t.nextId]
  BY DEF RemoveDocument
<1>2. s.queries \in [DOMAIN s.queries -> QueryInfo]
  BY DEF IsState
<1>3. \A q \in DOMAIN s.queries :
        q \in S => s.queries[q].currentMatches + (-1) \in Nat
  BY CountedDownHasMatch
<1> HIDE DEF S, t
<1>4. /\ t.queries \in [DOMAIN s.queries -> QueryInfo]
      /\ DOMAIN t.queries = DOMAIN s.queries
  BY <1>1, <1>2, <1>3, RecountKeepsInfo
<1>5. t.eff \in [DOMAIN s.queries -> Int]
  BY <1>1, RangeAddType DEF IsState
<1>6. t.docs \subseteq Scores \X Docs /\ OneEntryPerDoc(t.docs)
  BY <1>1 DEF IsState, RemoveEntry, OneEntryPerDoc
<1>7. IsFiniteSet(t.docs)
  <2>1. IsFiniteSet(s.docs)
    BY DEF IsState
  <2>2. IsFiniteSet(s.docs \ {<<v, d>>})
    BY <2>1, FS_RemoveElement
  <2> QED
    BY <1>1, <2>2 DEF RemoveEntry
<1> QED
  BY <1>1, <1>4, <1>5, <1>6, <1>7 DEF IsState, t

\* countDocsInRange is a number of documents, whatever the bounds.
LEMMA CountDocsInRangeType ==
  ASSUME NEW D, IsFiniteSet(D), NEW lo, NEW hi
  PROVE  CountDocsInRange(D, lo, hi) \in Nat
<1> DEFINE m == CountAtMost(D, hi)  n == RankOfScore(D, lo)
<1>1. m \in Nat /\ n \in Nat
  BY RankOfScoreType
<1>2. CountDocsInRange(D, lo, hi) = IF m - n < 0 THEN 0 ELSE m - n
  BY DEF CountDocsInRange
<1> HIDE DEF m, n
<1> QED
  BY <1>1, <1>2

LEMMA AddQueryKeepsState ==
  ASSUME NEW s, IsState(s), NEW spec \in Specs, s.nextId \in QueryIds
  PROVE  IsState(AddQuery(s, spec))
<1> DEFINE t   == AddQuery(s, spec)
           m   == Smaller(CountDocsInRange(s.docs, spec.a, spec.max), spec.k)
           new == [a |-> spec.a, k |-> spec.k, max |-> spec.max,
                   currentMatches |-> m]
           ids == DOMAIN s.queries \cup {s.nextId}
<1>1. spec.a \in Scores /\ spec.k \in Nat /\ spec.max \in Scores
  BY SpecsAssumption
<1>2. IsFiniteSet(s.docs)
  BY DEF IsState
<1>3. m \in Nat
  <2>1. CountDocsInRange(s.docs, spec.a, spec.max) \in Nat
    BY <1>2, CountDocsInRangeType
  <2> QED
    BY <1>1, <2>1 DEF Smaller
<1>4. new \in QueryInfo
  <2> HIDE DEF m
  <2> QED
    BY <1>1, <1>3 DEF QueryInfo
<1>5. RankOfScore(s.docs, spec.a) + spec.k \in Int
  BY <1>1, <1>2, RankOfScoreType
<1>6. /\ t.docs = s.docs /\ t.nextId = s.nextId + 1
      /\ t.eff = [q \in ids |-> IF q = s.nextId
                                  THEN RankOfScore(s.docs, spec.a) + spec.k
                                  ELSE s.eff[q]]
      /\ t.queries = [q \in ids |-> IF q = s.nextId THEN new
                                                    ELSE s.queries[q]]
      /\ t = [docs |-> t.docs, eff |-> t.eff, queries |-> t.queries,
              nextId |-> t.nextId]
  BY DEF AddQuery
<1> HIDE DEF t, m, new
<1>7. /\ s.queries \in [DOMAIN s.queries -> QueryInfo]
      /\ s.eff \in [DOMAIN s.queries -> Int]
      /\ s.nextId \in 1 .. MaxQueries + 1
      /\ DOMAIN s.queries \subseteq 1 .. s.nextId - 1
  BY DEF IsState
<1>8. /\ DOMAIN t.queries = ids
      /\ t.queries \in [ids -> QueryInfo]
      /\ t.eff \in [ids -> Int]
  BY <1>4, <1>5, <1>6, <1>7
<1>9. t.nextId \in 1 .. MaxQueries + 1 /\ ids \subseteq 1 .. t.nextId - 1
  BY <1>6, <1>7, MaxQueriesAssumption DEF QueryIds
<1>10. t.docs \subseteq Scores \X Docs /\ OneEntryPerDoc(t.docs)
  BY <1>6 DEF IsState
<1> QED
  BY <1>2, <1>6, <1>8, <1>9, <1>10 DEF IsState, t

LEMMA RemoveQueryKeepsState ==
  ASSUME NEW s, IsState(s), NEW id
  PROVE  IsState(RemoveQuery(s, id))
<1> DEFINE t   == RemoveQuery(s, id)
           ids == DOMAIN s.queries \ {id}
<1>1. /\ t.docs = s.docs /\ t.nextId = s.nextId
      /\ t.eff = [q \in ids |-> s.eff[q]]
      /\ t.queries = [q \in ids |-> s.queries[q]]
      /\ t = [docs |-> t.docs, eff |-> t.eff, queries |-> t.queries,
              nextId |-> t.nextId]
  BY DEF RemoveQuery
<1> HIDE DEF t
<1> QED
  BY <1>1 DEF IsState, t

LEMMA FillGapsKeepsState ==
  ASSUME NEW s, IsState(s), NEW S
  PROVE  IsState(FillGaps(s, S))
<1> DEFINE t == FillGaps(s, S)
           F == {q \in S : Replacement(s, q) # {}}
<1>1. /\ t.docs = s.docs /\ t.eff = s.eff /\ t.nextId = s.nextId
      /\ t.queries = Recount(s.queries, F, 1)
      /\ t = [docs |-> t.docs, eff |-> t.eff, queries |-> t.queries,
              nextId |-> t.nextId]
  BY DEF FillGaps
<1>2. s.queries \in [DOMAIN s.queries -> QueryInfo]
  BY DEF IsState
<1>3. \A q \in DOMAIN s.queries : s.queries[q].currentMatches + 1 \in Nat
  BY <1>2 DEF QueryInfo
<1> HIDE DEF F, t
<1>4. /\ t.queries \in [DOMAIN s.queries -> QueryInfo]
      /\ DOMAIN t.queries = DOMAIN s.queries
  BY <1>1, <1>2, <1>3, RecountKeepsInfo
<1> QED
  BY <1>1, <1>4 DEF IsState, t

LEMMA SeedDocumentsKeepsState ==
  ASSUME NEW s, IsState(s), NEW v \in Scores, NEW d \in Docs,
         \A e \in s.docs : e[2] # d
  PROVE  IsState(SeedDocuments(s, {<<v, d>>}))
<1> DEFINE t == SeedDocuments(s, {<<v, d>>})
<1>1. /\ t.docs = s.docs \cup {<<v, d>>} /\ t.eff = s.eff
      /\ t.queries = s.queries /\ t.nextId = s.nextId
      /\ t = [docs |-> t.docs, eff |-> t.eff, queries |-> t.queries,
              nextId |-> t.nextId]
  BY DEF SeedDocuments
<1> HIDE DEF t
<1>2. IsFiniteSet(t.docs)
  <2>1. IsFiniteSet(s.docs)
    BY DEF IsState
  <2>2. IsFiniteSet(s.docs \cup {<<v, d>>})
    BY <2>1, FS_AddElement
  <2> QED
    BY <1>1, <2>2
<1>3. t.docs \subseteq Scores \X Docs /\ OneEntryPerDoc(t.docs)
  BY <1>1 DEF IsState, OneEntryPerDoc
<1> QED
  BY <1>1, <1>2, <1>3 DEF IsState, t

-----------------------------------------------------------------------------
(* The methods of DynamicRangeQueries keep the effective scores exact.      *)

\* One more document below a start, one more in the scores above it.
LEMMA AddDocumentKeepsEff ==
  ASSUME NEW s, IsState(s), EffExactIn(s), NEW v \in Scores, NEW d,
         \A e \in s.docs : e[2] # d
  PROVE  EffExactIn(AddDocument(s, v, d))
<1> DEFINE t == AddDocument(s, v, d)
           S == Covering(s, v, d) \ Blocked(s, v, d)
<1>1. /\ t.docs = AddEntry(s.docs, v, d) /\ t.eff = RangeAdd(s, v, 1)
      /\ t.queries = Recount(s.queries, S, 1)
  BY DEF AddDocument
<1>2. /\ s.queries \in [DOMAIN s.queries -> QueryInfo]
      /\ s.eff \in [DOMAIN s.queries -> Int]
      /\ IsFiniteSet(s.docs) /\ <<v, d>> \notin s.docs
  BY DEF IsState
<1>3. \A q \in DOMAIN s.queries : s.queries[q].currentMatches + 1 \in Nat
  BY <1>2 DEF QueryInfo
<1> HIDE DEF S, t
<1>4. /\ DOMAIN t.queries = DOMAIN s.queries
      /\ \A q \in DOMAIN s.queries : /\ t.queries[q].a = s.queries[q].a
                                     /\ t.queries[q].k = s.queries[q].k
  BY <1>1, <1>2, <1>3, RecountKeepsInfo
<1>5. ASSUME NEW q \in DOMAIN s.queries
      PROVE  t.eff[q] = RankOfScore(t.docs, t.queries[q].a) + t.queries[q].k
  <2>1. RankOfScore(t.docs, s.queries[q].a) =
          IF v < s.queries[q].a THEN RankOfScore(s.docs, s.queries[q].a) + 1
                                ELSE RankOfScore(s.docs, s.queries[q].a)
    BY <1>1, <1>2, RankOfScoreAdd
  <2>2. t.eff[q] = IF s.queries[q].a > v THEN s.eff[q] + 1 ELSE s.eff[q]
    BY <1>1, <1>2, RangeAddType
  <2>3. s.eff[q] = RankOfScore(s.docs, s.queries[q].a) + s.queries[q].k
    BY DEF EffExactIn
  <2>4. /\ s.queries[q].a \in Nat /\ v \in Nat /\ s.queries[q].k \in Nat
        /\ RankOfScore(s.docs, s.queries[q].a) \in Nat
    BY <1>2, ScoresAssumption, RankOfScoreType DEF QueryInfo
  <2> QED
    BY <1>4, <2>1, <2>2, <2>3, <2>4
<1> QED
  BY <1>4, <1>5 DEF EffExactIn, t

\* One document less below a start, one less in the scores above it.
LEMMA RemoveDocumentKeepsEff ==
  ASSUME NEW s, IsState(s), EffExactIn(s), NEW v, NEW d, <<v, d>> \in s.docs
  PROVE  EffExactIn(RemoveDocument(s, v, d))
<1> DEFINE t == RemoveDocument(s, v, d)
           S == CountedDown(s, v, d)
<1>1. /\ t.docs = RemoveEntry(s.docs, v, d) /\ t.eff = RangeAdd(s, v, -1)
      /\ t.queries = Recount(s.queries, S, -1)
  BY DEF RemoveDocument
<1>2. /\ s.queries \in [DOMAIN s.queries -> QueryInfo]
      /\ s.eff \in [DOMAIN s.queries -> Int]
      /\ IsFiniteSet(s.docs) /\ v \in Scores
  BY DEF IsState
<1>3. \A q \in DOMAIN s.queries :
        q \in S => s.queries[q].currentMatches + (-1) \in Nat
  BY CountedDownHasMatch
<1> HIDE DEF S, t
<1>4. /\ DOMAIN t.queries = DOMAIN s.queries
      /\ \A q \in DOMAIN s.queries : /\ t.queries[q].a = s.queries[q].a
                                     /\ t.queries[q].k = s.queries[q].k
  BY <1>1, <1>2, <1>3, RecountKeepsInfo
<1>5. ASSUME NEW q \in DOMAIN s.queries
      PROVE  t.eff[q] = RankOfScore(t.docs, t.queries[q].a) + t.queries[q].k
  <2>1. RankOfScore(t.docs, s.queries[q].a) =
          IF v < s.queries[q].a THEN RankOfScore(s.docs, s.queries[q].a) - 1
                                ELSE RankOfScore(s.docs, s.queries[q].a)
    BY <1>1, <1>2, RankOfScoreRemove
  <2>2. t.eff[q] = IF s.queries[q].a > v THEN s.eff[q] + (-1) ELSE s.eff[q]
    BY <1>1, <1>2, RangeAddType
  <2>3. s.eff[q] = RankOfScore(s.docs, s.queries[q].a) + s.queries[q].k
    BY DEF EffExactIn
  <2>4. /\ s.queries[q].a \in Nat /\ v \in Nat /\ s.queries[q].k \in Nat
        /\ RankOfScore(s.docs, s.queries[q].a) \in Nat
    BY <1>2, ScoresAssumption, RankOfScoreType DEF QueryInfo
  <2> QED
    BY <1>4, <2>1, <2>2, <2>3, <2>4
<1> QED
  BY <1>4, <1>5 DEF EffExactIn, t

LEMMA AddQueryKeepsEff ==
  ASSUME NEW s, IsState(s), EffExactIn(s), NEW spec
  PROVE  EffExactIn(AddQuery(s, spec))
<1> DEFINE t   == AddQuery(s, spec)
           m   == Smaller(CountDocsInRange(s.docs, spec.a, spec.max), spec.k)
           new == [a |-> spec.a, k |-> spec.k, max |-> spec.max,
                   currentMatches |-> m]
           ids == DOMAIN s.queries \cup {s.nextId}
<1>1. /\ t.docs = s.docs
      /\ t.eff = [q \in ids |-> IF q = s.nextId
                                  THEN RankOfScore(s.docs, spec.a) + spec.k
                                  ELSE s.eff[q]]
      /\ t.queries = [q \in ids |-> IF q = s.nextId THEN new
                                                    ELSE s.queries[q]]
  BY DEF AddQuery
<1>2. new.a = spec.a /\ new.k = spec.k
  OBVIOUS
<1> HIDE DEF t, m, new
<1>3. DOMAIN t.queries = ids
  BY <1>1
<1>4. ASSUME NEW q \in ids
      PROVE  t.eff[q] = RankOfScore(t.docs, t.queries[q].a) + t.queries[q].k
  <2>1. CASE q = s.nextId
    BY <1>1, <1>2, <2>1
  <2>2. CASE q # s.nextId
    BY <1>1, <2>2 DEF EffExactIn
  <2> QED
    BY <2>1, <2>2
<1> QED
  BY <1>3, <1>4 DEF EffExactIn, t

LEMMA RemoveQueryKeepsEff ==
  ASSUME NEW s, EffExactIn(s), NEW id
  PROVE  EffExactIn(RemoveQuery(s, id))
  BY DEF RemoveQuery, EffExactIn

LEMMA FillGapsKeepsEff ==
  ASSUME NEW s, IsState(s), EffExactIn(s), NEW S
  PROVE  EffExactIn(FillGaps(s, S))
<1> DEFINE t == FillGaps(s, S)
           F == {q \in S : Replacement(s, q) # {}}
<1>1. /\ t.docs = s.docs /\ t.eff = s.eff
      /\ t.queries = Recount(s.queries, F, 1)
  BY DEF FillGaps
<1>2. s.queries \in [DOMAIN s.queries -> QueryInfo]
  BY DEF IsState
<1>3. \A q \in DOMAIN s.queries : s.queries[q].currentMatches + 1 \in Nat
  BY <1>2 DEF QueryInfo
<1> HIDE DEF F, t
<1>4. /\ DOMAIN t.queries = DOMAIN s.queries
      /\ \A q \in DOMAIN s.queries : /\ t.queries[q].a = s.queries[q].a
                                     /\ t.queries[q].k = s.queries[q].k
  BY <1>1, <1>2, <1>3, RecountKeepsInfo
<1> QED
  BY <1>1, <1>4 DEF EffExactIn, t

-----------------------------------------------------------------------------
(* The handlers.                                                            *)

LEMMA QuietType == Quiet \in Outputs
  BY DEF Quiet, Outputs, NoDoc, Pairs

\* What a state covers are queries, and what a handler looks up are documents.
LEMMA LookupsType ==
  ASSUME NEW s, IsState(s)
  PROVE  /\ DOMAIN s.queries \subseteq QueryIds
         /\ \A v, d : Covering(s, v, d) \subseteq QueryIds
         /\ \A v, d : Blocked(s, v, d) \subseteq QueryIds
         /\ \A in, ex, d : CoveringButNot(s, in, ex, d) \subseteq QueryIds
         /\ \A q : Replacement(s, q) \subseteq Docs
         /\ \A q : Truthy(OverflowDoc(s, q)) \subseteq Docs
<1>1. DOMAIN s.queries \subseteq QueryIds
  BY MaxQueriesAssumption DEF IsState, QueryIds
<1>2. \A q, n : DocForQueryAt(s, q, n) \subseteq Scores \X Docs
  BY DEF IsState, DocForQueryAt, AtRank
<1>3. \A q, n : {e[2] : e \in DocForQueryAt(s, q, n)} \subseteq Docs
  BY <1>2
<1> QED
  BY <1>1, <1>3 DEF Covering, Blocked, CoveringButNot, Replacement,
                    OverflowDoc, Truthy

\* The score of a document is the one of its entry.
LEMMA CurrentScoreIsStored ==
  ASSUME IsState(idx), NEW d
  PROVE  /\ CurrentScore(d) = NoScore => \A e \in idx.docs : e[2] # d
         /\ CurrentScore(d) # NoScore => <<CurrentScore(d), d>> \in idx.docs
<1>1. idx.docs \subseteq Scores \X Docs
  BY DEF IsState
<1>2. CASE \E e \in idx.docs : e[2] = d
  <2> DEFINE f == CHOOSE e \in idx.docs : e[2] = d
  <2>1. f \in idx.docs /\ f[2] = d
    BY <1>2
  <2>2. CurrentScore(d) = f[1]
    BY <1>2 DEF CurrentScore
  <2> HIDE DEF f
  <2>3. f = <<f[1], f[2]>> /\ f[1] \in Scores
    BY <1>1, <2>1
  <2>4. f[1] # NoScore
    BY <2>3, ScoresAssumption DEF NoScore
  <2> QED
    BY <2>1, <2>2, <2>3, <2>4
<1>3. CASE ~ \E e \in idx.docs : e[2] = d
  BY <1>3 DEF CurrentScore
<1> QED
  BY <1>2, <1>3

\* A handler of a change leads from a state to a state, keeps the effective
\* scores exact, and has outputs of their types.
LEMMA ChangeOutcomeCorrect ==
  ASSUME NEW s, IsState(s), NEW d \in Docs,
         NEW old, NEW new \in Scores \cup {NoScore},
         old = NoScore => \A e \in s.docs : e[2] # d,
         old # NoScore => <<old, d>> \in s.docs,
         NEW refused
  PROVE  /\ IsState(ChangeOutcome(s, d, old, new, refused).st)
         /\ EffExactIn(s) => EffExactIn(ChangeOutcome(s, d, old, new, refused).st)
         /\ ChangeOutcome(s, d, old, new, refused).out \in Outputs
<1> DEFINE leaves  == old # NoScore
           enters  == new # NoScore
           covered == IF leaves THEN Covering(s, old, d) ELSE {}
           s1      == IF leaves THEN RemoveDocument(s, old, d) ELSE s
           matched == IF enters THEN Covering(s1, new, d) ELSE {}
           blocked == IF enters THEN Blocked(s1, new, d) ELSE {}
           s2      == IF enters THEN AddDocument(s1, new, d) ELSE s1
           lost    == IF leaves /\ enters THEN CoveringButNot(s, old, new, d)
                                          ELSE covered \ matched
           gained  == IF leaves /\ enters THEN CoveringButNot(s, new, old, d)
                                          ELSE matched \ covered
           s3      == FillGaps(s2, lost)
           evicted(q) == Truthy(OverflowDoc(s3, q))
           evictions  == UNION {{q} \X evicted(q) : q \in blocked \ covered}
           registers  == UNION {{q} \X Replacement(s2, q) : q \in lost}
           denied  == registers \cap refused
           filled  == {q \in lost : \A r \in denied : ~Earlier(s2, r[1], q)}
           before  == {p \in registers : \A r \in denied : Earlier(s2, p[1], r[1])}
           event   == [Quiet EXCEPT !.doc = d, !.matchesOld = lost,
                         !.matchesNew = gained, !.evictions = evictions,
                         !.registers = registers]
<1>1. ChangeOutcome(s, d, old, new, refused) =
        IF leaves /\ CannotRemove(s, old, d) THEN ThrowOutcome(s1)
        ELSE IF denied # {}
          THEN [st |-> FillGaps(s2, filled),
                out |-> [Quiet EXCEPT !.registers = before, !.error = TRUE]]
          ELSE [st |-> s3, out |-> event]
  BY DEF ChangeOutcome, RefusedOutcome
<1>2. /\ IsState(s1) /\ (EffExactIn(s) => EffExactIn(s1))
      /\ \A e \in s1.docs : e[2] # d
  <2>1. CASE leaves
    <3>1. IsState(s1)
      BY <2>1, RemoveDocumentKeepsState
    <3>2. EffExactIn(s) => EffExactIn(s1)
      BY <2>1, RemoveDocumentKeepsEff
    <3>3. s1.docs = s.docs \ {<<old, d>>}
      BY <2>1 DEF RemoveDocument, RemoveEntry
    <3>4. \A e \in s.docs : e[2] = d => e = <<old, d>>
      BY <2>1 DEF IsState, OneEntryPerDoc
    <3> HIDE DEF s1
    <3> QED
      BY <3>1, <3>2, <3>3, <3>4
  <2>2. CASE ~leaves
    BY <2>2
  <2> QED
    BY <2>1, <2>2
<1>3. CASE leaves /\ CannotRemove(s, old, d)
  <2>1. [Quiet EXCEPT !.error = TRUE] \in Outputs
    BY QuietType DEF Quiet, Outputs
  <2> HIDE DEF s1
  <2> QED
    BY <1>1, <1>2, <1>3, <2>1 DEF ThrowOutcome
<1>4. CASE ~(leaves /\ CannotRemove(s, old, d))
  <2> HIDE DEF s1
  <2>1. IsState(s2) /\ (EffExactIn(s) => EffExactIn(s2))
    <3>1. CASE enters
      <4>1. new \in Scores
        BY <3>1
      <4> QED
        BY <1>2, <3>1, <4>1, AddDocumentKeepsState, AddDocumentKeepsEff
    <3>2. CASE ~enters
      BY <1>2, <3>2
    <3> QED
      BY <3>1, <3>2
  <2>2. /\ covered \subseteq QueryIds /\ matched \subseteq QueryIds
        /\ blocked \subseteq QueryIds
    BY <1>2, LookupsType
  <2>3. lost \subseteq QueryIds /\ gained \subseteq QueryIds
    BY <2>2, LookupsType
  <2> HIDE DEF s2, lost, gained, covered, matched, blocked
  <2>4. IsState(s3) /\ (EffExactIn(s) => EffExactIn(s3))
    BY <2>1, FillGapsKeepsState, FillGapsKeepsEff
  <2>5. /\ IsState(FillGaps(s2, filled))
        /\ EffExactIn(s) => EffExactIn(FillGaps(s2, filled))
    BY <2>1, FillGapsKeepsState, FillGapsKeepsEff
  <2> HIDE DEF s3
  <2>6. registers \subseteq Pairs
    <3>1. \A q \in lost : Replacement(s2, q) \subseteq Docs
      BY <2>1, LookupsType
    <3> QED
      BY <2>3, <3>1 DEF Pairs
  <2>7. evictions \subseteq Pairs
    <3>1. \A q \in blocked : evicted(q) \subseteq Docs
      BY <2>4, LookupsType
    <3> HIDE DEF evicted
    <3> QED
      BY <2>2, <3>1 DEF Pairs
  <2> HIDE DEF registers, evictions
  <2>8. event \in Outputs
    BY <2>3, <2>6, <2>7, QuietType DEF Quiet, Outputs
  <2> HIDE DEF denied, filled
  <2>9. [Quiet EXCEPT !.registers = before, !.error = TRUE] \in Outputs
    BY <2>6, QuietType DEF Quiet, Outputs
  <2> HIDE DEF before, event
  <2>10. CASE denied # {}
    BY <1>1, <1>4, <2>5, <2>9, <2>10
  <2>11. CASE denied = {}
    BY <1>1, <1>4, <2>4, <2>8, <2>11
  <2> QED
    BY <2>10, <2>11
<1> QED
  BY <1>3, <1>4

\* A handler that does not throw did what it does when no registration is
\* refused; and it registered nothing that is refused.
LEMMA AcceptedOutcome ==
  ASSUME NEW s, NEW d, NEW old, NEW new, NEW refused,
         ~ChangeOutcome(s, d, old, new, refused).out.error
  PROVE  /\ ChangeOutcome(s, d, old, new, refused) = ChangeOutcome(s, d, old, new, {})
         /\ ChangeOutcome(s, d, old, new, refused).out.registers \cap refused = {}
  BY DEF ChangeOutcome, RefusedOutcome, ThrowOutcome, Quiet

\* It throws for one of two reasons: removeDocument does, or a registration it
\* would make is refused.
LEMMA ThrowHasCause ==
  ASSUME NEW s, NEW d, NEW old, NEW new, NEW refused,
         ChangeOutcome(s, d, old, new, refused).out.error
  PROVE  \/ old # NoScore /\ CannotRemove(s, old, d)
         \/ ChangeOutcome(s, d, old, new, {}).out.registers \cap refused # {}
  BY DEF ChangeOutcome, RefusedOutcome, ThrowOutcome, Quiet

LEMMA TouchOutcomeCorrect ==
  ASSUME NEW s, IsState(s), NEW d \in Docs, NEW v
  PROVE  /\ TouchOutcome(s, d, v).st = s
         /\ TouchOutcome(s, d, v).out \in Outputs
<1>1. Covering(s, v, d) \subseteq QueryIds
  BY LookupsType
<1> QED
  BY <1>1, QuietType DEF TouchOutcome, Quiet, Outputs

LEMMA QueryAddOutcomeCorrect ==
  ASSUME NEW s, IsState(s), NEW spec \in Specs, s.nextId \in QueryIds
  PROVE  /\ IsState(QueryAddOutcome(s, spec).st)
         /\ EffExactIn(s) => EffExactIn(QueryAddOutcome(s, spec).st)
         /\ QueryAddOutcome(s, spec).out \in Outputs
<1> DEFINE t == AddQuery(s, spec)
           window == DocsForQuery(t, s.nextId)
           ids == {e[2] : e \in window}
<1>1. IsState(t) /\ (EffExactIn(s) => EffExactIn(t))
  BY AddQueryKeepsState, AddQueryKeepsEff
<1>2. QueryAddOutcome(s, spec) =
        IF Cardinality(window) # t.queries[s.nextId].currentMatches
          THEN ThrowOutcome(t)
          ELSE [st |-> t, out |-> [Quiet EXCEPT !.registers = {s.nextId} \X ids]]
  BY DEF QueryAddOutcome
<1> HIDE DEF t
<1>3. ids \subseteq Docs
  <2>1. window \subseteq Scores \X Docs
    BY <1>1 DEF DocsForQuery, CollectRange, IsState
  <2> QED
    BY <2>1
<1> HIDE DEF ids
<1>4. /\ [Quiet EXCEPT !.registers = {s.nextId} \X ids] \in Outputs
      /\ [Quiet EXCEPT !.error = TRUE] \in Outputs
  BY <1>3, QuietType DEF Quiet, Outputs, Pairs
<1> QED
  BY <1>1, <1>2, <1>4 DEF ThrowOutcome

-----------------------------------------------------------------------------
(* The steps.  The effective scores stay exact under every item but initial *)
(* documents that come after a query.                                       *)

LEMMA InitCorrect == Init => TypeOK /\ EffExact
  BY EmptyIsState, QuietType DEF Init, TypeOK, EffExact

LEMMA DocInsertCorrect ==
  ASSUME TypeOK, NEW d \in Docs, NEW v \in Scores, DocInsert(d, v)
  PROVE  IsState(idx') /\ (EffExactIn(idx) => EffExactIn(idx')) /\ out' \in Outputs
<1>1. \A e \in idx.docs : e[2] # d
  BY CurrentScoreIsStored DEF TypeOK, DocInsert
<1> DEFINE o == ChangeOutcome(idx, d, NoScore, v, {})
<1>2. IsState(o.st) /\ (EffExactIn(idx) => EffExactIn(o.st)) /\ o.out \in Outputs
  BY <1>1, ChangeOutcomeCorrect DEF TypeOK
<1> QED
  BY <1>2 DEF DocInsert, Apply

LEMMA DocDeleteCorrect ==
  ASSUME TypeOK, NEW d \in Docs, NEW refused, DocDelete(d, refused)
  PROVE  IsState(idx') /\ (EffExactIn(idx) => EffExactIn(idx')) /\ out' \in Outputs
<1> DEFINE old == CurrentScore(d)
           o   == ChangeOutcome(idx, d, old, NoScore, refused)
<1>1. old # NoScore /\ <<old, d>> \in idx.docs
  BY CurrentScoreIsStored DEF TypeOK, DocDelete
<1>2. idx' = o.st /\ out' = o.out
  BY DEF DocDelete, Apply
<1> HIDE DEF old
<1>3. IsState(o.st) /\ (EffExactIn(idx) => EffExactIn(o.st)) /\ o.out \in Outputs
  BY <1>1, ChangeOutcomeCorrect DEF TypeOK
<1> QED
  BY <1>2, <1>3

\* A document that moves has an entry.
LEMMA MoveHasScore ==
  ASSUME NEW d, NEW v, NEW refused, DocMove(d, v, refused)
  PROVE  CurrentScore(d) # NoScore /\ CurrentScore(d) \in Scores
  BY MovesAssumption, ScoresAssumption DEF DocMove, NoScore

LEMMA DocMoveCorrect ==
  ASSUME TypeOK, NEW d \in Docs, NEW v \in Scores, NEW refused,
         DocMove(d, v, refused)
  PROVE  IsState(idx') /\ (EffExactIn(idx) => EffExactIn(idx')) /\ out' \in Outputs
<1> DEFINE old == CurrentScore(d)
           o   == ChangeOutcome(idx, d, old, v, refused)
<1>1. old # NoScore /\ <<old, d>> \in idx.docs
  BY MoveHasScore, CurrentScoreIsStored DEF TypeOK
<1>2. idx' = o.st /\ out' = o.out
  BY DEF DocMove, Apply
<1> HIDE DEF old
<1>3. IsState(o.st) /\ (EffExactIn(idx) => EffExactIn(o.st)) /\ o.out \in Outputs
  BY <1>1, ChangeOutcomeCorrect DEF TypeOK
<1> QED
  BY <1>2, <1>3

LEMMA DocTouchCorrect ==
  ASSUME TypeOK, NEW d \in Docs, DocTouch(d)
  PROVE  IsState(idx') /\ (EffExactIn(idx) => EffExactIn(idx')) /\ out' \in Outputs
  BY TouchOutcomeCorrect DEF TypeOK, DocTouch, Apply

LEMMA QueryAddCorrect ==
  ASSUME TypeOK, NEW spec \in Specs, QueryAdd(spec)
  PROVE  IsState(idx') /\ (EffExactIn(idx) => EffExactIn(idx')) /\ out' \in Outputs
  BY QueryAddOutcomeCorrect DEF TypeOK, QueryAdd, Apply

LEMMA QueryRemoveCorrect ==
  ASSUME TypeOK, NEW q \in QueryIds, QueryRemove(q)
  PROVE  IsState(idx') /\ (EffExactIn(idx) => EffExactIn(idx')) /\ out' \in Outputs
  BY RemoveQueryKeepsState, RemoveQueryKeepsEff, QuietType
     DEF TypeOK, QueryRemove

LEMMA SeedDocsCorrect ==
  ASSUME TypeOK, NEW d \in Docs, NEW v \in Scores, SeedDocs(d, v)
  PROVE  /\ IsState(idx') /\ out' \in Outputs
         /\ LateSeeds = FALSE => EffExactIn(idx')
<1>1. \A e \in idx.docs : e[2] # d
  BY CurrentScoreIsStored DEF TypeOK, SeedDocs
<1>2. IsState(idx')
  BY <1>1, SeedDocumentsKeepsState DEF TypeOK, SeedDocs
<1>3. LateSeeds = FALSE => EffExactIn(idx')
  BY DEF SeedDocs, SeedDocuments, EffExactIn
<1> QED
  BY <1>2, <1>3, QuietType DEF SeedDocs

LEMMA ItemCorrect ==
  ASSUME TypeOK, NEW refused, Item(refused)
  PROVE  /\ IsState(idx') /\ out' \in Outputs
         /\ LateSeeds = FALSE /\ EffExactIn(idx) => EffExactIn(idx')
<1> DEFINE Good == /\ IsState(idx') /\ out' \in Outputs
                   /\ LateSeeds = FALSE /\ EffExactIn(idx) => EffExactIn(idx')
<1>1. ASSUME NEW d \in Docs, NEW v \in Scores, DocInsert(d, v) PROVE Good
  BY <1>1, DocInsertCorrect
<1>2. ASSUME NEW d \in Docs, DocDelete(d, refused) PROVE Good
  BY <1>2, DocDeleteCorrect
<1>3. ASSUME NEW d \in Docs, DocTouch(d) PROVE Good
  BY <1>3, DocTouchCorrect
<1>4. ASSUME NEW d \in Docs, NEW v \in Scores, DocMove(d, v, refused) PROVE Good
  BY <1>4, DocMoveCorrect
<1>5. ASSUME NEW spec \in Specs, QueryAdd(spec) PROVE Good
  BY <1>5, QueryAddCorrect
<1>6. ASSUME NEW q \in QueryIds, QueryRemove(q) PROVE Good
  BY <1>6, QueryRemoveCorrect
<1>7. ASSUME NEW d \in Docs, NEW v \in Scores, SeedDocs(d, v) PROVE Good
  BY <1>7, SeedDocsCorrect
<1> QED
  BY <1>1, <1>2, <1>3, <1>4, <1>5, <1>6, <1>7 DEF Item

LEMMA NextCorrect ==
  ASSUME TypeOK, Next
  PROVE  TypeOK' /\ (LateSeeds = FALSE /\ EffExact => EffExact')
<1>1. /\ IsState(idx') /\ out' \in Outputs
      /\ LateSeeds = FALSE /\ EffExactIn(idx) => EffExactIn(idx')
  BY ItemCorrect DEF Next
<1>2. failed' \in BOOLEAN
  BY <1>1 DEF Next, Outputs
<1> QED
  BY <1>1, <1>2 DEF TypeOK, EffExact

-----------------------------------------------------------------------------
(* Counting the documents of a range.                                       *)

\* One more document in a range, one more counted.
LEMMA CountDocsInRangeAdd ==
  ASSUME NEW D, IsFiniteSet(D), D \subseteq Nat \X Nat,
         NEW v \in Nat, NEW d, <<v, d>> \notin D, NEW lo \in Nat, NEW hi \in Nat
  PROVE  CountDocsInRange(AddEntry(D, v, d), lo, hi) =
           IF lo <= v /\ v <= hi THEN CountDocsInRange(D, lo, hi) + 1
                                 ELSE CountDocsInRange(D, lo, hi)
<1> DEFINE E == AddEntry(D, v, d)
<1>1. /\ RankOfScore(D, lo) \in Nat /\ CountAtMost(D, hi) \in Nat
      /\ lo <= hi => RankOfScore(D, lo) <= CountAtMost(D, hi)
      /\ hi < lo => CountAtMost(D, hi) <= RankOfScore(D, lo)
  BY RankOfScoreType, CountBounds
<1>2. RankOfScore(E, lo) = IF v < lo THEN RankOfScore(D, lo) + 1
                                     ELSE RankOfScore(D, lo)
  BY RankOfScoreAdd
<1>3. CountAtMost(E, hi) = IF v <= hi THEN CountAtMost(D, hi) + 1
                                      ELSE CountAtMost(D, hi)
  BY CountAtMostAdd
<1> HIDE DEF E
<1> QED
  BY <1>1, <1>2, <1>3 DEF CountDocsInRange, E

\* One document less in a range, one less counted.
LEMMA CountDocsInRangeRemove ==
  ASSUME NEW D, IsFiniteSet(D), D \subseteq Nat \X Nat,
         NEW v \in Nat, NEW d, <<v, d>> \in D, NEW lo \in Nat, NEW hi \in Nat
  PROVE  CountDocsInRange(RemoveEntry(D, v, d), lo, hi) =
           IF lo <= v /\ v <= hi THEN CountDocsInRange(D, lo, hi) - 1
                                 ELSE CountDocsInRange(D, lo, hi)
<1> DEFINE E == RemoveEntry(D, v, d)
<1>1. /\ IsFiniteSet(E) /\ E \subseteq Nat \X Nat /\ <<v, d>> \notin E
      /\ AddEntry(E, v, d) = D
  BY FS_RemoveElement DEF AddEntry, RemoveEntry
<1> HIDE DEF E
<1>2. CountDocsInRange(E, lo, hi) \in Nat
  BY <1>1, CountDocsInRangeType
<1>3. CountDocsInRange(D, lo, hi) =
        IF lo <= v /\ v <= hi THEN CountDocsInRange(E, lo, hi) + 1
                              ELSE CountDocsInRange(E, lo, hi)
  BY <1>1, CountDocsInRangeAdd
<1> QED
  BY <1>2, <1>3 DEF E

\* The position of a document against the numbers of documents before and in
\* a range: a document of the range comes after all that precede the range,
\* and its rank is below their sum.
LEMMA RankInRange ==
  ASSUME NEW D, IsFiniteSet(D), D \subseteq Nat \X Nat,
         NEW v \in Nat, NEW d \in Nat, NEW lo \in Nat, NEW hi \in Nat,
         lo <= v, v <= hi
  PROVE  /\ Rank(D, v, d) \in Nat
         /\ RankOfScore(D, lo) <= Rank(D, v, d)
         /\ Rank(D, v, d) <= RankOfScore(D, lo) + CountDocsInRange(D, lo, hi)
         /\ <<v, d>> \in D =>
              Rank(D, v, d) < RankOfScore(D, lo) + CountDocsInRange(D, lo, hi)
<1> DEFINE n == RankOfScore(D, lo)
           m == CountAtMost(D, hi)
<1>1. /\ n \in Nat /\ m \in Nat
      /\ n <= m
  BY RankOfScoreType, CountBounds
<1>2. CountDocsInRange(D, lo, hi) = m - n
  <2>1. CountDocsInRange(D, lo, hi) = IF m - n < 0 THEN 0 ELSE m - n
    BY DEF CountDocsInRange
  <2> HIDE DEF m, n
  <2> QED
    BY <1>1, <2>1
<1>3. /\ Rank(D, v, d) \in Nat
      /\ n <= Rank(D, v, d)
      /\ Rank(D, v, d) <= m
      /\ <<v, d>> \in D => Rank(D, v, d) < m
  BY RankBounds
<1> HIDE DEF m, n
<1> QED
  BY <1>1, <1>2, <1>3 DEF n

\* The entry at an offset from the start of a range: it exists and lies in the
\* range exactly when the offset is below the number of documents there.
LEMMA AtOffset ==
  ASSUME NEW D, IsFiniteSet(D), D \subseteq Nat \X Nat,
         NEW lo \in Nat, NEW hi \in Nat, NEW c \in Nat, lo <= hi
  PROVE  {e \in AtRank(D, RankOfScore(D, lo) + c) : e[1] <= hi} # {}
           <=> c < CountDocsInRange(D, lo, hi)
<1> DEFINE n == RankOfScore(D, lo)
           m == CountAtMost(D, hi)
<1>1. /\ n \in Nat /\ m \in Nat /\ n <= m /\ m <= Cardinality(D)
      /\ Cardinality(D) \in Nat
  BY RankOfScoreType, CountBounds, FS_CardinalityType
<1>2. CountDocsInRange(D, lo, hi) = m - n
  <2>1. CountDocsInRange(D, lo, hi) = IF m - n < 0 THEN 0 ELSE m - n
    BY DEF CountDocsInRange
  <2> HIDE DEF m, n
  <2> QED
    BY <1>1, <2>1
<1>3. ASSUME NEW e \in D
      PROVE  /\ Rank(D, e[1], e[2]) \in Nat
             /\ e[1] <= hi => Rank(D, e[1], e[2]) < m
             /\ ~(e[1] <= hi) => m <= Rank(D, e[1], e[2])
  <2>1. e[1] \in Nat /\ e[2] \in Nat /\ <<e[1], e[2]>> \in D
    <3>1. e \in Nat \X Nat
      OBVIOUS
    <3> QED
      BY <3>1
  <2>2. ~(e[1] <= hi) => hi < e[1]
    BY <2>1
  <2> QED
    BY <2>1, <2>2, RankBounds
<1>4. ASSUME n + c < m
      PROVE  \E e \in AtRank(D, n + c) : e[1] <= hi
  <2>1. n + c \in Nat /\ n + c < Cardinality(D)
    <3> HIDE DEF n, m
    <3> QED
      BY <1>1, <1>4
  <2>2. AtRank(D, n + c) # {}
    <3> HIDE DEF n, m
    <3> QED
      BY <2>1, RankOnto
  <2>3. PICK e \in D : Rank(D, e[1], e[2]) = n + c
    BY <2>2 DEF AtRank
  <2>4. e[1] <= hi
    <3> HIDE DEF n, m
    <3> QED
      BY <1>1, <1>3, <1>4, <2>1, <2>3
  <2> QED
    BY <2>3, <2>4 DEF AtRank
<1>5. ASSUME NEW e \in AtRank(D, n + c), e[1] <= hi
      PROVE  n + c < m
  <2>1. e \in D /\ Rank(D, e[1], e[2]) = n + c
    BY <1>5 DEF AtRank
  <2> HIDE DEF n, m
  <2> QED
    BY <1>3, <1>5, <2>1
<1>6. n + c < m <=> c < CountDocsInRange(D, lo, hi)
  <2> HIDE DEF n, m
  <2> QED
    BY <1>1, <1>2
<1> QED
  BY <1>4, <1>5, <1>6

\* collectRange returns as many documents as the range holds, up to the limit:
\* their ranks are the first ones from the start of the range.
LEMMA WindowSize ==
  ASSUME NEW D, IsFiniteSet(D), D \subseteq Nat \X Nat,
         NEW lo \in Nat, NEW hi \in Nat, NEW k \in Nat
  PROVE  Cardinality(CollectRange(D, lo, hi, k)) =
           Smaller(CountDocsInRange(D, lo, hi), k)
<1> DEFINE n == RankOfScore(D, lo)
           C == CountDocsInRange(D, lo, hi)
           c == Smaller(C, k)
           W == CollectRange(D, lo, hi, k)
<1>1. n \in Nat /\ C \in Nat
  BY RankOfScoreType, CountDocsInRangeType
<1>2. W \subseteq D /\ IsFiniteSet(W)
  <2>1. W \subseteq D
    BY DEF CollectRange
  <2> QED
    BY <2>1, FS_Subset
<1>3. c \in Nat /\ c <= C /\ c <= k /\ (c = C \/ c = k)
  <2> HIDE DEF C
  <2> QED
    BY <1>1 DEF Smaller
<1>4. ASSUME NEW e \in W
      PROVE  /\ e[1] \in Nat /\ e[2] \in Nat /\ e = <<e[1], e[2]>>
             /\ lo <= e[1] /\ e[1] <= hi /\ Rank(D, e[1], e[2]) - n < k
  <2>1. e \in Nat \X Nat
    BY <1>2
  <2> QED
    BY <2>1 DEF CollectRange
<1>5. CASE lo <= hi
  <2> DEFINE T == 0 .. c - 1
             f == [e \in W |-> Rank(D, e[1], e[2]) - n]
  <2>1. IsFiniteSet(T) /\ Cardinality(T) = c
    <3>1. 0 \in Int /\ c - 1 \in Int
      BY <1>3
    <3>2. /\ IsFiniteSet(0 .. c - 1)
          /\ Cardinality(0 .. c - 1) = IF 0 > c - 1 THEN 0 ELSE c - 1 - 0 + 1
      <4> HIDE DEF c
      <4> QED
        BY <3>1, FS_Interval
    <3> HIDE DEF c
    <3> QED
      BY <1>3, <3>2
  <2>2. ASSUME NEW e \in W
        PROVE  Rank(D, e[1], e[2]) \in Nat /\ Rank(D, e[1], e[2]) - n \in T
    <3>1. /\ Rank(D, e[1], e[2]) \in Nat
          /\ n <= Rank(D, e[1], e[2])
          /\ Rank(D, e[1], e[2]) < n + C
      BY <1>2, <1>4, RankInRange
    <3> HIDE DEF n, C, c, W
    <3> QED
      BY <1>1, <1>3, <1>4, <3>1
  <2>3. \A a, b \in W : f[a] = f[b] => a = b
    <3> SUFFICES ASSUME NEW a \in W, NEW b \in W, f[a] = f[b] PROVE a = b
      OBVIOUS
    <3>1. Rank(D, a[1], a[2]) = Rank(D, b[1], b[2])
      <4> HIDE DEF n, W
      <4> QED
        BY <1>1, <2>2
    <3>2. a \in D /\ b \in D
      BY <1>2
    <3> QED
      BY <3>1, <3>2, RankInjective
  <2>4. ASSUME NEW t \in T
        PROVE  \E e \in W : f[e] = t
    <3>1. t \in Nat /\ t < C /\ t < k
      <4> HIDE DEF C, c
      <4> QED
        BY <1>1, <1>3
    <3>2. {e \in AtRank(D, n + t) : e[1] <= hi} # {}
      BY <1>5, <3>1, AtOffset
    <3>3. PICK e \in D : Rank(D, e[1], e[2]) = n + t /\ e[1] <= hi
      BY <3>2 DEF AtRank
    <3>4. e[1] \in Nat /\ e[2] \in Nat /\ <<e[1], e[2]>> \in D
      <4>1. e \in Nat \X Nat
        OBVIOUS
      <4> QED
        BY <4>1
    <3>5. lo <= e[1]
      <4>1. e[1] < lo => Rank(D, e[1], e[2]) < n
        BY <3>4, RankBounds
      <4> HIDE DEF n
      <4> QED
        BY <1>1, <3>1, <3>3, <3>4, <4>1
    <3>6. Rank(D, e[1], e[2]) - n = t
      <4> HIDE DEF n
      <4> QED
        BY <1>1, <3>1, <3>3
    <3>7. e \in W
      BY <3>1, <3>3, <3>5, <3>6 DEF CollectRange
    <3> HIDE DEF n, W
    <3> QED
      BY <3>6, <3>7
  <2> HIDE DEF T, W, n, C, c
  <2>5. f \in [W -> T]
    BY <2>2
  <2> HIDE DEF f
  <2>6. f \in Injection(W, T)
    BY <2>3, <2>5, Fun_IsInj
  <2>7. f \in Surjection(W, T)
    BY <2>4, <2>5, Fun_IsSurj
  <2>8. Cardinality(W) = Cardinality(T)
    BY <2>1, <2>6, <2>7, FS_Injection
  <2> QED
    BY <2>1, <2>8 DEF W, c, C
<1>6. CASE hi < lo
  <2>1. W = {}
    <3> HIDE DEF W, n
    <3> QED
      BY <1>4, <1>6
  <2>2. C = 0
    <3>1. CountAtMost(D, hi) \in Nat /\ CountAtMost(D, hi) <= n
      BY <1>6, RankOfScoreType, CountBounds
    <3>2. C = IF CountAtMost(D, hi) - n < 0 THEN 0 ELSE CountAtMost(D, hi) - n
      BY DEF CountDocsInRange
    <3> HIDE DEF n, C
    <3> QED
      BY <1>1, <3>1, <3>2
  <2>3. c = 0
    <3> HIDE DEF C
    <3> QED
      BY <2>2 DEF Smaller
  <2> QED
    BY <2>1, <2>3, FS_EmptySet
<1> QED
  BY <1>5, <1>6

-----------------------------------------------------------------------------
(* The match counters.                                                      *)

\* The parts of a query and of the documents, as numbers.
LEMMA StateNumbers ==
  ASSUME NEW s, IsState(s)
  PROVE  /\ IsFiniteSet(s.docs) /\ s.docs \subseteq Nat \X Nat
         /\ s.queries \in [DOMAIN s.queries -> QueryInfo]
         /\ \A q \in DOMAIN s.queries :
              /\ s.queries[q].a \in Nat /\ s.queries[q].k \in Nat
              /\ s.queries[q].max \in Nat
              /\ s.queries[q].currentMatches \in Nat
              /\ RankOfScore(s.docs, s.queries[q].a) \in Nat
              /\ CountDocsInRange(s.docs, s.queries[q].a, s.queries[q].max) \in Nat
<1>1. IsFiniteSet(s.docs) /\ s.docs \subseteq Nat \X Nat
  BY ScoresAssumption, DocsAssumption DEF IsState
<1>2. s.queries \in [DOMAIN s.queries -> QueryInfo]
  BY DEF IsState
<1>3. ASSUME NEW q \in DOMAIN s.queries
      PROVE  /\ s.queries[q].a \in Nat /\ s.queries[q].k \in Nat
             /\ s.queries[q].max \in Nat
             /\ s.queries[q].currentMatches \in Nat
  BY <1>2, ScoresAssumption DEF QueryInfo
<1> QED
  BY <1>1, <1>2, <1>3, RankOfScoreType, CountDocsInRangeType

\* What a recount does to the counter of a query.
LEMMA RecountAt ==
  ASSUME NEW Q, Q \in [DOMAIN Q -> QueryInfo], NEW S, NEW delta \in Int,
         NEW q \in DOMAIN Q
  PROVE  Recount(Q, S, delta)[q].currentMatches =
           IF q \in S THEN Q[q].currentMatches + delta
                      ELSE Q[q].currentMatches
<1>1. Q[q] \in QueryInfo
  OBVIOUS
<1>2. Recount(Q, S, delta)[q] =
        IF q \in S THEN [Q[q] EXCEPT !.currentMatches = @ + delta] ELSE Q[q]
  BY DEF Recount
<1> QED
  BY <1>1, <1>2 DEF QueryInfo

\* A query covers a document exactly when its range holds the document's score
\* and the document is among the first k from the start of the range.
LEMMA CoveringMeaning ==
  ASSUME NEW s, IsState(s), EffExactIn(s), NEW v \in Nat, NEW d \in Nat,
         NEW q \in DOMAIN s.queries
  PROVE  q \in Covering(s, v, d) <=>
           /\ s.queries[q].a <= v /\ v <= s.queries[q].max
           /\ Rank(s.docs, v, d) < RankOfScore(s.docs, s.queries[q].a)
                                     + s.queries[q].k
<1>1. s.eff[q] = RankOfScore(s.docs, s.queries[q].a) + s.queries[q].k
  BY DEF EffExactIn
<1>2. /\ s.queries[q].k \in Nat /\ s.queries[q].max \in Nat
      /\ RankOfScore(s.docs, s.queries[q].a) \in Nat
  BY StateNumbers
<1>3. Rank(s.docs, v, d) \in Nat
  BY StateNumbers, RankBounds
<1> QED
  BY <1>1, <1>2, <1>3 DEF Covering

\* addDocument keeps the counters exact: a query that is not full and whose
\* range gets the document covers it, and counts it.
LEMMA AddDocumentKeepsMatches ==
  ASSUME NEW s, IsState(s), EffExactIn(s), MatchesExactIn(s),
         NEW v \in Scores, NEW d \in Docs, \A e \in s.docs : e[2] # d
  PROVE  MatchesExactIn(AddDocument(s, v, d))
<1> DEFINE t == AddDocument(s, v, d)
           S == Covering(s, v, d) \ Blocked(s, v, d)
<1>1. t.docs = AddEntry(s.docs, v, d) /\ t.queries = Recount(s.queries, S, 1)
  BY DEF AddDocument
<1>2. /\ v \in Nat /\ d \in Nat /\ <<v, d>> \notin s.docs
      /\ IsFiniteSet(s.docs) /\ s.docs \subseteq Nat \X Nat
      /\ s.queries \in [DOMAIN s.queries -> QueryInfo]
  BY ScoresAssumption, DocsAssumption, StateNumbers
<1>3. \A q \in DOMAIN s.queries : s.queries[q].currentMatches + 1 \in Nat
  BY StateNumbers
<1> HIDE DEF t
<1>4. /\ DOMAIN t.queries = DOMAIN s.queries
      /\ \A q \in DOMAIN s.queries : /\ t.queries[q].a = s.queries[q].a
                                     /\ t.queries[q].k = s.queries[q].k
                                     /\ t.queries[q].max = s.queries[q].max
  <2> HIDE DEF S
  <2> QED
    BY <1>1, <1>2, <1>3, RecountKeepsInfo
<1>5. ASSUME NEW q \in DOMAIN s.queries
      PROVE  t.queries[q].currentMatches =
               Smaller(CountDocsInRange(t.docs, t.queries[q].a, t.queries[q].max),
                       t.queries[q].k)
  <2> DEFINE a  == s.queries[q].a
             k  == s.queries[q].k
             m  == s.queries[q].max
             cm == s.queries[q].currentMatches
             C  == CountDocsInRange(s.docs, a, m)
             n  == RankOfScore(s.docs, a)
             r  == Rank(s.docs, v, d)
  <2>1. /\ a \in Nat /\ k \in Nat /\ m \in Nat /\ cm \in Nat
        /\ C \in Nat /\ n \in Nat
    BY StateNumbers
  <2>2. cm = Smaller(C, k)
    BY DEF MatchesExactIn
  <2>3. CountDocsInRange(t.docs, a, m) =
          IF a <= v /\ v <= m THEN C + 1 ELSE C
    <3> HIDE DEF a, m
    <3> QED
      BY <1>1, <1>2, <2>1, CountDocsInRangeAdd
  <2>4. q \in Covering(s, v, d) <=> a <= v /\ v <= m /\ r < n + k
    BY <1>2, CoveringMeaning
  <2>5. q \in S <=> (a <= v /\ v <= m /\ r < n + k /\ ~(cm >= k))
    BY <2>4 DEF Blocked, IsFull
  <2>6. a <= v /\ v <= m => r \in Nat /\ r <= n + C
    <3> HIDE DEF a, m
    <3> QED
      BY <1>2, <2>1, RankInRange
  <2>7. t.queries[q].currentMatches = IF q \in S THEN cm + 1 ELSE cm
    <3> HIDE DEF S
    <3> QED
      BY <1>1, <1>2, RecountAt
  <2>8. (IF q \in S THEN cm + 1 ELSE cm) =
          Smaller(IF a <= v /\ v <= m THEN C + 1 ELSE C, k)
    <3> HIDE DEF S, a, k, m, cm, C, n, r
    <3> QED
      BY <1>2, <2>1, <2>2, <2>5, <2>6 DEF Smaller
  <2> QED
    BY <1>4, <2>3, <2>7, <2>8
<1> QED
  BY <1>4, <1>5 DEF MatchesExactIn, t

\* With exact counters a covering query counts at least one match:
\* removeDocument never throws on a document it holds.
LEMMA NeverCannotRemove ==
  ASSUME NEW s, IsState(s), EffExactIn(s), MatchesExactIn(s),
         NEW v, NEW d, <<v, d>> \in s.docs
  PROVE  ~CannotRemove(s, v, d)
<1>1. /\ v \in Nat /\ d \in Nat
      /\ IsFiniteSet(s.docs) /\ s.docs \subseteq Nat \X Nat
  BY StateNumbers
<1>2. ASSUME NEW q \in Covering(s, v, d)
      PROVE  s.queries[q].currentMatches > 0
  <2>1. q \in DOMAIN s.queries
    BY DEF Covering
  <2> DEFINE a  == s.queries[q].a
             k  == s.queries[q].k
             m  == s.queries[q].max
             cm == s.queries[q].currentMatches
             C  == CountDocsInRange(s.docs, a, m)
             n  == RankOfScore(s.docs, a)
             r  == Rank(s.docs, v, d)
  <2>2. /\ a \in Nat /\ k \in Nat /\ m \in Nat /\ cm \in Nat
        /\ C \in Nat /\ n \in Nat
    BY <2>1, StateNumbers
  <2>3. cm = Smaller(C, k)
    BY <2>1 DEF MatchesExactIn
  <2>4. a <= v /\ v <= m /\ r < n + k
    BY <1>1, <2>1, CoveringMeaning
  <2>5. r \in Nat /\ n <= r /\ r < n + C
    <3> HIDE DEF a, m
    <3> QED
      BY <1>1, <2>2, <2>4, RankInRange
  <2> HIDE DEF a, k, m, cm, C, n, r
  <2>6. cm > 0
    BY <2>2, <2>3, <2>4, <2>5 DEF Smaller
  <2> QED
    BY <2>6 DEF cm
<1> QED
  BY <1>2 DEF CannotRemove, Covering, IsState, QueryInfo

\* fillGap finds a replacement for a query that is not full exactly when its
\* range holds more documents than are counted.  Document 0 must not exist: it
\* is taken for no document (LimitQueries.ts:359).
LEMMA ReplacementMeaning ==
  ASSUME NEW s, IsState(s), 0 \notin Docs, NEW q \in DOMAIN s.queries,
         s.queries[q].a <= s.queries[q].max
  PROVE  Replacement(s, q) # {} <=>
           /\ s.queries[q].currentMatches < s.queries[q].k
           /\ s.queries[q].currentMatches <
                CountDocsInRange(s.docs, s.queries[q].a, s.queries[q].max)
<1> DEFINE a  == s.queries[q].a
           m  == s.queries[q].max
           cm == s.queries[q].currentMatches
           F  == DocForQueryAt(s, q, cm)
           I  == {e[2] : e \in F}
<1>1. /\ a \in Nat /\ m \in Nat /\ cm \in Nat /\ s.queries[q].k \in Nat
      /\ IsFiniteSet(s.docs) /\ s.docs \subseteq Nat \X Nat
  BY StateNumbers
<1>2. F # {} <=> cm < CountDocsInRange(s.docs, a, m)
  <2>1. F = {e \in AtRank(s.docs, RankOfScore(s.docs, a) + cm) : e[1] <= m}
    BY DEF DocForQueryAt
  <2> HIDE DEF a, m, cm, F
  <2> QED
    BY <1>1, <2>1, AtOffset DEF a, m
<1>3. I \subseteq Docs
  <2>1. F \subseteq Scores \X Docs
    BY DEF DocForQueryAt, AtRank, IsState
  <2> HIDE DEF F
  <2> QED
    BY <2>1
<1>4. Truthy(I) = I
  BY <1>3 DEF Truthy
<1>5. I # {} <=> F # {}
  OBVIOUS
<1>6. Replacement(s, q) = IF cm >= s.queries[q].k THEN {} ELSE Truthy(I)
  BY DEF Replacement, IsFull
<1> HIDE DEF I, F, a, m, cm
<1>7. Replacement(s, q) # {} <=> /\ cm < s.queries[q].k
                                 /\ cm < CountDocsInRange(s.docs, a, m)
  BY <1>1, <1>2, <1>4, <1>5, <1>6
<1> QED
  BY <1>7 DEF a, m, cm

\* removeDocument and the fillGap of the queries that covered the document
\* keep the counters exact: a query whose range holds more documents than its
\* limit gets the next one, any other counts one less.
LEMMA RemoveAndFillKeepsMatches ==
  ASSUME NEW s, IsState(s), EffExactIn(s), MatchesExactIn(s), 0 \notin Docs,
         NEW v, NEW d, <<v, d>> \in s.docs
  PROVE  MatchesExactIn(FillGaps(RemoveDocument(s, v, d), Covering(s, v, d)))
<1> DEFINE S == Covering(s, v, d)
           t == RemoveDocument(s, v, d)
           u == FillGaps(t, S)
           F == {q \in S : Replacement(t, q) # {}}
<1>1. t.docs = RemoveEntry(s.docs, v, d) /\ t.queries = Recount(s.queries, S, -1)
  BY NeverCannotRemove, CountedDownAll DEF RemoveDocument
<1>2. u.docs = t.docs /\ u.queries = Recount(t.queries, F, 1)
  BY DEF FillGaps
<1>3. /\ v \in Nat /\ d \in Nat
      /\ IsFiniteSet(s.docs) /\ s.docs \subseteq Nat \X Nat
      /\ s.queries \in [DOMAIN s.queries -> QueryInfo]
  BY StateNumbers
<1>4. IsState(t)
  BY RemoveDocumentKeepsState
<1>5. \A q \in DOMAIN s.queries :
        q \in S => s.queries[q].currentMatches + (-1) \in Nat
  BY NeverCannotRemove, StateNumbers DEF CannotRemove
<1> HIDE DEF t, u
<1>6. /\ DOMAIN t.queries = DOMAIN s.queries
      /\ \A q \in DOMAIN s.queries : /\ t.queries[q].a = s.queries[q].a
                                     /\ t.queries[q].k = s.queries[q].k
                                     /\ t.queries[q].max = s.queries[q].max
  <2> HIDE DEF S
  <2> QED
    BY <1>1, <1>3, <1>5, RecountKeepsInfo
<1>7. /\ DOMAIN u.queries = DOMAIN t.queries
      /\ \A q \in DOMAIN t.queries : /\ u.queries[q].a = t.queries[q].a
                                     /\ u.queries[q].k = t.queries[q].k
                                     /\ u.queries[q].max = t.queries[q].max
  <2>1. /\ t.queries \in [DOMAIN t.queries -> QueryInfo]
        /\ \A q \in DOMAIN t.queries : t.queries[q].currentMatches + 1 \in Nat
    BY <1>4, StateNumbers
  <2> HIDE DEF F
  <2> QED
    BY <1>2, <2>1, RecountKeepsInfo
<1>8. ASSUME NEW q \in DOMAIN s.queries
      PROVE  u.queries[q].currentMatches =
               Smaller(CountDocsInRange(u.docs, u.queries[q].a, u.queries[q].max),
                       u.queries[q].k)
  <2> DEFINE a  == s.queries[q].a
             k  == s.queries[q].k
             m  == s.queries[q].max
             cm == s.queries[q].currentMatches
             ct == t.queries[q].currentMatches
             C  == CountDocsInRange(s.docs, a, m)
             E  == CountDocsInRange(t.docs, a, m)
             n  == RankOfScore(s.docs, a)
             r  == Rank(s.docs, v, d)
  <2>1. /\ a \in Nat /\ k \in Nat /\ m \in Nat /\ cm \in Nat
        /\ C \in Nat /\ n \in Nat
    BY StateNumbers
  <2>2. cm = Smaller(C, k)
    BY DEF MatchesExactIn
  <2>3. E \in Nat /\ E = IF a <= v /\ v <= m THEN C - 1 ELSE C
    <3>1. E = IF a <= v /\ v <= m THEN C - 1 ELSE C
      <4> HIDE DEF a, m
      <4> QED
        BY <1>1, <1>3, <2>1, CountDocsInRangeRemove
    <3>2. E \in Nat
      BY <1>4, StateNumbers, CountDocsInRangeType
    <3> QED
      BY <3>1, <3>2
  <2>4. q \in S <=> a <= v /\ v <= m /\ r < n + k
    BY <1>3, CoveringMeaning
  <2>5. a <= v /\ v <= m => r \in Nat /\ n <= r /\ r < n + C
    <3> HIDE DEF a, m
    <3> QED
      BY <1>3, <2>1, RankInRange
  <2>6. ct = IF q \in S THEN cm - 1 ELSE cm
    <3>1. ct = IF q \in S THEN cm + (-1) ELSE cm
      <4> HIDE DEF S
      <4> QED
        BY <1>1, <1>3, RecountAt
    <3> HIDE DEF ct, cm, S
    <3> QED
      BY <2>1, <3>1
  <2>7. q \in F <=> q \in S /\ ct < k /\ ct < E
    <3>1. a <= m => (Replacement(t, q) # {} <=> ct < k /\ ct < E)
      BY <1>4, <1>6, ReplacementMeaning
    <3>2. q \in S => a <= m
      <4> HIDE DEF a, m, S
      <4> QED
        BY <1>3, <2>1, <2>4
    <3> HIDE DEF a, m, ct, E, S, k
    <3> QED
      BY <3>1, <3>2
  <2>8. u.queries[q].currentMatches = IF q \in F THEN ct + 1 ELSE ct
    <3>1. t.queries \in [DOMAIN t.queries -> QueryInfo] /\ q \in DOMAIN t.queries
      BY <1>4, <1>6, StateNumbers
    <3> HIDE DEF F
    <3> QED
      BY <1>2, <3>1, RecountAt
  <2>9. (IF q \in F THEN ct + 1 ELSE ct) = Smaller(E, k)
    <3> HIDE DEF S, F, a, k, m, cm, ct, C, E, n, r
    <3> QED
      BY <1>3, <2>1, <2>2, <2>3, <2>4, <2>5, <2>6, <2>7 DEF Smaller
  <2> QED
    BY <1>2, <1>6, <1>7, <2>8, <2>9
<1> QED
  BY <1>6, <1>7, <1>8 DEF MatchesExactIn, u, t

LEMMA AddQueryKeepsMatches ==
  ASSUME NEW s, MatchesExactIn(s), NEW spec
  PROVE  MatchesExactIn(AddQuery(s, spec))
<1> DEFINE t   == AddQuery(s, spec)
           m   == Smaller(CountDocsInRange(s.docs, spec.a, spec.max), spec.k)
           new == [a |-> spec.a, k |-> spec.k, max |-> spec.max,
                   currentMatches |-> m]
           ids == DOMAIN s.queries \cup {s.nextId}
<1>1. /\ t.docs = s.docs
      /\ t.queries = [q \in ids |-> IF q = s.nextId THEN new
                                                    ELSE s.queries[q]]
  BY DEF AddQuery
<1>2. new.a = spec.a /\ new.k = spec.k /\ new.max = spec.max
      /\ new.currentMatches = m
  OBVIOUS
<1> HIDE DEF t, new
<1>3. ASSUME NEW q \in ids
      PROVE  t.queries[q].currentMatches =
               Smaller(CountDocsInRange(t.docs, t.queries[q].a, t.queries[q].max),
                       t.queries[q].k)
  <2>1. CASE q = s.nextId
    BY <1>1, <1>2, <2>1
  <2>2. CASE q # s.nextId
    BY <1>1, <2>2 DEF MatchesExactIn
  <2> QED
    BY <2>1, <2>2
<1>4. DOMAIN t.queries = ids
  BY <1>1
<1> QED
  BY <1>3, <1>4 DEF MatchesExactIn, t

\* The window of a new query has as many documents as it counts: query-add
\* does not throw.
LEMMA QueryAddNeverThrows ==
  ASSUME NEW s, IsState(s), NEW spec \in Specs, s.nextId \in QueryIds
  PROVE  /\ QueryAddOutcome(s, spec).st = AddQuery(s, spec)
         /\ QueryAddOutcome(s, spec).out.error = FALSE
<1> DEFINE t == AddQuery(s, spec)
           q == s.nextId
           window == DocsForQuery(t, q)
<1>1. spec.a \in Nat /\ spec.k \in Nat /\ spec.max \in Nat
  BY SpecsAssumption, ScoresAssumption
<1>2. /\ t.docs = s.docs /\ t.queries[q].a = spec.a
      /\ t.queries[q].k = spec.k /\ t.queries[q].max = spec.max
      /\ t.queries[q].currentMatches =
           Smaller(CountDocsInRange(s.docs, spec.a, spec.max), spec.k)
  BY DEF AddQuery
<1>3. window = CollectRange(s.docs, spec.a, spec.max, spec.k)
  BY <1>2 DEF DocsForQuery
<1>4. Cardinality(window) = t.queries[q].currentMatches
  <2>1. IsFiniteSet(s.docs) /\ s.docs \subseteq Nat \X Nat
    BY StateNumbers
  <2> HIDE DEF t, q, window
  <2> QED
    BY <1>1, <1>2, <1>3, <2>1, WindowSize
<1>5. QueryAddOutcome(s, spec) =
        IF Cardinality(window) # t.queries[q].currentMatches
          THEN ThrowOutcome(t)
          ELSE [st |-> t, out |-> [Quiet EXCEPT !.registers =
                                     {q} \X {e[2] : e \in window}]]
  BY DEF QueryAddOutcome
<1> HIDE DEF window, t
<1>6. QueryAddOutcome(s, spec).st = t
  BY <1>4, <1>5
<1>7. QueryAddOutcome(s, spec).out.error = FALSE
  BY <1>4, <1>5 DEF Quiet
<1> QED
  BY <1>6, <1>7 DEF t

\* The handler of a document that appears.
LEMMA InsertOutcome ==
  ASSUME NEW s, NEW d, NEW v \in Scores
  PROVE  /\ ChangeOutcome(s, d, NoScore, v, {}).st = FillGaps(AddDocument(s, v, d), {})
         /\ ChangeOutcome(s, d, NoScore, v, {}).out.error = FALSE
<1>1. v # NoScore
  BY ScoresAssumption DEF NoScore
<1>2. \A X : {} \ X = {}
  OBVIOUS
<1> QED
  BY <1>1, <1>2 DEF ChangeOutcome, Quiet

\* The handler of a document that disappears.
LEMMA DeleteOutcome ==
  ASSUME NEW s, NEW d, NEW v, v # NoScore, ~CannotRemove(s, v, d)
  PROVE  /\ ChangeOutcome(s, d, v, NoScore, {}).st =
              FillGaps(RemoveDocument(s, v, d), Covering(s, v, d))
         /\ ChangeOutcome(s, d, v, NoScore, {}).out.error = FALSE
<1>1. \A X : X \ {} = X
  OBVIOUS
<1> QED
  BY <1>1 DEF ChangeOutcome, Quiet

LEMMA FillNothing ==
  ASSUME NEW s, IsState(s), MatchesExactIn(s)
  PROVE  MatchesExactIn(FillGaps(s, {}))
<1> DEFINE t == FillGaps(s, {})
<1>1. {q \in {} : Replacement(s, q) # {}} = {}
  OBVIOUS
<1>2. t.docs = s.docs /\ t.queries = Recount(s.queries, {}, 1)
  BY <1>1 DEF FillGaps
<1>3. t.queries = s.queries
  BY <1>2 DEF Recount, IsState
<1> HIDE DEF t
<1> QED
  BY <1>2, <1>3 DEF MatchesExactIn, t

-----------------------------------------------------------------------------
(* What an item tells is what it changes.                                   *)

\* The documents of a set of entries, and those a query shows, by their ids.
DocsOf(D)   == {e[2] : e \in D}
Shown(D, i) == DocsOf(CollectRange(D, i.a, i.max, i.k))

\* Without two entries for a document, ids tell windows apart as entries do.
LEMMA ShownEntries ==
  ASSUME NEW F, OneEntryPerDoc(F), NEW A, NEW B, A \subseteq F, B \subseteq F
  PROVE  /\ \A e \in F : e[2] \in DocsOf(A) <=> e \in A
         /\ \A x \in DocsOf(A) : \E e \in F : e[2] = x
         /\ {x \in DocsOf(A) : x \notin DocsOf(B)} = DocsOf({e \in A : e \notin B})
<1>1. \A e, f \in F : e[2] = f[2] => e = f
  BY DEF OneEntryPerDoc
<1>2. \A e \in F : (e[2] \in DocsOf(A) <=> e \in A) /\ (e[2] \in DocsOf(B) <=> e \in B)
  BY <1>1 DEF DocsOf
<1>3. \A x : x \in DocsOf(A) <=> \E e \in A : e[2] = x
  BY DEF DocsOf
<1>4. \A x : x \in DocsOf({e \in A : e \notin B}) <=> \E e \in A : e \notin B /\ e[2] = x
  BY DEF DocsOf
<1>5. ASSUME NEW x
      PROVE  (x \in DocsOf(A) /\ x \notin DocsOf(B))
               <=> \E e \in A : e \notin B /\ e[2] = x
  BY <1>1, <1>2, <1>3
<1> QED
  BY <1>2, <1>3, <1>4, <1>5

\* What a new document does to what a query shows.
LEMMA ShownAdd ==
  ASSUME NEW D, IsFiniteSet(D), D \subseteq Nat \X Nat, OneEntryPerDoc(D),
         NEW v \in Nat, NEW d \in Nat, \A e \in D : e[2] # d,
         NEW i, i.a \in Nat, i.k \in Nat, i.max \in Nat,
         NEW E, E = AddEntry(D, v, d)
  PROVE  LET n == RankOfScore(D, i.a)
             gone == {x \in Shown(D, i) : x \notin Shown(E, i)}
             shown == i.a <= v /\ v <= i.max /\ Rank(D, v, d) < n + i.k
         IN  /\ d \in Shown(E, i) <=> shown
             /\ d \notin Shown(D, i)
             /\ \A x \in Shown(E, i) : x # d => x \in Shown(D, i)
             /\ ~shown => gone = {}
             /\ shown =>
                  /\ gone = DocsOf({f \in AtRank(D, n + i.k - 1) : f[1] <= i.max})
                  /\ gone = DocsOf({f \in AtRank(E, RankOfScore(E, i.a) + i.k) : f[1] <= i.max})
             /\ shown => RankOfScore(E, i.a) = n
<1> DEFINE n == RankOfScore(D, i.a)
           gone == {x \in Shown(D, i) : x \notin Shown(E, i)}
           shown == i.a <= v /\ v <= i.max /\ Rank(D, v, d) < n + i.k
           W == CollectRange(D, i.a, i.max, i.k)
           X == CollectRange(E, i.a, i.max, i.k)
<1>1. <<v, d>> \notin D
  OBVIOUS
<1>2. /\ <<v, d>> \in X <=> shown
      /\ \A e \in X : e # <<v, d>> => e \in W
      /\ ~shown => \A e \in W : e \in X
      /\ shown => \A e :
           /\ e \in W /\ e \notin X <=> e \in AtRank(D, n + i.k - 1) /\ e[1] <= i.max
           /\ e \in W /\ e \notin X
                <=> e \in AtRank(E, RankOfScore(E, i.a) + i.k) /\ e[1] <= i.max
      /\ shown => RankOfScore(E, i.a) = n
  BY <1>1, WindowAdd
<1>3. OneEntryPerDoc(E) /\ <<v, d>> \in E /\ W \subseteq E /\ X \subseteq E /\ W \subseteq D
  <2>1. E = D \cup {<<v, d>>}
    BY DEF AddEntry
  <2>2. W \subseteq D /\ X \subseteq E
    BY DEF CollectRange
  <2> QED
    BY <2>1, <2>2 DEF OneEntryPerDoc
<1>4. Shown(D, i) = DocsOf(W) /\ Shown(E, i) = DocsOf(X)
  BY DEF Shown
<1> HIDE DEF W, X, n
<1>5. /\ \A e \in E : e[2] \in Shown(E, i) <=> e \in X
      /\ \A e \in E : e[2] \in Shown(D, i) <=> e \in W
      /\ \A x \in Shown(E, i) : \E e \in E : e[2] = x
      /\ gone = DocsOf({e \in W : e \notin X})
  BY <1>3, <1>4, ShownEntries
<1>6. /\ d \in Shown(E, i) <=> <<v, d>> \in X
      /\ d \in Shown(D, i) <=> <<v, d>> \in W
  <2>1. <<v, d>>[2] = d
    OBVIOUS
  <2> QED
    BY <1>3, <1>5, <2>1
<1>7. <<v, d>> \notin W
  BY <1>1, <1>3
<1>8. \A x \in Shown(E, i) : x # d => x \in Shown(D, i)
  BY <1>2, <1>5
<1>9. ~shown => gone = {}
  BY <1>2, <1>5 DEF DocsOf
<1>10. ASSUME shown, NEW T, \A e : e \in W /\ e \notin X <=> e \in T
       PROVE  gone = DocsOf(T)
  <2>1. {e \in W : e \notin X} = T
    BY <1>10
  <2> QED
    BY <1>5, <2>1
<1>11. ASSUME shown
       PROVE  /\ gone = DocsOf({f \in AtRank(D, n + i.k - 1) : f[1] <= i.max})
              /\ gone = DocsOf({f \in AtRank(E, RankOfScore(E, i.a) + i.k) : f[1] <= i.max})
  <2> DEFINE S == {f \in AtRank(D, n + i.k - 1) : f[1] <= i.max}
             T == {f \in AtRank(E, RankOfScore(E, i.a) + i.k) : f[1] <= i.max}
  <2>1. \A e : (e \in W /\ e \notin X) <=> e \in S
    BY <1>2, <1>11
  <2>2. \A e : (e \in W /\ e \notin X) <=> e \in T
    BY <1>2, <1>11
  <2> HIDE DEF S, T, gone
  <2>3. gone = DocsOf(S) /\ gone = DocsOf(T)
    BY <1>10, <1>11, <2>1, <2>2
  <2> QED
    BY <2>3 DEF S, T
<1> QED
  BY <1>2, <1>6, <1>7, <1>8, <1>9, <1>11 DEF n

\* The queries that cover an indexed document are those that show it.
LEMMA CoveringShown ==
  ASSUME NEW s, IsState(s), EffExactIn(s), NEW v, NEW d, <<v, d>> \in s.docs,
         NEW q \in DOMAIN s.queries
  PROVE  q \in Covering(s, v, d) <=> d \in Shown(s.docs, s.queries[q])
<1> DEFINE i == s.queries[q]
           X == CollectRange(s.docs, i.a, i.max, i.k)
<1>1. /\ v \in Nat /\ d \in Nat /\ i.a \in Nat /\ i.k \in Nat
      /\ RankOfScore(s.docs, i.a) \in Nat
      /\ IsFiniteSet(s.docs) /\ s.docs \subseteq Nat \X Nat /\ OneEntryPerDoc(s.docs)
  BY StateNumbers DEF IsState
<1>2. Rank(s.docs, v, d) \in Nat
  BY <1>1, RankBounds
<1>3. <<v, d>> \in X <=> /\ i.a <= v /\ v <= i.max
                         /\ Rank(s.docs, v, d) - RankOfScore(s.docs, i.a) < i.k
  BY DEF CollectRange
<1>4. q \in Covering(s, v, d) <=> /\ i.a <= v /\ v <= i.max
                                  /\ Rank(s.docs, v, d) < RankOfScore(s.docs, i.a) + i.k
  BY <1>1, CoveringMeaning
<1>5. q \in Covering(s, v, d) <=> <<v, d>> \in X
  <2> HIDE DEF i, X
  <2> QED
    BY <1>1, <1>2, <1>3, <1>4
<1>6. X \subseteq s.docs
  BY DEF CollectRange
<1>7. <<v, d>>[2] \in DocsOf(X) <=> <<v, d>> \in X
  <2> HIDE DEF X
  <2> QED
    BY <1>1, <1>6, ShownEntries
<1> QED
  BY <1>5, <1>7 DEF Shown

\* The parts of a query after a recount.
LEMMA RecountParts ==
  ASSUME NEW Q, Q \in [DOMAIN Q -> QueryInfo], NEW S, NEW delta \in Int,
         NEW q \in DOMAIN Q
  PROVE  /\ DOMAIN Recount(Q, S, delta) = DOMAIN Q
         /\ Recount(Q, S, delta)[q].a = Q[q].a
         /\ Recount(Q, S, delta)[q].k = Q[q].k
         /\ Recount(Q, S, delta)[q].max = Q[q].max
         /\ Recount(Q, S, delta)[q].currentMatches =
              IF q \in S THEN Q[q].currentMatches + delta ELSE Q[q].currentMatches
<1>1. Q[q] \in QueryInfo
  OBVIOUS
<1>2. Recount(Q, S, delta)[q] =
        IF q \in S THEN [Q[q] EXCEPT !.currentMatches = @ + delta] ELSE Q[q]
  BY DEF Recount
<1>3. DOMAIN Recount(Q, S, delta) = DOMAIN Q
  BY DEF Recount
<1> QED
  BY <1>1, <1>2, <1>3 DEF QueryInfo

\* What a new document evicts from a query: nothing, unless the query covers
\* the document and is full, and then the document just after its window.
LEMMA InsertEvicts ==
  ASSUME NEW s, IsState(s), EffExactIn(s), MatchesExactIn(s), 0 \notin Docs,
         NEW v \in Scores, NEW d \in Docs, \A e \in s.docs : e[2] # d,
         NEW q \in DOMAIN s.queries,
         NEW E, E = AddEntry(s.docs, v, d)
  PROVE  LET i == s.queries[q]
             gone == {x \in Shown(s.docs, i) : x \notin Shown(E, i)}
             t == FillGaps(AddDocument(s, v, d), {})
         IN  /\ q \in Blocked(s, v, d) => Truthy(OverflowDoc(t, q)) = gone
             /\ q \notin Blocked(s, v, d) => gone = {}
             /\ q \in Covering(s, v, d) <=> d \in Shown(E, i)
             /\ d \notin Shown(s.docs, i)
             /\ \A x \in Shown(E, i) : x # d => x \in Shown(s.docs, i)
<1> DEFINE i == s.queries[q]
           gone == {x \in Shown(s.docs, i) : x \notin Shown(E, i)}
           t == FillGaps(AddDocument(s, v, d), {})
           n == RankOfScore(s.docs, i.a)
           C == CountDocsInRange(s.docs, i.a, i.max)
           shown == i.a <= v /\ v <= i.max /\ Rank(s.docs, v, d) < n + i.k
<1>1. /\ IsFiniteSet(s.docs) /\ s.docs \subseteq Nat \X Nat /\ OneEntryPerDoc(s.docs)
      /\ v \in Nat /\ d \in Nat /\ E \subseteq Scores \X Docs
      /\ i.a \in Nat /\ i.k \in Nat /\ i.max \in Nat /\ i.currentMatches \in Nat
      /\ n \in Nat /\ C \in Nat
  BY StateNumbers, ScoresAssumption, DocsAssumption DEF IsState, AddEntry
<1>2. /\ d \in Shown(E, i) <=> shown
      /\ d \notin Shown(s.docs, i)
      /\ \A x \in Shown(E, i) : x # d => x \in Shown(s.docs, i)
      /\ ~shown => gone = {}
      /\ shown =>
           /\ gone = DocsOf({f \in AtRank(s.docs, n + i.k - 1) : f[1] <= i.max})
           /\ gone = DocsOf({f \in AtRank(E, RankOfScore(E, i.a) + i.k) : f[1] <= i.max})
  <2> HIDE DEF i
  <2> QED
    BY <1>1, ShownAdd
<1>3. q \in Covering(s, v, d) <=> shown
  BY <1>1, CoveringMeaning
<1>4. q \in Blocked(s, v, d) <=> shown /\ i.currentMatches >= i.k
  BY <1>3 DEF Blocked, IsFull
<1>5. i.currentMatches = Smaller(C, i.k)
  BY DEF MatchesExactIn
<1>6. ASSUME shown, ~(i.currentMatches >= i.k)
      PROVE  gone = {}
  <2>1. i.k - 1 \in Nat /\ ~(i.k - 1 < C) /\ i.a <= i.max
    <3> HIDE DEF i, C, n, shown
    <3>1. i.k - 1 \in Nat /\ ~(i.k - 1 < C)
      BY <1>1, <1>5, <1>6 DEF Smaller
    <3>2. i.a <= v /\ v <= i.max
      BY <1>6 DEF shown
    <3> QED
      BY <1>1, <3>1, <3>2
  <2>2. {f \in AtRank(s.docs, n + (i.k - 1)) : f[1] <= i.max} = {}
    <3> HIDE DEF i
    <3> QED
      BY <1>1, <2>1, AtOffset
  <2>3. n + (i.k - 1) = n + i.k - 1
    <3> HIDE DEF i, n
    <3> QED
      BY <1>1
  <2>4. DocsOf({}) = {}
    BY DEF DocsOf
  <2> HIDE DEF i, n, gone, shown
  <2> QED
    BY <1>2, <1>6, <2>2, <2>3, <2>4
<1>7. ASSUME q \in Blocked(s, v, d)
      PROVE  Truthy(OverflowDoc(t, q)) = gone
  <2> DEFINE S == Covering(s, v, d) \ Blocked(s, v, d)
             Q == Recount(s.queries, S, 1)
             j == t.queries[q]
             R == {x \in {} : Replacement(AddDocument(s, v, d), x) # {}}
  <2>1. t.docs = E /\ t.queries = Recount(Q, R, 1)
    BY DEF FillGaps, AddDocument
  <2>2. q \notin S /\ R = {} /\ s.queries \in [DOMAIN s.queries -> QueryInfo]
    BY <1>7, StateNumbers
  <2>3. \A p \in DOMAIN s.queries : s.queries[p].currentMatches + 1 \in Nat
    BY StateNumbers
  <2>4. Q \in [DOMAIN Q -> QueryInfo] /\ DOMAIN Q = DOMAIN s.queries
    <3> HIDE DEF S
    <3> QED
      BY <2>2, <2>3, RecountKeepsInfo
  <2>5. /\ Q[q].a = i.a /\ Q[q].k = i.k /\ Q[q].max = i.max
        /\ Q[q].currentMatches = i.currentMatches
    <3> HIDE DEF S
    <3> QED
      BY <2>2, RecountParts
  <2>6. /\ j.a = Q[q].a /\ j.k = Q[q].k /\ j.max = Q[q].max
        /\ j.currentMatches = Q[q].currentMatches
    <3> HIDE DEF Q, R, t
    <3>1. q \in DOMAIN Q /\ q \notin R
      BY <2>2, <2>4
    <3> QED
      BY <2>1, <2>4, <3>1, RecountParts
  <2>7. IsFull(t, q)
    BY <1>4, <1>7, <2>5, <2>6 DEF IsFull
  <2>8. OverflowDoc(t, q) =
          DocsOf({f \in AtRank(E, RankOfScore(E, i.a) + i.k) : f[1] <= i.max})
    <3> HIDE DEF Q, t, i
    <3>1. OverflowDoc(t, q) = {e[2] : e \in DocForQueryAt(t, q, t.queries[q].k)}
      BY <2>7 DEF OverflowDoc
    <3>2. DocForQueryAt(t, q, t.queries[q].k) =
            {f \in AtRank(E, RankOfScore(E, i.a) + i.k) : f[1] <= i.max}
      BY <2>1, <2>5, <2>6 DEF DocForQueryAt
    <3> QED
      BY <3>1, <3>2 DEF DocsOf
  <2>9. \A x \in OverflowDoc(t, q) : x \in Docs
    <3>1. AtRank(E, RankOfScore(E, i.a) + i.k) \subseteq Scores \X Docs
      BY <1>1 DEF AtRank
    <3> HIDE DEF t
    <3> QED
      BY <2>8, <3>1 DEF DocsOf
  <2>10. Truthy(OverflowDoc(t, q)) = OverflowDoc(t, q)
    BY <2>9 DEF Truthy
  <2> HIDE DEF t, i, gone, shown
  <2> QED
    BY <1>2, <1>4, <1>7, <2>8, <2>10
<1> HIDE DEF i, gone, t, n, C, shown
<1>8. q \notin Blocked(s, v, d) => gone = {}
  BY <1>2, <1>4, <1>6
<1> QED
  BY <1>2, <1>3, <1>7, <1>8 DEF i, gone, t

\* addDocument reports the queries that show the new document, and evicts the
\* documents they no longer show.
LEMMA InsertReports ==
  ASSUME NEW s, IsState(s), EffExactIn(s), MatchesExactIn(s), 0 \notin Docs,
         NEW v \in Scores, NEW d \in Docs, \A e \in s.docs : e[2] # d,
         NEW E, E = AddEntry(s.docs, v, d)
  PROVE  LET o == ChangeOutcome(s, d, NoScore, v, {}).out
             was(q) == Shown(s.docs, s.queries[q])
             is(q)  == Shown(E, s.queries[q])
         IN  /\ o.matchesOld = {} /\ o.registers = {}
             /\ o.matchesNew = {q \in DOMAIN s.queries : d \in is(q)}
             /\ o.evictions = {p \in (DOMAIN s.queries) \X Docs :
                                 p[2] \in was(p[1]) /\ p[2] \notin is(p[1])}
             /\ \A q \in DOMAIN s.queries :
                  d \notin was(q) /\ \A x \in is(q) : x # d => x \in was(q)
<1> DEFINE t == FillGaps(AddDocument(s, v, d), {})
           o == ChangeOutcome(s, d, NoScore, v, {}).out
           was(q) == Shown(s.docs, s.queries[q])
           is(q)  == Shown(E, s.queries[q])
           blocked == Blocked(s, v, d)
           evicted(q) == Truthy(OverflowDoc(t, q))
<1>1. v # NoScore
  BY ScoresAssumption DEF NoScore
<1>2. /\ o.matchesOld = {} /\ o.matchesNew = Covering(s, v, d)
      /\ o.registers = UNION {{q} \X Replacement(AddDocument(s, v, d), q) : q \in {}}
      /\ o.evictions = UNION {{q} \X evicted(q) : q \in blocked}
  <2> DEFINE leaves  == NoScore # NoScore
             enters  == v # NoScore
             covered == IF leaves THEN Covering(s, NoScore, d) ELSE {}
             s1      == IF leaves THEN RemoveDocument(s, NoScore, d) ELSE s
             matched == IF enters THEN Covering(s1, v, d) ELSE {}
             stopped == IF enters THEN Blocked(s1, v, d) ELSE {}
             s2      == IF enters THEN AddDocument(s1, v, d) ELSE s1
             lost    == IF leaves /\ enters THEN CoveringButNot(s, NoScore, v, d)
                                            ELSE covered \ matched
             gained  == IF leaves /\ enters THEN CoveringButNot(s, v, NoScore, d)
                                            ELSE matched \ covered
             s3      == FillGaps(s2, lost)
  <2>1. /\ covered = {} /\ s1 = s /\ matched = Covering(s, v, d) /\ stopped = blocked
        /\ s2 = AddDocument(s, v, d) /\ lost = {} /\ gained = Covering(s, v, d)
    BY <1>1
  <2>2. s3 = t
    BY <2>1
  <2>3. o = [Quiet EXCEPT
               !.doc = d, !.matchesOld = lost, !.matchesNew = gained,
               !.evictions =
                  UNION {{q} \X Truthy(OverflowDoc(s3, q)) : q \in stopped \ covered},
               !.registers = UNION {{q} \X Replacement(s2, q) : q \in lost}]
    BY DEF ChangeOutcome
  <2> HIDE DEF covered, s1, matched, stopped, s2, lost, gained, s3, t, o, blocked
  <2>4. stopped \ covered = blocked
    BY <2>1
  <2> QED
    BY <2>1, <2>2, <2>3, <2>4 DEF Quiet
<1>3. ASSUME NEW q \in DOMAIN s.queries
      PROVE  /\ q \in blocked =>
                  evicted(q) = {x \in was(q) : x \notin is(q)}
             /\ q \notin blocked => {x \in was(q) : x \notin is(q)} = {}
             /\ q \in Covering(s, v, d) <=> d \in is(q)
             /\ d \notin was(q)
             /\ \A x \in is(q) : x # d => x \in was(q)
  BY InsertEvicts
<1>4. Covering(s, v, d) \subseteq DOMAIN s.queries /\ blocked \subseteq DOMAIN s.queries
  BY DEF Covering, Blocked
<1>5. \A q \in DOMAIN s.queries : was(q) \subseteq Docs
  BY DEF Shown, DocsOf, CollectRange, IsState
<1> HIDE DEF t, o, was, is, blocked, evicted
<1>6. o.registers = {}
  BY <1>2
<1>7. o.matchesNew = {q \in DOMAIN s.queries : d \in is(q)}
  BY <1>2, <1>3, <1>4
<1>8. o.evictions = {p \in (DOMAIN s.queries) \X Docs :
                       p[2] \in was(p[1]) /\ p[2] \notin is(p[1])}
  <2>1. ASSUME NEW p \in o.evictions
        PROVE  /\ p \in (DOMAIN s.queries) \X Docs
               /\ p[2] \in was(p[1]) /\ p[2] \notin is(p[1])
    <3>1. PICK q \in blocked : p \in {q} \X evicted(q)
      BY <1>2, <2>1
    <3>2. p = <<q, p[2]>> /\ p[1] = q /\ p[2] \in evicted(q)
      BY <3>1
    <3>3. p[2] \in was(q) /\ p[2] \notin is(q) /\ q \in DOMAIN s.queries
      BY <1>3, <1>4, <3>2
    <3>4. p[2] \in Docs
      BY <1>5, <3>3
    <3> QED
      BY <3>2, <3>3, <3>4
  <2>2. ASSUME NEW p \in (DOMAIN s.queries) \X Docs,
               p[2] \in was(p[1]), p[2] \notin is(p[1])
        PROVE  p \in o.evictions
    <3>1. /\ p = <<p[1], p[2]>> /\ p[1] \in DOMAIN s.queries
          /\ p[2] \in {y \in was(p[1]) : y \notin is(p[1])}
      BY <2>2
    <3>2. p[1] \in blocked /\ p[2] \in evicted(p[1])
      BY <1>3, <3>1
    <3>3. p \in {p[1]} \X evicted(p[1])
      BY <3>1, <3>2
    <3> QED
      BY <1>2, <3>2, <3>3
  <2> QED
    BY <2>1, <2>2
<1> QED
  BY <1>2, <1>3, <1>6, <1>7, <1>8 DEF o, was, is

\* The document a query gets for one that goes: the first after its window, if
\* the range has one.
LEMMA DeleteFetches ==
  ASSUME NEW s, IsState(s), EffExactIn(s), MatchesExactIn(s), 0 \notin Docs,
         NEW v, NEW d, <<v, d>> \in s.docs, NEW q \in DOMAIN s.queries,
         NEW D, D = RemoveEntry(s.docs, v, d)
  PROVE  LET i == s.queries[q]
             come == {x \in Shown(D, i) : x \notin Shown(s.docs, i)}
             t == RemoveDocument(s, v, d)
         IN  /\ q \in Covering(s, v, d) => Replacement(t, q) = come
             /\ q \notin Covering(s, v, d) => come = {}
             /\ q \in Covering(s, v, d) <=> d \in Shown(s.docs, i)
             /\ d \notin Shown(D, i)
             /\ \A x \in Shown(s.docs, i) : x # d => x \in Shown(D, i)
<1> DEFINE i == s.queries[q]
           come == {x \in Shown(D, i) : x \notin Shown(s.docs, i)}
           t == RemoveDocument(s, v, d)
           n == RankOfScore(D, i.a)
           C == CountDocsInRange(s.docs, i.a, i.max)
           cm == i.currentMatches
           shown == i.a <= v /\ v <= i.max /\ Rank(D, v, d) < n + i.k
           next(c) == {f \in AtRank(D, n + c) : f[1] <= i.max}
<1>1. /\ IsFiniteSet(s.docs) /\ s.docs \subseteq Nat \X Nat /\ OneEntryPerDoc(s.docs)
      /\ v \in Nat /\ d \in Nat
      /\ i.a \in Nat /\ i.k \in Nat /\ i.max \in Nat /\ cm \in Nat /\ C \in Nat
  BY StateNumbers DEF IsState
<1>2. /\ D \subseteq s.docs /\ IsFiniteSet(D) /\ D \subseteq Nat \X Nat
      /\ D \subseteq Scores \X Docs
      /\ OneEntryPerDoc(D) /\ s.docs = AddEntry(D, v, d) /\ \A e \in D : e[2] # d
  <2>1. D \subseteq s.docs /\ s.docs = AddEntry(D, v, d) /\ <<v, d>> \notin D
    BY DEF RemoveEntry, AddEntry
  <2>2. IsFiniteSet(D)
    BY <1>1, <2>1, FS_Subset
  <2>3. <<v, d>>[2] = d
    OBVIOUS
  <2>4. \A e \in D : e[2] # d
    BY <1>1, <2>1, <2>3 DEF OneEntryPerDoc
  <2> QED
    BY <1>1, <2>1, <2>2, <2>4 DEF OneEntryPerDoc, IsState
<1>3. n \in Nat
  BY <1>2, RankOfScoreType
<1>4. /\ d \in Shown(s.docs, i) <=> shown
      /\ d \notin Shown(D, i)
      /\ \A x \in Shown(s.docs, i) : x # d => x \in Shown(D, i)
      /\ ~shown => {x \in Shown(D, i) : x \notin Shown(s.docs, i)} = {}
      /\ shown => {x \in Shown(D, i) : x \notin Shown(s.docs, i)}
                    = DocsOf({f \in AtRank(D, n + i.k - 1) : f[1] <= i.max})
  <2> HIDE DEF i
  <2> QED
    BY <1>1, <1>2, ShownAdd
<1>5. q \in Covering(s, v, d) <=> shown
  BY <1>4, CoveringShown
<1>6. cm = Smaller(C, i.k)
  BY DEF MatchesExactIn
<1>7. shown => CountDocsInRange(D, i.a, i.max) = C - 1 /\ C - 1 \in Nat
  <2> HIDE DEF i
  <2>1. CountDocsInRange(D, i.a, i.max) \in Nat
    BY <1>1, <1>2, CountDocsInRangeType
  <2>2. CountDocsInRange(RemoveEntry(s.docs, v, d), i.a, i.max) =
          IF i.a <= v /\ v <= i.max THEN C - 1 ELSE C
    BY <1>1, CountDocsInRangeRemove
  <2> HIDE DEF C
  <2> QED
    BY <2>1, <2>2
<1>8. \A c \in Nat : i.a <= i.max =>
        (next(c) # {} <=> c < CountDocsInRange(D, i.a, i.max))
  <2> HIDE DEF i
  <2> QED
    BY <1>1, <1>2, AtOffset
<1>9. ASSUME shown
      PROVE  Replacement(t, q) = come
  <2>1. q \in Covering(s, v, d) /\ s.queries \in [DOMAIN s.queries -> QueryInfo]
    BY <1>5, <1>9, StateNumbers
  <2>2. t.docs = D /\ t.queries = Recount(s.queries, Covering(s, v, d), -1)
    BY NeverCannotRemove, CountedDownAll DEF RemoveDocument
  <2>3. /\ t.queries[q].a = i.a /\ t.queries[q].k = i.k /\ t.queries[q].max = i.max
        /\ t.queries[q].currentMatches = cm - 1
    <3> HIDE DEF t
    <3>1. t.queries[q].currentMatches = cm + (-1)
      BY <2>1, <2>2, RecountParts
    <3> QED
      BY <1>1, <2>1, <2>2, <3>1, RecountParts
  <2>4. cm - 1 \in Nat /\ cm - 1 < i.k /\ i.k - 1 \in Nat
    <3>1. RankOfScore(D, i.a) <= Rank(D, v, d) /\ Rank(D, v, d) \in Nat
      BY <1>1, <1>2, <1>9, RankBounds
    <3> HIDE DEF i, n, C, cm
    <3> QED
      BY <1>1, <1>3, <1>6, <1>7, <1>9, <3>1 DEF Smaller, shown, n
  <2>5. next(cm - 1) = next(i.k - 1)
    <3>1. i.a <= i.max
      <4> HIDE DEF i
      <4> QED
        BY <1>1, <1>9
    <3> HIDE DEF i, C, cm, n, next, shown
    <3>2. CASE C >= i.k
      BY <1>1, <1>6, <3>2 DEF Smaller
    <3>3. CASE ~(C >= i.k)
      <4>1. cm = C
        BY <1>1, <1>6, <3>3 DEF Smaller
      <4>2. ~(cm - 1 < C - 1) /\ ~(i.k - 1 < C - 1)
        BY <1>1, <3>3, <4>1
      <4> QED
        BY <1>7, <1>8, <1>9, <2>4, <3>1, <4>2
    <3> QED
      BY <3>2, <3>3
  <2>6. Replacement(t, q) = Truthy(DocsOf(next(cm - 1)))
    <3> HIDE DEF t, i
    <3>1. ~IsFull(t, q)
      BY <1>1, <2>3, <2>4 DEF IsFull
    <3>2. DocForQueryAt(t, q, t.queries[q].currentMatches) = next(cm - 1)
      BY <2>2, <2>3 DEF DocForQueryAt
    <3> HIDE DEF next
    <3> QED
      BY <3>1, <3>2 DEF Replacement, DocsOf
  <2>7. next(cm - 1) \subseteq Scores \X Docs
    BY <1>2 DEF AtRank
  <2>8. 0 \notin DocsOf(next(cm - 1))
    <3> HIDE DEF next
    <3> QED
      BY <2>7 DEF DocsOf
  <2>9. n + i.k - 1 = n + (i.k - 1)
    <3> HIDE DEF i, n
    <3> QED
      BY <1>1, <1>3
  <2>10. come = DocsOf(next(i.k - 1))
    <3> HIDE DEF i, n
    <3> QED
      BY <1>4, <1>9, <2>9
  <2> HIDE DEF t, come, next, i, n, cm
  <2> QED
    BY <2>5, <2>6, <2>8, <2>10 DEF Truthy
<1> HIDE DEF t, come, i, shown, n
<1> QED
  BY <1>4, <1>5, <1>9 DEF come, i, t

\* removeDocument reports the queries that showed the document, and registers
\* for each what it shows now and did not.
LEMMA DeleteReports ==
  ASSUME NEW s, IsState(s), EffExactIn(s), MatchesExactIn(s), 0 \notin Docs,
         NEW v, NEW d, <<v, d>> \in s.docs,
         NEW D, D = RemoveEntry(s.docs, v, d)
  PROVE  LET o == ChangeOutcome(s, d, v, NoScore, {}).out
             was(q) == Shown(s.docs, s.queries[q])
             is(q)  == Shown(D, s.queries[q])
         IN  /\ o.matchesNew = {} /\ o.evictions = {}
             /\ o.matchesOld = {q \in DOMAIN s.queries : d \in was(q)}
             /\ o.registers = {p \in (DOMAIN s.queries) \X Docs :
                                 p[2] \in is(p[1]) /\ p[2] \notin was(p[1])}
             /\ \A q \in DOMAIN s.queries :
                  d \notin is(q) /\ \A x \in was(q) : x # d => x \in is(q)
<1> DEFINE t == RemoveDocument(s, v, d)
           o == ChangeOutcome(s, d, v, NoScore, {}).out
           was(q) == Shown(s.docs, s.queries[q])
           is(q)  == Shown(D, s.queries[q])
           lost   == Covering(s, v, d)
<1>1. v # NoScore
  BY StateNumbers DEF NoScore
<1>2. /\ o.matchesNew = {} /\ o.matchesOld = lost
      /\ o.registers = UNION {{q} \X Replacement(t, q) : q \in lost}
      /\ o.evictions = {}
  <2> DEFINE s3 == FillGaps(t, lost)
             told == [Quiet EXCEPT
                       !.doc = d, !.matchesOld = lost, !.matchesNew = {},
                       !.evictions =
                          UNION {{q} \X Truthy(OverflowDoc(s3, q)) : q \in {} \ lost},
                       !.registers = UNION {{q} \X Replacement(t, q) : q \in lost}]
  <2>1. ~CannotRemove(s, v, d)
    BY NeverCannotRemove
  <2>2. o = told
    <3>1. lost \ {} = lost /\ {} \ lost = {}
      OBVIOUS
    <3> QED
      BY <1>1, <2>1, <3>1 DEF ChangeOutcome
  <2>3. {} \ lost = {}
    OBVIOUS
  <2> HIDE DEF o, t, s3, lost
  <2> QED
    BY <2>2, <2>3 DEF Quiet
<1>3. ASSUME NEW q \in DOMAIN s.queries
      PROVE  /\ q \in lost => Replacement(t, q) = {x \in is(q) : x \notin was(q)}
             /\ q \notin lost => {x \in is(q) : x \notin was(q)} = {}
             /\ q \in lost <=> d \in was(q)
             /\ d \notin is(q)
             /\ \A x \in was(q) : x # d => x \in is(q)
  BY DeleteFetches
<1>4. lost \subseteq DOMAIN s.queries
  BY DEF Covering
<1>5. \A q \in DOMAIN s.queries : is(q) \subseteq Docs
  <2>1. D \subseteq Scores \X Docs
    BY DEF RemoveEntry, IsState
  <2> QED
    BY <2>1 DEF Shown, DocsOf, CollectRange
<1> HIDE DEF t, o, was, is, lost
<1>6. o.matchesOld = {q \in DOMAIN s.queries : d \in was(q)}
  BY <1>2, <1>3, <1>4
<1>7. o.registers = {p \in (DOMAIN s.queries) \X Docs :
                       p[2] \in is(p[1]) /\ p[2] \notin was(p[1])}
  <2>1. ASSUME NEW p \in o.registers
        PROVE  /\ p \in (DOMAIN s.queries) \X Docs
               /\ p[2] \in is(p[1]) /\ p[2] \notin was(p[1])
    <3>1. PICK q \in lost : p \in {q} \X Replacement(t, q)
      BY <1>2, <2>1
    <3>2. p = <<q, p[2]>> /\ p[1] = q /\ p[2] \in Replacement(t, q)
      BY <3>1
    <3>3. p[2] \in is(q) /\ p[2] \notin was(q) /\ q \in DOMAIN s.queries
      BY <1>3, <1>4, <3>2
    <3>4. p[2] \in Docs
      BY <1>5, <3>3
    <3> QED
      BY <3>2, <3>3, <3>4
  <2>2. ASSUME NEW p \in (DOMAIN s.queries) \X Docs,
               p[2] \in is(p[1]), p[2] \notin was(p[1])
        PROVE  p \in o.registers
    <3>1. /\ p = <<p[1], p[2]>> /\ p[1] \in DOMAIN s.queries
          /\ p[2] \in {y \in is(p[1]) : y \notin was(p[1])}
      BY <2>2
    <3>2. p[1] \in lost /\ p[2] \in Replacement(t, p[1])
      BY <1>3, <3>1
    <3>3. p \in {p[1]} \X Replacement(t, p[1])
      BY <3>1, <3>2
    <3> QED
      BY <1>2, <3>2, <3>3
  <2> QED
    BY <2>1, <2>2
<1> QED
  BY <1>2, <1>3, <1>6, <1>7 DEF o, was, is

\* The specs of the queries, which no change of a document touches.
SpecsOf(Q) == [q \in DOMAIN Q |-> [a |-> Q[q].a, k |-> Q[q].k, max |-> Q[q].max]]

LEMMA RecountKeepsSpecs ==
  ASSUME NEW Q, Q \in [DOMAIN Q -> QueryInfo], NEW S, NEW delta \in Int
  PROVE  SpecsOf(Recount(Q, S, delta)) = SpecsOf(Q)
<1> DEFINE R == Recount(Q, S, delta)
<1>1. \A q \in DOMAIN Q : /\ DOMAIN R = DOMAIN Q /\ R[q].a = Q[q].a
                          /\ R[q].k = Q[q].k /\ R[q].max = Q[q].max
  BY RecountParts
<1>2. DOMAIN R = DOMAIN Q
  BY DEF Recount
<1> HIDE DEF R
<1>3. \A q \in DOMAIN Q :
        [a |-> R[q].a, k |-> R[q].k, max |-> R[q].max]
          = [a |-> Q[q].a, k |-> Q[q].k, max |-> Q[q].max]
  BY <1>1
<1>4. SpecsOf(R) = SpecsOf(Q)
  BY <1>2, <1>3, Zenon DEF SpecsOf
<1> QED
  BY <1>4 DEF R

-----------------------------------------------------------------------------
(* A change of score within a range.                                        *)

\* D holds the documents but d, whose score goes from old to new, neither of
\* them below lo.
MoveFrom(D, d, old, new, lo) ==
  /\ IsFiniteSet(D) /\ D \subseteq Nat \X Nat /\ OneEntryPerDoc(D)
  /\ old \in Nat /\ new \in Nat /\ d \in Nat /\ lo \in Nat
  /\ \A e \in D : e[2] # d
  /\ lo <= old /\ lo <= new

\* What one set of documents has that another has not, apart from d.
Besides(X, Y, d) == {x \in X : x \notin Y /\ x # d}

\* The document at an offset from the start of a query's range, within it.
DocsAt(F, i, c) ==
  DocsOf({f \in AtRank(F, RankOfScore(F, i.a) + c) : f[1] <= i.max})

\* What a query shows before and after: when it loses the document it gets the
\* first after its window, when it gains it the last of its window goes, and
\* otherwise nothing but the document itself can change.
LEMMA MoveShown ==
  ASSUME NEW D, NEW d, NEW old, NEW new, NEW i,
         MoveFrom(D, d, old, new, i.a), i.k \in Nat, i.max \in Nat
  PROVE  LET E       == AddEntry(D, old, d)
             F       == AddEntry(D, new, d)
             n       == RankOfScore(D, i.a)
             covered == old <= i.max /\ Rank(D, old, d) < n + i.k
             matched == new <= i.max /\ Rank(D, new, d) < n + i.k
             was     == Shown(E, i)
             is      == Shown(F, i)
         IN  /\ RankOfScore(E, i.a) = n /\ RankOfScore(F, i.a) = n
             /\ d \in was <=> covered
             /\ d \in is <=> matched
             /\ Besides(is, was, d) = IF covered /\ ~matched
                                        THEN DocsAt(D, i, i.k - 1) ELSE {}
             /\ Besides(was, is, d) = IF matched /\ ~covered
                                        THEN DocsAt(F, i, i.k) ELSE {}
             /\ matched => DocsAt(F, i, i.k) = DocsAt(D, i, i.k - 1)
<1> DEFINE E       == AddEntry(D, old, d)
           F       == AddEntry(D, new, d)
           n       == RankOfScore(D, i.a)
           covered == old <= i.max /\ Rank(D, old, d) < n + i.k
           matched == new <= i.max /\ Rank(D, new, d) < n + i.k
           rest    == Shown(D, i)
           was     == Shown(E, i)
           is      == Shown(F, i)
           next    == DocsAt(D, i, i.k - 1)
           over    == DocsAt(F, i, i.k)
<1> USE DEF MoveFrom
<1>1. RankOfScore(E, i.a) = n /\ RankOfScore(F, i.a) = n /\ n \in Nat
  <2>1. <<old, d>> \notin D /\ <<new, d>> \notin D
    OBVIOUS
  <2>2. ~(old < i.a) /\ ~(new < i.a)
    OBVIOUS
  <2> QED
    BY <2>1, <2>2, RankOfScoreAdd, RankOfScoreType
<1>2. /\ next = DocsOf({f \in AtRank(D, n + i.k - 1) : f[1] <= i.max})
      /\ over = DocsOf({f \in AtRank(F, RankOfScore(F, i.a) + i.k) : f[1] <= i.max})
  <2>1. n + (i.k - 1) = n + i.k - 1
    <3> HIDE DEF n
    <3> QED
      BY <1>1
  <2> QED
    BY <2>1 DEF DocsAt
<1>3. /\ d \in was <=> covered
      /\ d \notin rest
      /\ \A x \in was : x # d => x \in rest
      /\ ~covered => {x \in rest : x \notin was} = {}
      /\ covered => {x \in rest : x \notin was} = next
  <2>1. covered <=> i.a <= old /\ old <= i.max /\ Rank(D, old, d) < n + i.k
    OBVIOUS
  <2> HIDE DEF covered, next
  <2> QED
    BY <1>2, <2>1, ShownAdd
<1>4. /\ d \in is <=> matched
      /\ \A x \in is : x # d => x \in rest
      /\ ~matched => {x \in rest : x \notin is} = {}
      /\ matched => {x \in rest : x \notin is} = next
      /\ matched => {x \in rest : x \notin is} = over
  <2>1. matched <=> i.a <= new /\ new <= i.max /\ Rank(D, new, d) < n + i.k
    OBVIOUS
  <2> HIDE DEF matched, next, over
  <2> QED
    BY <1>2, <2>1, ShownAdd
<1> HIDE DEF n, covered, matched, rest, was, is, next, over
<1>5. Besides(is, was, d) = IF covered /\ ~matched THEN next ELSE {}
  BY <1>3, <1>4 DEF Besides
<1>6. Besides(was, is, d) = IF matched /\ ~covered THEN over ELSE {}
  BY <1>3, <1>4 DEF Besides
<1>7. matched => over = next
  BY <1>4
<1> QED
  BY <1>1, <1>3, <1>4, <1>5, <1>6, <1>7
     DEF n, covered, matched, was, is, next, over

\* The ranks of the two positions and the counts of a range around them.
LEMMA MoveRanks ==
  ASSUME NEW D, NEW d, NEW old, NEW new, NEW lo,
         MoveFrom(D, d, old, new, lo), NEW hi \in Nat
  PROVE  LET E  == AddEntry(D, old, d)
             F  == AddEntry(D, new, d)
             n  == RankOfScore(D, lo)
             C  == CountDocsInRange(D, lo, hi)
             ro == Rank(D, old, d)
             rn == Rank(D, new, d)
         IN  /\ n \in Nat /\ C \in Nat /\ ro \in Nat /\ rn \in Nat
             /\ n <= ro /\ n <= rn
             /\ old <= hi => ro <= n + C
             /\ new <= hi => rn <= n + C
             /\ old <= new => ro <= rn
             /\ new <= old => rn <= ro
             /\ CountDocsInRange(E, lo, hi) = IF old <= hi THEN C + 1 ELSE C
             /\ CountDocsInRange(F, lo, hi) = IF new <= hi THEN C + 1 ELSE C
             /\ Rank(E, old, d) = ro
             /\ Rank(E, new, d) = IF old < new THEN rn + 1 ELSE rn
<1> DEFINE E  == AddEntry(D, old, d)
           F  == AddEntry(D, new, d)
           n  == RankOfScore(D, lo)
           C  == CountDocsInRange(D, lo, hi)
           ro == Rank(D, old, d)
           rn == Rank(D, new, d)
<1> USE DEF MoveFrom
<1>1. <<old, d>> \notin D /\ <<new, d>> \notin D
  OBVIOUS
<1>2. n \in Nat /\ C \in Nat /\ ro \in Nat /\ rn \in Nat /\ n <= ro /\ n <= rn
  BY RankOfScoreType, CountDocsInRangeType, RankBounds
<1>3. /\ old <= hi => ro <= n + C
      /\ new <= hi => rn <= n + C
  BY RankInRange
<1>4. /\ old <= new => ro <= rn
      /\ new <= old => rn <= ro
  BY RankGrows
<1>5. /\ CountDocsInRange(E, lo, hi) = IF old <= hi THEN C + 1 ELSE C
      /\ CountDocsInRange(F, lo, hi) = IF new <= hi THEN C + 1 ELSE C
  BY <1>1, CountDocsInRangeAdd
<1>6. /\ Rank(E, old, d) = ro
      /\ Rank(E, new, d) = IF old < new THEN rn + 1 ELSE rn
  <2>1. /\ ~Precedes(<<old, d>>, old, d)
        /\ Precedes(<<old, d>>, new, d) <=> old < new
    BY DEF Precedes
  <2> QED
    BY <1>1, <2>1, RankAdd
<1> QED
  BY <1>2, <1>3, <1>4, <1>5, <1>6

\* The states on the way: without the document, and with its new score.
LEMMA MoveStates ==
  ASSUME NEW s, IsState(s), EffExactIn(s), MatchesExactIn(s),
         NEW d \in Docs, NEW old, <<old, d>> \in s.docs, NEW new \in Scores,
         NEW D, D = RemoveEntry(s.docs, old, d),
         NEW s1, s1 = RemoveDocument(s, old, d),
         NEW s2, s2 = AddDocument(s1, new, d)
  PROVE  /\ ~CannotRemove(s, old, d)
         /\ IsState(s1) /\ EffExactIn(s1) /\ s1.docs = D
         /\ IsState(s2) /\ s2.docs = AddEntry(D, new, d)
         /\ s.docs = AddEntry(D, old, d) /\ D \subseteq s.docs
         /\ \A e \in D : e[2] # d
         /\ DOMAIN s1.queries = DOMAIN s.queries
         /\ DOMAIN s2.queries = DOMAIN s.queries
         /\ SpecsOf(s2.queries) = SpecsOf(s.queries) /\ s2.nextId = s.nextId
         /\ \A q \in DOMAIN s.queries :
              LET i == s.queries[q]
                  j == s1.queries[q]
                  h == s2.queries[q]
              IN  /\ j.a = i.a /\ j.k = i.k /\ j.max = i.max
                  /\ h.a = i.a /\ h.k = i.k /\ h.max = i.max
                  /\ j.currentMatches = IF q \in Covering(s, old, d)
                                          THEN i.currentMatches - 1
                                          ELSE i.currentMatches
                  /\ h.currentMatches =
                       IF q \in Covering(s1, new, d) /\ j.currentMatches < i.k
                         THEN j.currentMatches + 1 ELSE j.currentMatches
<1> DEFINE S1 == Covering(s, old, d)
           S2 == Covering(s1, new, d) \ Blocked(s1, new, d)
<1>1. ~CannotRemove(s, old, d)
  BY NeverCannotRemove
<1>2. /\ s1.docs = D /\ s1.queries = Recount(s.queries, S1, -1)
      /\ s1.nextId = s.nextId
  BY <1>1, CountedDownAll DEF RemoveDocument
<1>3. IsState(s1) /\ EffExactIn(s1)
  BY RemoveDocumentKeepsState, RemoveDocumentKeepsEff
<1>4. s.docs = AddEntry(D, old, d) /\ D \subseteq s.docs /\ \A e \in D : e[2] # d
  <2>1. s.docs = AddEntry(D, old, d) /\ D \subseteq s.docs /\ <<old, d>> \notin D
    BY DEF RemoveEntry, AddEntry
  <2>2. OneEntryPerDoc(s.docs) /\ <<old, d>>[2] = d
    BY DEF IsState
  <2>3. \A e \in D : e[2] # d
    BY <2>1, <2>2 DEF OneEntryPerDoc
  <2> QED
    BY <2>1, <2>3
<1>5. /\ s2.docs = AddEntry(D, new, d) /\ s2.queries = Recount(s1.queries, S2, 1)
      /\ s2.nextId = s.nextId
  BY <1>2 DEF AddDocument
<1>6. IsState(s2)
  BY <1>2, <1>3, <1>4, AddDocumentKeepsState
<1>7. /\ s.queries \in [DOMAIN s.queries -> QueryInfo]
      /\ s1.queries \in [DOMAIN s1.queries -> QueryInfo]
      /\ DOMAIN s1.queries = DOMAIN s.queries
      /\ DOMAIN s2.queries = DOMAIN s.queries
  <2>1. DOMAIN s1.queries = DOMAIN s.queries
    BY <1>2 DEF Recount
  <2>2. DOMAIN s2.queries = DOMAIN s1.queries
    BY <1>5 DEF Recount
  <2> QED
    BY <1>3, <2>1, <2>2, StateNumbers
<1> HIDE DEF S1, S2
<1>8. SpecsOf(s2.queries) = SpecsOf(s.queries)
  BY <1>2, <1>5, <1>7, RecountKeepsSpecs
<1>9. ASSUME NEW q \in DOMAIN s.queries
      PROVE  LET i == s.queries[q]
                 j == s1.queries[q]
                 h == s2.queries[q]
             IN  /\ j.a = i.a /\ j.k = i.k /\ j.max = i.max
                 /\ h.a = i.a /\ h.k = i.k /\ h.max = i.max
                 /\ j.currentMatches = IF q \in Covering(s, old, d)
                                         THEN i.currentMatches - 1
                                         ELSE i.currentMatches
                 /\ h.currentMatches =
                      IF q \in Covering(s1, new, d) /\ j.currentMatches < i.k
                        THEN j.currentMatches + 1 ELSE j.currentMatches
  <2> DEFINE i == s.queries[q]
             j == s1.queries[q]
             h == s2.queries[q]
  <2>1. /\ j.a = i.a /\ j.k = i.k /\ j.max = i.max
        /\ j.currentMatches = IF q \in S1 THEN i.currentMatches + (-1)
                                          ELSE i.currentMatches
    BY <1>2, <1>7, RecountParts
  <2>2. /\ h.a = j.a /\ h.k = j.k /\ h.max = j.max
        /\ h.currentMatches = IF q \in S2 THEN j.currentMatches + 1
                                          ELSE j.currentMatches
    BY <1>5, <1>7, RecountParts
  <2>3. i.currentMatches \in Nat /\ j.currentMatches \in Nat /\ j.k \in Nat
    BY <1>3, <1>7, StateNumbers
  <2>4. q \in S2 <=> q \in Covering(s1, new, d) /\ ~(j.currentMatches >= j.k)
    BY DEF S2, Blocked, IsFull
  <2> HIDE DEF i, j, h
  <2>5. j.currentMatches = IF q \in S1 THEN i.currentMatches - 1 ELSE i.currentMatches
    BY <2>1, <2>3
  <2>6. q \in S2 <=> q \in Covering(s1, new, d) /\ j.currentMatches < i.k
    BY <2>1, <2>3, <2>4
  <2> QED
    BY <2>1, <2>2, <2>5, <2>6 DEF S1, i, j, h
<1> QED
  BY <1>1, <1>2, <1>3, <1>4, <1>5, <1>6, <1>7, <1>8, <1>9

\* The states handleChange goes through when a document in the index changes
\* its score, and the queries it sees lose the document.
MoveBy(s, d, old, new, s1, s2, lost, s3) ==
  /\ IsState(s) /\ EffExactIn(s) /\ MatchesExactIn(s)
  /\ d \in Docs /\ <<old, d>> \in s.docs /\ new \in Scores
  /\ s1 = RemoveDocument(s, old, d) /\ s2 = AddDocument(s1, new, d)
  /\ lost = CoveringButNot(s, old, new, d) /\ s3 = FillGaps(s2, lost)

\* What the handler finds out about one query, whose range starts at or below
\* both scores: the queries that lose and gain the document, computed from the
\* index before the change, the replacement and the eviction, computed after
\* it, and the counter.
LEMMA MoveQuery ==
  ASSUME NEW s, NEW d, NEW old, NEW new, NEW s1, NEW s2, NEW lost, NEW s3,
         MoveBy(s, d, old, new, s1, s2, lost, s3), 0 \notin Docs,
         NEW q \in DOMAIN s.queries,
         s.queries[q].a <= old, s.queries[q].a <= new
  PROVE  LET i    == s.queries[q]
             was  == Shown(s.docs, i)
             is   == Shown(s2.docs, i)
             come == Besides(is, was, d)
             gone == Besides(was, is, d)
         IN  /\ d \in was /\ d \notin is => q \in lost
             /\ q \in CoveringButNot(s, new, old, d) <=> d \in is /\ d \notin was
             /\ q \in lost => Replacement(s2, q) = come
             /\ q \notin lost => come = {}
             /\ q \in Blocked(s1, new, d) \ Covering(s, old, d) =>
                  Truthy(OverflowDoc(s3, q)) = gone
             /\ q \notin Blocked(s1, new, d) \ Covering(s, old, d) => gone = {}
             /\ s3.queries[q].currentMatches =
                  Smaller(CountDocsInRange(s2.docs, i.a, i.max), i.k)
<1>0. /\ IsState(s) /\ EffExactIn(s) /\ MatchesExactIn(s)
      /\ d \in Docs /\ <<old, d>> \in s.docs /\ new \in Scores
      /\ s1 = RemoveDocument(s, old, d) /\ s2 = AddDocument(s1, new, d)
      /\ lost = CoveringButNot(s, old, new, d) /\ s3 = FillGaps(s2, lost)
  BY DEF MoveBy
<1> USE <1>0
<1> DEFINE i    == s.queries[q]
           a    == i.a
           k    == i.k
           m    == i.max
           D    == RemoveEntry(s.docs, old, d)
           n    == RankOfScore(D, a)
           C    == CountDocsInRange(D, a, m)
           ro   == Rank(D, old, d)
           rn   == Rank(D, new, d)
           covered == old <= m /\ ro < n + k
           matched == new <= m /\ rn < n + k
           was  == Shown(s.docs, i)
           is   == Shown(s2.docs, i)
           come == Besides(is, was, d)
           gone == Besides(was, is, d)
           gained == CoveringButNot(s, new, old, d)
           c0   == i.currentMatches
           c1   == s1.queries[q].currentMatches
           c2   == s2.queries[q].currentMatches
<1>1. /\ IsFiniteSet(s.docs) /\ s.docs \subseteq Nat \X Nat /\ OneEntryPerDoc(s.docs)
      /\ old \in Nat /\ new \in Nat /\ d \in Nat
      /\ a \in Nat /\ k \in Nat /\ m \in Nat /\ c0 \in Nat
      /\ s.docs \subseteq Scores \X Docs
  BY StateNumbers, ScoresAssumption, DocsAssumption DEF IsState
<1>2. /\ IsState(s1) /\ EffExactIn(s1) /\ s1.docs = D
      /\ IsState(s2) /\ s2.docs = AddEntry(D, new, d)
      /\ s.docs = AddEntry(D, old, d) /\ D \subseteq s.docs
      /\ \A e \in D : e[2] # d
      /\ q \in DOMAIN s1.queries /\ q \in DOMAIN s2.queries
      /\ s1.queries[q].a = a /\ s1.queries[q].k = k /\ s1.queries[q].max = m
      /\ s2.queries[q].a = a /\ s2.queries[q].k = k /\ s2.queries[q].max = m
      /\ c1 = IF q \in Covering(s, old, d) THEN c0 - 1 ELSE c0
      /\ c2 = IF q \in Covering(s1, new, d) /\ c1 < k THEN c1 + 1 ELSE c1
  <2> HIDE DEF D
  <2>1. D = RemoveEntry(s.docs, old, d)
    BY DEF D
  <2> QED
    BY <2>1, MoveStates
<1>3. IsFiniteSet(D) /\ D \subseteq Nat \X Nat /\ OneEntryPerDoc(D)
  BY <1>1, <1>2, FS_Subset DEF OneEntryPerDoc
<1>4. MoveFrom(D, d, old, new, a)
  BY <1>1, <1>2, <1>3 DEF MoveFrom
<1>5. /\ n \in Nat /\ C \in Nat /\ ro \in Nat /\ rn \in Nat
      /\ n <= ro /\ n <= rn
      /\ old <= m => ro <= n + C
      /\ new <= m => rn <= n + C
      /\ old <= new => ro <= rn
      /\ new <= old => rn <= ro
      /\ CountDocsInRange(s.docs, a, m) = IF old <= m THEN C + 1 ELSE C
      /\ CountDocsInRange(s2.docs, a, m) = IF new <= m THEN C + 1 ELSE C
      /\ Rank(s.docs, old, d) = ro
      /\ Rank(s.docs, new, d) = IF old < new THEN rn + 1 ELSE rn
  <2> HIDE DEF D, a, m
  <2> QED
    BY <1>1, <1>2, <1>4, MoveRanks
<1>6. /\ RankOfScore(s.docs, a) = n /\ RankOfScore(s2.docs, a) = n
      /\ d \in was <=> covered
      /\ d \in is <=> matched
      /\ come = IF covered /\ ~matched THEN DocsAt(D, i, k - 1) ELSE {}
      /\ gone = IF matched /\ ~covered THEN DocsAt(s2.docs, i, k) ELSE {}
      /\ matched => DocsAt(s2.docs, i, k) = DocsAt(D, i, k - 1)
  <2>1. s.docs = AddEntry(D, old, d) /\ s2.docs = AddEntry(D, new, d)
    BY <1>2
  <2>2. i.k \in Nat /\ i.max \in Nat /\ MoveFrom(D, d, old, new, i.a)
    BY <1>1, <1>4
  <2> HIDE DEF D, i
  <2> QED
    BY <2>1, <2>2, MoveShown
<1>7. /\ q \in Covering(s, old, d) <=> covered
      /\ q \in Covering(s1, new, d) <=> matched
      /\ q \in Covering(s, new, d) <=>
           new <= m /\ (IF old < new THEN rn + 1 ELSE rn) < n + k
  <2>1. /\ q \in Covering(s, old, d) <=>
             a <= old /\ old <= m /\ Rank(s.docs, old, d) < RankOfScore(s.docs, a) + k
        /\ q \in Covering(s, new, d) <=>
             a <= new /\ new <= m /\ Rank(s.docs, new, d) < RankOfScore(s.docs, a) + k
    BY <1>1, CoveringMeaning
  <2>2. q \in Covering(s1, new, d) <=>
          a <= new /\ new <= m /\ Rank(s1.docs, new, d) < RankOfScore(s1.docs, a) + k
    <3>1. q \in Covering(s1, new, d) <=>
            /\ s1.queries[q].a <= new /\ new <= s1.queries[q].max
            /\ Rank(s1.docs, new, d) < RankOfScore(s1.docs, s1.queries[q].a)
                                         + s1.queries[q].k
      BY <1>1, <1>2, CoveringMeaning
    <3> QED
      BY <1>2, <3>1
  <2>3. a <= old /\ a <= new
    OBVIOUS
  <2> HIDE DEF D, a, k, m
  <2> QED
    BY <1>2, <1>5, <1>6, <2>1, <2>2, <2>3
<1>8. /\ q \in lost <=>
           covered /\ ~((IF old < new THEN rn + 1 ELSE rn) < n + k /\ new <= m)
      /\ q \in gained <=>
           /\ new <= m /\ (IF old < new THEN rn + 1 ELSE rn) < n + k
           /\ ~covered
  <2>1. s.eff[q] = n + k
    BY <1>6 DEF EffExactIn
  <2>2. /\ q \in lost <=> q \in Covering(s, old, d)
                            /\ ~(s.eff[q] > Rank(s.docs, new, d) /\ m >= new)
        /\ q \in gained <=> q \in Covering(s, new, d)
                            /\ ~(s.eff[q] > Rank(s.docs, old, d) /\ m >= old)
    BY DEF CoveringButNot
  <2> HIDE DEF i, a, k, m, D, n, ro, rn, gained
  <2>3. /\ s.eff[q] > Rank(s.docs, new, d) <=> (IF old < new THEN rn + 1 ELSE rn) < n + k
        /\ s.eff[q] > Rank(s.docs, old, d) <=> ro < n + k
    BY <1>1, <1>5, <2>1
  <2>4. (m >= new <=> new <= m) /\ (m >= old <=> old <= m)
    BY <1>1
  <2> QED
    BY <1>7, <2>2, <2>3, <2>4
<1>9. q \in Blocked(s1, new, d) <=> matched /\ c1 >= k
  BY <1>2, <1>7 DEF Blocked, IsFull
<1>10. c0 = Smaller(IF old <= m THEN C + 1 ELSE C, k)
  BY <1>5 DEF MatchesExactIn
<1>11. a <= m => (Replacement(s2, q) # {} <=>
                   c2 < k /\ c2 < IF new <= m THEN C + 1 ELSE C)
  BY <1>2, <1>5, ReplacementMeaning
<1>12. \A c \in Nat : a <= m => (DocsAt(D, i, c) # {} <=> c < C)
  <2>1. \A c \in Nat : a <= m =>
          ({f \in AtRank(D, RankOfScore(D, a) + c) : f[1] <= m} # {} <=> c < C)
    <3> HIDE DEF D, a, m
    <3> QED
      BY <1>1, <1>3, AtOffset
  <2> QED
    BY <2>1 DEF DocsAt, DocsOf
<1>13. covered => a <= m
  BY <1>1
<1>14. matched => a <= m
  BY <1>1
<1>15. /\ s3.docs = s2.docs
       /\ s3.queries[q].a = a /\ s3.queries[q].k = k /\ s3.queries[q].max = m
       /\ s3.queries[q].currentMatches =
            IF q \in lost /\ Replacement(s2, q) # {} THEN c2 + 1 ELSE c2
  <2> DEFINE R == {p \in lost : Replacement(s2, p) # {}}
  <2>1. s3.docs = s2.docs /\ s3.queries = Recount(s2.queries, R, 1)
    BY DEF FillGaps
  <2>2. s2.queries \in [DOMAIN s2.queries -> QueryInfo]
    BY <1>2, StateNumbers
  <2>3. q \in R <=> q \in lost /\ Replacement(s2, q) # {}
    OBVIOUS
  <2> HIDE DEF R
  <2> QED
    BY <1>2, <2>1, <2>2, <2>3, RecountParts
<1>16. \A F, c : {e[2] : e \in {f \in AtRank(F, RankOfScore(F, a) + c) : f[1] <= m}}
                   = DocsAt(F, i, c)
  BY DEF DocsAt, DocsOf
<1>17. \A F, c : F \subseteq Scores \X Docs => Truthy(DocsAt(F, i, c)) = DocsAt(F, i, c)
  BY DEF Truthy, DocsAt, DocsOf, AtRank
<1>18. c1 \in Nat /\ c2 \in Nat /\ s2.docs \subseteq Scores \X Docs
  BY <1>2, StateNumbers DEF IsState
<1> HIDE DEF covered, matched, was, is, come, gone, gained, ro, rn, n, C, i, a, k, m,
             c0, c1, c2, D
<1>19. d \in was /\ d \notin is => q \in lost
  BY <1>1, <1>5, <1>6, <1>8 DEF covered, matched
<1>20. q \in gained <=> d \in is /\ d \notin was
  BY <1>1, <1>5, <1>6, <1>8 DEF covered, matched
<1>21. q \in lost => Replacement(s2, q) = come
  <2>1. CASE q \in lost /\ matched
    <3>1. covered /\ come = {}
      BY <1>6, <1>8, <2>1
    <3>2. c2 = k
      BY <1>1, <1>2, <1>5, <1>7, <1>8, <1>10, <2>1, <3>1 DEF covered, matched, Smaller
    <3> QED
      BY <1>1, <1>11, <1>13, <3>1, <3>2
  <2>2. CASE q \in lost /\ ~matched
    <3>1. covered
      BY <1>8, <2>2
    <3>2. /\ c2 = c0 - 1 /\ c2 < k /\ k - 1 \in Nat
          /\ c0 = k \/ (~(c2 < C) /\ ~(k - 1 < C))
          /\ new <= m => n + c2 < rn
      BY <1>1, <1>2, <1>5, <1>7, <1>10, <2>2, <3>1 DEF covered, matched, Smaller
    <3>3. DocsAt(s2.docs, i, c2) = DocsAt(D, i, c2)
      <4>1. n + c2 \in Nat /\ <<new, d>> \notin D
        BY <1>2, <1>5, <1>18
      <4>2. {f \in AtRank(s2.docs, n + c2) : f[1] <= m}
              = {f \in AtRank(D, n + c2) : f[1] <= m}
        <5>1. ~(new <= m) \/ n + c2 < Rank(D, new, d)
          BY <3>2 DEF rn
        <5> QED
          BY <1>1, <1>2, <1>3, <4>1, <5>1, AtRankBefore
      <4>3. DocsAt(s2.docs, i, c2) = DocsOf({f \in AtRank(s2.docs, n + c2) : f[1] <= m})
        BY <1>6 DEF DocsAt, a, m
      <4>4. DocsAt(D, i, c2) = DocsOf({f \in AtRank(D, n + c2) : f[1] <= m})
        BY DEF DocsAt, n, a, m
      <4> QED
        BY <4>2, <4>3, <4>4
    <3>4. DocsAt(D, i, c2) = DocsAt(D, i, k - 1)
      <4>1. CASE c0 = k
        BY <3>2, <4>1
      <4>2. CASE ~(c2 < C) /\ ~(k - 1 < C)
        BY <1>12, <1>13, <1>18, <3>1, <3>2, <4>2
      <4> QED
        BY <3>2, <4>1, <4>2
    <3>5. Replacement(s2, q) = DocsAt(s2.docs, i, c2)
      <4>1. ~IsFull(s2, q)
        BY <1>1, <1>2, <1>18, <3>2 DEF IsFull, c2
      <4>2. DocForQueryAt(s2, q, c2) =
              {f \in AtRank(s2.docs, RankOfScore(s2.docs, a) + c2) : f[1] <= m}
        BY <1>2 DEF DocForQueryAt
      <4>3. Replacement(s2, q) = Truthy({e[2] : e \in DocForQueryAt(s2, q, c2)})
        BY <4>1 DEF Replacement, c2
      <4>4. {e[2] : e \in DocForQueryAt(s2, q, c2)} = DocsAt(s2.docs, i, c2)
        BY <1>16, <4>2
      <4> QED
        BY <1>17, <1>18, <4>3, <4>4
    <3> QED
      BY <1>6, <2>2, <3>1, <3>3, <3>4, <3>5
  <2> QED
    BY <2>1, <2>2
<1>22. q \notin lost => come = {}
  BY <1>1, <1>5, <1>6, <1>8 DEF covered, matched
<1>23. ASSUME q \in Blocked(s1, new, d) \ Covering(s, old, d)
       PROVE  Truthy(OverflowDoc(s3, q)) = gone
  <2>1. matched /\ ~covered /\ c1 >= k /\ q \notin lost
    BY <1>7, <1>8, <1>9, <1>23
  <2>2. IsFull(s3, q)
    <3>1. c2 = c1
      BY <1>1, <1>2, <1>18, <2>1
    <3> QED
      BY <1>15, <2>1, <3>1 DEF IsFull
  <2>3. DocForQueryAt(s3, q, k) =
          {f \in AtRank(s2.docs, RankOfScore(s2.docs, a) + k) : f[1] <= m}
    BY <1>15 DEF DocForQueryAt
  <2>4. OverflowDoc(s3, q) = DocsAt(s2.docs, i, k)
    BY <1>15, <1>16, <2>2, <2>3 DEF OverflowDoc
  <2> QED
    BY <1>6, <1>17, <1>18, <2>1, <2>4
<1>24. q \notin Blocked(s1, new, d) \ Covering(s, old, d) => gone = {}
  <2>1. CASE matched /\ ~covered /\ ~(c1 >= k)
    <3>1. k - 1 \in Nat /\ ~(k - 1 < C)
      BY <1>1, <1>2, <1>5, <1>7, <1>10, <2>1 DEF Smaller
    <3> QED
      BY <1>6, <1>12, <1>14, <2>1, <3>1
  <2>2. CASE ~(matched /\ ~covered)
    BY <1>6, <2>2
  <2> QED
    BY <1>7, <1>9, <2>1, <2>2
<1>25. s3.queries[q].currentMatches =
         Smaller(IF new <= m THEN C + 1 ELSE C, k)
  <2>1. CASE covered /\ matched
    <3>1. c2 = c0 /\ ~(q \in lost /\ c2 < k)
      BY <1>1, <1>2, <1>5, <1>7, <1>8, <1>10, <2>1 DEF covered, matched, Smaller
    <3> QED
      BY <1>10, <1>11, <1>13, <1>15, <2>1, <3>1 DEF covered, matched
  <2>2. CASE covered /\ ~matched
    <3>1. q \in lost /\ c2 = c0 - 1
      BY <1>1, <1>2, <1>5, <1>7, <1>8, <2>2 DEF covered, matched
    <3>2. s3.queries[q].currentMatches =
            IF c2 < k /\ c2 < IF new <= m THEN C + 1 ELSE C THEN c2 + 1 ELSE c2
      BY <1>11, <1>13, <1>15, <2>2, <3>1
    <3> QED
      BY <1>1, <1>5, <1>10, <2>2, <3>1, <3>2 DEF covered, matched, Smaller
  <2>3. CASE ~covered
    <3>1. s3.queries[q].currentMatches = IF matched /\ c0 < k THEN c0 + 1 ELSE c0
      BY <1>2, <1>7, <1>8, <1>15, <2>3
    <3> QED
      BY <1>1, <1>5, <1>10, <2>3, <3>1 DEF covered, matched, Smaller
  <2> QED
    BY <2>1, <2>2, <2>3
<1> QED
  BY <1>5, <1>19, <1>20, <1>21, <1>22, <1>23, <1>24, <1>25
     DEF was, is, come, gone, gained, i, a, k, m, n, C

\* The same about a query whose range starts above both scores: it is not
\* concerned.
LEMMA MoveQueryBelow ==
  ASSUME NEW s, NEW d, NEW old, NEW new, NEW s1, NEW s2, NEW lost, NEW s3,
         MoveBy(s, d, old, new, s1, s2, lost, s3),
         NEW q \in DOMAIN s.queries,
         ~(s.queries[q].a <= old), ~(s.queries[q].a <= new)
  PROVE  LET i    == s.queries[q]
             was  == Shown(s.docs, i)
             is   == Shown(s2.docs, i)
         IN  /\ d \notin was /\ d \notin is
             /\ q \notin lost /\ q \notin CoveringButNot(s, new, old, d)
             /\ q \notin Blocked(s1, new, d)
             /\ Besides(is, was, d) = {} /\ Besides(was, is, d) = {}
             /\ s3.queries[q].currentMatches =
                  Smaller(CountDocsInRange(s2.docs, i.a, i.max), i.k)
<1>0. /\ IsState(s) /\ EffExactIn(s) /\ MatchesExactIn(s)
      /\ d \in Docs /\ <<old, d>> \in s.docs /\ new \in Scores
      /\ s1 = RemoveDocument(s, old, d) /\ s2 = AddDocument(s1, new, d)
      /\ lost = CoveringButNot(s, old, new, d) /\ s3 = FillGaps(s2, lost)
  BY DEF MoveBy
<1> DEFINE i    == s.queries[q]
           D    == RemoveEntry(s.docs, old, d)
           C(F) == CountDocsInRange(F, i.a, i.max)
           R    == {p \in lost : Replacement(s2, p) # {}}
<1>1. /\ IsFiniteSet(s.docs) /\ s.docs \subseteq Nat \X Nat /\ OneEntryPerDoc(s.docs)
      /\ old \in Nat /\ new \in Nat /\ d \in Nat
      /\ i.a \in Nat /\ i.k \in Nat /\ i.max \in Nat
  BY <1>0, StateNumbers, ScoresAssumption, DocsAssumption DEF IsState
<1>2. /\ IsState(s2) /\ s2.docs = AddEntry(D, new, d)
      /\ s.docs = AddEntry(D, old, d) /\ D \subseteq s.docs
      /\ \A e \in D : e[2] # d
      /\ DOMAIN s1.queries = DOMAIN s.queries /\ DOMAIN s2.queries = DOMAIN s.queries
      /\ s1.queries[q].a = i.a
      /\ s1.queries[q].currentMatches = IF q \in Covering(s, old, d)
                                          THEN i.currentMatches - 1
                                          ELSE i.currentMatches
      /\ q \notin Covering(s1, new, d) =>
           s2.queries[q].currentMatches = s1.queries[q].currentMatches
  <2> HIDE DEF D
  <2>1. D = RemoveEntry(s.docs, old, d)
    BY DEF D
  <2> QED
    BY <1>0, <2>1, MoveStates
<1>3. IsFiniteSet(D) /\ D \subseteq Nat \X Nat /\ OneEntryPerDoc(D)
  BY <1>1, <1>2, FS_Subset DEF OneEntryPerDoc
<1>4. /\ q \notin Covering(s, old, d) /\ q \notin Covering(s, new, d)
      /\ q \notin Covering(s1, new, d)
  BY <1>2 DEF Covering
<1>5. /\ q \notin lost /\ q \notin CoveringButNot(s, new, old, d)
      /\ q \notin Blocked(s1, new, d)
  BY <1>0, <1>4 DEF CoveringButNot, Blocked
<1>6. ASSUME NEW v \in Nat, ~(i.a <= v), NEW F, F = AddEntry(D, v, d)
      PROVE  /\ d \notin Shown(F, i) /\ C(F) = C(D)
             /\ \A x : x # d => (x \in Shown(F, i) <=> x \in Shown(D, i))
  <2> HIDE DEF D, i
  <2>1. <<v, d>> \notin D
    BY <1>2
  <2>2. C(F) = C(D)
    BY <1>1, <1>3, <1>6, <2>1, CountDocsInRangeAdd
  <2>3. /\ d \notin Shown(F, i)
        /\ \A x \in Shown(F, i) : x # d => x \in Shown(D, i)
        /\ {x \in Shown(D, i) : x \notin Shown(F, i)} = {}
    BY <1>1, <1>2, <1>3, <1>6, ShownAdd
  <2> QED
    BY <2>2, <2>3
<1>7. /\ d \notin Shown(s.docs, i) /\ d \notin Shown(s2.docs, i)
      /\ C(s.docs) = C(s2.docs)
      /\ Besides(Shown(s2.docs, i), Shown(s.docs, i), d) = {}
      /\ Besides(Shown(s.docs, i), Shown(s2.docs, i), d) = {}
  <2> HIDE DEF D, i, C
  <2> QED
    BY <1>1, <1>2, <1>6 DEF Besides, i
<1>8. s3.queries[q].currentMatches = i.currentMatches
  <2>1. s3.queries = Recount(s2.queries, R, 1)
    BY <1>0 DEF FillGaps
  <2>2. q \notin R /\ q \in DOMAIN s2.queries
    BY <1>2, <1>5
  <2> HIDE DEF R, i
  <2>3. s3.queries[q] = s2.queries[q]
    BY <2>1, <2>2 DEF Recount
  <2> QED
    BY <1>2, <1>4, <2>3 DEF i
<1>9. i.currentMatches = Smaller(C(s.docs), i.k)
  BY <1>0 DEF MatchesExactIn
<1> QED
  BY <1>5, <1>7, <1>8, <1>9

\* handleChange of a document that keeps its place in the index.
LEMMA MoveOutcome ==
  ASSUME NEW s, NEW d, NEW old, NEW new, NEW s1, NEW s2, NEW lost, NEW s3,
         MoveBy(s, d, old, new, s1, s2, lost, s3),
         old # NoScore, new # NoScore, ~CannotRemove(s, old, d),
         NEW r, r = ChangeOutcome(s, d, old, new, {})
  PROVE  /\ r.st = s3
         /\ r.out.doc = d
         /\ r.out.matchesOld = lost
         /\ r.out.matchesNew = CoveringButNot(s, new, old, d)
         /\ \A p : p \in r.out.registers <=>
                    \E q \in lost : p \in {q} \X Replacement(s2, q)
         /\ \A p : p \in r.out.evictions <=>
                    \E q \in Blocked(s1, new, d) \ Covering(s, old, d) :
                      p \in {q} \X Truthy(OverflowDoc(s3, q))
<1> DEFINE gained == CoveringButNot(s, new, old, d)
           over   == Blocked(s1, new, d) \ Covering(s, old, d)
           evictions == UNION {{q} \X Truthy(OverflowDoc(s3, q)) : q \in over}
           registers == UNION {{q} \X Replacement(s2, q) : q \in lost}
           told == [Quiet EXCEPT !.doc = d, !.matchesOld = lost,
                      !.matchesNew = gained, !.evictions = evictions,
                      !.registers = registers]
<1>1. r = [st |-> s3, out |-> told]
  BY DEF ChangeOutcome, MoveBy
<1> HIDE DEF gained, evictions, registers
<1>2. /\ told.doc = d
      /\ told.matchesOld = lost /\ told.matchesNew = gained
      /\ told.evictions = evictions /\ told.registers = registers
  BY DEF Quiet
<1>3. /\ \A p : p \in registers <=> \E q \in lost : p \in {q} \X Replacement(s2, q)
      /\ \A p : p \in evictions <=>
                 \E q \in over : p \in {q} \X Truthy(OverflowDoc(s3, q))
  BY DEF registers, evictions
<1> HIDE DEF told
<1> QED
  BY <1>1, <1>2, <1>3 DEF gained

LEMMA MoveNeverThrows ==
  ASSUME NEW s, NEW d, NEW old, NEW new, ~CannotRemove(s, old, d)
  PROVE  ChangeOutcome(s, d, old, new, {}).out.error = FALSE
BY DEF ChangeOutcome, Quiet

\* A change of score is told to every query that loses or gains the document,
\* with the other documents each of them gains or loses by it, and leaves the
\* counters exact.
LEMMA MoveReports ==
  ASSUME NEW s, IsState(s), EffExactIn(s), MatchesExactIn(s), 0 \notin Docs,
         NEW d \in Docs, NEW old, <<old, d>> \in s.docs, NEW new \in Scores,
         \A q \in DOMAIN s.queries : s.queries[q].a <= old <=> s.queries[q].a <= new,
         NEW r, r = ChangeOutcome(s, d, old, new, {})
  PROVE  /\ r.out.doc = d
         /\ r.st.docs = AddEntry(RemoveEntry(s.docs, old, d), new, d)
         /\ r.st.nextId = s.nextId /\ SpecsOf(r.st.queries) = SpecsOf(s.queries)
         /\ MatchesExactIn(r.st)
         /\ r.out.matchesOld \cup r.out.matchesNew \subseteq DOMAIN s.queries
         /\ r.out.evictions \cup r.out.registers \subseteq (DOMAIN s.queries) \X Docs
         /\ \A q \in DOMAIN s.queries :
              LET was == Shown(s.docs, s.queries[q])
                  is  == Shown(r.st.docs, s.queries[q])
              IN  /\ d \in was /\ d \notin is => q \in r.out.matchesOld
                  /\ q \in r.out.matchesNew <=> d \in is /\ d \notin was
                  /\ \A x \in Docs :
                       /\ <<q, x>> \in r.out.evictions <=>
                            x # d /\ x \in was /\ x \notin is
                       /\ <<q, x>> \in r.out.registers <=>
                            x # d /\ x \in is /\ x \notin was
<1> DEFINE s1 == RemoveDocument(s, old, d)
           s2 == AddDocument(s1, new, d)
           lost == CoveringButNot(s, old, new, d)
           gained == CoveringButNot(s, new, old, d)
           s3 == FillGaps(s2, lost)
           over == Blocked(s1, new, d) \ Covering(s, old, d)
           fetched(q) == Replacement(s2, q)
           evicted(q) == Truthy(OverflowDoc(s3, q))
           live == DOMAIN s.queries
           was(q) == Shown(s.docs, s.queries[q])
           is(q)  == Shown(s2.docs, s.queries[q])
<1>1. old # NoScore /\ new # NoScore
  BY StateNumbers, ScoresAssumption DEF NoScore
<1>2. /\ ~CannotRemove(s, old, d)
      /\ IsState(s1) /\ EffExactIn(s1) /\ IsState(s2)
      /\ s2.docs = AddEntry(RemoveEntry(s.docs, old, d), new, d)
      /\ DOMAIN s1.queries = live /\ DOMAIN s2.queries = live
      /\ SpecsOf(s2.queries) = SpecsOf(s.queries) /\ s2.nextId = s.nextId
      /\ \A q \in live : /\ s2.queries[q].a = s.queries[q].a
                         /\ s2.queries[q].k = s.queries[q].k
                         /\ s2.queries[q].max = s.queries[q].max
  <2> HIDE DEF s1, s2
  <2>1. s1 = RemoveDocument(s, old, d) /\ s2 = AddDocument(s1, new, d)
    BY DEF s1, s2
  <2> QED
    BY <2>1, MoveStates
<1>3. /\ r.st = s3
      /\ r.out.doc = d
      /\ r.out.matchesOld = lost /\ r.out.matchesNew = gained
      /\ \A p : p \in r.out.registers <=> \E q \in lost : p \in {q} \X fetched(q)
      /\ \A p : p \in r.out.evictions <=> \E q \in over : p \in {q} \X evicted(q)
  <2> HIDE DEF s1, s2, lost, s3
  <2>1. MoveBy(s, d, old, new, s1, s2, lost, s3)
    BY DEF MoveBy, s1, s2, lost, s3
  <2> QED
    BY <1>1, <1>2, <2>1, MoveOutcome
<1>4. /\ s3.docs = s2.docs /\ s3.nextId = s2.nextId /\ DOMAIN s3.queries = live
      /\ IsState(s3) /\ SpecsOf(s3.queries) = SpecsOf(s2.queries)
  <2> DEFINE R == {q \in lost : Replacement(s2, q) # {}}
  <2>1. /\ s3.docs = s2.docs /\ s3.nextId = s2.nextId
        /\ s3.queries = Recount(s2.queries, R, 1)
    BY DEF FillGaps
  <2> HIDE DEF R, s2, lost
  <2>2. IsState(s3)
    BY <1>2, FillGapsKeepsState
  <2>3. s2.queries \in [DOMAIN s2.queries -> QueryInfo]
    BY <1>2, StateNumbers
  <2> HIDE DEF s3
  <2>4. SpecsOf(Recount(s2.queries, R, 1)) = SpecsOf(s2.queries)
    BY <2>3, RecountKeepsSpecs
  <2>5. DOMAIN Recount(s2.queries, R, 1) = DOMAIN s2.queries
    BY DEF Recount
  <2> QED
    BY <1>2, <2>1, <2>2, <2>4, <2>5
<1>5. lost \subseteq live /\ gained \subseteq live /\ over \subseteq live
  BY <1>2 DEF CoveringButNot, Covering, Blocked
<1>6. \A q : fetched(q) \subseteq Docs /\ evicted(q) \subseteq Docs
  <2> HIDE DEF s2, s3
  <2> QED
    BY <1>2, <1>4, LookupsType
<1>7. ASSUME NEW q \in live
      PROVE  /\ d \in was(q) /\ d \notin is(q) => q \in lost
             /\ q \in gained <=> d \in is(q) /\ d \notin was(q)
             /\ q \in lost => fetched(q) = Besides(is(q), was(q), d)
             /\ q \notin lost => Besides(is(q), was(q), d) = {}
             /\ q \in over => evicted(q) = Besides(was(q), is(q), d)
             /\ q \notin over => Besides(was(q), is(q), d) = {}
             /\ s3.queries[q].currentMatches =
                  Smaller(CountDocsInRange(s2.docs, s.queries[q].a, s.queries[q].max),
                          s.queries[q].k)
  <2> HIDE DEF s1, s2, lost, s3
  <2>1. MoveBy(s, d, old, new, s1, s2, lost, s3)
    BY DEF MoveBy, s1, s2, lost, s3
  <2>2. CASE s.queries[q].a <= old
    BY <2>1, <2>2, MoveQuery
  <2>3. CASE ~(s.queries[q].a <= old)
    BY <2>1, <2>3, MoveQueryBelow
  <2> QED
    BY <2>2, <2>3
<1>8. MatchesExactIn(s3)
  <2> HIDE DEF s2, s3
  <2>1. ASSUME NEW q \in live
        PROVE  /\ s3.queries[q].a = s.queries[q].a /\ s3.queries[q].k = s.queries[q].k
               /\ s3.queries[q].max = s.queries[q].max
    <3>1. SpecsOf(s3.queries)[q] = SpecsOf(s.queries)[q]
      BY <1>2, <1>4
    <3> QED
      BY <1>4, <3>1 DEF SpecsOf
  <2> QED
    BY <1>4, <1>7, <2>1 DEF MatchesExactIn
<1> HIDE DEF s1, s2, lost, gained, s3, over, was, is, live, fetched, evicted
<1>9. r.out.evictions \cup r.out.registers \subseteq live \X Docs
  <2>1. ASSUME NEW p \in r.out.evictions PROVE p \in live \X Docs
    <3>1. PICK q \in over : p \in {q} \X evicted(q)
      BY <1>3, <2>1
    <3> QED
      BY <1>5, <1>6, <3>1
  <2>2. ASSUME NEW p \in r.out.registers PROVE p \in live \X Docs
    <3>1. PICK q \in lost : p \in {q} \X fetched(q)
      BY <1>3, <2>2
    <3> QED
      BY <1>5, <1>6, <3>1
  <2> QED
    BY <2>1, <2>2
<1>10. ASSUME NEW q \in live, NEW x \in Docs
       PROVE  /\ <<q, x>> \in r.out.evictions <=> x # d /\ x \in was(q) /\ x \notin is(q)
              /\ <<q, x>> \in r.out.registers <=> x # d /\ x \in is(q) /\ x \notin was(q)
  <2>1. <<q, x>> \in r.out.evictions <=> q \in over /\ x \in evicted(q)
    <3>1. <<q, x>> \in r.out.evictions <=> \E p \in over : <<q, x>> \in {p} \X evicted(p)
      BY <1>3
    <3> QED
      BY <3>1
  <2>2. <<q, x>> \in r.out.registers <=> q \in lost /\ x \in fetched(q)
    <3>1. <<q, x>> \in r.out.registers <=> \E p \in lost : <<q, x>> \in {p} \X fetched(p)
      BY <1>3
    <3> QED
      BY <3>1
  <2> QED
    BY <1>7, <2>1, <2>2 DEF Besides
<1> QED
  BY <1>2, <1>3, <1>4, <1>5, <1>7, <1>8, <1>9, <1>10 DEF was, is, live

-----------------------------------------------------------------------------
(* The stream implements TopKQueries.                                       *)

\* What the refinement mapping shows of what was told.
ToldBy(o)  == [left |-> o.matchesOld, entered |-> o.matchesNew,
               displaced |-> o.evictions, fetched |-> o.registers]

\* The abstract operator is about the same index.
LEMMA SameIndex ==
  ASSUME NEW D, NEW lo, NEW hi, NEW k
  PROVE  TopK!CollectRange(D, lo, hi, k) = CollectRange(D, lo, hi, k)
  BY DEF TopK!CollectRange, TopK!Rank, TopK!RankOfScore, TopK!Precedes,
         TopK!Cardinality,
         CollectRange, Rank, RankOfScore, Precedes, Cardinality

\* What a query of the mapping shows.
LEMMA MembersShown ==
  ASSUME NEW D, NEW q \in DOMAIN idx.queries
  PROVE  TopK!Members(D, q) = Shown(D, idx.queries[q])
<1> DEFINE i == idx.queries[q]
           specs == [p \in DOMAIN idx.queries |->
                       [a |-> idx.queries[p].a, k |-> idx.queries[p].k,
                        max |-> idx.queries[p].max]]
<1>1. specs[q] = [a |-> i.a, k |-> i.k, max |-> i.max]
  OBVIOUS
<1>2. TopK!Members(D, q) = TopK!Ids(TopK!Window(D, specs[q]))
  BY DEF TopK!Members
<1> HIDE DEF i, specs
<1>3. TopK!Window(D, specs[q]) = CollectRange(D, i.a, i.max, i.k)
  <2>1. TopK!Window(D, specs[q]) = TopK!CollectRange(D, i.a, i.max, i.k)
    BY <1>1 DEF TopK!Window
  <2> QED
    BY <2>1, SameIndex
<1> QED
  BY <1>2, <1>3 DEF TopK!Ids, Shown, DocsOf, i

\* The difference between two windows over sets of documents that differ in d.
LEMMA DifferenceShown ==
  ASSUME NEW D, NEW E, NEW d, NEW o,
         LET was(q) == Shown(D, idx.queries[q])
             is(q)  == Shown(E, idx.queries[q])
             live == DOMAIN idx.queries
         IN  /\ o.matchesOld = {q \in live : d \in was(q) /\ d \notin is(q)}
             /\ o.matchesNew = {q \in live : d \in is(q) /\ d \notin was(q)}
             /\ o.evictions = {p \in live \X Docs :
                   p[2] # d /\ p[2] \in was(p[1]) /\ p[2] \notin is(p[1])}
             /\ o.registers = {p \in live \X Docs :
                   p[2] # d /\ p[2] \in is(p[1]) /\ p[2] \notin was(p[1])}
  PROVE  ToldBy(o) = TopK!Difference(D, E, d)
<1> DEFINE was(q) == Shown(D, idx.queries[q])
           is(q)  == Shown(E, idx.queries[q])
           live   == DOMAIN idx.queries
           specs  == SpecsOf(idx.queries)
           M(F, q) == TopK!Members(F, q)
<1>1. \A q \in live : M(D, q) = was(q) /\ M(E, q) = is(q)
  BY MembersShown
<1>2. DOMAIN specs = live
  BY DEF SpecsOf
<1>3. TopK!Difference(D, E, d) =
        [left      |-> {q \in live : d \in M(D, q) \ M(E, q)},
         entered   |-> {q \in live : d \in M(E, q) \ M(D, q)},
         displaced |-> {p \in live \X Docs : p[2] # d /\ p[2] \in M(D, p[1]) \ M(E, p[1])},
         fetched   |-> {p \in live \X Docs : p[2] # d /\ p[2] \in M(E, p[1]) \ M(D, p[1])}]
  BY <1>2 DEF TopK!Difference, SpecsOf
<1> HIDE DEF was, is, M, live
<1>4. /\ {q \in live : d \in M(D, q) \ M(E, q)} = {q \in live : d \in was(q) /\ d \notin is(q)}
      /\ {q \in live : d \in M(E, q) \ M(D, q)} = {q \in live : d \in is(q) /\ d \notin was(q)}
  BY <1>1
<1>5. /\ {p \in live \X Docs : p[2] # d /\ p[2] \in M(D, p[1]) \ M(E, p[1])}
           = {p \in live \X Docs : p[2] # d /\ p[2] \in was(p[1]) /\ p[2] \notin is(p[1])}
      /\ {p \in live \X Docs : p[2] # d /\ p[2] \in M(E, p[1]) \ M(D, p[1])}
           = {p \in live \X Docs : p[2] # d /\ p[2] \in is(p[1]) /\ p[2] \notin was(p[1])}
  BY <1>1
<1> QED
  BY <1>3, <1>4, <1>5 DEF ToldBy, was, is, live

\* The mapping itself.
LEMMA Mapping ==
  /\ Init => TopK!Init
  /\ UNCHANGED vars => UNCHANGED TopK!vars
<1>1. Init => TopK!Init
  <2>1. \A Q : DOMAIN Q = {} => SpecsOf(Q) = << >>
    BY DEF SpecsOf
  <2>2. DOMAIN << >> = {}
    OBVIOUS
  <2>3. SpecsOf(<< >>) = << >>
    BY <2>1, <2>2
  <2> QED
    BY <2>3 DEF Init, TopK!Init, TopK!Silence, EmptyIndex, Quiet, SpecsOf
<1>2. UNCHANGED vars => UNCHANGED TopK!vars
  BY DEF vars, TopK!vars
<1> QED
  BY <1>1, <1>2

\* The index after a document has appeared, and after one has disappeared.
LEMMA InsertIndex ==
  ASSUME TypeOK, EffExact, CurrentMatchesExact,
         NEW d \in Docs, NEW v \in Scores, DocInsert(d, v),
         NEW E, E = AddEntry(idx.docs, v, d)
  PROVE  /\ idx'.docs = E /\ idx'.nextId = idx.nextId
         /\ SpecsOf(idx'.queries) = SpecsOf(idx.queries)
         /\ \A e \in idx.docs : e[2] # d
         /\ out' = ChangeOutcome(idx, d, NoScore, v, {}).out
<1> USE DEF TypeOK, EffExact, CurrentMatchesExact
<1>1. \A e \in idx.docs : e[2] # d
  BY CurrentScoreIsStored DEF DocInsert
<1>2. /\ idx' = FillGaps(AddDocument(idx, v, d), {})
      /\ out' = ChangeOutcome(idx, d, NoScore, v, {}).out
  BY InsertOutcome DEF DocInsert, Apply
<1>3. /\ idx'.docs = E /\ idx'.nextId = idx.nextId
      /\ SpecsOf(idx'.queries) = SpecsOf(idx.queries)
  <2> DEFINE S == Covering(idx, v, d) \ Blocked(idx, v, d)
             R == {q \in {} : Replacement(AddDocument(idx, v, d), q) # {}}
             Q == Recount(idx.queries, S, 1)
  <2>1. /\ idx'.docs = E /\ idx'.nextId = idx.nextId
        /\ idx'.queries = Recount(Q, R, 1)
    BY <1>2 DEF FillGaps, AddDocument
  <2>2. /\ idx.queries \in [DOMAIN idx.queries -> QueryInfo]
        /\ \A q \in DOMAIN idx.queries : idx.queries[q].currentMatches + 1 \in Nat
    BY StateNumbers
  <2> HIDE DEF S
  <2>3. Q \in [DOMAIN Q -> QueryInfo] /\ SpecsOf(Q) = SpecsOf(idx.queries)
    BY <2>2, RecountKeepsInfo, RecountKeepsSpecs
  <2> HIDE DEF Q, R
  <2>4. SpecsOf(Recount(Q, R, 1)) = SpecsOf(Q)
    BY <2>3, RecountKeepsSpecs
  <2> QED
    BY <2>1, <2>3, <2>4
<1> QED
  BY <1>1, <1>2, <1>3

LEMMA DeleteIndex ==
  ASSUME TypeOK, EffExact, CurrentMatchesExact, NEW d \in Docs, DocDelete(d, {}),
         NEW v, v = CurrentScore(d), NEW D, D = RemoveEntry(idx.docs, v, d)
  PROVE  /\ idx'.docs = D /\ idx'.nextId = idx.nextId
         /\ SpecsOf(idx'.queries) = SpecsOf(idx.queries)
         /\ v # NoScore /\ <<v, d>> \in idx.docs
         /\ out' = ChangeOutcome(idx, d, v, NoScore, {}).out
<1> USE DEF TypeOK, EffExact, CurrentMatchesExact
<1>1. v # NoScore /\ <<v, d>> \in idx.docs
  BY CurrentScoreIsStored DEF DocDelete
<1>2. idx' = ChangeOutcome(idx, d, v, NoScore, {}).st
      /\ out' = ChangeOutcome(idx, d, v, NoScore, {}).out
  BY DEF DocDelete, Apply
<1>3. ~CannotRemove(idx, v, d)
  BY <1>1, NeverCannotRemove
<1>4. idx' = FillGaps(RemoveDocument(idx, v, d), Covering(idx, v, d))
  BY <1>1, <1>2, <1>3, DeleteOutcome
<1>5. /\ idx'.docs = D /\ idx'.nextId = idx.nextId
      /\ SpecsOf(idx'.queries) = SpecsOf(idx.queries)
  <2> DEFINE S == Covering(idx, v, d)
             R == {q \in S : Replacement(RemoveDocument(idx, v, d), q) # {}}
             Q == Recount(idx.queries, S, -1)
  <2>1. /\ idx'.docs = D /\ idx'.nextId = idx.nextId
        /\ idx'.queries = Recount(Q, R, 1)
    BY <1>3, <1>4, CountedDownAll DEF FillGaps, RemoveDocument
  <2>2. /\ idx.queries \in [DOMAIN idx.queries -> QueryInfo]
        /\ \A q \in DOMAIN idx.queries :
             q \in S => idx.queries[q].currentMatches + (-1) \in Nat
    BY <1>3, StateNumbers DEF CannotRemove
  <2> HIDE DEF S
  <2>3. Q \in [DOMAIN Q -> QueryInfo] /\ SpecsOf(Q) = SpecsOf(idx.queries)
    BY <2>2, RecountKeepsInfo, RecountKeepsSpecs
  <2> HIDE DEF Q, R
  <2>4. SpecsOf(Recount(Q, R, 1)) = SpecsOf(Q)
    BY <2>3, RecountKeepsSpecs
  <2> QED
    BY <2>1, <2>3, <2>4
<1> QED
  BY <1>1, <1>2, <1>5

LEMMA InsertMaps ==
  ASSUME TypeOK, EffExact, CurrentMatchesExact, 0 \notin Docs,
         NEW d \in Docs, NEW v \in Scores, DocInsert(d, v)
  PROVE  TopK!Insert(v, d)
<1> USE DEF TypeOK, EffExact, CurrentMatchesExact
<1> DEFINE E == AddEntry(idx.docs, v, d)
<1>1. /\ \A e \in idx.docs : e[2] # d
      /\ out' = ChangeOutcome(idx, d, NoScore, v, {}).out
      /\ idx'.docs = E /\ idx'.nextId = idx.nextId
      /\ SpecsOf(idx'.queries) = SpecsOf(idx.queries)
  BY InsertIndex
<1>2. ToldBy(out') = TopK!Difference(idx.docs, E, d)
  <2> DEFINE o == ChangeOutcome(idx, d, NoScore, v, {}).out
             was(q) == Shown(idx.docs, idx.queries[q])
             is(q)  == Shown(E, idx.queries[q])
             live   == DOMAIN idx.queries
  <2>1. /\ o.matchesOld = {} /\ o.registers = {}
        /\ o.matchesNew = {q \in live : d \in is(q)}
        /\ o.evictions = {p \in live \X Docs : p[2] \in was(p[1]) /\ p[2] \notin is(p[1])}
        /\ \A q \in live : d \notin was(q) /\ \A x \in is(q) : x # d => x \in was(q)
    BY <1>1, InsertReports
  <2> HIDE DEF o, was, is, live
  <2>2. /\ o.matchesOld = {q \in live : d \in was(q) /\ d \notin is(q)}
        /\ o.matchesNew = {q \in live : d \in is(q) /\ d \notin was(q)}
        /\ o.evictions = {p \in live \X Docs :
              p[2] # d /\ p[2] \in was(p[1]) /\ p[2] \notin is(p[1])}
        /\ o.registers = {p \in live \X Docs :
              p[2] # d /\ p[2] \in is(p[1]) /\ p[2] \notin was(p[1])}
    BY <2>1
  <2>3. ToldBy(o) = TopK!Difference(idx.docs, E, d)
    BY <2>2, DifferenceShown DEF was, is, live
  <2> QED
    BY <1>1, <2>3 DEF o
<1>3. d \notin TopK!Ids(idx.docs)
  BY <1>1 DEF TopK!Ids
<1> QED
  BY <1>1, <1>2, <1>3 DEF TopK!Insert, SpecsOf, ToldBy, AddEntry

LEMMA DeleteMaps ==
  ASSUME TypeOK, EffExact, CurrentMatchesExact, 0 \notin Docs,
         NEW d \in Docs, DocDelete(d, {})
  PROVE  \E v \in Scores : TopK!Delete(v, d)
<1> USE DEF TypeOK, EffExact, CurrentMatchesExact
<1> DEFINE v == CurrentScore(d)
           D == RemoveEntry(idx.docs, v, d)
<1>1. /\ v # NoScore /\ <<v, d>> \in idx.docs
      /\ out' = ChangeOutcome(idx, d, v, NoScore, {}).out
      /\ idx'.docs = D /\ idx'.nextId = idx.nextId
      /\ SpecsOf(idx'.queries) = SpecsOf(idx.queries)
  BY DeleteIndex
<1> HIDE DEF v
<1>2. ToldBy(out') = TopK!Difference(idx.docs, D, d)
  <2> DEFINE o == ChangeOutcome(idx, d, v, NoScore, {}).out
             was(q) == Shown(idx.docs, idx.queries[q])
             is(q)  == Shown(D, idx.queries[q])
             live   == DOMAIN idx.queries
  <2>1. /\ o.matchesNew = {} /\ o.evictions = {}
        /\ o.matchesOld = {q \in live : d \in was(q)}
        /\ o.registers = {p \in live \X Docs : p[2] \in is(p[1]) /\ p[2] \notin was(p[1])}
        /\ \A q \in live : d \notin is(q) /\ \A x \in was(q) : x # d => x \in is(q)
    BY <1>1, DeleteReports
  <2> HIDE DEF o, was, is, live
  <2>2. /\ o.matchesOld = {q \in live : d \in was(q) /\ d \notin is(q)}
        /\ o.matchesNew = {q \in live : d \in is(q) /\ d \notin was(q)}
        /\ o.evictions = {p \in live \X Docs :
              p[2] # d /\ p[2] \in was(p[1]) /\ p[2] \notin is(p[1])}
        /\ o.registers = {p \in live \X Docs :
              p[2] # d /\ p[2] \in is(p[1]) /\ p[2] \notin was(p[1])}
    BY <2>1
  <2>3. ToldBy(o) = TopK!Difference(idx.docs, D, d)
    BY <2>2, DifferenceShown DEF was, is, live
  <2> QED
    BY <1>1, <2>3 DEF o
<1>3. v \in Scores
  BY <1>1 DEF IsState
<1>4. TopK!Delete(v, d)
  BY <1>1, <1>2 DEF TopK!Delete, SpecsOf, ToldBy, RemoveEntry
<1> QED
  BY <1>3, <1>4

LEMMA TouchMaps ==
  ASSUME TypeOK, EffExact, NEW d \in Docs, DocTouch(d)
  PROVE  \E v \in Scores : TopK!Touch(v, d)
<1> USE DEF TypeOK, EffExact
<1> DEFINE v == CurrentScore(d)
           live == DOMAIN idx.queries
           showing == {q \in live : d \in TopK!Members(idx.docs, q)}
<1>1. v # NoScore /\ <<v, d>> \in idx.docs
  BY CurrentScoreIsStored DEF DocTouch
<1>2. idx' = idx /\ out'.matchesOld = Covering(idx, v, d)
      /\ out'.matchesNew = Covering(idx, v, d)
      /\ out'.evictions = {} /\ out'.registers = {}
  BY DEF DocTouch, Apply, TouchOutcome, Quiet
<1> HIDE DEF v
<1>3. Covering(idx, v, d) \subseteq live
  BY DEF Covering
<1>4. ASSUME NEW q \in live
      PROVE  q \in Covering(idx, v, d) <=> d \in TopK!Members(idx.docs, q)
  BY <1>1, CoveringShown, MembersShown
<1>5. Covering(idx, v, d) = showing
  BY <1>3, <1>4
<1>6. v \in Scores
  BY <1>1 DEF IsState
<1>7. DOMAIN SpecsOf(idx.queries) = live
  BY DEF SpecsOf
<1>8. ToldBy(out') = [TopK!Silence EXCEPT !.left = showing, !.entered = showing]
  <2>1. ToldBy(out') = [left |-> showing, entered |-> showing,
                        displaced |-> {}, fetched |-> {}]
    BY <1>2, <1>5 DEF ToldBy
  <2>2. ASSUME NEW S, NEW r, r = [TopK!Silence EXCEPT !.left = S, !.entered = S]
        PROVE  r = [left |-> S, entered |-> S, displaced |-> {}, fetched |-> {}]
    BY <2>2 DEF TopK!Silence
  <2> HIDE DEF showing
  <2> QED
    BY <2>1, <2>2
<1>9. TopK!Touch(v, d)
  BY <1>1, <1>2, <1>7, <1>8 DEF TopK!Touch, ToldBy, SpecsOf
<1> QED
  BY <1>6, <1>9

LEMMA QueryAddMaps ==
  ASSUME TypeOK, NEW spec \in Specs, QueryAdd(spec)
  PROVE  TopK!AddQuery(spec)
<1> DEFINE ids == DOMAIN idx.queries \cup {idx.nextId}
           t == AddQuery(idx, spec)
           shown == Shown(idx.docs, spec)
<1>0. idx.nextId \in QueryIds /\ IsState(idx)
  BY DEF QueryAdd, TypeOK
<1>1. /\ idx.nextId \in 1 .. MaxQueries /\ idx.nextId <= MaxQueries
      /\ idx' = t /\ out' = QueryAddOutcome(idx, spec).out
      /\ out'.error = FALSE
  <2>1. /\ QueryAddOutcome(idx, spec).st = t
        /\ QueryAddOutcome(idx, spec).out.error = FALSE
    BY <1>0, QueryAddNeverThrows
  <2>2. idx' = QueryAddOutcome(idx, spec).st /\ out' = QueryAddOutcome(idx, spec).out
    BY DEF QueryAdd, Apply
  <2>3. idx.nextId \in 1 .. MaxQueries /\ idx.nextId <= MaxQueries
    BY <1>0, MaxQueriesAssumption DEF QueryIds
  <2> HIDE DEF t
  <2> QED
    BY <2>1, <2>2, <2>3
<1>2. spec \in [a : Scores, k : Nat, max : Scores]
  BY SpecsAssumption
<1>3. /\ t.docs = idx.docs /\ t.nextId = idx.nextId + 1
      /\ DOMAIN t.queries = ids
      /\ \A q \in ids : q # idx.nextId => t.queries[q] = idx.queries[q]
      /\ t.queries[idx.nextId].a = spec.a /\ t.queries[idx.nextId].k = spec.k
      /\ t.queries[idx.nextId].max = spec.max
  BY DEF AddQuery
<1> HIDE DEF t
<1>4. /\ out'.matchesOld = {} /\ out'.matchesNew = {} /\ out'.evictions = {}
      /\ out'.registers = {idx.nextId} \X shown
  <2>1. DocsForQuery(t, idx.nextId) = CollectRange(idx.docs, spec.a, spec.max, spec.k)
    BY <1>3 DEF DocsForQuery
  <2>2. out' = [Quiet EXCEPT !.registers =
                  {idx.nextId} \X {e[2] : e \in DocsForQuery(t, idx.nextId)}]
    BY <1>1 DEF QueryAddOutcome, ThrowOutcome, Quiet, t
  <2> QED
    BY <2>1, <2>2 DEF Quiet, Shown, DocsOf
<1>5. SpecsOf(idx'.queries) =
        [q \in DOMAIN SpecsOf(idx.queries) \cup {idx.nextId} |->
           IF q = idx.nextId THEN spec ELSE SpecsOf(idx.queries)[q]]
  <2>1. spec = [a |-> spec.a, k |-> spec.k, max |-> spec.max]
    BY <1>2
  <2>2. DOMAIN SpecsOf(idx.queries) = DOMAIN idx.queries
    BY DEF SpecsOf
  <2>3. \A q \in ids :
          [a |-> t.queries[q].a, k |-> t.queries[q].k, max |-> t.queries[q].max]
            = IF q = idx.nextId THEN spec ELSE SpecsOf(idx.queries)[q]
    <3>1. \A q \in ids : q # idx.nextId => SpecsOf(idx.queries)[q] =
             [a |-> t.queries[q].a, k |-> t.queries[q].k, max |-> t.queries[q].max]
      BY <1>3 DEF SpecsOf
    <3> QED
      BY <1>3, <2>1, <3>1
  <2> QED
    BY <1>1, <1>3, <2>2, <2>3 DEF SpecsOf
<1>6. TopK!Ids(TopK!Window(idx.docs, spec)) = shown
  BY SameIndex DEF TopK!Ids, TopK!Window, Shown, DocsOf
<1>7. ToldBy(out') = [TopK!Silence EXCEPT !.fetched =
                        {idx.nextId} \X TopK!Ids(TopK!Window(idx.docs, spec))]
  <2>1. ToldBy(out') = [left |-> {}, entered |-> {}, displaced |-> {},
                        fetched |-> {idx.nextId} \X shown]
    BY <1>4 DEF ToldBy
  <2>2. ASSUME NEW S, NEW r, r = [TopK!Silence EXCEPT !.fetched = S]
        PROVE  r = [left |-> {}, entered |-> {}, displaced |-> {}, fetched |-> S]
    BY <2>2 DEF TopK!Silence
  <2> HIDE DEF shown
  <2> QED
    BY <1>6, <2>1, <2>2
<1> QED
  BY <1>1, <1>3, <1>5, <1>7 DEF TopK!AddQuery, SpecsOf, ToldBy

LEMMA QueryRemoveMaps ==
  ASSUME TypeOK, NEW q \in QueryIds, QueryRemove(q)
  PROVE  TopK!RemoveQuery(q)
<1> DEFINE ids == DOMAIN idx.queries \ {q}
<1>1. /\ q \in DOMAIN idx.queries /\ out' = Quiet
      /\ idx'.docs = idx.docs /\ idx'.nextId = idx.nextId
      /\ idx'.queries = [p \in ids |-> idx.queries[p]]
  BY DEF QueryRemove, RemoveQuery
<1>2. DOMAIN SpecsOf(idx.queries) = DOMAIN idx.queries
  BY DEF SpecsOf
<1>3. SpecsOf(idx'.queries) =
        [p \in DOMAIN SpecsOf(idx.queries) \ {q} |-> SpecsOf(idx.queries)[p]]
  BY <1>1, <1>2 DEF SpecsOf
<1>4. ToldBy(out') = TopK!Silence
  BY <1>1 DEF ToldBy, Quiet, TopK!Silence
<1> QED
  BY <1>1, <1>2, <1>3, <1>4 DEF TopK!RemoveQuery, SpecsOf, ToldBy

LEMMA SeedMaps ==
  ASSUME LateSeeds = FALSE, NEW d \in Docs, NEW v \in Scores, SeedDocs(d, v)
  PROVE  \E E \in SUBSET (Scores \X Docs) : TopK!Seed(E)
<1> DEFINE E == {<<v, d>>}
<1>1. /\ DOMAIN idx.queries = {} /\ out' = Quiet
      /\ idx'.docs = idx.docs \cup E /\ idx'.nextId = idx.nextId
      /\ idx'.queries = idx.queries
  BY DEF SeedDocs, SeedDocuments
<1>2. DOMAIN SpecsOf(idx.queries) = {}
  BY <1>1 DEF SpecsOf
<1>3. ToldBy(out') = TopK!Silence
  BY <1>1 DEF ToldBy, Quiet, TopK!Silence
<1>4. TopK!Seed(E)
  BY <1>1, <1>2, <1>3 DEF TopK!Seed, SpecsOf, ToldBy
<1>5. E \in SUBSET (Scores \X Docs)
  OBVIOUS
<1> QED
  BY <1>4, <1>5

-----------------------------------------------------------------------------
(* What an item tells the retrieval job and the clients: cited where the    *)
(* stream is put together with them.                                        *)

\* A change of a document replaces its entry.
LEMMA ChangeReplaces ==
  ASSUME NEW s, IsState(s), NEW d, NEW old, NEW new,
         old = NoScore => \A e \in s.docs : e[2] # d,
         old # NoScore => <<old, d>> \in s.docs,
         ~ChangeOutcome(s, d, old, new, {}).out.error
  PROVE  /\ ChangeOutcome(s, d, old, new, {}).st.docs =
              {e \in s.docs : e[2] # d}
                \cup (IF new = NoScore THEN {} ELSE {<<new, d>>})
         /\ ChangeOutcome(s, d, old, new, {}).out.doc = d
<1> DEFINE leaves == old # NoScore
           enters == new # NoScore
           s1 == IF leaves THEN RemoveDocument(s, old, d) ELSE s
           s2 == IF enters THEN AddDocument(s1, new, d) ELSE s1
           rest == {e \in s.docs : e[2] # d}
<1>1. ~(leaves /\ CannotRemove(s, old, d))
  BY DEF ChangeOutcome, ThrowOutcome, Quiet
<1>2. /\ ChangeOutcome(s, d, old, new, {}).st.docs = s2.docs
      /\ ChangeOutcome(s, d, old, new, {}).out.doc = d
  BY <1>1 DEF ChangeOutcome, FillGaps, Quiet
<1>3. s1.docs = rest
  BY DEF RemoveDocument, RemoveEntry, IsState, OneEntryPerDoc
<1>4. s2.docs = rest \cup (IF new = NoScore THEN {} ELSE {<<new, d>>})
  BY <1>3 DEF AddDocument, AddEntry
<1> QED
  BY <1>2, <1>4

\* The ids of the documents in the window of a query, none for a query that
\* is not there.
ShownBy(s, q) ==
  IF q \in DOMAIN s.queries THEN Shown(s.docs, s.queries[q]) ELSE {}

\* For every query there is after the item, the outputs are the difference
\* between its windows before and after: the changed document is told as a
\* match, every other one as an eviction or a retrieval.
Reported ==
  \A q \in DOMAIN idx'.queries :
    LET was == ShownBy(idx, q)
        is  == ShownBy(idx', q)
        d   == out'.doc
    IN  /\ q \in DOMAIN idx.queries \/ idx.nextId <= q
        /\ \A e \in Scores \X Docs : e[2] # d => (e \in idx'.docs <=> e \in idx.docs)
        /\ q \in out'.matchesOld <=> d \in was
        /\ q \in out'.matchesNew <=> d \in is
        /\ \A x \in Docs :
             /\ <<q, x>> \in out'.evictions <=> x # d /\ x \in was /\ x \notin is
             /\ <<q, x>> \in out'.registers <=> x # d /\ x \in is /\ x \notin was

\* Nothing is told to a query that is not there.
ToTheLiving ==
  /\ idx.nextId <= idx'.nextId
  /\ out'.matchesOld \cup out'.matchesNew \subseteq DOMAIN idx'.queries
  /\ out'.evictions \cup out'.registers \subseteq (DOMAIN idx'.queries) \X Docs

\* A window depends on the documents and on the spec of its query.
LEMMA SameSpecs ==
  ASSUME NEW s, NEW t, SpecsOf(t.queries) = SpecsOf(s.queries)
  PROVE  /\ DOMAIN t.queries = DOMAIN s.queries
         /\ \A q \in DOMAIN s.queries :
              /\ ShownBy(s, q) = Shown(s.docs, s.queries[q])
              /\ ShownBy(t, q) = Shown(t.docs, s.queries[q])
<1>1. DOMAIN t.queries = DOMAIN s.queries
  BY DEF SpecsOf
<1>2. ASSUME NEW q \in DOMAIN s.queries
      PROVE  /\ t.queries[q].a = s.queries[q].a /\ t.queries[q].k = s.queries[q].k
             /\ t.queries[q].max = s.queries[q].max
  <2>1. SpecsOf(t.queries)[q] = SpecsOf(s.queries)[q]
    OBVIOUS
  <2> QED
    BY <1>1, <2>1 DEF SpecsOf
<1> QED
  BY <1>1, <1>2 DEF ShownBy, Shown

LEMMA InsertReported ==
  ASSUME TypeOK, EffExact, CurrentMatchesExact, 0 \notin Docs,
         NEW d \in Docs, NEW v \in Scores, DocInsert(d, v)
  PROVE  Reported /\ ToTheLiving
<1> USE DEF TypeOK, EffExact, CurrentMatchesExact
<1> DEFINE E == AddEntry(idx.docs, v, d)
           live == DOMAIN idx.queries
           was(q) == Shown(idx.docs, idx.queries[q])
           is(q)  == Shown(E, idx.queries[q])
<1>1. /\ \A e \in idx.docs : e[2] # d
      /\ out' = ChangeOutcome(idx, d, NoScore, v, {}).out
      /\ idx'.docs = E /\ idx'.nextId = idx.nextId
      /\ SpecsOf(idx'.queries) = SpecsOf(idx.queries)
  BY InsertIndex
<1>2. DOMAIN idx'.queries = live
      /\ \A q \in live : ShownBy(idx, q) = was(q) /\ ShownBy(idx', q) = is(q)
  BY <1>1, SameSpecs
<1>3. /\ out'.matchesOld = {} /\ out'.registers = {}
      /\ out'.matchesNew = {q \in live : d \in is(q)}
      /\ out'.evictions = {p \in live \X Docs : p[2] \in was(p[1]) /\ p[2] \notin is(p[1])}
      /\ \A q \in live : d \notin was(q) /\ \A x \in is(q) : x # d => x \in was(q)
  BY <1>1, InsertReports
<1>4. out'.doc = d
  BY <1>1 DEF ChangeOutcome, Quiet, NoScore
<1>5. \A e \in Scores \X Docs : e[2] # d => (e \in E <=> e \in idx.docs)
  BY DEF AddEntry
<1>6. idx.nextId <= idx'.nextId
  BY <1>1 DEF IsState
<1> HIDE DEF was, is, E, live
<1> QED
  BY <1>1, <1>2, <1>3, <1>4, <1>5, <1>6 DEF Reported, ToTheLiving, live

LEMMA DeleteReported ==
  ASSUME TypeOK, EffExact, CurrentMatchesExact, 0 \notin Docs,
         NEW d \in Docs, DocDelete(d, {})
  PROVE  Reported /\ ToTheLiving
<1> USE DEF TypeOK, EffExact, CurrentMatchesExact
<1> DEFINE v == CurrentScore(d)
           E == RemoveEntry(idx.docs, v, d)
           live == DOMAIN idx.queries
           was(q) == Shown(idx.docs, idx.queries[q])
           is(q)  == Shown(E, idx.queries[q])
<1>1. /\ v # NoScore /\ <<v, d>> \in idx.docs
      /\ out' = ChangeOutcome(idx, d, v, NoScore, {}).out
      /\ idx'.docs = E /\ idx'.nextId = idx.nextId
      /\ SpecsOf(idx'.queries) = SpecsOf(idx.queries)
  BY DeleteIndex
<1> HIDE DEF v
<1>2. DOMAIN idx'.queries = live
      /\ \A q \in live : ShownBy(idx, q) = was(q) /\ ShownBy(idx', q) = is(q)
  <2> HIDE DEF E
  <2>1. DOMAIN idx'.queries = live
        /\ \A q \in live :
             /\ ShownBy(idx, q) = was(q)
             /\ ShownBy(idx', q) = Shown(idx'.docs, idx.queries[q])
    BY <1>1, SameSpecs
  <2> QED
    BY <1>1, <2>1
<1>3. /\ out'.matchesNew = {} /\ out'.evictions = {}
      /\ out'.matchesOld = {q \in live : d \in was(q)}
      /\ out'.registers = {p \in live \X Docs : p[2] \in is(p[1]) /\ p[2] \notin was(p[1])}
      /\ \A q \in live : d \notin is(q) /\ \A x \in was(q) : x # d => x \in is(q)
  BY <1>1, DeleteReports
<1>4. out'.doc = d
  <2>1. ~CannotRemove(idx, v, d)
    BY <1>1, NeverCannotRemove
  <2> QED
    BY <1>1, <2>1 DEF ChangeOutcome, Quiet
<1>5. \A e \in Scores \X Docs : e[2] # d => (e \in E <=> e \in idx.docs)
  BY DEF RemoveEntry
<1>6. idx.nextId <= idx'.nextId
  BY <1>1 DEF IsState
<1> HIDE DEF was, is, E, live
<1> QED
  BY <1>1, <1>2, <1>3, <1>4, <1>5, <1>6 DEF Reported, ToTheLiving, live

LEMMA TouchReported ==
  ASSUME TypeOK, EffExact, NEW d \in Docs, DocTouch(d)
  PROVE  Reported /\ ToTheLiving
<1> USE DEF TypeOK, EffExact
<1> DEFINE v == CurrentScore(d)
<1>1. v # NoScore /\ <<v, d>> \in idx.docs
  BY CurrentScoreIsStored DEF DocTouch
<1>2. /\ idx' = idx /\ out'.doc = d
      /\ out'.matchesOld = Covering(idx, v, d)
      /\ out'.matchesNew = Covering(idx, v, d)
      /\ out'.evictions = {} /\ out'.registers = {}
  BY DEF DocTouch, Apply, TouchOutcome, Quiet
<1> HIDE DEF v
<1>3. Covering(idx, v, d) \subseteq DOMAIN idx.queries
  BY DEF Covering
<1>4. ASSUME NEW q \in DOMAIN idx.queries
      PROVE  q \in Covering(idx, v, d) <=> d \in ShownBy(idx, q)
  BY <1>1, CoveringShown DEF ShownBy
<1>5. idx.nextId <= idx.nextId
  BY DEF IsState
<1> QED
  BY <1>2, <1>3, <1>4, <1>5 DEF Reported, ToTheLiving

\* A new query is told its whole window, and the others nothing.
LEMMA QueryAddReported ==
  ASSUME TypeOK, NEW spec \in Specs, QueryAdd(spec)
  PROVE  Reported /\ ToTheLiving
<1> USE DEF TypeOK
<1> DEFINE n == idx.nextId
           live == DOMAIN idx.queries
           window == DocsForQuery(AddQuery(idx, spec), n)
<1>1. /\ idx' = AddQuery(idx, spec)
      /\ out' = [Quiet EXCEPT !.registers = {n} \X {e[2] : e \in window}]
  <2>1. ~QueryAddOutcome(idx, spec).out.error
    BY QueryAddNeverThrows DEF QueryAdd
  <2> QED
    BY <2>1 DEF QueryAdd, Apply, QueryAddOutcome, ThrowOutcome, Quiet
<1>2. /\ out'.doc = NoDoc /\ out'.matchesOld = {} /\ out'.matchesNew = {}
      /\ out'.evictions = {} /\ out'.registers = {n} \X {e[2] : e \in window}
  BY <1>1 DEF Quiet
<1>3. /\ idx'.docs = idx.docs /\ DOMAIN idx'.queries = live \cup {n}
      /\ idx'.nextId = n + 1 /\ n \notin live /\ n \in Nat
      /\ \A q \in live : idx'.queries[q] = idx.queries[q]
  BY <1>1 DEF AddQuery, IsState
<1>4. /\ \A q \in live : ShownBy(idx', q) = ShownBy(idx, q)
      /\ ShownBy(idx, n) = {}
      /\ ShownBy(idx', n) = {e[2] : e \in window}
  <2>1. /\ \A q \in live : ShownBy(idx', q) = ShownBy(idx, q)
        /\ ShownBy(idx, n) = {}
    BY <1>3 DEF ShownBy
  <2>2. ShownBy(idx', n) = {e[2] : e \in window}
    BY <1>1, <1>3 DEF ShownBy, Shown, DocsOf, DocsForQuery
  <2> QED
    BY <2>1, <2>2
<1>5. \A q \in DOMAIN idx'.queries : ShownBy(idx', q) \subseteq Docs
  BY <1>3 DEF ShownBy, Shown, DocsOf, CollectRange, IsState
<1>6. NoDoc \notin Docs
  BY DocsAssumption DEF NoDoc
<1>7. n <= n + 1 /\ n <= n
  BY <1>3
<1> HIDE DEF window, n
<1>8. Reported
  BY <1>2, <1>3, <1>4, <1>5, <1>6, <1>7 DEF Reported, n
<1>9. ToTheLiving
  BY <1>2, <1>3, <1>4, <1>5, <1>7 DEF ToTheLiving, n
<1> QED
  BY <1>8, <1>9

LEMMA QueryRemoveReported ==
  ASSUME TypeOK, NEW q \in QueryIds, QueryRemove(q)
  PROVE  Reported /\ ToTheLiving
<1> USE DEF TypeOK
<1>1. /\ idx'.docs = idx.docs /\ idx'.nextId = idx.nextId
      /\ DOMAIN idx'.queries = DOMAIN idx.queries \ {q}
      /\ \A p \in DOMAIN idx'.queries : idx'.queries[p] = idx.queries[p]
      /\ out' = Quiet
  BY DEF QueryRemove, RemoveQuery
<1>2. \A p \in DOMAIN idx'.queries : ShownBy(idx', p) = ShownBy(idx, p)
  BY <1>1 DEF ShownBy
<1>3. \A p \in DOMAIN idx'.queries : ShownBy(idx, p) \subseteq Docs
  BY <1>1 DEF ShownBy, Shown, DocsOf, CollectRange, IsState
<1>4. NoDoc \notin Docs /\ idx.nextId <= idx.nextId
  BY DocsAssumption DEF NoDoc, IsState
<1> QED
  BY <1>1, <1>2, <1>3, <1>4 DEF Reported, ToTheLiving, Quiet

LEMMA ItemReported ==
  ASSUME TypeOK, EffExact, CurrentMatchesExact, Item({}),
         ~\E d \in Docs, v \in Scores : DocMove(d, v, {}),
         LateSeeds = FALSE, 0 \notin Docs
  PROVE  Reported /\ ToTheLiving
<1> DEFINE Good == Reported /\ ToTheLiving
<1>1. ASSUME NEW d \in Docs, NEW v \in Scores, DocInsert(d, v) PROVE Good
  BY <1>1, InsertReported
<1>2. ASSUME NEW d \in Docs, DocDelete(d, {}) PROVE Good
  BY <1>2, DeleteReported
<1>3. ASSUME NEW d \in Docs, DocTouch(d) PROVE Good
  BY <1>3, TouchReported
<1>4. ASSUME NEW d \in Docs, NEW v \in Scores, DocMove(d, v, {}) PROVE Good
  BY <1>4
<1>5. ASSUME NEW spec \in Specs, QueryAdd(spec) PROVE Good
  BY <1>5, QueryAddReported
<1>6. ASSUME NEW q \in QueryIds, QueryRemove(q) PROVE Good
  BY <1>6, QueryRemoveReported
<1>7. ASSUME NEW d \in Docs, NEW v \in Scores, SeedDocs(d, v) PROVE Good
  <2>1. /\ DOMAIN idx'.queries = {} /\ idx'.nextId = idx.nextId /\ out' = Quiet
    BY <1>7 DEF SeedDocs, SeedDocuments
  <2>2. idx.nextId <= idx.nextId
    BY DEF TypeOK, IsState
  <2> QED
    BY <2>1, <2>2 DEF Reported, ToTheLiving, Quiet
<1> HIDE DEF Good
<1> QED
  BY <1>1, <1>2, <1>3, <1>4, <1>5, <1>6, <1>7 DEF Item, Good

-----------------------------------------------------------------------------
(* The moves.                                                               *)

\* No change of a score crosses the start of a range: it lies at or above the
\* start before and after the change, or below it.
MovesWithin ==
  \A m \in Moves, spec \in Specs : spec.a <= m[1] <=> spec.a <= m[2]

\* The same of the queries in the index.
StartsKept(s) ==
  \A m \in Moves, q \in DOMAIN s.queries :
    s.queries[q].a <= m[1] <=> s.queries[q].a <= m[2]

\* What is told of the documents other than the changed one is, for every
\* query, the difference between its windows before and after the item.
OthersReported ==
  \A q \in DOMAIN idx'.queries :
    LET was == ShownBy(idx, q)
        is  == ShownBy(idx', q)
        d   == out'.doc
    IN  /\ q \in DOMAIN idx.queries \/ idx.nextId <= q
        /\ \A e \in Scores \X Docs : e[2] # d => (e \in idx'.docs <=> e \in idx.docs)
        /\ \A x \in Docs :
             /\ <<q, x>> \in out'.evictions <=> x # d /\ x \in was /\ x \notin is
             /\ <<q, x>> \in out'.registers <=> x # d /\ x \in is /\ x \notin was

\* A query that stops showing the changed document is told so, and a query
\* that is told of a match shows it.
TellsShown ==
  \A q \in DOMAIN idx'.queries :
    /\ out'.doc \in ShownBy(idx, q) /\ out'.doc \notin ShownBy(idx', q)
          => q \in out'.matchesOld
    /\ q \in out'.matchesNew => out'.doc \in ShownBy(idx', q)

LEMMA ReportedOthers == Reported => OthersReported /\ TellsShown
  BY DEF Reported, OthersReported, TellsShown

\* The index after a document has moved, and what is told of it.
LEMMA MoveIndex ==
  ASSUME TypeOK, EffExact, CurrentMatchesExact, StartsKept(idx), 0 \notin Docs,
         NEW d \in Docs, NEW v \in Scores, DocMove(d, v, {})
  PROVE  /\ OthersReported /\ ToTheLiving /\ out'.doc = d /\ out'.error = FALSE
         /\ MatchesExactIn(idx') /\ SpecsOf(idx'.queries) = SpecsOf(idx.queries)
         /\ \A q \in DOMAIN idx.queries :
              /\ d \in ShownBy(idx, q) /\ d \notin ShownBy(idx', q)
                    => q \in out'.matchesOld
              /\ q \in out'.matchesNew <=>
                    d \in ShownBy(idx', q) /\ d \notin ShownBy(idx, q)
<1> USE DEF TypeOK, EffExact, CurrentMatchesExact
<1> DEFINE u == CurrentScore(d)
           live == DOMAIN idx.queries
           was(q) == Shown(idx.docs, idx.queries[q])
           is(q)  == Shown(idx'.docs, idx.queries[q])
<1>1. /\ u # NoScore /\ <<u, d>> \in idx.docs /\ <<u, v>> \in Moves
      /\ idx' = ChangeOutcome(idx, d, u, v, {}).st
      /\ out' = ChangeOutcome(idx, d, u, v, {}).out
  BY MoveHasScore, CurrentScoreIsStored DEF DocMove, Apply
<1> HIDE DEF u
<1>3. \A q \in live : idx.queries[q].a <= u <=> idx.queries[q].a <= v
  BY <1>1 DEF StartsKept
<1>4. /\ out'.doc = d
      /\ idx'.docs = AddEntry(RemoveEntry(idx.docs, u, d), v, d)
      /\ idx'.nextId = idx.nextId /\ SpecsOf(idx'.queries) = SpecsOf(idx.queries)
      /\ MatchesExactIn(idx')
      /\ out'.matchesOld \cup out'.matchesNew \subseteq live
      /\ out'.evictions \cup out'.registers \subseteq live \X Docs
      /\ \A q \in live :
           /\ d \in was(q) /\ d \notin is(q) => q \in out'.matchesOld
           /\ q \in out'.matchesNew <=> d \in is(q) /\ d \notin was(q)
           /\ \A x \in Docs :
                /\ <<q, x>> \in out'.evictions <=>
                     x # d /\ x \in was(q) /\ x \notin is(q)
                /\ <<q, x>> \in out'.registers <=>
                     x # d /\ x \in is(q) /\ x \notin was(q)
  <2> DEFINE r == ChangeOutcome(idx, d, u, v, {})
  <2>1. r = ChangeOutcome(idx, d, u, v, {}) /\ idx' = r.st /\ out' = r.out
    BY <1>1
  <2> HIDE DEF r
  <2> QED
    BY <1>1, <1>3, <2>1, MoveReports
<1>5. out'.error = FALSE
  BY <1>1, NeverCannotRemove, MoveNeverThrows
<1>6. DOMAIN idx'.queries = live
      /\ \A q \in live : ShownBy(idx, q) = was(q) /\ ShownBy(idx', q) = is(q)
  BY <1>4, SameSpecs
<1>7. \A e \in Scores \X Docs : e[2] # d => (e \in idx'.docs <=> e \in idx.docs)
  BY <1>4 DEF AddEntry, RemoveEntry
<1>8. idx.nextId <= idx'.nextId
  BY <1>4 DEF IsState
<1> HIDE DEF was, is, live
<1>9. OthersReported
  BY <1>4, <1>6, <1>7 DEF OthersReported, live
<1>10. ToTheLiving
  BY <1>4, <1>6, <1>8 DEF ToTheLiving
<1> QED
  BY <1>4, <1>5, <1>6, <1>9, <1>10 DEF live

\* What is told, whatever the item.
LEMMA ItemOthers ==
  ASSUME TypeOK, EffExact, CurrentMatchesExact, StartsKept(idx), Item({}),
         LateSeeds = FALSE, 0 \notin Docs
  PROVE  OthersReported /\ TellsShown /\ ToTheLiving
<1>1. CASE \E d \in Docs, v \in Scores : DocMove(d, v, {})
  <2>1. PICK d \in Docs, v \in Scores : DocMove(d, v, {})
    BY <1>1
  <2>2. DOMAIN idx'.queries = DOMAIN idx.queries
    BY <2>1, MoveIndex, SameSpecs
  <2> QED
    BY <2>1, <2>2, MoveIndex DEF TellsShown
<1>2. CASE ~\E d \in Docs, v \in Scores : DocMove(d, v, {})
  BY <1>2, ItemReported, ReportedOthers
<1> QED
  BY <1>1, <1>2

\* A change of a document that keeps the queries, and is told as it should be.
LEMMA ToldOfChange ==
  ASSUME OthersReported, SpecsOf(idx'.queries) = SpecsOf(idx.queries),
         \A q \in DOMAIN idx.queries :
           /\ out'.doc \in ShownBy(idx, q) /\ out'.doc \notin ShownBy(idx', q)
                 => q \in out'.matchesOld
           /\ q \in out'.matchesNew <=>
                 out'.doc \in ShownBy(idx', q) /\ out'.doc \notin ShownBy(idx, q)
  PROVE  MoveReported
<1>1. DOMAIN idx'.queries = DOMAIN idx.queries
  BY SameSpecs
<1>2. ASSUME NEW q \in DOMAIN idx.queries
      PROVE  Members(idx, q) = ShownBy(idx, q) /\ Members(idx', q) = ShownBy(idx', q)
  BY <1>1 DEF Members, ShownBy, Shown, DocsOf, DocsForQuery
<1> QED
  BY <1>1, <1>2 DEF OthersReported, MoveReported

LEMMA ItemMoveReported ==
  ASSUME TypeOK, EffExact, CurrentMatchesExact, StartsKept(idx), Item({}),
         LateSeeds = FALSE, 0 \notin Docs
  PROVE  MoveReported
<1>1. OthersReported
  BY ItemOthers
<1>2. ASSUME NEW s, NEW q, NEW d, \A e \in s.docs : e[2] # d
      PROVE  d \notin ShownBy(s, q)
  BY <1>2 DEF ShownBy, Shown, DocsOf, CollectRange
<1>3. ASSUME NEW d \in Docs, NEW v \in Scores, DocInsert(d, v) PROVE MoveReported
  <2>1. /\ SpecsOf(idx'.queries) = SpecsOf(idx.queries)
        /\ \A e \in idx.docs : e[2] # d
        /\ out' = ChangeOutcome(idx, d, NoScore, v, {}).out
    BY <1>3, InsertIndex
  <2>2. Reported
    BY <1>3, InsertReported
  <2>3. out'.doc = d
    BY <2>1 DEF ChangeOutcome, Quiet, NoScore
  <2> QED
    BY <1>1, <1>2, <2>1, <2>2, <2>3, SameSpecs, ToldOfChange DEF Reported
<1>4. ASSUME NEW d \in Docs, DocDelete(d, {}) PROVE MoveReported
  <2> DEFINE v == CurrentScore(d)
  <2>1. /\ SpecsOf(idx'.queries) = SpecsOf(idx.queries)
        /\ idx'.docs = RemoveEntry(idx.docs, v, d)
        /\ v # NoScore /\ <<v, d>> \in idx.docs
        /\ out' = ChangeOutcome(idx, d, v, NoScore, {}).out
    BY <1>4, DeleteIndex
  <2> HIDE DEF v
  <2>2. Reported
    BY <1>4, DeleteReported
  <2>3. out'.doc = d
    <3>1. ~CannotRemove(idx, v, d)
      BY <2>1, NeverCannotRemove DEF TypeOK, EffExact, CurrentMatchesExact
    <3> QED
      BY <2>1, <3>1 DEF ChangeOutcome, Quiet
  <2>4. \A e \in idx'.docs : e[2] # d
    BY <2>1 DEF RemoveEntry, TypeOK, IsState, OneEntryPerDoc
  <2>5. \A q \in DOMAIN idx.queries :
          /\ d \in ShownBy(idx, q) /\ d \notin ShownBy(idx', q)
                => q \in out'.matchesOld
          /\ q \in out'.matchesNew <=>
                d \in ShownBy(idx', q) /\ d \notin ShownBy(idx, q)
    <3>1. DOMAIN idx'.queries = DOMAIN idx.queries
      BY <2>1, SameSpecs
    <3>2. ASSUME NEW q PROVE d \notin ShownBy(idx', q)
      BY <1>2, <2>4
    <3> QED
      BY <2>2, <2>3, <3>1, <3>2 DEF Reported
  <2> QED
    BY <1>1, <2>1, <2>3, <2>5, ToldOfChange
<1>5. ASSUME NEW d \in Docs, DocTouch(d) PROVE MoveReported
  BY <1>5 DEF DocTouch, Apply, TouchOutcome, Quiet, MoveReported
<1>6. ASSUME NEW d \in Docs, NEW v \in Scores, DocMove(d, v, {}) PROVE MoveReported
  BY <1>1, <1>6, MoveIndex, ToldOfChange
<1>7. ASSUME out'.doc = NoDoc PROVE MoveReported
  BY <1>7 DEF MoveReported
<1>8. ASSUME NEW spec \in Specs, QueryAdd(spec) PROVE out'.doc = NoDoc
  BY <1>8 DEF QueryAdd, Apply, QueryAddOutcome, ThrowOutcome, Quiet
<1>9. ASSUME NEW q \in QueryIds, QueryRemove(q) PROVE out'.doc = NoDoc
  BY <1>9 DEF QueryRemove, Quiet
<1>10. ASSUME NEW d \in Docs, NEW v \in Scores, SeedDocs(d, v) PROVE out'.doc = NoDoc
  BY <1>10 DEF SeedDocs, Quiet
<1> QED
  BY <1>3, <1>4, <1>5, <1>6, <1>7, <1>8, <1>9, <1>10 DEF Item

-----------------------------------------------------------------------------
(* The retrieval job beside the stream, which may refuse a registration.    *)

\* An item that did not throw is one with every registration accepted, and none
\* that it made was refused, unless it is for the query it added.
LEMMA AcceptedItem ==
  ASSUME NEW refused, Item(refused), ~out'.error
  PROVE  /\ Item({})
         /\ \/ out'.registers \cap refused = {}
            \/ /\ idx.nextId \in QueryIds
               /\ \A r \in out'.registers : r[1] = idx.nextId
<1> DEFINE Good == /\ Item({})
                   /\ \/ out'.registers \cap refused = {}
                      \/ /\ idx.nextId \in QueryIds
                         /\ \A r \in out'.registers : r[1] = idx.nextId
<1>1. ASSUME NEW d \in Docs, NEW v \in Scores, DocInsert(d, v) PROVE Good
  <2>1. out'.registers = {}
    <3>1. \A S : {} \ S = {}
      OBVIOUS
    <3> QED
      BY <1>1, <3>1 DEF DocInsert, Apply, ChangeOutcome, Quiet, NoScore
  <2> QED
    BY <1>1, <2>1 DEF Item
<1>2. ASSUME NEW d \in Docs, DocDelete(d, refused) PROVE Good
  <2>1. DocDelete(d, {}) /\ out'.registers \cap refused = {}
    BY <1>2, AcceptedOutcome DEF DocDelete, Apply
  <2> QED
    BY <2>1 DEF Item
<1>3. ASSUME NEW d \in Docs, DocTouch(d) PROVE Good
  BY <1>3 DEF Item, DocTouch, Apply, TouchOutcome, Quiet
<1>4. ASSUME NEW d \in Docs, NEW v \in Scores, DocMove(d, v, refused) PROVE Good
  <2>1. DocMove(d, v, {}) /\ out'.registers \cap refused = {}
    BY <1>4, AcceptedOutcome DEF DocMove, Apply
  <2> QED
    BY <2>1 DEF Item
<1>5. ASSUME NEW spec \in Specs, QueryAdd(spec) PROVE Good
  <2>1. \A r \in out'.registers : r[1] = idx.nextId
    BY <1>5 DEF QueryAdd, Apply, QueryAddOutcome, ThrowOutcome, Quiet
  <2> QED
    BY <1>5, <2>1 DEF Item, QueryAdd
<1>6. ASSUME NEW q \in QueryIds, QueryRemove(q) PROVE Good
  BY <1>6 DEF Item, QueryRemove, Quiet
<1>7. ASSUME NEW d \in Docs, NEW v \in Scores, SeedDocs(d, v) PROVE Good
  BY <1>7 DEF Item, SeedDocs, Quiet
<1> HIDE DEF Good
<1>8. Good
  BY <1>1, <1>2, <1>3, <1>4, <1>5, <1>6, <1>7 DEF Item
<1> QED
  BY <1>8 DEF Good

\* One that threw had wanted to register, for a query there is, a document that
\* the query does not show before the item, and that is refused.
LEMMA RefusedItem ==
  ASSUME TypeOK, EffExact, CurrentMatchesExact, StartsKept(idx),
         LateSeeds = FALSE, 0 \notin Docs, NEW refused, Item(refused), out'.error
  PROVE  \E q \in DOMAIN idx.queries, x \in Docs :
           <<q, x>> \in refused /\ x \notin ShownBy(idx, q)
<1> USE DEF TypeOK, EffExact, CurrentMatchesExact
<1> DEFINE Cause == \E q \in DOMAIN idx.queries, x \in Docs :
                      <<q, x>> \in refused /\ x \notin ShownBy(idx, q)
<1>1. ASSUME NEW d \in Docs, NEW v \in Scores, DocInsert(d, v) PROVE FALSE
  BY <1>1, InsertOutcome DEF DocInsert, Apply
<1>2. ASSUME NEW d \in Docs, DocDelete(d, refused) PROVE Cause
  <2> DEFINE v == CurrentScore(d)
             o == ChangeOutcome(idx, d, v, NoScore, {}).out
  <2>1. v # NoScore /\ <<v, d>> \in idx.docs
    BY <1>2, CurrentScoreIsStored DEF DocDelete
  <2>2. ChangeOutcome(idx, d, v, NoScore, refused).out.error
    BY <1>2 DEF DocDelete, Apply
  <2> HIDE DEF v
  <2>3. o.registers \cap refused # {}
    BY <2>1, <2>2, NeverCannotRemove, ThrowHasCause
  <2>4. o.registers =
          {p \in (DOMAIN idx.queries) \X Docs :
             /\ p[2] \in Shown(RemoveEntry(idx.docs, v, d), idx.queries[p[1]])
             /\ p[2] \notin Shown(idx.docs, idx.queries[p[1]])}
    BY <2>1, DeleteReports
  <2> HIDE DEF o
  <2>5. PICK p \in (DOMAIN idx.queries) \X Docs :
          p \in refused /\ p[2] \notin Shown(idx.docs, idx.queries[p[1]])
    BY <2>3, <2>4
  <2>6. p = <<p[1], p[2]>> /\ p[1] \in DOMAIN idx.queries /\ p[2] \in Docs
    BY <2>5
  <2> QED
    BY <2>5, <2>6 DEF ShownBy
<1>3. ASSUME NEW d \in Docs, DocTouch(d) PROVE FALSE
  BY <1>3 DEF DocTouch, Apply, TouchOutcome, Quiet
<1>4. ASSUME NEW d \in Docs, NEW v \in Scores, DocMove(d, v, refused) PROVE Cause
  <2> DEFINE u == CurrentScore(d)
             r == ChangeOutcome(idx, d, u, v, {})
  <2>1. u # NoScore /\ <<u, d>> \in idx.docs /\ <<u, v>> \in Moves
    BY <1>4, MoveHasScore, CurrentScoreIsStored DEF DocMove
  <2>2. ChangeOutcome(idx, d, u, v, refused).out.error
    BY <1>4 DEF DocMove, Apply
  <2>3. \A q \in DOMAIN idx.queries : idx.queries[q].a <= u <=> idx.queries[q].a <= v
    BY <2>1 DEF StartsKept
  <2> HIDE DEF u
  <2>4. r.out.registers \cap refused # {}
    BY <2>1, <2>2, NeverCannotRemove, ThrowHasCause
  <2>5. r = ChangeOutcome(idx, d, u, v, {})
    OBVIOUS
  <2> HIDE DEF r
  <2>6. /\ r.out.registers \subseteq (DOMAIN idx.queries) \X Docs
        /\ \A q \in DOMAIN idx.queries, x \in Docs :
             <<q, x>> \in r.out.registers => x \notin Shown(idx.docs, idx.queries[q])
    BY <2>1, <2>3, <2>5, MoveReports
  <2>7. PICK p \in r.out.registers : p \in refused
    BY <2>4
  <2>8. p = <<p[1], p[2]>> /\ p[1] \in DOMAIN idx.queries /\ p[2] \in Docs
    BY <2>6, <2>7
  <2> QED
    BY <2>6, <2>7, <2>8 DEF ShownBy
<1>5. ASSUME NEW spec \in Specs, QueryAdd(spec) PROVE FALSE
  BY <1>5, QueryAddNeverThrows DEF QueryAdd, Apply
<1>6. ASSUME NEW q \in QueryIds, QueryRemove(q) PROVE FALSE
  BY <1>6 DEF QueryRemove, Quiet
<1>7. ASSUME NEW d \in Docs, NEW v \in Scores, SeedDocs(d, v) PROVE FALSE
  BY <1>7 DEF SeedDocs, Quiet
<1> HIDE DEF Cause
<1>8. Cause
  BY <1>1, <1>2, <1>3, <1>4, <1>5, <1>6, <1>7 DEF Item
<1> QED
  BY <1>8 DEF Cause

-----------------------------------------------------------------------------
(* The steps, when moves stay within the ranges.                            *)

\* The part of the invariant that is about the match counters.
MInv == CurrentMatchesExact /\ NoThrow /\ StartsKept(idx)

LEMMA SameRanges ==
  ASSUME NEW s, NEW t, SpecsOf(t.queries) = SpecsOf(s.queries), StartsKept(s)
  PROVE  StartsKept(t)
<1>1. DOMAIN t.queries = DOMAIN s.queries
  BY DEF SpecsOf
<1>2. ASSUME NEW q \in DOMAIN s.queries PROVE t.queries[q].a = s.queries[q].a
  <2>1. SpecsOf(t.queries)[q] = SpecsOf(s.queries)[q]
    OBVIOUS
  <2> QED
    BY <1>1, <2>1 DEF SpecsOf
<1> QED
  BY <1>1, <1>2 DEF StartsKept

LEMMA ItemKeepsMatches ==
  ASSUME TypeOK, EffExact, CurrentMatchesExact, StartsKept(idx), Item({}),
         MovesWithin, LateSeeds = FALSE, 0 \notin Docs
  PROVE  MatchesExactIn(idx') /\ StartsKept(idx') /\ out'.error = FALSE
<1> DEFINE Good == /\ MatchesExactIn(idx') /\ StartsKept(idx')
                   /\ out'.error = FALSE
<1> USE DEF TypeOK, EffExact, CurrentMatchesExact
<1>1. ASSUME NEW d \in Docs, NEW v \in Scores, DocInsert(d, v) PROVE Good
  <2>1. \A e \in idx.docs : e[2] # d
    BY <1>1, CurrentScoreIsStored DEF DocInsert
  <2> DEFINE t == AddDocument(idx, v, d)
  <2>2. IsState(t) /\ MatchesExactIn(t)
    BY <2>1, AddDocumentKeepsState, AddDocumentKeepsMatches
  <2>3. MatchesExactIn(FillGaps(t, {}))
    BY <2>2, FillNothing
  <2>4. StartsKept(idx')
    BY <1>1, InsertIndex, SameRanges
  <2> QED
    BY <1>1, <2>3, <2>4, InsertOutcome DEF DocInsert, Apply
<1>2. ASSUME NEW d \in Docs, DocDelete(d, {}) PROVE Good
  <2> DEFINE v == CurrentScore(d)
  <2>1. v # NoScore /\ <<v, d>> \in idx.docs
    BY <1>2, CurrentScoreIsStored DEF DocDelete
  <2>2. /\ idx' = ChangeOutcome(idx, d, v, NoScore, {}).st
        /\ out' = ChangeOutcome(idx, d, v, NoScore, {}).out
    BY <1>2 DEF DocDelete, Apply
  <2> HIDE DEF v
  <2>3. ~CannotRemove(idx, v, d)
    BY <2>1, NeverCannotRemove
  <2>4. MatchesExactIn(FillGaps(RemoveDocument(idx, v, d), Covering(idx, v, d)))
    BY <2>1, RemoveAndFillKeepsMatches
  <2>5. StartsKept(idx')
    BY <1>2, DeleteIndex, SameRanges
  <2> QED
    BY <2>1, <2>2, <2>3, <2>4, <2>5, DeleteOutcome
<1>3. ASSUME NEW d \in Docs, DocTouch(d) PROVE Good
  BY <1>3 DEF DocTouch, Apply, TouchOutcome, Quiet
<1>4. ASSUME NEW d \in Docs, NEW v \in Scores, DocMove(d, v, {}) PROVE Good
  BY <1>4, MoveIndex, SameRanges
<1>5. ASSUME NEW spec \in Specs, QueryAdd(spec) PROVE Good
  <2>1. MatchesExactIn(idx') /\ out'.error = FALSE
    BY <1>5, QueryAddNeverThrows, AddQueryKeepsMatches DEF QueryAdd, Apply
  <2>2. idx'.queries = AddQuery(idx, spec).queries
    BY <1>5 DEF QueryAdd, Apply, QueryAddOutcome, ThrowOutcome
  <2>3. StartsKept(idx')
    BY <2>2 DEF StartsKept, MovesWithin, AddQuery
  <2> QED
    BY <2>1, <2>3
<1>6. ASSUME NEW q \in QueryIds, QueryRemove(q) PROVE Good
  BY <1>6 DEF QueryRemove, RemoveQuery, MatchesExactIn, StartsKept, Quiet
<1>7. ASSUME NEW d \in Docs, NEW v \in Scores, SeedDocs(d, v) PROVE Good
  BY <1>7 DEF SeedDocs, SeedDocuments, MatchesExactIn, StartsKept, Quiet
<1> QED
  BY <1>1, <1>2, <1>3, <1>4, <1>5, <1>6, <1>7 DEF Item

-----------------------------------------------------------------------------
(* The theorems.                                                            *)

\* Whatever the items, and for any documents, scores and specs, the index is a
\* state of the class: a document has one entry, the two halves of the index
\* know the same queries, and no match counter falls below zero
\* (LimitQueries.ts:145-245).
THEOREM TypeCorrect == Spec => []TypeOK
<1>1. Init => TypeOK
  BY InitCorrect
<1>2. TypeOK /\ [Next]_vars => TypeOK'
  <2>1. ASSUME TypeOK, UNCHANGED vars PROVE TypeOK'
    BY <2>1 DEF TypeOK, vars
  <2> QED
    BY <2>1, NextCorrect
<1> QED
  BY <1>1, <1>2, PTL DEF Spec

\* When the initial documents come before the queries, every effective score
\* stays rank(a) + k through all range additions: the invariant on which the
\* index rests, by which a query covers a document exactly when it is among
\* the first k from its start (LimitQueries.ts:145-218).
THEOREM EffectiveScoresExact ==
  ASSUME LateSeeds = FALSE
  PROVE  Spec => []EffExact
<1>1. Init => EffExact
  BY InitCorrect
<1>2. TypeOK /\ EffExact /\ [Next]_vars => EffExact'
  <2>1. ASSUME EffExact, UNCHANGED vars PROVE EffExact'
    BY <2>1 DEF EffExact, vars
  <2> QED
    BY <2>1, NextCorrect
<1> QED
  BY <1>1, <1>2, TypeCorrect, PTL DEF Spec

\* The inductive invariant of the counters, under the conditions of the two
\* theorems below.
LEMMA CountersInvariant ==
  ASSUME MovesWithin, LateSeeds = FALSE, 0 \notin Docs
  PROVE  Spec => []MInv
<1>1. Init => MInv
  BY DEF Init, MInv, CurrentMatchesExact, MatchesExactIn, NoThrow, StartsKept,
         EmptyIndex
<1>2. TypeOK /\ EffExact /\ MInv /\ [Next]_vars => MInv'
  <2>1. ASSUME MInv, UNCHANGED vars PROVE MInv'
    BY <2>1 DEF MInv, CurrentMatchesExact, NoThrow, vars
  <2>2. ASSUME TypeOK, EffExact, MInv, Next PROVE MInv'
    BY <2>2, ItemKeepsMatches DEF MInv, CurrentMatchesExact, NoThrow, Next
  <2> QED
    BY <2>1, <2>2
<1> QED
  BY <1>1, <1>2, TypeCorrect, EffectiveScoresExact, PTL DEF Spec

\* When no change of a score crosses the start of a range, the initial documents
\* come before the queries and no document has the id 0, the match counters are
\* the sizes of the windows after every item: what verifyCurrentMatches
\* recomputes (LimitQueries.ts:27-37).
THEOREM MatchCountersExact ==
  ASSUME MovesWithin, LateSeeds = FALSE, 0 \notin Docs
  PROVE  Spec => []CurrentMatchesExact
<1>1. MInv => CurrentMatchesExact
  BY DEF MInv
<1> QED
  BY <1>1, CountersInvariant, PTL

\* Under the same conditions no handler throws: removeDocument finds a match
\* to count down in every covering query (LimitQueries.ts:198), and the window
\* of a new query has the size it counts (limitStream.ts:165).
THEOREM StreamNeverThrows ==
  ASSUME MovesWithin, LateSeeds = FALSE, 0 \notin Docs
  PROVE  Spec => []NoThrow
<1>1. MInv => NoThrow
  BY DEF MInv
<1> QED
  BY <1>1, CountersInvariant, PTL

\* When documents keep their scores, the initial documents come before the
\* queries and no document has the id 0, the stream implements TopKQueries:
\* every match event, with the retrievals registered beside it, is the exact
\* difference the change makes to the window of every query
\* (limitStream.ts:42-149).
THEOREM DifferenceIsReported ==
  ASSUME Moves = {}, LateSeeds = FALSE, 0 \notin Docs
  PROVE  Spec => ReportsExactDifference
<1>1. Init => TopK!Init
  BY Mapping
<1>2. TypeOK /\ EffExact /\ CurrentMatchesExact /\ [Next]_vars => [TopK!Next]_(TopK!vars)
  <2>1. ASSUME TypeOK, EffExact, CurrentMatchesExact, Next
        PROVE  TopK!Next
    <3>1. ASSUME NEW d \in Docs, NEW v \in Scores, DocInsert(d, v)
          PROVE  TopK!Next
      BY <2>1, <3>1, InsertMaps DEF TopK!Next
    <3>2. ASSUME NEW d \in Docs, DocDelete(d, {})
          PROVE  TopK!Next
      BY <2>1, <3>2, DeleteMaps DEF TopK!Next
    <3>3. ASSUME NEW d \in Docs, DocTouch(d)
          PROVE  TopK!Next
      BY <2>1, <3>3, TouchMaps DEF TopK!Next
    <3>4. ASSUME NEW spec \in Specs, QueryAdd(spec)
          PROVE  TopK!Next
      BY <2>1, <3>4, QueryAddMaps DEF TopK!Next
    <3>5. ASSUME NEW q \in QueryIds, QueryRemove(q)
          PROVE  TopK!Next
      BY <2>1, <3>5, QueryRemoveMaps DEF TopK!Next, QueryIds
    <3>6. ASSUME NEW d \in Docs, NEW v \in Scores, SeedDocs(d, v)
          PROVE  TopK!Next
      BY <3>6, SeedMaps DEF TopK!Next
    <3>7. \A d \in Docs, v \in Scores : ~DocMove(d, v, {})
      BY DEF DocMove
    <3> QED
      BY <2>1, <3>1, <3>2, <3>3, <3>4, <3>5, <3>6, <3>7 DEF Next, Item
  <2> QED
    BY <2>1, Mapping
<1>3. MovesWithin
  BY DEF MovesWithin
<1>4. Spec => []CurrentMatchesExact
  BY <1>3, MatchCountersExact
<1> QED
  BY <1>1, <1>2, <1>4, TypeCorrect, EffectiveScoresExact, PTL
     DEF Spec, ReportsExactDifference, TopK!Spec

==============================================================================
