----------------------------- MODULE LimitStream -----------------------------
(***************************************************************************)
(* The limit stream operator (limit-index/limitStream.ts): a generator that *)
(* takes one stream item at a time and runs its handler to the end before   *)
(* the next.  An item is a document change, a query to add or to remove, or *)
(* a batch of initial documents.  A handler updates the index and speaks to *)
(* two parties: it emits a match event downstream, and it registers, cancels*)
(* and resolves retrievals.  Those calls are recorded in `out`;             *)
(* LimitSystem.tla connects them to the retrieval job and to a client.      *)
(***************************************************************************)
EXTENDS DynamicRangeQueries

CONSTANTS Moves,     \* the changes of a score upstream sends: pairs <<old, new>>
          LateSeeds  \* TRUE: initial documents may come after a query

ASSUME MovesAssumption == Moves \subseteq Scores \X Scores
ASSUME LateSeedsAssumption == LateSeeds \in BOOLEAN

VARIABLES idx,     \* the DynamicRangeQueries of the run
          out,     \* what the last item emitted and asked of the retrieval job
          failed   \* an item threw: the generator is finished for good

vars == <<idx, out, failed>>

\* The score of a missing `old` or `new`, and the document of an item that is
\* not about one.
NoScore == -1
NoDoc   == -1

\* Upstream sends the changes of a document in order, each with the state it
\* replaces as `old`: the score under which the index holds the document.
CurrentScore(d) ==
  IF \E e \in idx.docs : e[2] = d
    THEN (CHOOSE e \in idx.docs : e[2] = d)[1]
    ELSE NoScore

-----------------------------------------------------------------------------
(* The handlers.  Each yields the index after the item and its outputs:     *)
(*   doc                    the id of the changed document, or NoDoc        *)
(*   matchesOld, matchesNew, evictions   the match event; it is emitted     *)
(*                          when one of them is not empty, or on a touch    *)
(*   registers              retrievals it registers, pairs <<query, doc>>   *)
(*   error                  the handler threw; of the above it has only     *)
(*                          registered the retrievals before the throw      *)
(* The retrieval job may refuse a registration: register() then throws.  The *)
(* pairs it refuses at the moment are the parameter `refused`.              *)

Quiet == [doc |-> NoDoc, touch |-> FALSE, matchesOld |-> {}, matchesNew |-> {},
          evictions |-> {}, registers |-> {}, error |-> FALSE]

\* The index throws half-way: it stays as the method left it.
ThrowOutcome(s) == [st |-> s, out |-> [Quiet EXCEPT !.error = TRUE]]

\* handleChange when the score stays the same.
TouchOutcome(s, d, v) ==
  LET covering == Covering(s, v, d)
  IN  [st |-> s, out |-> [Quiet EXCEPT !.doc = d, !.touch = TRUE,
                            !.matchesOld = covering, !.matchesNew = covering]]

\* The loop over the queries that lost a document, when register() throws: the
\* gaps are filled up to the first query whose replacement is refused, and the
\* replacements before that one are registered.
RefusedOutcome(s, lost, wanted, refused) ==
  LET denied == wanted \cap refused
      filled == {q \in lost : \A r \in denied : ~Earlier(s, r[1], q)}
      before == {p \in wanted : \A r \in denied : Earlier(s, p[1], r[1])}
  IN  [st  |-> FillGaps(s, filled),
       out |-> [Quiet EXCEPT !.registers = before, !.error = TRUE]]

\* handleChange when the document appears, disappears or changes its score.
\* For a change of score the queries that lose and gain it are computed from
\* the index as it was before the change.
ChangeOutcome(s, d, old, new, refused) ==
  LET leaves  == old # NoScore
      enters  == new # NoScore
      covered == IF leaves THEN Covering(s, old, d) ELSE {}
      s1      == IF leaves THEN RemoveDocument(s, old, d) ELSE s
      matched == IF enters THEN Covering(s1, new, d) ELSE {}
      blocked == IF enters THEN Blocked(s1, new, d) ELSE {}
      s2      == IF enters THEN AddDocument(s1, new, d) ELSE s1
      lost    == IF leaves /\ enters THEN CoveringButNot(s, old, new, d)
                                     ELSE covered \ matched
      gained  == IF leaves /\ enters THEN CoveringButNot(s, new, old, d)
                                     ELSE matched \ covered
      s3      == FillGaps(s2, lost)
      evicted(q) == Truthy(OverflowDoc(s3, q))
      wanted  == UNION {{q} \X Replacement(s2, q) : q \in lost}
  IN  IF leaves /\ CannotRemove(s, old, d) THEN ThrowOutcome(s1)
      ELSE IF wanted \cap refused # {}
        THEN RefusedOutcome(s2, lost, wanted, refused)
        ELSE [st  |-> s3,
              out |-> [Quiet EXCEPT
                         !.doc = d, !.matchesOld = lost, !.matchesNew = gained,
                         !.evictions =
                            UNION {{q} \X evicted(q) : q \in blocked \ covered},
                         !.registers = wanted]]

\* handleItem, query-add: the index and the window must agree on the number
\* of matches, and each document of the window is to be retrieved.
QueryAddOutcome(s, spec) ==
  LET t      == AddQuery(s, spec)
      window == DocsForQuery(t, s.nextId)
  IN  IF Cardinality(window) # t.queries[s.nextId].currentMatches
        THEN ThrowOutcome(t)
        ELSE [st  |-> t,
              out |-> [Quiet EXCEPT !.registers =
                         {s.nextId} \X {e[2] : e \in window}]]

-----------------------------------------------------------------------------
(* The items.                                                               *)

Apply(outcome) == idx' = outcome.st /\ out' = outcome.out

DocInsert(d, v) ==
  /\ CurrentScore(d) = NoScore
  /\ Apply(ChangeOutcome(idx, d, NoScore, v, {}))

DocDelete(d, refused) ==
  /\ CurrentScore(d) # NoScore
  /\ Apply(ChangeOutcome(idx, d, CurrentScore(d), NoScore, refused))

DocTouch(d) ==
  /\ CurrentScore(d) # NoScore
  /\ Apply(TouchOutcome(idx, d, CurrentScore(d)))

DocMove(d, v, refused) ==
  /\ <<CurrentScore(d), v>> \in Moves
  /\ CurrentScore(d) # v
  /\ Apply(ChangeOutcome(idx, d, CurrentScore(d), v, refused))

QueryAdd(spec) ==
  /\ idx.nextId \in QueryIds
  /\ Apply(QueryAddOutcome(idx, spec))

QueryRemove(q) ==
  /\ q \in DOMAIN idx.queries
  /\ idx' = RemoveQuery(idx, q)
  /\ out' = Quiet

\* A batch of one document: a batch of many has the same effect as its
\* documents one by one.
SeedDocs(d, v) ==
  /\ CurrentScore(d) = NoScore
  /\ LateSeeds \/ DOMAIN idx.queries = {}
  /\ idx' = SeedDocuments(idx, {<<v, d>>})
  /\ out' = Quiet

\* An item.  Only a change can find a gap: a document that appears leaves none,
\* and the id of a new query is in no batch of the retrieval job.
Item(refused) ==
  \/ \E d \in Docs, v \in Scores : DocInsert(d, v)
  \/ \E d \in Docs : DocDelete(d, refused)
  \/ \E d \in Docs : DocTouch(d)
  \/ \E d \in Docs, v \in Scores : DocMove(d, v, refused)
  \/ \E spec \in Specs : QueryAdd(spec)
  \/ \E q \in QueryIds : QueryRemove(q)
  \/ \E d \in Docs, v \in Scores : SeedDocs(d, v)

Init == idx = EmptyIndex /\ out = Quiet /\ failed = FALSE

\* By itself the stream has its registrations accepted.
Next == ~failed /\ Item({}) /\ failed' = out'.error

Spec == Init /\ [][Next]_vars

-----------------------------------------------------------------------------
(* Properties.                                                              *)

Pairs == QueryIds \X Docs

Outputs == [doc : Docs \cup {NoDoc}, touch : BOOLEAN,
            matchesOld : SUBSET QueryIds, matchesNew : SUBSET QueryIds,
            evictions : SUBSET Pairs, registers : SUBSET Pairs,
            error : BOOLEAN]

\* Type invariant: the index is a state of the class, the outputs and the
\* failure flag have their types.
TypeOK ==
  /\ IsState(idx)
  /\ out \in Outputs
  /\ failed \in BOOLEAN

\* The effective score the query index maintains by range additions is the
\* one addQuery would compute now: rank(a) + k (LimitQueries.ts:208).
EffExact == EffExactIn(idx)

\* currentMatches, maintained by increments and decrements, is the number of
\* documents in the window: what verifyCurrentMatches recomputes and throws
\* about when it differs (LimitQueries.ts:27-37).
CurrentMatchesExact == MatchesExactIn(idx)

\* No handler throws its "Inconsistent query state detected" error
\* (LimitQueries.ts:198, limitStream.ts:165): the stream never dies.
NoThrow == ~failed

\* The abstract operator, over the documents and the specs in the index, with
\* the outputs of the last item as its difference.
TopK == INSTANCE TopKQueries WITH
          docs   <- idx.docs,
          specs  <- [q \in DOMAIN idx.queries |->
                       [a |-> idx.queries[q].a, k |-> idx.queries[q].k,
                        max |-> idx.queries[q].max]],
          nextId <- idx.nextId,
          delta  <- [left |-> out.matchesOld, entered |-> out.matchesNew,
                     displaced |-> out.evictions, fetched |-> out.registers]

\* Each match event, with the retrievals registered beside it, is the exact
\* difference the change makes to every window (limitStream.ts:42-149).
ReportsExactDifference == TopK!Spec

Members(s, q) == {e[2] : e \in DocsForQuery(s, q)}

\* A change of score within the ranges of the queries reports every query
\* the document leaves or enters, and exactly the other documents that are
\* displaced or fetched (limitStream.ts:59-149).
MoveReported ==
  (out'.doc # NoDoc /\ ~out'.touch /\ ~failed') =>
    \A q \in DOMAIN idx'.queries :
      LET lost   == Members(idx, q) \ Members(idx', q)
          gained == Members(idx', q) \ Members(idx, q)
          d      == out'.doc
      IN  /\ d \in lost => q \in out'.matchesOld
          /\ d \in gained <=> q \in out'.matchesNew
          /\ \A e \in Docs \ {d} : /\ e \in lost <=> <<q, e>> \in out'.evictions
                                  /\ e \in gained <=> <<q, e>> \in out'.registers

==============================================================================
