-------------------------- MODULE LimitSystemProofs --------------------------
(***************************************************************************)
(* Theorems about LimitSystem for every set of documents, scores and specs: *)
(* what the client of the perf harness has of a window is right, between    *)
(* any two steps of the stream and of the retrieval loop.  The theorems of  *)
(* the stream are cited through its instance.                               *)
(***************************************************************************)
EXTENDS LimitSystem, TLAPS

-----------------------------------------------------------------------------
(* The invariants.                                                          *)

\* Types, of the stream and of the rest.
Types == Stream!TypeOK /\ TypeOK

Asked == batches.pending \cup batches.processing

\* Every document that is being retrieved is in the store, so that an initial
\* document is none of them.
RequestsStored == \A p \in Asked : \E e \in store : e[2] = p[2]

\* Nothing is known of a query to come.
NothingAhead ==
  \A q \in QueryIds : idx.nextId <= q =>
    view[q] = {} /\ \A p \in Asked : p[1] # q

\* What holds of the job while the stream lives.
JobInv ==
  ~failed => /\ store = idx.docs
             /\ Job!IInv
             /\ RequestsStored
             /\ NothingAhead

\* A document of a window is with the client, or asked for.
AllKnown ==
  ~failed => \A q \in Live : \A x \in Stream!ShownBy(idx, q) :
               (\E e \in view[q] : e[2] = x) \/ <<q, x>> \in Asked

\* What is asked for is in the window.
AskedWithin ==
  ~failed => \A q \in Live : \A p \in Asked :
               p[1] = q => p[2] \in Stream!ShownBy(idx, q)

\* What the client has, and what is asked for, is in the window.
NoneBeyond ==
  /\ ~failed => \A q \in Live : \A e \in view[q] :
                 e \in idx.docs /\ e[2] \in Stream!ShownBy(idx, q)
  /\ AskedWithin

\* What the client has is in the window, be it in an earlier state.
ClientInside ==
  ~failed => \A q \in Live : \A e \in view[q] : e[2] \in Stream!ShownBy(idx, q)

\* The effective scores of the stream, and as long as no handler threw its
\* counters, and the ranges whose start no score crosses.
StreamExact ==
  /\ Stream!EffExact
  /\ ~failed => Stream!CurrentMatchesExact /\ Stream!StartsKept(idx)

-----------------------------------------------------------------------------
(* The calls of a handler.                                                  *)

LEMMA NoDocIsNone == Stream!NoDoc \notin Docs
  BY SystemAssumption DEF Stream!NoDoc

LEMMA CallsType ==
  ASSUME Types, out' \in Stream!Outputs, Calls
  PROVE  /\ batches' \in [pending : SUBSET Job!Requests,
                          processing : SUBSET Job!Requests]
         /\ waiter' \in BOOLEAN /\ failed' \in BOOLEAN
<1> DEFINE b1 == RegisterAll(batches, out'.registers)
           b2 == CancelAll(b1, out'.evictions)
           b3 == IF out'.doc = Stream!NoDoc THEN b2 ELSE Job!Resolve(b2, out'.doc)
           Batches == [pending : SUBSET Job!Requests, processing : SUBSET Job!Requests]
<1>1. out'.registers \subseteq Job!Requests /\ out'.error \in BOOLEAN
  BY DEF Stream!Outputs, Stream!Pairs, Job!Requests
<1>2. batches \in Batches /\ waiter \in BOOLEAN
  BY DEF Types, TypeOK, Job!TypeOK
<1>3. b1 \in Batches
  <2>1. b1 = [pending |-> batches.pending \cup out'.registers,
              processing |-> batches.processing]
    BY <1>2 DEF RegisterAll
  <2> HIDE DEF b1
  <2> QED
    BY <1>1, <1>2, <2>1
<1>4. b2 \in Batches
  BY <1>3 DEF CancelAll
<1>5. b3 \in Batches
  BY <1>4 DEF Job!Resolve
<1>6. /\ failed' = out'.error
      /\ batches' = IF failed' THEN b1 ELSE b3
      /\ waiter' = (waiter /\ out'.registers = {})
  BY DEF Calls
<1> HIDE DEF b1, b3
<1> QED
  BY <1>1, <1>2, <1>3, <1>5, <1>6

\* Of a handler that did not throw: what is pending was pending or registered
\* and not taken back; of the batch in hand, only what was evicted or belongs
\* to the changed document leaves, and with one query all of it.
LEMMA CallsEffect ==
  ASSUME Types, out' \in Stream!Outputs, Calls, ~failed',
         out'.registers \cap batches.processing = {}
  PROVE  /\ ~out'.error /\ waiter' = (waiter /\ out'.registers = {})
         /\ \A p \in Job!Requests :
              /\ p \in batches'.pending <=>
                   /\ p \in batches.pending \/ p \in out'.registers
                   /\ p \notin out'.evictions /\ p[2] # out'.doc
              /\ p \in batches'.processing =>
                   p \in batches.processing /\ p[2] # out'.doc
              /\ /\ p \in batches.processing /\ p[2] # out'.doc
                 /\ p \notin out'.evictions
                 => p \in batches'.processing
              /\ /\ MaxQueries <= 1 /\ p \in out'.evictions
                 /\ batches.pending \cap batches.processing = {}
                 => p \notin batches'.processing
<1> DEFINE R == out'.registers
           V == out'.evictions
           d == out'.doc
           b1 == RegisterAll(batches, R)
           b2 == CancelAll(b1, V)
           b3 == IF d = Stream!NoDoc THEN b2 ELSE Job!Resolve(b2, d)
<1>1. /\ ~out'.error /\ batches' = b3
      /\ waiter' = (waiter /\ R = {})
  BY DEF Calls
<1>2. R \cap batches.processing = {}
  OBVIOUS
<1>3. /\ b1.pending = batches.pending \cup R
      /\ b1.processing = batches.processing
  BY DEF RegisterAll, Types, TypeOK, Job!TypeOK
<1> DEFINE gone == {x \in V : \A p \in Job!OfDoc(b1.pending, x[2]) :
                                p \in V /\ Stream!Earlier(idx', p[1], x[1])}
<1>4. /\ b2.pending = b1.pending \ V
      /\ b2.processing = b1.processing \ gone
  BY DEF CancelAll
<1>5. ASSUME NEW p \in Job!Requests
      PROVE  /\ p \in b3.pending <=> p \in b2.pending /\ p[2] # d
             /\ p \in b3.processing <=> p \in b2.processing /\ p[2] # d
  <2>1. CASE d = Stream!NoDoc
    BY <2>1, NoDocIsNone DEF Job!Requests
  <2>2. CASE d # Stream!NoDoc
    BY <2>2 DEF Job!Resolve, Job!OfDoc
  <2> QED
    BY <2>1, <2>2
<1>6. ASSUME NEW p \in Job!Requests, p \in V, MaxQueries <= 1,
             batches.pending \cap batches.processing = {},
             p \in batches.processing
      PROVE  p \in gone
  <2>1. ASSUME NEW r \in Job!OfDoc(b1.pending, p[2]) PROVE FALSE
    <3>1. r \in batches.pending \cup R /\ r[2] = p[2]
      BY <1>3, <2>1 DEF Job!OfDoc
    <3>2. r \in Job!Requests
      BY <3>1 DEF Types, TypeOK, Job!TypeOK, Stream!Outputs, Stream!Pairs, Job!Requests
    <3>3. r = p
      BY <1>6, <3>1, <3>2, SystemAssumption DEF Job!Requests, Stream!QueryIds
    <3> QED
      BY <1>2, <1>6, <3>1, <3>3
  <2> QED
    BY <1>6, <2>1
<1>7. gone \subseteq V
  OBVIOUS
<1> HIDE DEF b1, b2, b3, gone
<1> QED
  BY <1>1, <1>2, <1>3, <1>4, <1>5, <1>6, <1>7
-----------------------------------------------------------------------------
(* The client.                                                              *)

\* What a match event leaves a query with.
LEMMA OnMatchAt ==
  ASSUME NEW V, NEW o, o.evictions \subseteq Job!Requests, NEW D,
         NEW q \in QueryIds, NEW e, e = <<e[1], e[2]>>
  PROVE  e \in OnMatch(V, o, D)[q] <=>
           /\ <<q, e[2]>> \notin o.evictions
           /\ \/ /\ e \in V[q]
                 /\ ~(q \in o.matchesOld \cup o.matchesNew /\ e[2] = o.doc)
              \/ q \in o.matchesNew /\ e \in D /\ e[2] = o.doc
<1> DEFINE evicted == {x[2] : x \in {y \in o.evictions : y[1] = q}}
           dropped == IF q \in o.matchesOld \cup o.matchesNew THEN {o.doc} ELSE {}
           taken   == IF q \in o.matchesNew THEN {f \in D : f[2] = o.doc} ELSE {}
<1>1. e[2] \in evicted <=> <<q, e[2]>> \in o.evictions
  <2>1. ASSUME NEW x \in o.evictions, x[1] = q, x[2] = e[2]
        PROVE  x = <<q, e[2]>>
    BY <2>1 DEF Job!Requests
  <2> QED
    BY <2>1
<1>2. OnMatch(V, o, D)[q] =
        WithoutDocs(WithoutDocs(V[q], dropped) \cup taken, evicted)
  BY DEF OnMatch
<1> HIDE DEF evicted
<1> QED
  BY <1>1, <1>2 DEF WithoutDocs

\* What a retrieval event leaves a query with.
LEMMA OnRetrievalAt ==
  ASSUME NEW V, NEW event, NEW q \in QueryIds, NEW e
  PROVE  e \in OnRetrieval(V, event)[q] <=>
           \/ e \in V[q]
           \/ \E x \in event : /\ x[1] = q /\ e = <<x[2], x[3]>>
                             /\ \A f \in V[q] : f[2] # x[3]
  BY DEF OnRetrieval

-----------------------------------------------------------------------------
(* The steps.                                                               *)

LEMMA ItemParts ==
  ASSUME Item
  PROVE  Stream!Item(Refused) /\ Handled /\ ~failed /\ ~stopped /\ failed' = out'.error
<1>1. QueryIds = Stream!QueryIds
  BY DEF QueryIds
<1>2. Handled /\ ~failed /\ ~stopped
  BY DEF Item, DocInsert, DocDelete, DocTouch, DocMove, QueryAdd, QueryRemove,
         SeedDocs
<1>3. Stream!Item(Refused)
  BY <1>1 DEF Item, Stream!Item, DocInsert, DocDelete, DocTouch, DocMove,
              QueryAdd, QueryRemove, SeedDocs
<1> QED
  BY <1>2, <1>3 DEF Handled, Calls

\* A registration is refused when the request is in the batch in hand.
LEMMA RefusedProcessed ==
  ASSUME NEW r \in Stream!Pairs
  PROVE  r \in Refused <=> r \in batches.processing
<1>1. r = <<r[1], r[2]>>
  BY DEF Stream!Pairs
<1> QED
  BY <1>1 DEF Refused, Job!CannotRegister

\* An item that did not throw is one whose registrations were all accepted:
\* the stream does then what it does by itself.
LEMMA ItemAccepts ==
  ASSUME Item, ~failed'
  PROVE  /\ Stream!Item({})
         /\ \/ out'.registers \cap Refused = {}
            \/ /\ idx.nextId \in QueryIds
               /\ \A r \in out'.registers : r[1] = idx.nextId
<1>1. Stream!Item(Refused) /\ ~out'.error
  BY ItemParts
<1>2. ASSUME NEW refused, refused = Refused
      PROVE  \/ out'.registers \cap refused = {}
             \/ /\ idx.nextId \in Stream!QueryIds
                /\ \A r \in out'.registers : r[1] = idx.nextId
  BY <1>1, <1>2, SystemAssumption, Stream!AcceptedItem
<1>3. Stream!Item({})
  BY <1>1, SystemAssumption, Stream!AcceptedItem
<1> QED
  BY <1>2, <1>3 DEF QueryIds

\* None of its registrations is in the batch in hand.
LEMMA RegistersApart ==
  ASSUME Item, ~failed', NothingAhead, out' \in Stream!Outputs, idx.nextId \in Nat
  PROVE  out'.registers \cap batches.processing = {}
<1> SUFFICES ASSUME NEW r \in out'.registers, r \in batches.processing PROVE FALSE
  OBVIOUS
<1>1. r \in Refused
  BY RefusedProcessed DEF Stream!Outputs
<1>2. idx.nextId \in QueryIds /\ r[1] = idx.nextId
  BY <1>1, ItemAccepts
<1> QED
  BY <1>2 DEF NothingAhead, Asked

\* The store after an item that did not throw.
LEMMA ItemStores ==
  ASSUME Types, store = idx.docs, Item, ~failed'
  PROVE  /\ store' = idx'.docs
         /\ \A e : (e \in store' <=> e \in store)
                    \/ e[2] = out'.doc \/ \A f \in store : f[2] # e[2]
<1> DEFINE Good == /\ store' = idx'.docs
                   /\ \A e : (e \in store' <=> e \in store)
                        \/ e[2] = out'.doc \/ \A f \in store : f[2] # e[2]
<1>1. Stream!IsState(idx) /\ ~out'.error
  BY ItemParts DEF Types, Stream!TypeOK
<1>2. ASSUME NEW d \in Docs, NEW old, NEW new,
             old = Stream!NoScore => \A e \in idx.docs : e[2] # d,
             old # Stream!NoScore => <<old, d>> \in idx.docs,
             NEW refused,
             Stream!Apply(Stream!ChangeOutcome(idx, d, old, new, refused)),
             NEW S, S = IF new = Stream!NoScore THEN {} ELSE {new},
             Put(d, S)
      PROVE  Good
  <2>1. /\ ~Stream!ChangeOutcome(idx, d, old, new, {}).out.error
        /\ Stream!Apply(Stream!ChangeOutcome(idx, d, old, new, {}))
    BY <1>1, <1>2, SystemAssumption, Stream!AcceptedOutcome DEF Stream!Apply
  <2>2. /\ idx'.docs = {e \in idx.docs : e[2] # d}
                         \cup (IF new = Stream!NoScore THEN {} ELSE {<<new, d>>})
        /\ out'.doc = d
    BY <1>1, <1>2, <2>1, SystemAssumption, Stream!ChangeReplaces DEF Stream!Apply
  <2>3. S \X {d} = IF new = Stream!NoScore THEN {} ELSE {<<new, d>>}
    BY <1>2
  <2> QED
    BY <1>2, <2>2, <2>3 DEF Put
<1>3. ASSUME NEW d \in Docs
      PROVE  LET old == Stream!CurrentScore(d)
             IN  /\ old = Stream!NoScore => \A e \in idx.docs : e[2] # d
                 /\ old # Stream!NoScore => <<old, d>> \in idx.docs
  BY <1>1, SystemAssumption, Stream!CurrentScoreIsStored
<1>4. ASSUME NEW d \in Docs, NEW v \in Scores, DocInsert(d, v) PROVE Good
  <2>1. v # Stream!NoScore
    BY SystemAssumption DEF Stream!NoScore
  <2> QED
    BY <1>2, <1>3, <1>4, <2>1 DEF DocInsert, Stream!DocInsert
<1>5. ASSUME NEW d \in Docs, DocDelete(d) PROVE Good
  BY <1>2, <1>3, <1>5 DEF DocDelete, Stream!DocDelete
<1>6. ASSUME NEW d \in Docs, DocTouch(d) PROVE Good
  BY <1>6 DEF DocTouch, Stream!DocTouch, Stream!Apply, Stream!TouchOutcome
<1>7. ASSUME NEW d \in Docs, NEW v \in Scores, DocMove(d, v) PROVE Good
  <2>1. v # Stream!NoScore
    BY SystemAssumption DEF Stream!NoScore
  <2> QED
    BY <1>2, <1>3, <1>7, <2>1 DEF DocMove, Stream!DocMove
<1>8. ASSUME NEW spec \in Specs, QueryAdd(spec) PROVE Good
  BY <1>8 DEF QueryAdd, Stream!QueryAdd, Stream!Apply, Stream!QueryAddOutcome,
              Stream!AddQuery, Stream!ThrowOutcome
<1>9. ASSUME NEW q \in QueryIds, QueryRemove(q) PROVE Good
  BY <1>9 DEF QueryRemove, Stream!QueryRemove, Stream!RemoveQuery
<1>10. ASSUME NEW d \in Docs, NEW v \in Scores, SeedDocs(d, v) PROVE Good
  <2>1. /\ \A e \in idx.docs : e[2] # d
        /\ idx'.docs = idx.docs \cup {<<v, d>>}
        /\ store' = {e \in store : e[2] # d} \cup ({v} \X {d})
    BY <1>3, <1>10 DEF SeedDocs, Stream!SeedDocs, Stream!SeedDocuments, Put
  <2> QED
    BY <2>1
<1> QED
  BY <1>4, <1>5, <1>6, <1>7, <1>8, <1>9, <1>10 DEF Item

-----------------------------------------------------------------------------
(* Types.                                                                   *)

LEMMA ItemKeepsTypes ==
  ASSUME Types, Item
  PROVE  Types' /\ (LateSeeds = FALSE /\ Stream!EffExact => Stream!EffExact')
<1>1. Stream!Item(Refused) /\ Handled
  BY ItemParts
<1>2. /\ Stream!IsState(idx') /\ out' \in Stream!Outputs
      /\ LateSeeds = FALSE /\ Stream!EffExactIn(idx) => Stream!EffExactIn(idx')
  BY <1>1, SystemAssumption, Stream!ItemCorrect DEF Types
<1>3. /\ batches' \in [pending : SUBSET Job!Requests,
                       processing : SUBSET Job!Requests]
      /\ waiter' \in BOOLEAN /\ failed' \in BOOLEAN
  BY <1>1, <1>2, CallsType DEF Handled
<1>4. store' \subseteq Scores \X Docs
  BY DEF Item, DocInsert, DocDelete, DocTouch, DocMove, QueryAdd, QueryRemove,
         SeedDocs, Put, Types, TypeOK, Job!TypeOK
<1>5. view' \in [QueryIds -> SUBSET (Scores \X Docs)]
  <2>1. idx'.docs \subseteq Scores \X Docs
    BY <1>2 DEF Stream!IsState
  <2>2. ASSUME NEW q \in QueryIds
        PROVE  OnMatch(view, out', idx'.docs)[q] \subseteq Scores \X Docs
    BY <2>1 DEF OnMatch, WithoutDocs, Types, TypeOK
  <2>3. OnMatch(view, out', idx'.docs) =
          [q \in QueryIds |-> OnMatch(view, out', idx'.docs)[q]]
    BY DEF OnMatch
  <2>4. OnMatch(view, out', idx'.docs) \in [QueryIds -> SUBSET (Scores \X Docs)]
    BY <2>2, <2>3
  <2> QED
    BY <1>1, <2>4 DEF Handled, Types, TypeOK
<1>6. Job!TypeOK'
  BY <1>1, <1>3, <1>4 DEF Handled, Types, TypeOK, Job!TypeOK
<1> QED
  BY <1>2, <1>3, <1>5, <1>6 DEF Types, TypeOK, Stream!TypeOK, Stream!EffExact

LEMMA RetrieveKeepsTypes ==
  ASSUME Types, Retrieve
  PROVE  Types'
<1>1. Job!TypeOK'
  <2> DEFINE Batches == [pending : SUBSET Job!Requests,
                         processing : SUBSET Job!Requests]
  <2>1. Job!TypeOK
    BY DEF Types, TypeOK
  <2>2. ASSUME NEW b \in Batches, Job!Iterate(b)
        PROVE  /\ batches' \in Batches
               /\ pc' \in {"waiting", "loading", "done"} /\ waiter' \in BOOLEAN
    <3>1. [pending |-> {}, processing |-> b.pending] \in Batches
      OBVIOUS
    <3> QED
      BY <2>1, <2>2, <3>1 DEF Job!Iterate, Job!TypeOK
  <2>3. ASSUME Job!EndBatch
        PROVE  /\ batches' \in Batches /\ loaded' = {} /\ waiter' \in BOOLEAN
               /\ pc' \in {"waiting", "loading", "done", "delaying"}
    <3>1. [batches EXCEPT !.processing = {}] \in Batches
      BY <2>1 DEF Job!TypeOK
    <3> QED
      BY <2>1, <2>2, <2>3, <3>1 DEF Job!EndBatch, Job!TypeOK
  <2>4. CASE Job!Resume
    BY <2>1, <2>2, <2>4 DEF Job!Resume, Job!TypeOK
  <2>5. CASE Job!Read
    BY <2>1, <2>5 DEF Job!Read, Job!TypeOK
  <2>6. CASE Job!Emit
    BY <2>1, <2>3, <2>6 DEF Job!Emit, Job!TypeOK, Job!Payload
  <2>7. CASE Job!LoadFails
    BY <2>1, <2>3, <2>7 DEF Job!LoadFails, Job!TypeOK
  <2>8. CASE Job!DelayOver
    BY <2>1, <2>2, <2>8 DEF Job!DelayOver, Job!TypeOK
  <2> QED
    BY <2>4, <2>5, <2>6, <2>7, <2>8 DEF Retrieve, Job!Loop
<1>2. view' \in [QueryIds -> SUBSET (Scores \X Docs)]
  <2>1. emitted' \subseteq QueryIds \X Scores \X Docs
    BY <1>1 DEF Job!TypeOK, QueryIds
  <2>2. ASSUME NEW q \in QueryIds
        PROVE  OnRetrieval(view, emitted')[q] \subseteq Scores \X Docs
    BY <2>1 DEF OnRetrieval, Types, TypeOK
  <2>3. OnRetrieval(view, emitted') =
          [q \in QueryIds |-> OnRetrieval(view, emitted')[q]]
    BY DEF OnRetrieval
  <2> QED
    BY <2>2, <2>3 DEF Retrieve
<1>3. Stream!TypeOK'
  BY DEF Retrieve, streamVars, Types, Stream!TypeOK
<1> QED
  BY <1>1, <1>2, <1>3 DEF Types, TypeOK

LEMMA InitTypes == Init => Types /\ Stream!EffExact
<1>1. Stream!Init => Stream!TypeOK /\ Stream!EffExact
  BY SystemAssumption, Stream!InitCorrect
<1>2. Job!Init => Job!TypeOK
  BY SystemAssumption, Job!InitCorrect DEF Job!IInv
<1> QED
  BY <1>1, <1>2 DEF Init, Types, TypeOK

LEMMA NextKeepsTypes ==
  ASSUME Types, [Next]_vars
  PROVE  Types'
<1>1. CASE Item
  BY <1>1, ItemKeepsTypes
<1>2. CASE Retrieve
  BY <1>2, RetrieveKeepsTypes
<1>3. CASE End
  BY <1>3 DEF End, Job!Stop, Job!Signal, streamVars, Types, TypeOK,
              Stream!TypeOK, Job!TypeOK
<1>4. CASE UNCHANGED vars
  BY <1>4 DEF vars, streamVars, jobVars, Types, TypeOK, Stream!TypeOK, Job!TypeOK
<1> QED
  BY <1>1, <1>2, <1>3, <1>4 DEF Next

-----------------------------------------------------------------------------
(* The job, between the items and the steps of its loop.                    *)

LEMMA ShownStored ==
  ASSUME NEW s, NEW q, NEW x \in Stream!ShownBy(s, q)
  PROVE  \E e \in s.docs : e[2] = x
  BY DEF Stream!ShownBy, Stream!Shown, Stream!DocsOf, Stream!CollectRange

\* What the stream reports of an item that did not throw.
LEMMA ItemTells ==
  ASSUME Types, StreamExact, Item, ~failed',
         Stream!MovesWithin, LateSeeds = FALSE, 0 \notin Docs
  PROVE  /\ Stream!OthersReported /\ Stream!TellsShown /\ Stream!ToTheLiving
         /\ StreamExact' /\ out' \in Stream!Outputs /\ out'.error = FALSE
         /\ Types'
         /\ DOMAIN idx'.queries \subseteq QueryIds
         /\ \A q \in DOMAIN idx'.queries : q < idx'.nextId
<1>1. /\ Stream!Item({}) /\ Stream!TypeOK /\ Stream!EffExact
      /\ Stream!CurrentMatchesExact /\ Stream!StartsKept(idx)
  BY ItemAccepts, ItemParts DEF Types, StreamExact
<1>2. Stream!OthersReported /\ Stream!TellsShown /\ Stream!ToTheLiving
  BY <1>1, SystemAssumption, Stream!ItemOthers
<1>3. Stream!MatchesExactIn(idx') /\ Stream!StartsKept(idx') /\ out'.error = FALSE
  BY <1>1, SystemAssumption, Stream!ItemKeepsMatches
<1>4. Types' /\ Stream!EffExact'
  BY <1>1, ItemKeepsTypes
<1>5. Stream!IsState(idx') /\ out' \in Stream!Outputs
  BY <1>4 DEF Types, Stream!TypeOK
<1>6. /\ DOMAIN idx'.queries \subseteq QueryIds
      /\ \A q \in DOMAIN idx'.queries : q < idx'.nextId
  BY <1>5, SystemAssumption DEF Stream!IsState, QueryIds, Stream!QueryIds
<1> QED
  BY <1>2, <1>3, <1>4, <1>5, <1>6 DEF StreamExact, Stream!CurrentMatchesExact

\* When documents keep their scores, it also tells who shows the document.
LEMMA ItemTellsAll ==
  ASSUME Types, StreamExact, Item, ~failed',
         Moves = {}, LateSeeds = FALSE, 0 \notin Docs
  PROVE  Stream!Reported
<1>1. /\ Stream!Item({}) /\ Stream!TypeOK /\ Stream!EffExact
      /\ Stream!CurrentMatchesExact
  BY ItemAccepts, ItemParts DEF Types, StreamExact
<1>2. ~\E d \in Docs, v \in Scores : Stream!DocMove(d, v, {})
  BY DEF Stream!DocMove
<1> QED
  BY <1>1, <1>2, SystemAssumption, Stream!ItemReported

LEMMA NoMovesWithin == Moves = {} => Stream!MovesWithin
  BY DEF Stream!MovesWithin

\* A handler that throws leaves the effective scores exact.
LEMMA ItemKeepsStream ==
  ASSUME Types, StreamExact, Item,
         Stream!MovesWithin, LateSeeds = FALSE, 0 \notin Docs
  PROVE  StreamExact'
<1>1. Stream!EffExact'
  BY ItemKeepsTypes DEF StreamExact
<1>2. CASE failed'
  BY <1>1, <1>2 DEF StreamExact
<1>3. CASE ~failed'
  BY <1>3, ItemTells
<1> QED
  BY <1>2, <1>3

LEMMA ItemKeepsJob ==
  ASSUME Types, StreamExact, JobInv, Item,
         Stream!MovesWithin, LateSeeds = FALSE, 0 \notin Docs
  PROVE  JobInv'
<1> SUFFICES ASSUME ~failed'
             PROVE  /\ store' = idx'.docs /\ Job!IInv' /\ RequestsStored'
                    /\ NothingAhead'
  BY DEF JobInv
<1>1. Handled /\ ~failed /\ store = idx.docs /\ Job!IInv /\ RequestsStored
      /\ NothingAhead
  BY ItemParts DEF JobInv
<1>2. /\ Stream!OthersReported /\ Stream!ToTheLiving
      /\ out' \in Stream!Outputs /\ Types'
      /\ DOMAIN idx'.queries \subseteq QueryIds
      /\ \A q \in DOMAIN idx'.queries : q < idx'.nextId
  BY ItemTells
<1> DEFINE R == out'.registers
           V == out'.evictions
           d == out'.doc
<1> HIDE DEF V
<1>0. R \cap batches.processing = {}
  BY <1>1, <1>2, RegistersApart DEF Types, Stream!TypeOK, Stream!IsState
<1>3. /\ waiter' = (waiter /\ R = {})
      /\ R \cap batches.processing = {}
      /\ \A p \in Job!Requests :
           /\ p \in batches'.pending => p \in batches.pending \/ p \in R
           /\ p \in batches'.pending => p[2] # d
           /\ p \in batches'.processing => p \in batches.processing /\ p[2] # d
  BY <1>0, <1>1, <1>2, CallsEffect DEF Handled
<1>4. /\ store' = idx'.docs
      /\ \A e : (e \in store' <=> e \in store)
                  \/ e[2] = d \/ \A f \in store : f[2] # e[2]
  BY <1>1, ItemStores
<1>5. /\ batches.pending \subseteq Job!Requests
      /\ batches.processing \subseteq Job!Requests
      /\ batches'.pending \subseteq Job!Requests
      /\ batches'.processing \subseteq Job!Requests
  BY <1>2 DEF Types, TypeOK, Job!TypeOK
<1>6. /\ pc' = pc /\ stopped' = stopped /\ loaded' = loaded
      /\ view' = OnMatch(view, out', idx'.docs)
  BY <1>1 DEF Handled
<1> HIDE DEF R, V, d
<1>7. Job!IInv'
  <2>1. Job!TypeOK'
    BY <1>2 DEF Types, TypeOK
  <2>2. Job!NoLostWakeup'
    BY <1>1, <1>3, <1>5, <1>6 DEF Job!IInv, Job!NoLostWakeup
  <2>3. Job!BatchesApart'
    BY <1>1, <1>3, <1>5, <1>6 DEF Job!IInv, Job!BatchesApart
  <2>4. Job!LoadedIsStore'
    <3>1. ASSUME NEW e \in Scores \X Docs,
                 NEW r \in batches'.processing, r[2] = e[2]
          PROVE  /\ Job!OfDoc(batches.processing, e[2]) # {}
                 /\ e \in store' <=> e \in store
      <4>1. r \in batches.processing /\ r[2] # d
        BY <1>3, <1>5, <3>1
      <4>2. \E f \in store : f[2] = e[2]
        BY <1>1, <3>1, <4>1 DEF RequestsStored, Asked
      <4> QED
        BY <1>4, <3>1, <4>1, <4>2 DEF Job!OfDoc
    <3> QED
      BY <1>1, <1>6, <3>1 DEF Job!IInv, Job!LoadedIsStore, Job!OfDoc
  <2> QED
    BY <2>1, <2>2, <2>3, <2>4 DEF Job!IInv
<1>8. RequestsStored'
  <2>1. ASSUME NEW p \in batches'.pending \cup batches'.processing
        PROVE  \E e \in store' : e[2] = p[2]
    <3>1. p \in Job!Requests /\ p[2] # d /\ (p \in Asked \/ p \in R)
      BY <1>3, <1>5, <2>1 DEF Asked
    <3>2. CASE p \in Asked
      <4>1. PICK f \in store : f[2] = p[2]
        BY <1>1, <3>2 DEF RequestsStored
      <4> QED
        BY <1>4, <3>1, <4>1
    <3>3. CASE p \in R
      <4>1. /\ p[1] \in DOMAIN idx'.queries /\ p[2] \in Docs
            /\ p = <<p[1], p[2]>>
        BY <1>2, <3>3 DEF Stream!ToTheLiving, R
      <4>2. p[2] \in Stream!ShownBy(idx', p[1])
        BY <1>2, <3>3, <4>1 DEF Stream!OthersReported, R
      <4> QED
        BY <1>4, <4>2, ShownStored
    <3> QED
      BY <3>1, <3>2, <3>3
  <2> QED
    BY <2>1 DEF RequestsStored, Asked
<1>9. NothingAhead'
  <2>1. ASSUME NEW q \in QueryIds, idx'.nextId <= q
        PROVE  /\ view'[q] = {}
               /\ \A p \in batches'.pending \cup batches'.processing : p[1] # q
    <3>1. idx.nextId <= q /\ q \notin DOMAIN idx'.queries
      BY <1>2, <2>1, SystemAssumption
         DEF Types, Stream!TypeOK, Stream!IsState, Stream!ToTheLiving,
             QueryIds, Stream!QueryIds
    <3>2. view[q] = {} /\ \A p \in Asked : p[1] # q
      BY <1>1, <3>1 DEF NothingAhead
    <3>3. /\ q \notin out'.matchesOld \cup out'.matchesNew
          /\ \A p \in R : p[1] # q
      BY <1>2, <3>1 DEF Stream!ToTheLiving, R
    <3>4. view'[q] = {}
      BY <1>6, <3>2, <3>3 DEF OnMatch, WithoutDocs
    <3>5. ASSUME NEW p \in batches'.pending \cup batches'.processing
          PROVE  p[1] # q
      BY <1>3, <1>5, <3>2, <3>3, <3>5 DEF Asked
    <3> QED
      BY <3>4, <3>5
  <2> QED
    BY <2>1 DEF NothingAhead, Asked
<1> QED
  BY <1>4, <1>7, <1>8, <1>9

\* A step of the loop keeps what is asked for, unless it ends a batch: then
\* what was in the batch is emitted, or the load has failed.
LEMMA LoopEffect ==
  ASSUME Job!IInv, Job!Loop
  PROVE  /\ Job!IInv' /\ store' = store
         /\ \/ emitted' = {} /\ Asked' = Asked
            \/ /\ Asked' = batches.pending
               /\ emitted' = {x \in Stream!QueryIds \X Scores \X Docs :
                                /\ <<x[1], x[3]>> \in batches.processing
                                /\ <<x[2], x[3]>> \in store}
            \/ MayFail /\ emitted' = {} /\ Asked' = batches.pending
<1>1. Job!IInv'
  BY SystemAssumption, Job!NextCorrect DEF Job!Next
<1>2. /\ batches \in [pending : SUBSET Job!Requests, processing : SUBSET Job!Requests]
      /\ waiter \in BOOLEAN
      /\ pc \notin {"loading", "loaded"} => batches.processing = {}
  BY DEF Job!IInv, Job!TypeOK, Job!BatchesApart
<1>3. ASSUME NEW b \in [pending : SUBSET Job!Requests, processing : SUBSET Job!Requests],
             b.processing = {}, stopped' = stopped, Job!Iterate(b)
      PROVE  Asked' = b.pending
  BY <1>2, <1>3, SystemAssumption, Job!IterateKeeps DEF Asked
<1>4. ASSUME Job!EndBatch, stopped' = stopped PROVE Asked' = batches.pending
  <2> DEFINE b == [batches EXCEPT !.processing = {}]
  <2>1. /\ b \in [pending : SUBSET Job!Requests, processing : SUBSET Job!Requests]
        /\ b.processing = {} /\ b.pending = batches.pending
    BY <1>2
  <2>2. IF Paced THEN batches' = b ELSE Job!Iterate(b)
    BY <1>4 DEF Job!EndBatch
  <2> HIDE DEF b
  <2> QED
    BY <1>3, <1>4, <2>1, <2>2 DEF Asked
<1>5. CASE Job!Resume
  BY <1>1, <1>2, <1>3, <1>5 DEF Job!Resume, Asked
<1>6. CASE Job!Read
  BY <1>1, <1>6 DEF Job!Read, Asked
<1>7. CASE Job!Emit
  BY <1>1, <1>4, <1>7, SystemAssumption, Job!PayloadIsCurrent DEF Job!Emit
<1>8. CASE Job!LoadFails
  BY <1>1, <1>4, <1>8 DEF Job!LoadFails
<1>9. CASE Job!DelayOver
  BY <1>1, <1>2, <1>3, <1>9 DEF Job!DelayOver, Asked
<1> QED
  BY <1>5, <1>6, <1>7, <1>8, <1>9 DEF Job!Loop

LEMMA NextKeepsJob ==
  ASSUME Types, StreamExact, JobInv, [Next]_vars,
         Stream!MovesWithin, LateSeeds = FALSE, 0 \notin Docs
  PROVE  StreamExact' /\ JobInv'
<1>1. CASE Item
  BY <1>1, ItemKeepsStream, ItemKeepsJob
<1>2. CASE Retrieve
  <2>1. StreamExact' /\ failed' = failed /\ idx' = idx
    BY <1>2 DEF Retrieve, streamVars, StreamExact, Stream!EffExact,
                Stream!CurrentMatchesExact
  <2>2. CASE ~failed
    <3>1. store = idx.docs /\ Job!IInv /\ RequestsStored /\ NothingAhead
      BY <2>2 DEF JobInv
    <3>2. /\ Job!IInv' /\ store' = store
          /\ Asked' \subseteq Asked
          /\ \A x \in emitted' : <<x[1], x[3]>> \in Asked
      BY <1>2, <3>1, LoopEffect DEF Retrieve, Asked
    <3>3. RequestsStored'
      BY <3>1, <3>2 DEF RequestsStored
    <3>4. NothingAhead'
      <4>1. ASSUME NEW q \in QueryIds, idx.nextId <= q
            PROVE  view'[q] = {} /\ \A p \in Asked' : p[1] # q
        <5>1. view[q] = {} /\ \A p \in Asked : p[1] # q
          BY <3>1, <4>1 DEF NothingAhead
        <5>2. \A x \in emitted' : x[1] # q
          <6>1. ASSUME NEW x \in emitted' PROVE x[1] # q
            BY <3>2, <5>1
          <6> QED
            BY <6>1
        <5>3. \A e : e \notin view'[q]
          BY <1>2, <5>1, <5>2, OnRetrievalAt DEF Retrieve
        <5> QED
          BY <3>2, <5>1, <5>3
      <4> QED
        BY <2>1, <4>1 DEF NothingAhead
    <3> QED
      BY <2>1, <3>1, <3>2, <3>3, <3>4 DEF JobInv
  <2> QED
    BY <2>1, <2>2 DEF JobInv
<1>3. CASE End
  <2>1. /\ StreamExact' /\ failed' = failed /\ idx' = idx /\ view' = view
        /\ batches' = batches /\ store' = store
    BY <1>3 DEF End, Job!Stop, streamVars, StreamExact, Stream!EffExact,
                Stream!CurrentMatchesExact
  <2>2. Job!IInv => Job!IInv'
    BY <1>3, SystemAssumption, Job!NextCorrect DEF End, Job!Next, Job!Callers
  <2> QED
    BY <2>1, <2>2 DEF JobInv, RequestsStored, NothingAhead, Asked
<1>4. CASE UNCHANGED vars
  BY <1>4 DEF vars, streamVars, jobVars, StreamExact, Stream!EffExact,
              Stream!CurrentMatchesExact, JobInv, RequestsStored, NothingAhead,
              Asked, Job!IInv, Job!TypeOK, Job!NoLostWakeup, Job!BatchesApart,
              Job!LoadedIsStore
<1> QED
  BY <1>1, <1>2, <1>3, <1>4 DEF Next

-----------------------------------------------------------------------------
(* The client, between the items and the steps of the loop.                 *)

\* What an item that did not throw does to the batches, for a query there is
\* after it.
LEMMA ItemAsks ==
  ASSUME Types, StreamExact, JobInv, Item, ~failed',
         Stream!MovesWithin, LateSeeds = FALSE, 0 \notin Docs,
         NEW q \in DOMAIN idx'.queries
  PROVE  LET was == Stream!ShownBy(idx, q)
             is  == Stream!ShownBy(idx', q)
             d   == out'.doc
         IN  /\ q \in QueryIds
             /\ q \in Live \/ (view[q] = {} /\ \A p \in Asked : p[1] # q)
             /\ \A x \in Docs :
                  /\ <<q, x>> \in Asked /\ x # d /\ ~(x \in was /\ x \notin is)
                       => <<q, x>> \in Asked'
                  /\ x # d /\ x \in is /\ x \notin was => <<q, x>> \in Asked'
                  /\ <<q, x>> \in Asked' => x # d
                  /\ <<q, x>> \in Asked' =>
                       <<q, x>> \in Asked \/ (x \in is /\ x \notin was)
                  /\ MaxQueries <= 1 /\ x # d /\ x \in was /\ x \notin is
                       => <<q, x>> \notin Asked'
<1> DEFINE was == Stream!ShownBy(idx, q)
           is  == Stream!ShownBy(idx', q)
           d   == out'.doc
           V   == out'.evictions
           R   == out'.registers
<1>1. /\ Stream!OthersReported /\ Stream!ToTheLiving
      /\ out' \in Stream!Outputs /\ Types' /\ q \in QueryIds
  BY ItemTells
<1>2. /\ q \in DOMAIN idx.queries \/ idx.nextId <= q
      /\ \A x \in Docs :
           /\ <<q, x>> \in V <=> x # d /\ x \in was /\ x \notin is
           /\ <<q, x>> \in R <=> x # d /\ x \in is /\ x \notin was
  BY <1>1 DEF Stream!OthersReported
<1>3. /\ Handled /\ NothingAhead
      /\ batches.pending \cap batches.processing = {}
  BY ItemParts DEF JobInv, Job!IInv, Job!BatchesApart
<1>0. R \cap batches.processing = {}
  BY <1>1, <1>3, RegistersApart DEF Types, Stream!TypeOK, Stream!IsState
<1>4. \A p \in Job!Requests :
        /\ p \in batches'.pending <=>
             /\ p \in batches.pending \/ p \in R
             /\ p \notin V /\ p[2] # d
        /\ p \in batches'.processing => p \in batches.processing /\ p[2] # d
        /\ p \in batches.processing /\ p[2] # d /\ p \notin V
             => p \in batches'.processing
        /\ MaxQueries <= 1 /\ p \in V => p \notin batches'.processing
  BY <1>0, <1>1, <1>3, CallsEffect DEF Handled
<1>5. q \in Live \/ (view[q] = {} /\ \A p \in Asked : p[1] # q)
  BY <1>1, <1>2, <1>3 DEF NothingAhead, Live
<1> HIDE DEF was, is, d, V, R
<1>6. ASSUME NEW x \in Docs
      PROVE  /\ <<q, x>> \in Asked /\ x # d /\ ~(x \in was /\ x \notin is)
                  => <<q, x>> \in Asked'
             /\ x # d /\ x \in is /\ x \notin was => <<q, x>> \in Asked'
             /\ <<q, x>> \in Asked' => x # d
             /\ <<q, x>> \in Asked' =>
                  <<q, x>> \in Asked \/ (x \in is /\ x \notin was)
             /\ MaxQueries <= 1 /\ x # d /\ x \in was /\ x \notin is
                  => <<q, x>> \notin Asked'
  <2>1. <<q, x>> \in Job!Requests /\ <<q, x>>[2] = x
    BY <1>1 DEF Job!Requests, QueryIds
  <2> QED
    BY <1>2, <1>4, <2>1 DEF Asked
<1> QED
  BY <1>1, <1>5, <1>6 DEF was, is, d

\* What it does to the client, when documents keep their scores.
LEMMA ItemReaches ==
  ASSUME Types, StreamExact, JobInv, Item, ~failed',
         Moves = {}, LateSeeds = FALSE, 0 \notin Docs,
         NEW q \in DOMAIN idx'.queries
  PROVE  LET was == Stream!ShownBy(idx, q)
             is  == Stream!ShownBy(idx', q)
             d   == out'.doc
         IN  /\ q \in QueryIds
             /\ \A e \in Scores \X Docs :
                  e \in view'[q] <=>
                    /\ ~(e[2] # d /\ e[2] \in was /\ e[2] \notin is)
                    /\ \/ e \in view[q] /\ ~(d \in was \cup is /\ e[2] = d)
                       \/ d \in is /\ e \in idx'.docs /\ e[2] = d
             /\ \A e \in Scores \X Docs :
                  e[2] # d => (e \in idx'.docs <=> e \in idx.docs)
<1> DEFINE was == Stream!ShownBy(idx, q)
           is  == Stream!ShownBy(idx', q)
           d   == out'.doc
           V   == out'.evictions
<1>1. out' \in Stream!Outputs /\ q \in QueryIds
  BY ItemTells, NoMovesWithin
<1>2. /\ \A e \in Scores \X Docs : e[2] # d => (e \in idx'.docs <=> e \in idx.docs)
      /\ q \in out'.matchesOld <=> d \in was
      /\ q \in out'.matchesNew <=> d \in is
      /\ \A x \in Docs : <<q, x>> \in V <=> x # d /\ x \in was /\ x \notin is
  BY ItemTellsAll DEF Stream!Reported
<1>3. view' = OnMatch(view, out', idx'.docs) /\ V \subseteq Job!Requests
  BY <1>1, ItemParts DEF Handled, Stream!Outputs, Stream!Pairs, Job!Requests
<1>4. ASSUME NEW e \in Scores \X Docs
      PROVE  e \in view'[q] <=>
               /\ <<q, e[2]>> \notin V
               /\ \/ /\ e \in view[q]
                     /\ ~(q \in out'.matchesOld \cup out'.matchesNew /\ e[2] = d)
                  \/ q \in out'.matchesNew /\ e \in idx'.docs /\ e[2] = d
  <2>1. e = <<e[1], e[2]>>
    BY <1>4
  <2>2. ASSUME NEW o, o = out', NEW D, D = idx'.docs
        PROVE  e \in OnMatch(view, o, D)[q] <=>
                 /\ <<q, e[2]>> \notin o.evictions
                 /\ \/ /\ e \in view[q]
                       /\ ~(q \in o.matchesOld \cup o.matchesNew /\ e[2] = o.doc)
                    \/ q \in o.matchesNew /\ e \in D /\ e[2] = o.doc
    <3>1. o.evictions \subseteq Job!Requests
      BY <1>3, <2>2
    <3> QED
      BY <1>1, <2>1, <3>1, OnMatchAt
  <2> QED
    BY <1>3, <2>2
<1> HIDE DEF was, is, d, V
<1>5. ASSUME NEW e \in Scores \X Docs
      PROVE  e \in view'[q] <=>
               /\ ~(e[2] # d /\ e[2] \in was /\ e[2] \notin is)
               /\ \/ e \in view[q] /\ ~(d \in was \cup is /\ e[2] = d)
                  \/ d \in is /\ e \in idx'.docs /\ e[2] = d
  BY <1>2, <1>4
<1> QED
  BY <1>1, <1>2, <1>5 DEF was, is, d

\* With one query, no item leaves a request for a document outside the window.
LEMMA ItemKeepsAsked ==
  ASSUME Types, StreamExact, JobInv, AskedWithin, Item,
         Stream!MovesWithin, LateSeeds = FALSE, 0 \notin Docs, MaxQueries <= 1
  PROVE  AskedWithin'
<1> SUFFICES ASSUME ~failed', NEW q \in DOMAIN idx'.queries,
                    NEW p \in Asked', p[1] = q
             PROVE  p[2] \in Stream!ShownBy(idx', q)
  BY DEF AskedWithin, Live
<1> DEFINE was == Stream!ShownBy(idx, q)
           is  == Stream!ShownBy(idx', q)
           d   == out'.doc
<1>1. /\ q \in Live \/ \A r \in Asked : r[1] # q
      /\ \A x \in Docs :
           /\ <<q, x>> \in Asked' => x # d
           /\ <<q, x>> \in Asked' =>
                <<q, x>> \in Asked \/ (x \in is /\ x \notin was)
           /\ x # d /\ x \in was /\ x \notin is => <<q, x>> \notin Asked'
  BY ItemAsks
<1>2. \A r \in Asked : r[1] = q => r[2] \in was
  BY <1>1, ItemParts DEF AskedWithin
<1>3. Asked' \subseteq Job!Requests
  BY ItemTells DEF Types, TypeOK, Job!TypeOK, Asked
<1> HIDE DEF was, is, d
<1>4. p = <<q, p[2]>> /\ p[2] \in Docs
  BY <1>3 DEF Job!Requests
<1> QED
  BY <1>1, <1>2, <1>4 DEF is

\* The only throw is of register(), for a document outside the window that is
\* being processed, and there is none.
LEMMA ItemNeverThrows ==
  ASSUME Types, StreamExact, JobInv, AskedWithin, Item,
         Stream!MovesWithin, LateSeeds = FALSE, 0 \notin Docs
  PROVE  ~failed'
<1> SUFFICES ASSUME failed' PROVE FALSE
  OBVIOUS
<1>1. Stream!Item(Refused) /\ ~failed /\ out'.error
  BY ItemParts
<1>2. /\ Stream!TypeOK /\ Stream!EffExact /\ Stream!CurrentMatchesExact
      /\ Stream!StartsKept(idx)
  BY <1>1 DEF Types, StreamExact
<1>3. ASSUME NEW refused, refused = Refused
      PROVE  \E q \in DOMAIN idx.queries, x \in Docs :
               <<q, x>> \in refused /\ x \notin Stream!ShownBy(idx, q)
  BY <1>1, <1>2, <1>3, SystemAssumption, Stream!RefusedItem
<1>4. PICK q \in Live, x \in Docs :
        <<q, x>> \in Refused /\ x \notin Stream!ShownBy(idx, q)
  BY <1>3 DEF Live
<1>5. <<q, x>> \in batches.processing
  BY <1>4, RefusedProcessed DEF Refused
<1>6. <<q, x>> \in Asked /\ <<q, x>>[1] = q /\ <<q, x>>[2] = x
  BY <1>5 DEF Asked
<1> QED
  BY <1>1, <1>4, <1>6 DEF AskedWithin

\* A document that leaves a window leaves the client with it.
LEMMA ItemKeepsInside ==
  ASSUME Types, StreamExact, JobInv, ClientInside, Item,
         Stream!MovesWithin, LateSeeds = FALSE, 0 \notin Docs
  PROVE  ClientInside'
<1> SUFFICES ASSUME ~failed', NEW q \in DOMAIN idx'.queries, NEW e \in view'[q]
             PROVE  e[2] \in Stream!ShownBy(idx', q)
  BY DEF ClientInside, Live
<1> DEFINE was == Stream!ShownBy(idx, q)
           is  == Stream!ShownBy(idx', q)
           d   == out'.doc
           V   == out'.evictions
<1>1. /\ Stream!OthersReported /\ Stream!TellsShown
      /\ out' \in Stream!Outputs /\ Types' /\ q \in QueryIds
  BY ItemTells
<1>2. /\ d \in was /\ d \notin is => q \in out'.matchesOld
      /\ q \in out'.matchesNew => d \in is
      /\ \A x \in Docs : <<q, x>> \in V <=> x # d /\ x \in was /\ x \notin is
  BY <1>1 DEF Stream!OthersReported, Stream!TellsShown
<1>3. /\ view' = OnMatch(view, out', idx'.docs) /\ V \subseteq Job!Requests
      /\ q \in Live \/ view[q] = {}
  BY <1>1, ItemParts, ItemAsks DEF Handled, Stream!Outputs, Stream!Pairs, Job!Requests
<1>4. \A f \in view[q] : f[2] \in was
  BY <1>3, ItemParts DEF ClientInside
<1>5. e = <<e[1], e[2]>> /\ e[2] \in Docs
  BY <1>1 DEF Types, TypeOK
<1>6. /\ <<q, e[2]>> \notin V
      /\ \/ e \in view[q] /\ ~(q \in out'.matchesOld \cup out'.matchesNew /\ e[2] = d)
         \/ q \in out'.matchesNew /\ e[2] = d
  <2>1. ASSUME NEW o, o = out', NEW D, D = idx'.docs
        PROVE  e \in OnMatch(view, o, D)[q] <=>
                 /\ <<q, e[2]>> \notin o.evictions
                 /\ \/ /\ e \in view[q]
                       /\ ~(q \in o.matchesOld \cup o.matchesNew /\ e[2] = o.doc)
                    \/ q \in o.matchesNew /\ e \in D /\ e[2] = o.doc
    <3>1. o.evictions \subseteq Job!Requests
      BY <1>3, <2>1
    <3> QED
      BY <1>1, <1>5, <3>1, OnMatchAt
  <2> QED
    BY <1>3, <2>1
<1> HIDE DEF was, is, d, V
<1> QED
  BY <1>2, <1>4, <1>5, <1>6 DEF is

LEMMA ItemKeepsKnown ==
  ASSUME Types, StreamExact, JobInv, AllKnown, Item,
         Moves = {}, LateSeeds = FALSE, 0 \notin Docs
  PROVE  AllKnown'
<1> SUFFICES ASSUME ~failed', NEW q \in DOMAIN idx'.queries,
                    NEW x \in Stream!ShownBy(idx', q)
             PROVE  (\E e \in view'[q] : e[2] = x) \/ <<q, x>> \in Asked'
  BY DEF AllKnown, Live
<1> DEFINE was == Stream!ShownBy(idx, q)
           is  == Stream!ShownBy(idx', q)
           d   == out'.doc
<1>1. /\ \A y \in Docs :
           /\ <<q, y>> \in Asked /\ y # d /\ ~(y \in was /\ y \notin is)
                => <<q, y>> \in Asked'
           /\ y # d /\ y \in is /\ y \notin was => <<q, y>> \in Asked'
      /\ \A e \in Scores \X Docs :
           e \in view'[q] <=>
             /\ ~(e[2] # d /\ e[2] \in was /\ e[2] \notin is)
             /\ \/ e \in view[q] /\ ~(d \in was \cup is /\ e[2] = d)
                \/ d \in is /\ e \in idx'.docs /\ e[2] = d
      /\ q \in QueryIds
  BY ItemAsks, ItemReaches, NoMovesWithin
<1>2. PICK f \in idx'.docs : f[2] = x
  BY ShownStored
<1>3. f \in Scores \X Docs /\ view[q] \subseteq Scores \X Docs
  BY <1>1, <1>2, ItemTells, NoMovesWithin DEF Types, TypeOK, Stream!TypeOK, Stream!IsState
<1>4. CASE x = d
  BY <1>1, <1>2, <1>3, <1>4
<1>5. CASE x # d /\ x \notin was
  BY <1>1, <1>2, <1>3, <1>5
<1>6. CASE x # d /\ x \in was
  <2>1. q \in Live
    BY <1>6 DEF Stream!ShownBy, Live
  <2>2. (\E e \in view[q] : e[2] = x) \/ <<q, x>> \in Asked
    BY <1>6, <2>1, ItemParts DEF AllKnown
  <2>3. CASE \E e \in view[q] : e[2] = x
    BY <1>1, <1>3, <1>6, <2>3
  <2>4. CASE <<q, x>> \in Asked
    BY <1>1, <1>2, <1>3, <1>6, <2>4
  <2> QED
    BY <2>2, <2>3, <2>4
<1> QED
  BY <1>4, <1>5, <1>6

LEMMA ItemKeepsWithin ==
  ASSUME Types, StreamExact, JobInv, NoneBeyond, Item,
         Moves = {}, LateSeeds = FALSE, 0 \notin Docs, MaxQueries <= 1
  PROVE  NoneBeyond'
<1>1. AskedWithin'
  BY ItemKeepsAsked, NoMovesWithin DEF NoneBeyond
<1> SUFFICES ASSUME ~failed', NEW q \in DOMAIN idx'.queries, NEW e \in view'[q]
             PROVE  e \in idx'.docs /\ e[2] \in Stream!ShownBy(idx', q)
  BY <1>1 DEF NoneBeyond, Live
<1> DEFINE was == Stream!ShownBy(idx, q)
           is  == Stream!ShownBy(idx', q)
           d   == out'.doc
<1>2. /\ q \in QueryIds /\ (q \in Live \/ view[q] = {})
      /\ \A f \in Scores \X Docs :
           f \in view'[q] <=>
             /\ ~(f[2] # d /\ f[2] \in was /\ f[2] \notin is)
             /\ \/ f \in view[q] /\ ~(d \in was \cup is /\ f[2] = d)
                \/ d \in is /\ f \in idx'.docs /\ f[2] = d
      /\ \A f \in Scores \X Docs : f[2] # d => (f \in idx'.docs <=> f \in idx.docs)
  BY ItemAsks, ItemReaches, NoMovesWithin
<1>3. \A f \in view[q] : f \in idx.docs /\ f[2] \in was
  BY <1>2, ItemParts DEF NoneBeyond
<1>4. view'[q] \subseteq Scores \X Docs
  BY <1>2, ItemTells, NoMovesWithin DEF Types, TypeOK
<1> HIDE DEF was, is, d
<1> QED
  BY <1>2, <1>3, <1>4 DEF is

\* A batch that is emitted reaches the client as a whole.
LEMMA RetrieveKeepsKnown ==
  ASSUME Types, JobInv, AllKnown, Retrieve, MayFail = FALSE
  PROVE  AllKnown'
<1>1. idx' = idx /\ failed' = failed /\ view' = OnRetrieval(view, emitted')
  BY DEF Retrieve, streamVars
<1> SUFFICES ASSUME ~failed, NEW q \in Live, NEW x \in Stream!ShownBy(idx, q)
             PROVE  (\E e \in view'[q] : e[2] = x) \/ <<q, x>> \in Asked'
  BY <1>1 DEF AllKnown, Live
<1>2. q \in QueryIds /\ idx.docs \subseteq Scores \X Docs
  BY SystemAssumption
     DEF Types, Stream!TypeOK, Stream!IsState, Live, QueryIds, Stream!QueryIds
<1>3. PICK f \in idx.docs : f[2] = x
  BY ShownStored
<1>4. CASE \E e \in view[q] : e[2] = x
  BY <1>1, <1>2, <1>4, OnRetrievalAt
<1>5. CASE ~(\E e \in view[q] : e[2] = x)
  <2>1. <<q, x>> \in Asked
    BY <1>5 DEF AllKnown
  <2>2. /\ store = idx.docs
        /\ \/ Asked' = Asked
           \/ /\ Asked' = batches.pending
              /\ emitted' = {y \in Stream!QueryIds \X Scores \X Docs :
                               /\ <<y[1], y[3]>> \in batches.processing
                               /\ <<y[2], y[3]>> \in store}
    BY LoopEffect DEF JobInv, Retrieve
  <2>3. CASE Asked' = Asked \/ <<q, x>> \in batches.pending
    BY <2>1, <2>2, <2>3 DEF Asked
  <2>4. CASE /\ <<q, x>> \in batches.processing
             /\ emitted' = {y \in Stream!QueryIds \X Scores \X Docs :
                              /\ <<y[1], y[3]>> \in batches.processing
                              /\ <<y[2], y[3]>> \in store}
    <3> DEFINE y == <<q, f[1], x>>
    <3>1. y \in emitted'
      BY <1>2, <1>3, <2>2, <2>4 DEF QueryIds
    <3>2. <<y[2], y[3]>> = f /\ y[1] = q /\ y[3] = x
      BY <1>2, <1>3
    <3>3. f \in OnRetrieval(view, emitted')[q]
      BY <1>2, <1>5, <3>1, <3>2, OnRetrievalAt
    <3> QED
      BY <1>1, <1>3, <3>3
  <2> QED
    BY <2>1, <2>2, <2>3, <2>4 DEF Asked
<1> QED
  BY <1>4, <1>5

LEMMA RetrieveKeepsAsked ==
  ASSUME JobInv, AskedWithin, Retrieve
  PROVE  AskedWithin'
<1>1. idx' = idx /\ failed' = failed
  BY DEF Retrieve, streamVars
<1>2. ~failed => Asked' \subseteq Asked
  BY LoopEffect DEF JobInv, Retrieve, Asked
<1> QED
  BY <1>1, <1>2 DEF AskedWithin, Live

LEMMA RetrieveKeepsInside ==
  ASSUME Types, JobInv, AskedWithin, ClientInside, Retrieve
  PROVE  ClientInside'
<1>1. idx' = idx /\ failed' = failed /\ view' = OnRetrieval(view, emitted')
  BY DEF Retrieve, streamVars
<1> SUFFICES ASSUME ~failed, NEW q \in Live, NEW e \in view'[q]
             PROVE  e[2] \in Stream!ShownBy(idx, q)
  BY <1>1 DEF ClientInside, Live
<1>2. q \in QueryIds
  BY SystemAssumption
     DEF Types, Stream!TypeOK, Stream!IsState, Live, QueryIds, Stream!QueryIds
<1>3. \A x \in emitted' : <<x[1], x[3]>> \in Asked
  BY LoopEffect DEF JobInv, Retrieve, Asked
<1>4. /\ \A f \in view[q] : f[2] \in Stream!ShownBy(idx, q)
      /\ \A p \in Asked : p[1] = q => p[2] \in Stream!ShownBy(idx, q)
  BY DEF ClientInside, AskedWithin
<1>5. \/ e \in view[q]
      \/ \E x \in emitted' : x[1] = q /\ e = <<x[2], x[3]>>
  BY <1>1, <1>2, OnRetrievalAt
<1>6. ASSUME NEW x \in emitted', x[1] = q, e = <<x[2], x[3]>>
      PROVE  e[2] \in Stream!ShownBy(idx, q)
  <2>1. <<q, x[3]>> \in Asked
    BY <1>3, <1>6
  <2>2. <<q, x[3]>>[1] = q /\ <<q, x[3]>>[2] = x[3]
    OBVIOUS
  <2> QED
    BY <1>4, <1>6, <2>1, <2>2
<1> QED
  BY <1>4, <1>5, <1>6

\* What is emitted is in the window: it was asked for, and the store has it.
LEMMA RetrieveKeepsWithin ==
  ASSUME Types, JobInv, NoneBeyond, Retrieve
  PROVE  NoneBeyond'
<1>1. idx' = idx /\ failed' = failed /\ view' = OnRetrieval(view, emitted')
  BY DEF Retrieve, streamVars
<1>2. AskedWithin'
  BY RetrieveKeepsAsked DEF NoneBeyond
<1> SUFFICES ASSUME ~failed, NEW q \in Live, NEW e \in view'[q]
             PROVE  e \in idx.docs /\ e[2] \in Stream!ShownBy(idx, q)
  BY <1>2, <1>1 DEF NoneBeyond, Live
<1>3. q \in QueryIds
  BY SystemAssumption
     DEF Types, Stream!TypeOK, Stream!IsState, Live, QueryIds, Stream!QueryIds
<1>4. \A x \in emitted' : <<x[1], x[3]>> \in Asked /\ <<x[2], x[3]>> \in idx.docs
  BY LoopEffect DEF JobInv, Retrieve, Asked
<1>5. /\ \A f \in view[q] : f \in idx.docs /\ f[2] \in Stream!ShownBy(idx, q)
      /\ \A p \in Asked : p[1] = q => p[2] \in Stream!ShownBy(idx, q)
  BY DEF NoneBeyond, AskedWithin
<1>6. \/ e \in view[q]
      \/ \E x \in emitted' : x[1] = q /\ e = <<x[2], x[3]>>
  BY <1>1, <1>3, OnRetrievalAt
<1>7. ASSUME NEW x \in emitted', x[1] = q, e = <<x[2], x[3]>>
      PROVE  e \in idx.docs /\ e[2] \in Stream!ShownBy(idx, q)
  <2>1. <<q, x[3]>> \in Asked
    BY <1>4, <1>7
  <2>2. <<q, x[3]>>[1] = q /\ <<q, x[3]>>[2] = x[3]
    OBVIOUS
  <2> QED
    BY <1>4, <1>5, <1>7, <2>1, <2>2
<1> QED
  BY <1>5, <1>6, <1>7

-----------------------------------------------------------------------------
(* The theorems.                                                            *)

\* Whatever the items and however the worker is paced, the parts keep their
\* types.
LEMMA TypesInvariant == Spec => []Types
  BY InitTypes, NextKeepsTypes, PTL DEF Spec

THEOREM TypeCorrect == Spec => []TypeOK
<1>1. Types => TypeOK
  BY DEF Types
<1> QED
  BY <1>1, TypesInvariant, PTL

\* The store holds the documents of the index as long as no handler threw,
\* also when scores change: a document is put or deleted in the store in the
\* order of the items (limitStream.ts:162-191).
THEOREM StoreFollowsIndex == Spec => []StoreIsIndex
<1>1. Init => StoreIsIndex
  BY DEF Init, Stream!Init, Stream!EmptyIndex, Job!Init, StoreIsIndex
<1>2. Types /\ StoreIsIndex /\ [Next]_vars => StoreIsIndex'
  <2> SUFFICES ASSUME Types, StoreIsIndex, [Next]_vars
               PROVE  StoreIsIndex'
    OBVIOUS
  <2>1. CASE Item
    BY <2>1, ItemParts, ItemStores DEF StoreIsIndex
  <2>2. CASE Retrieve
    BY <2>2 DEF Retrieve, streamVars, StoreIsIndex, Job!Loop, Job!Resume,
                Job!Read, Job!Emit, Job!LoadFails, Job!DelayOver
  <2>3. CASE End
    BY <2>3 DEF End, Job!Stop, streamVars, StoreIsIndex
  <2>4. CASE UNCHANGED vars
    BY <2>4 DEF vars, streamVars, jobVars, StoreIsIndex
  <2> QED
    BY <2>1, <2>2, <2>3, <2>4 DEF Next
<1> QED
  BY <1>1, <1>2, TypesInvariant, PTL DEF Spec

\* The invariant the next theorems share, when no change of a score crosses the
\* start of a range (from below it to its inside or beyond, or back), the initial
\* documents come before the queries and no document has the id 0.
LEMMA JobInvariant ==
  ASSUME Stream!MovesWithin, LateSeeds = FALSE, 0 \notin Docs
  PROVE  Spec => [](Types /\ StreamExact /\ JobInv)
<1>1. Init => StreamExact /\ JobInv
  <2> SUFFICES ASSUME Init PROVE StreamExact /\ JobInv
    OBVIOUS
  <2>1. idx.docs = {} /\ DOMAIN idx.queries = {}
    BY DEF Init, Stream!Init, Stream!EmptyIndex
  <2>2. StreamExact
    BY <2>1, InitTypes DEF StreamExact, Stream!CurrentMatchesExact,
                           Stream!MatchesExactIn, Stream!StartsKept
  <2>3. Job!IInv /\ store = {} /\ Asked = {}
    BY SystemAssumption, Job!InitCorrect DEF Init, Job!Init, Job!NoBatches, Asked
  <2> QED
    BY <2>1, <2>2, <2>3 DEF Init, JobInv, RequestsStored, NothingAhead
<1>2. Types /\ StreamExact /\ JobInv /\ [Next]_vars => StreamExact' /\ JobInv'
  BY NextKeepsJob
<1> QED
  BY <1>1, <1>2, TypesInvariant, PTL DEF Spec

\* Under these conditions the match counters stay what a recount would give, with
\* the job and the client beside the stream, as long as no handler threw: one that
\* throws leaves the gaps it did not get to unfilled (LimitQueries.ts:27-37,
\* limitStream.ts:107-119).
THEOREM CountersStayExact ==
  ASSUME Stream!MovesWithin, LateSeeds = FALSE, 0 \notin Docs
  PROVE  Spec => []CurrentMatchesExact
<1>1. StreamExact => CurrentMatchesExact
  BY DEF StreamExact, CurrentMatchesExact
<1> QED
  BY <1>1, JobInvariant, PTL

\* A change of a score that crosses no start of a range is reported, in every
\* moment of a run, to every query the document leaves or enters, with every
\* other document that is displaced or fetched, unless its handler throws
\* (limitStream.ts:59-149).
THEOREM MovesAreReported ==
  ASSUME Stream!MovesWithin, LateSeeds = FALSE, 0 \notin Docs
  PROVE  Spec => AlwaysMoveReported
<1>1. Types /\ StreamExact /\ [Next]_vars => [Item => Stream!MoveReported]_vars
  <2> SUFFICES ASSUME Types, StreamExact, Item
               PROVE  Stream!MoveReported
    OBVIOUS
  <2>1. CASE failed'
    BY <2>1 DEF Stream!MoveReported
  <2>2. CASE ~failed'
    <3>1. /\ Stream!Item({}) /\ Stream!TypeOK /\ Stream!EffExact
          /\ Stream!CurrentMatchesExact /\ Stream!StartsKept(idx)
      BY <2>2, ItemAccepts, ItemParts DEF Types, StreamExact
    <3> QED
      BY <3>1, SystemAssumption, Stream!ItemMoveReported
  <2> QED
    BY <2>1, <2>2
<1> QED
  BY <1>1, JobInvariant, PTL DEF Spec, AlwaysMoveReported

\* With one query, what the stream asks the job for is never outside the
\* window, and nothing is registered that is being processed.
LEMMA AskedInvariant ==
  ASSUME Stream!MovesWithin, LateSeeds = FALSE, 0 \notin Docs, MaxQueries <= 1
  PROVE  Spec => [](AskedWithin /\ ~failed)
<1>1. Init => AskedWithin /\ ~failed
  BY DEF Init, Stream!Init, Stream!EmptyIndex, AskedWithin, Live
<1>2. /\ Types /\ StreamExact /\ JobInv /\ AskedWithin /\ ~failed
      /\ [Next]_vars
      => (AskedWithin /\ ~failed)'
  <2> SUFFICES ASSUME Types, StreamExact, JobInv, AskedWithin, ~failed,
                      [Next]_vars
               PROVE  AskedWithin' /\ ~failed'
    OBVIOUS
  <2>1. CASE Item
    BY <2>1, ItemKeepsAsked, ItemNeverThrows
  <2>2. CASE Retrieve
    BY <2>2, RetrieveKeepsAsked DEF Retrieve, streamVars
  <2>3. CASE End
    BY <2>3 DEF End, Job!Stop, streamVars, AskedWithin, Live, Asked
  <2>4. CASE UNCHANGED vars
    BY <2>4 DEF vars, streamVars, jobVars, AskedWithin, Live, Asked
  <2> QED
    BY <2>1, <2>2, <2>3, <2>4 DEF Next
<1> QED
  BY <1>1, <1>2, JobInvariant, PTL DEF Spec

\* With one query no handler throws, neither in the index nor in register():
\* a document that enters the window is not being retrieved for it, since one
\* that left it was taken back (retrievalJob.ts:36-38, limitStream.ts:107-149).
\* Scores change across no start of a range.  With two queries this is false.
THEOREM OneQueryNeverThrows ==
  ASSUME Stream!MovesWithin, LateSeeds = FALSE, 0 \notin Docs, MaxQueries <= 1
  PROVE  Spec => []NeverRegistersProcessed
<1>1. AskedWithin /\ ~failed => NeverRegistersProcessed
  BY DEF NeverRegistersProcessed
<1> QED
  BY <1>1, AskedInvariant, PTL

LEMMA AllKnownInvariant ==
  ASSUME Moves = {}, LateSeeds = FALSE, 0 \notin Docs, MayFail = FALSE
  PROVE  Spec => []AllKnown
<1>1. Init => AllKnown
  BY DEF Init, Stream!Init, Stream!EmptyIndex, AllKnown, Live
<1>2. Types /\ StreamExact /\ JobInv /\ AllKnown /\ [Next]_vars => AllKnown'
  <2> SUFFICES ASSUME Types, StreamExact, JobInv, AllKnown, [Next]_vars
               PROVE  AllKnown'
    OBVIOUS
  <2>1. CASE Item
    BY <2>1, ItemKeepsKnown
  <2>2. CASE Retrieve
    BY <2>2, RetrieveKeepsKnown
  <2>3. CASE End
    BY <2>3 DEF End, Job!Stop, streamVars, AllKnown, Live, Asked
  <2>4. CASE UNCHANGED vars
    BY <2>4 DEF vars, streamVars, jobVars, AllKnown, Live, Asked
  <2> QED
    BY <2>1, <2>2, <2>3, <2>4 DEF Next
<1>3. Spec => [](Types /\ StreamExact /\ JobInv)
  BY JobInvariant, NoMovesWithin
<1> QED
  BY <1>1, <1>2, <1>3, PTL DEF Spec

LEMMA WithinInvariant ==
  ASSUME Moves = {}, LateSeeds = FALSE, 0 \notin Docs, MaxQueries <= 1
  PROVE  Spec => []NoneBeyond
<1>1. Init => NoneBeyond
  BY DEF Init, Stream!Init, Stream!EmptyIndex, NoneBeyond, AskedWithin, Live
<1>2. Types /\ StreamExact /\ JobInv /\ NoneBeyond /\ [Next]_vars => NoneBeyond'
  <2> SUFFICES ASSUME Types, StreamExact, JobInv, NoneBeyond, [Next]_vars
               PROVE  NoneBeyond'
    OBVIOUS
  <2>1. CASE Item
    BY <2>1, ItemKeepsWithin
  <2>2. CASE Retrieve
    BY <2>2, RetrieveKeepsWithin
  <2>3. CASE End
    BY <2>3 DEF End, Job!Stop, streamVars, NoneBeyond, AskedWithin, Live, Asked
  <2>4. CASE UNCHANGED vars
    BY <2>4 DEF vars, streamVars, jobVars, NoneBeyond, AskedWithin, Live, Asked
  <2> QED
    BY <2>1, <2>2, <2>3, <2>4 DEF Next
<1>3. Spec => [](Types /\ StreamExact /\ JobInv)
  BY JobInvariant, NoMovesWithin
<1> QED
  BY <1>1, <1>2, <1>3, PTL DEF Spec

\* The window of a query as the proofs speak of it.
LEMMA WindowShown ==
  ASSUME Types, NEW q \in Live
  PROVE  /\ Window(q) \subseteq idx.docs /\ Ids(Window(q)) = Stream!ShownBy(idx, q)
         /\ \A e \in idx.docs : e[2] \in Ids(Window(q)) <=> e \in Window(q)
         /\ \A x : x \in Open(q) <=> <<q, x>> \in Asked
<1>1. Window(q) \subseteq idx.docs /\ Ids(Window(q)) = Stream!ShownBy(idx, q)
  BY DEF Window, Ids, Live, Stream!ShownBy, Stream!Shown, Stream!DocsOf,
         Stream!DocsForQuery, Stream!CollectRange
<1>2. \A e \in idx.docs : e[2] \in Ids(Window(q)) <=> e \in Window(q)
  BY <1>1 DEF Types, Stream!TypeOK, Stream!IsState, Stream!OneEntryPerDoc, Ids
<1>3. ASSUME NEW x PROVE x \in Open(q) <=> <<q, x>> \in Asked
  <2>1. ASSUME NEW p \in Asked, p[1] = q, p[2] = x PROVE p = <<q, x>>
    BY <2>1 DEF Types, TypeOK, Job!TypeOK, Job!Requests, Asked
  <2>2. <<q, x>>[1] = q /\ <<q, x>>[2] = x
    OBVIOUS
  <2> QED
    BY <2>1, <2>2 DEF Open, Asked
<1> QED
  BY <1>1, <1>2, <1>3

\* Nothing is missing: whatever the queries have in common and however the
\* items and the retrieval loop alternate, a document of a window is with the
\* client or asked for, when documents keep their scores and the store answers
\* (limitStream.ts:162-169, :107-119).
THEOREM NothingIsMissing ==
  ASSUME Moves = {}, LateSeeds = FALSE, 0 \notin Docs, MayFail = FALSE
  PROVE  Spec => []NothingMissing
<1>1. Types /\ AllKnown => NothingMissing
  <2> SUFFICES ASSUME Types, AllKnown, ~failed, NEW q \in Live,
                      NEW x \in Ids(Window(q))
               PROVE  x \in Ids(view[q]) \cup Open(q)
    BY DEF NothingMissing
  <2>1. (\E e \in view[q] : e[2] = x) \/ <<q, x>> \in Asked
    BY WindowShown DEF AllKnown
  <2> QED
    BY <2>1, WindowShown DEF Ids
<1> QED
  BY <1>1, TypesInvariant, AllKnownInvariant, PTL

\* With one query, no retrieval is under way for a document outside its window:
\* one that left was cancelled or resolved (limitStream.ts:126-149), also when
\* scores change, across no start of a range.  With more queries, cancel() may
\* look in the wrong batch.
THEOREM NoRequestIsIdle ==
  ASSUME Stream!MovesWithin, LateSeeds = FALSE, 0 \notin Docs, MaxQueries <= 1
  PROVE  Spec => []NoIdleRequest
<1>1. Types /\ AskedWithin => NoIdleRequest
  <2> SUFFICES ASSUME Types, AskedWithin, ~failed, NEW q \in Live, NEW x \in Open(q)
               PROVE  x \in Ids(Window(q))
    BY DEF NoIdleRequest
  <2>1. <<q, x>> \in Asked /\ <<q, x>>[1] = q /\ <<q, x>>[2] = x
    BY WindowShown
  <2> QED
    BY <2>1, WindowShown DEF AskedWithin
<1> QED
  BY <1>1, TypesInvariant, AskedInvariant, PTL

\* With one query the client has only documents of the window, also when scores
\* change, across no start of a range, and loads fail: one that left it was taken
\* from the client, and from the requests under way (limitStream.ts:121-149).
THEOREM NothingOutside ==
  ASSUME Stream!MovesWithin, LateSeeds = FALSE, 0 \notin Docs, MaxQueries <= 1
  PROVE  Spec => []NoneOutside
<1>1. Init => ClientInside
  BY DEF Init, Stream!Init, Stream!EmptyIndex, ClientInside, Live
<1>2. Types /\ StreamExact /\ JobInv /\ AskedWithin /\ ClientInside /\ [Next]_vars
      => ClientInside'
  <2> SUFFICES ASSUME Types, StreamExact, JobInv, AskedWithin, ClientInside,
                      [Next]_vars
               PROVE  ClientInside'
    OBVIOUS
  <2>1. CASE Item
    BY <2>1, ItemKeepsInside
  <2>2. CASE Retrieve
    BY <2>2, RetrieveKeepsInside
  <2>3. CASE End
    BY <2>3 DEF End, Job!Stop, streamVars, ClientInside, Live
  <2>4. CASE UNCHANGED vars
    BY <2>4 DEF vars, streamVars, jobVars, ClientInside, Live
  <2> QED
    BY <2>1, <2>2, <2>3, <2>4 DEF Next
<1>3. Types /\ ClientInside => NoneOutside
  <2> SUFFICES ASSUME Types, ClientInside, ~failed, NEW q \in Live, NEW e \in view[q]
               PROVE  e[2] \in Ids(Window(q))
    BY DEF NoneOutside, Ids
  <2> QED
    BY WindowShown DEF ClientInside
<1> QED
  BY <1>1, <1>2, <1>3, JobInvariant, AskedInvariant, PTL DEF Spec

\* With one query the client has only documents of the window, in their
\* current state, and none that left it while it was being retrieved
\* (limitStream.ts:121-132, retrievalJob.ts:45-60), even if a load fails.
THEOREM NothingIsExtra ==
  ASSUME Moves = {}, LateSeeds = FALSE, 0 \notin Docs, MaxQueries <= 1
  PROVE  Spec => []NothingExtra
<1>1. Types /\ NoneBeyond => NothingExtra
  <2> SUFFICES ASSUME Types, NoneBeyond, ~failed, NEW q \in Live, NEW e \in view[q]
               PROVE  e \in Window(q)
    BY DEF NothingExtra
  <2>1. e \in idx.docs /\ e[2] \in Ids(Window(q))
    BY WindowShown DEF NoneBeyond
  <2> QED
    BY <2>1, WindowShown
<1> QED
  BY <1>1, TypesInvariant, WithinInvariant, PTL

\* With one query, whenever the retrieval job has nothing left to do the client
\* has exactly the window: what the perf harness checks at the end of a run
\* (perf.ts:404-434).
THEOREM SettledIsExact ==
  ASSUME Moves = {}, LateSeeds = FALSE, 0 \notin Docs, MaxQueries <= 1,
         MayFail = FALSE
  PROVE  Spec => []SettledViewExact
<1>1. Types /\ NothingMissing /\ NothingExtra => SettledViewExact
  <2> SUFFICES ASSUME Types, NothingMissing, NothingExtra, ~failed,
                      batches = Job!NoBatches, NEW q \in Live
               PROVE  view[q] = Window(q)
    BY DEF SettledViewExact
  <2>1. view[q] \subseteq Window(q)
    BY DEF NothingExtra
  <2>2. Ids(Window(q)) \subseteq Ids(view[q])
    <3>1. Open(q) = {}
      BY DEF Open, Job!NoBatches
    <3> QED
      BY <3>1 DEF NothingMissing
  <2>3. ASSUME NEW e \in Window(q) PROVE e \in view[q]
    <3>1. PICK f \in view[q] : f[2] = e[2]
      BY <2>2, <2>3 DEF Ids
    <3>2. f \in idx.docs /\ e \in idx.docs
      BY <2>1, <2>3, <3>1, WindowShown
    <3> QED
      BY <3>1, <3>2 DEF Types, Stream!TypeOK, Stream!IsState, Stream!OneEntryPerDoc
  <2> QED
    BY <2>1, <2>3
<1> QED
  BY <1>1, TypesInvariant, NothingIsMissing, NothingIsExtra, PTL

==============================================================================
