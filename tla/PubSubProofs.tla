---------------------------- MODULE PubSubProofs ----------------------------
(***************************************************************************)
(* Theorems about PubSub, for every set of connections, documents, scores   *)
(* and queries and any number of changes: type correctness, the counts of   *)
(* the storage, and the life of the queries.                                *)
(***************************************************************************)
EXTENDS PubSub, FiniteSetTheorems, TLAPS

-----------------------------------------------------------------------------
(* What the methods of the subscription storage keep, for every set of      *)
(* connections, documents and queries: a store stays a store, and the count *)
(* of a document stays the number of the queries that give it.              *)

LEMMA ThroughIsFinite ==
  ASSUME NEW s, NEW c, NEW Q, Q \subseteq QueryIds, NEW d
  PROVE  /\ IsFiniteSet(Q)
         /\ Held(s, c, Q, d) \subseteq Q
         /\ IsFiniteSet(Held(s, c, Q, d))
         /\ Cardinality(Held(s, c, Q, d)) \in Nat
<1>1. IsFiniteSet(Q)
  BY FS_Subset, QueryIdsAssumption
<1>2. Held(s, c, Q, d) \subseteq Q
  BY DEF Held
<1>3. IsFiniteSet(Held(s, c, Q, d))
  BY <1>1, <1>2, FS_Subset
<1> QED
  BY <1>1, <1>2, <1>3, FS_CardinalityType

LEMMA LoweredType ==
  ASSUME NEW n \in Nat, NEW m \in Nat
  PROVE  Lowered(n, m) \in Nat
BY DEF Lowered

\* Adding the queries Q to a set, and taking them from it, counts right.
LEMMA CountAdded ==
  ASSUME NEW T, IsFiniteSet(T), NEW U, IsFiniteSet(U), T \cap U = {}
  PROVE  Cardinality(T \cup U) = Cardinality(T) + Cardinality(U)
<1>1. Cardinality(T) \in Nat /\ Cardinality(U) \in Nat
  BY FS_CardinalityType
<1>2. Cardinality(T \cap U) = 0
  BY FS_EmptySet
<1>3. Cardinality(T \cup U)
        = Cardinality(T) + Cardinality(U) - Cardinality(T \cap U)
  BY FS_Union
<1> QED
  BY <1>1, <1>2, <1>3

LEMMA CountTaken ==
  ASSUME NEW T, IsFiniteSet(T), NEW U, U \subseteq T
  PROVE  Lowered(Cardinality(T), Cardinality(U)) = Cardinality(T \ U)
<1>1. IsFiniteSet(U) /\ Cardinality(U) <= Cardinality(T)
  BY FS_Subset
<1>2. Cardinality(T) \in Nat /\ Cardinality(U) \in Nat
  BY <1>1, FS_CardinalityType
<1>3. T \cap U = U
  OBVIOUS
<1>4. Cardinality(T \ U) = Cardinality(T) - Cardinality(T \cap U)
  BY FS_Difference
<1> QED
  BY <1>1, <1>2, <1>3, <1>4 DEF Lowered

-----------------------------------------------------------------------------

LEMMA EmptyStoreExact ==
  EmptyStore \in Stores /\ CountsExactIn(EmptyStore)
<1>1. EmptyStore \in Stores
  BY DEF EmptyStore, Stores, Keys, EntryStates
<1>2. ASSUME NEW c \in Conns, NEW d \in Docs
      PROVE  EmptyStore.count[<<c, d>>] = Cardinality(Through(EmptyStore, c, d))
  <2>1. Through(EmptyStore, c, d) = {}
    BY DEF Through, Held, EmptyStore, Keys
  <2>2. EmptyStore.count[<<c, d>>] = 0
    BY DEF EmptyStore
  <2> QED
    BY <2>1, <2>2, FS_EmptySet
<1> QED
  BY <1>1, <1>2 DEF CountsExactIn

LEMMA AddDocumentKeeps ==
  ASSUME NEW s \in Stores, CountsExactIn(s), NEW c \in Conns,
         NEW Q, Q \subseteq QueryIds, NEW d \in Docs
  PROVE  AddDocument(s, c, Q, d) \in Stores
         /\ CountsExactIn(AddDocument(s, c, Q, d))
<1> DEFINE S == AddDocument(s, c, Q, d)
           N == Q \ Held(s, c, Q, d)
<1>1. IsFiniteSet(N) /\ Cardinality(N) \in Nat /\ N \subseteq QueryIds
  <2>1. IsFiniteSet(N)
    BY ThroughIsFinite, FS_Difference
  <2> QED
    BY <2>1, FS_CardinalityType
<1>2. S \in Stores
  BY <1>1 DEF AddDocument, Stores, EntryStates
<1>3. ASSUME NEW c1 \in Conns, NEW d1 \in Docs
      PROVE  S.count[<<c1, d1>>] = Cardinality(Through(S, c1, d1))
  <2>1. /\ S.entry = [k \in Keys |-> IF k \in KeysOf(c, Q, d) THEN "exists"
                                                             ELSE s.entry[k]]
        /\ S.count = [s.count EXCEPT ![<<c, d>>] = @ + Cardinality(N)]
    BY DEF AddDocument
  <2>2. s.count[<<c1, d1>>] = Cardinality(Through(s, c1, d1))
    BY DEF CountsExactIn
  <2>3. \A q \in QueryIds :
          S.entry[<<c1, q, d1>>] = IF c1 = c /\ d1 = d /\ q \in Q
                                     THEN "exists" ELSE s.entry[<<c1, q, d1>>]
    BY <2>1 DEF Keys, KeysOf
  <2>4. CASE c1 = c /\ d1 = d
    <3>1. S.count[<<c1, d1>>] = s.count[<<c1, d1>>] + Cardinality(N)
      BY <2>1, <2>4 DEF Stores
    <3>2. Through(S, c1, d1) = Through(s, c1, d1) \cup N
      BY <2>3, <2>4 DEF Through, Held
    <3>3. Through(s, c1, d1) \cap N = {}
      BY <2>4 DEF Through, Held
    <3>4. IsFiniteSet(Through(s, c1, d1))
      BY ThroughIsFinite DEF Through
    <3> QED
      BY <1>1, <2>2, <3>1, <3>2, <3>3, <3>4, CountAdded
  <2>5. CASE ~(c1 = c /\ d1 = d)
    <3>1. S.count[<<c1, d1>>] = s.count[<<c1, d1>>]
      BY <2>1, <2>5 DEF Stores
    <3>2. Through(S, c1, d1) = Through(s, c1, d1)
      BY <2>3, <2>5 DEF Through, Held
    <3> QED
      BY <2>2, <3>1, <3>2
  <2> QED
    BY <2>4, <2>5
<1> QED
  BY <1>2, <1>3 DEF CountsExactIn

LEMMA HandleDeletionKeeps ==
  ASSUME NEW s \in Stores, CountsExactIn(s), NEW c \in Conns,
         NEW Q, Q \subseteq QueryIds, NEW d \in Docs
  PROVE  HandleDeletion(s, c, Q, d) \in Stores
         /\ CountsExactIn(HandleDeletion(s, c, Q, d))
<1> DEFINE S == HandleDeletion(s, c, Q, d)
           H == Held(s, c, Q, d)
<1>1. Cardinality(H) \in Nat
  BY ThroughIsFinite
<1>2. S \in Stores
  BY <1>1, LoweredType DEF HandleDeletion, Stores, EntryStates
<1>3. ASSUME NEW c1 \in Conns, NEW d1 \in Docs
      PROVE  S.count[<<c1, d1>>] = Cardinality(Through(S, c1, d1))
  <2>1. /\ S.entry = [k \in Keys |->
                        IF k \notin KeysOf(c, Q, d) THEN s.entry[k]
                        ELSE IF s.entry[k] = "absent" THEN "deleted"
                        ELSE "absent"]
        /\ S.count = [s.count EXCEPT ![<<c, d>>] = Lowered(@, Cardinality(H))]
    BY DEF HandleDeletion
  <2>2. s.count[<<c1, d1>>] = Cardinality(Through(s, c1, d1))
    BY DEF CountsExactIn
  <2>3. \A q \in QueryIds :
          (S.entry[<<c1, q, d1>>] = "exists")
             = (s.entry[<<c1, q, d1>>] = "exists"
                  /\ ~(c1 = c /\ d1 = d /\ q \in Q))
    BY <2>1 DEF Keys, KeysOf
  <2>4. CASE c1 = c /\ d1 = d
    <3>1. S.count[<<c1, d1>>] = Lowered(s.count[<<c1, d1>>], Cardinality(H))
      BY <2>1, <2>4 DEF Stores
    <3>2. Through(S, c1, d1) = Through(s, c1, d1) \ H
      BY <2>3, <2>4 DEF Through, Held
    <3>3. H \subseteq Through(s, c1, d1)
      BY <2>4 DEF Through, Held
    <3>4. IsFiniteSet(Through(s, c1, d1))
      BY ThroughIsFinite DEF Through
    <3> QED
      BY <2>2, <3>1, <3>2, <3>3, <3>4, CountTaken
  <2>5. CASE ~(c1 = c /\ d1 = d)
    <3>1. S.count[<<c1, d1>>] = s.count[<<c1, d1>>]
      BY <2>1, <2>5 DEF Stores
    <3>2. Through(S, c1, d1) = Through(s, c1, d1)
      BY <2>3, <2>5 DEF Through, Held
    <3> QED
      BY <2>2, <3>1, <3>2
  <2> QED
    BY <2>4, <2>5
<1> QED
  BY <1>2, <1>3 DEF CountsExactIn

LEMMA ApplyDbResultKeeps ==
  ASSUME NEW s \in Stores, CountsExactIn(s), NEW c \in Conns,
         NEW q \in QueryIds, NEW d \in Docs
  PROVE  ApplyDbResult(s, c, q, d) \in Stores
         /\ CountsExactIn(ApplyDbResult(s, c, q, d))
<1>1. CASE s.entry[<<c, q, d>>] = "deleted"
  <2> DEFINE S == [s EXCEPT !.entry = [@ EXCEPT ![<<c, q, d>>] = "notset"]]
  <2>1. ApplyDbResult(s, c, q, d) = S
    BY <1>1 DEF ApplyDbResult
  <2>2. S \in Stores
    BY DEF Stores, EntryStates, Keys
  <2>3. S.count = s.count
    BY DEF Stores
  <2>4. S.entry = [s.entry EXCEPT ![<<c, q, d>>] = "notset"]
    BY DEF Stores
  <2>5. ASSUME NEW c1 \in Conns, NEW d1 \in Docs
        PROVE  Through(S, c1, d1) = Through(s, c1, d1)
    <3>1. \A p \in QueryIds : (S.entry[<<c1, p, d1>>] = "exists")
                                = (s.entry[<<c1, p, d1>>] = "exists")
      BY <1>1, <2>4 DEF Stores, Keys
    <3> QED
      BY <3>1 DEF Through, Held
  <2>6. CountsExactIn(S)
    BY <2>3, <2>5 DEF CountsExactIn
  <2> QED
    BY <2>1, <2>2, <2>6
<1>2. CASE s.entry[<<c, q, d>>] # "deleted"
  BY <1>2, AddDocumentKeeps DEF ApplyDbResult
<1> QED
  BY <1>1, <1>2

LEMMA RemoveQueriesKeeps ==
  ASSUME NEW s \in Stores, CountsExactIn(s), NEW c \in Conns,
         NEW Q, Q \subseteq QueryIds
  PROVE  RemoveQueries(s, c, Q) \in Stores
         /\ CountsExactIn(RemoveQueries(s, c, Q))
<1> DEFINE S == RemoveQueries(s, c, Q)
<1>1. \A d \in Docs : Cardinality(Held(s, c, Q, d)) \in Nat
  BY ThroughIsFinite
<1>2. S \in Stores
  <2>1. Cleared(s, c, Q) \in [Keys -> EntryStates]
    BY DEF Cleared, Stores, EntryStates
  <2>2. S.count \in [Conns \X Docs -> Nat]
    BY <1>1, LoweredType DEF RemoveQueries, Stores
  <2> QED
    BY <2>1, <2>2 DEF RemoveQueries, Stores
<1>3. ASSUME NEW c1 \in Conns, NEW d1 \in Docs
      PROVE  S.count[<<c1, d1>>] = Cardinality(Through(S, c1, d1))
  <2>1. S.count[<<c1, d1>>] =
          IF c1 = c
            THEN Lowered(s.count[<<c1, d1>>], Cardinality(Held(s, c, Q, d1)))
            ELSE s.count[<<c1, d1>>]
    BY DEF RemoveQueries
  <2>2. s.count[<<c1, d1>>] = Cardinality(Through(s, c1, d1))
    BY DEF CountsExactIn
  <2>3. \A q \in QueryIds :
          S.entry[<<c1, q, d1>>] = IF c1 = c /\ q \in Q
                                     THEN "absent" ELSE s.entry[<<c1, q, d1>>]
    BY DEF RemoveQueries, Cleared, Keys
  <2>4. CASE c1 = c
    <3>1. Through(S, c1, d1) = Through(s, c1, d1) \ Held(s, c, Q, d1)
      BY <2>3, <2>4 DEF Through, Held
    <3>2. Held(s, c, Q, d1) \subseteq Through(s, c1, d1)
      BY <2>4 DEF Through, Held
    <3>3. IsFiniteSet(Through(s, c1, d1))
      BY ThroughIsFinite DEF Through
    <3> QED
      BY <2>1, <2>2, <2>4, <3>1, <3>2, <3>3, CountTaken
  <2>5. CASE c1 # c
    <3>1. Through(S, c1, d1) = Through(s, c1, d1)
      BY <2>3, <2>5 DEF Through, Held
    <3> QED
      BY <2>1, <2>2, <2>5, <3>1
  <2> QED
    BY <2>4, <2>5
<1> QED
  BY <1>2, <1>3 DEF CountsExactIn

-----------------------------------------------------------------------------
(* The invariant.                                                           *)

\* The three invariants together are inductive: the queries a handler works on
\* are query ids because the index holds nothing else, and a count is lowered
\* right because it was exact.
IInv == TypeOK /\ CountsExact /\ QueriesAreHeld

Changes == [kind : Kinds, doc : Docs, old : Values, new : Values]

-----------------------------------------------------------------------------
(* The range index.                                                         *)

LEMMA IndexParts ==
  ASSUME NEW x \in Indexes
  PROVE  /\ x.queries \in [Live(x) -> Specs] /\ Live(x) \subseteq QueryIds
         /\ x.nextId \in Nat /\ x.subs \in [QueryIds -> SUBSET Conns]
         /\ x.tracked \in [Docs -> SUBSET QueryIds]
BY DEF Indexes, Live

\* What holds of the index of TypeOK and QueriesAreHeld.
IndexOK(x) ==
  /\ x \in Indexes /\ Live(x) \subseteq 0..(x.nextId - 1)
  /\ Live(x) = {q \in QueryIds : x.subs[q] # {}}
  /\ \A d \in Docs : x.tracked[d] \subseteq Live(x)

LEMMA EmptyIndexOK == IndexOK(EmptyIndex)
<1>1. Live(EmptyIndex) = {}
  BY DEF Live, EmptyIndex
<1>2. EmptyIndex.queries \in [{} -> Specs]
  BY DEF EmptyIndex
<1> QED
  BY <1>1, <1>2 DEF IndexOK, Indexes, EmptyIndex

LEMMA SubscribedOK ==
  ASSUME NEW x, IndexOK(x), NEW c \in Conns, NEW spec \in Specs,
         NEW q \in QueryIds, q \in Live(x) \cup {x.nextId}
  PROVE  IndexOK(Subscribed(x, c, spec, q))
<1> DEFINE y == Subscribed(x, c, spec, q)
<1>1. /\ y.queries = [p \in Live(x) \cup {q} |->
                        IF p = q THEN spec ELSE x.queries[p]]
      /\ y.nextId = IF q = x.nextId THEN x.nextId + 1 ELSE x.nextId
      /\ y.subs = [x.subs EXCEPT ![q] = @ \cup {c}]
      /\ y.tracked = x.tracked
      /\ y = [queries |-> y.queries, nextId |-> y.nextId,
              subs |-> y.subs, tracked |-> y.tracked]
  BY DEF Subscribed, WithQuery
<1> HIDE DEF y
<1>2. Live(y) = Live(x) \cup {q}
  BY <1>1 DEF Live
<1>3. y.queries \in [Live(y) -> Specs] /\ Live(y) \subseteq QueryIds
  BY <1>1, <1>2, IndexParts DEF IndexOK
<1>4. y \in Indexes
  BY <1>1, <1>3, IndexParts DEF IndexOK, Indexes
<1>5. Live(y) \subseteq 0..(y.nextId - 1)
  BY <1>1, <1>2, IndexParts DEF IndexOK
<1>6. Live(y) = {p \in QueryIds : y.subs[p] # {}}
  BY <1>1, <1>2, IndexParts DEF IndexOK
<1>7. \A d \in Docs : y.tracked[d] \subseteq Live(y)
  BY <1>1, <1>2 DEF IndexOK
<1> QED
  BY <1>4, <1>5, <1>6, <1>7 DEF IndexOK, y

LEMMA UnsubscribedOK ==
  ASSUME NEW x, IndexOK(x), NEW c \in Conns, NEW Q, Q \subseteq QueryIds
  PROVE  IndexOK(Unsubscribed(x, c, Q))
<1> DEFINE y == Unsubscribed(x, c, Q)
           unheld == {q \in Q : x.subs[q] \subseteq {c}}
<1>1. /\ y.queries = [q \in Live(x) \ unheld |-> x.queries[q]]
      /\ y.nextId = x.nextId
      /\ y.subs = [q \in QueryIds |-> IF q \in Q THEN x.subs[q] \ {c}
                                                 ELSE x.subs[q]]
      /\ y.tracked = [d \in Docs |-> x.tracked[d] \ unheld]
      /\ y = [queries |-> y.queries, nextId |-> y.nextId,
              subs |-> y.subs, tracked |-> y.tracked]
  BY DEF Unsubscribed, WithoutConn
<1> HIDE DEF y
<1>2. Live(y) = Live(x) \ unheld
  BY <1>1 DEF Live
<1>3. y.queries \in [Live(y) -> Specs] /\ Live(y) \subseteq QueryIds
  BY <1>1, <1>2, IndexParts DEF IndexOK
<1>4. y \in Indexes
  BY <1>1, <1>3, IndexParts DEF IndexOK, Indexes
<1>5. Live(y) \subseteq 0..(y.nextId - 1)
  BY <1>1, <1>2 DEF IndexOK
<1>6. Live(y) = {p \in QueryIds : y.subs[p] # {}}
  BY <1>1, <1>2, IndexParts DEF IndexOK
<1>7. \A d \in Docs : y.tracked[d] \subseteq Live(y)
  BY <1>1, <1>2 DEF IndexOK
<1> QED
  BY <1>4, <1>5, <1>6, <1>7 DEF IndexOK, y

\* A document is tracked for queries that live.
LEMMA TrackedOK ==
  ASSUME NEW x, IndexOK(x), NEW d \in Docs, NEW Q, Q \subseteq Live(x)
  PROVE  IndexOK([x EXCEPT !.tracked[d] = Q])
<1> DEFINE y == [x EXCEPT !.tracked[d] = Q]
<1>1. /\ y.queries = x.queries /\ y.nextId = x.nextId /\ y.subs = x.subs
      /\ y.tracked = [x.tracked EXCEPT ![d] = Q]
      /\ y = [queries |-> y.queries, nextId |-> y.nextId,
              subs |-> y.subs, tracked |-> y.tracked]
  BY DEF IndexOK, Indexes
<1> HIDE DEF y
<1>2. Live(y) = Live(x)
  BY <1>1 DEF Live
<1>3. y \in Indexes
  BY <1>1, <1>2, IndexParts DEF IndexOK, Indexes, Live
<1>4. \A e \in Docs : y.tracked[e] \subseteq Live(y)
  BY <1>1, <1>2, IndexParts DEF IndexOK
<1> QED
  BY <1>1, <1>2, <1>3, <1>4 DEF IndexOK, y

LEMMA CoversLive ==
  ASSUME NEW x, NEW v, NEW Q \in Covers(x, v)
  PROVE  Q \subseteq Live(x)
BY DEF Covers

-----------------------------------------------------------------------------
(* The steps, one part of the state after the other.                        *)

LEMMA InvParts ==
  ASSUME IInv
  PROVE  /\ IndexOK(index) /\ store \in Stores /\ CountsExactIn(store)
         /\ rep \in Handlers
BY DEF IInv, TypeOK, CountsExact, QueriesAreHeld, IndexOK

LEMMA ChangeType ==
  ASSUME TypeOK, wal # <<>>
  PROVE  Head(wal) \in Changes /\ Tail(wal) \in Seq(Changes)
<1>1. wal \in Seq(Changes)
  BY DEF TypeOK, Changes
<1> QED
  BY <1>1

LEMMA IndexStep ==
  ASSUME IInv, [Next]_vars
  PROVE  IndexOK(index')
<1> USE InvParts
<1>1. ASSUME TakeChange
      PROVE  IndexOK(index')
  <2>1. PICK Q \in Covers(index, Head(wal).new) :
               index' = [index EXCEPT !.tracked[Head(wal).doc] = Q]
    BY <1>1 DEF TakeChange, Take
  <2>2. Head(wal).doc \in Docs
    BY <1>1, ChangeType DEF TakeChange, IInv, Changes
  <2> QED
    BY <2>1, <2>2, CoversLive, TrackedOK
<1>2. ASSUME TakeDelete
      PROVE  IndexOK(index')
  <2>1. index' = [index EXCEPT !.tracked[Head(wal).doc] = {}]
    BY <1>2 DEF TakeDelete, Take
  <2>2. Head(wal).doc \in Docs
    BY <1>2, ChangeType DEF TakeDelete, IInv, Changes
  <2> QED
    BY <2>1, <2>2, TrackedOK
<1>3. ASSUME NEW c \in Conns, NEW spec \in Asks[c], Subscribe(c, spec)
      PROVE  IndexOK(index')
  <2>1. spec \in Specs
    BY SomeSpecs
  <2>2. PICK q \in QueryIds : /\ q \in Live(index) \cup {index.nextId}
                             /\ index' = Subscribed(index, c, spec, q)
    BY <1>3, IndexParts DEF Subscribe, IdsOf, IndexOK
  <2> QED
    BY <2>1, <2>2, SubscribedOK
<1>4. ASSUME NEW c \in Conns, NEW spec \in Asks[c], Unsubscribe(c, spec)
      PROVE  IndexOK(index')
  <2>1. PICK q \in QueryIds : index' = Unsubscribed(index, c, {q})
    BY <1>4, IndexParts DEF Unsubscribe, IdsOf, IndexOK
  <2> QED
    BY <2>1, UnsubscribedOK
<1>5. ASSUME NEW c \in Conns, LeaveQueries(c)
      PROVE  IndexOK(index')
  <2>1. QueriesOf(index, c) \subseteq QueryIds
    BY DEF QueriesOf
  <2> QED
    BY <1>5, <2>1, UnsubscribedOK DEF LeaveQueries
<1>6. ASSUME UNCHANGED index
      PROVE  IndexOK(index')
  BY <1>6
<1>7. ASSUME Replication
      PROVE  TakeChange \/ TakeDelete \/ UNCHANGED index
  BY <1>7 DEF Replication, ReadConns, Tell, IndexDoc, DropQuery, Drop,
              UnindexDoc, Refill, ChooseFill, Fill
<1>8. ASSUME NEW c \in Conns, Connection(c)
      PROVE  \/ \E spec \in Asks[c] : Subscribe(c, spec) \/ Unsubscribe(c, spec)
             \/ LeaveQueries(c) \/ UNCHANGED index
  BY <1>8 DEF Connection, Connect, Snapshot, SnapshotFails, ApplyRow,
              Unregister, ClearStorage
<1> QED
  BY <1>1, <1>2, <1>3, <1>4, <1>5, <1>6, <1>7, <1>8
     DEF Next, vars, Insert, Update, Delete, Change

LEMMA StoreStep ==
  ASSUME IInv, [Next]_vars
  PROVE  store' \in Stores /\ CountsExactIn(store')
<1> USE InvParts
<1>1. ASSUME NEW c \in Conns, Tell(c)
      PROVE  store' \in Stores /\ CountsExactIn(store')
  <2> DEFINE was == rep.wasIn[c]  is == rep.isIn[c]
             S == AddDocument(store, c, is \ was, rep.doc)
  <2>1. was \subseteq QueryIds /\ is \subseteq QueryIds /\ rep.doc \in Docs
    BY DEF Handlers
  <2>2. S \in Stores /\ CountsExactIn(S)
    BY <2>1, AddDocumentKeeps
  <2>3. store' = HandleDeletion(S, c, was \ is, rep.doc)
    BY <1>1 DEF Tell
  <2> HIDE DEF S
  <2> QED
    BY <2>1, <2>2, <2>3, HandleDeletionKeeps
<1>2. ASSUME NEW c \in Conns, Drop(c)
      PROVE  store' \in Stores /\ CountsExactIn(store')
  <2>1. rep.query \in QueryIds
    BY <1>2 DEF Drop, IInv, TypeOK, Handlers
  <2>2. rep.doc \in Docs
    BY DEF Handlers
  <2> QED
    BY <1>2, <2>1, <2>2, HandleDeletionKeeps DEF Drop
<1>3. ASSUME Fill
      PROVE  store' \in Stores /\ CountsExactIn(store')
  <2>1. rep.pair \in Conns \X QueryIds
    BY <1>3 DEF Fill, IInv, TypeOK, Handlers
  <2>2. PICK e \in rep.fill :
               store' = AddDocument(store, rep.pair[1], {rep.pair[2]}, e[2])
    BY <1>3 DEF Fill
  <2>3. e[2] \in Docs
    BY <2>2 DEF Handlers, Rows
  <2> QED
    BY <2>1, <2>2, <2>3, AddDocumentKeeps
<1>4. ASSUME NEW c \in Conns, NEW d \in Docs, ApplyRow(c, d)
      PROVE  store' \in Stores /\ CountsExactIn(store')
  <2>1. task[c].query \in QueryIds
    BY <1>4 DEF ApplyRow, At, IInv, TypeOK, Tasks
  <2> QED
    BY <1>4, <2>1, ApplyDbResultKeeps DEF ApplyRow
<1>5. ASSUME NEW c \in Conns, NEW spec \in Asks[c], Unsubscribe(c, spec)
      PROVE  store' \in Stores /\ CountsExactIn(store')
  <2>1. PICK q \in QueryIds : store' = RemoveQueries(store, c, {q})
    BY <1>5, IndexParts DEF Unsubscribe, IdsOf, IndexOK, RemoveQueryForConnection
  <2> QED
    BY <2>1, RemoveQueriesKeeps
<1>6. ASSUME NEW c \in Conns, ClearStorage(c)
      PROVE  store' \in Stores /\ CountsExactIn(store')
  BY <1>6, RemoveQueriesKeeps DEF ClearStorage, RemoveConnection
<1>7. ASSUME UNCHANGED store
      PROVE  store' \in Stores /\ CountsExactIn(store')
  BY <1>7
<1>8. ASSUME Replication
      PROVE  (\E c \in Conns : Tell(c) \/ Drop(c)) \/ Fill \/ UNCHANGED store
  BY <1>8 DEF Replication, TakeChange, TakeDelete, Take, ReadConns, IndexDoc,
              DropQuery, UnindexDoc, Refill, ChooseFill
<1>9. ASSUME NEW c \in Conns, Connection(c)
      PROVE  \/ \E d \in Docs : ApplyRow(c, d)
             \/ \E spec \in Asks[c] : Unsubscribe(c, spec)
             \/ ClearStorage(c) \/ UNCHANGED store
  BY <1>9 DEF Connection, Connect, Subscribe, Snapshot, SnapshotFails,
              Unregister, LeaveQueries
<1> QED
  BY <1>1, <1>2, <1>3, <1>4, <1>5, <1>6, <1>7, <1>8, <1>9
     DEF Next, vars, Insert, Update, Delete, Change

LEMMA TaskStep ==
  ASSUME IInv, [Next]_vars
  PROVE  /\ task' \in [Conns -> Tasks]
         /\ \A c \in Conns : task'[c].pc \in {"reading", "applying"}
                                => task'[c].query # NoQuery
<1> DEFINE TaskOK(t) == /\ t \in Tasks
                        /\ t.pc \in {"reading", "applying"} => t.query # NoQuery
<1>1. task \in [Conns -> Tasks] /\ \A c \in Conns : TaskOK(task[c])
  BY DEF IInv, TypeOK
<1>2. ASSUME NEW c \in Conns, NEW t, TaskOK(t), task' = [task EXCEPT ![c] = t]
      PROVE  task' \in [Conns -> Tasks] /\ \A x \in Conns : TaskOK(task'[x])
  BY <1>1, <1>2
<1>3. ASSUME NEW q \in QueryIds, NEW S, S \subseteq Docs, NEW t \in Applying(q, S)
      PROVE  TaskOK(t)
  BY <1>3, QueryIdsAreSmall
     DEF Applying, Answered, Listening, Failed, Tasks, NoQuery
<1>4. ASSUME NEW c \in Conns, Connection(c)
      PROVE  UNCHANGED task \/ \E t : TaskOK(t) /\ task' = [task EXCEPT ![c] = t]
  <2>1. ASSUME NEW pc \in {"listening", "leaving", "clearing", "gone"},
               Goto(c, pc)
        PROVE  \E t : TaskOK(t) /\ task' = [task EXCEPT ![c] = t]
    <3> DEFINE t == [task[c] EXCEPT !.pc = pc]
    <3>1. TaskOK(t)
      BY <1>1 DEF Tasks
    <3>2. task' = [task EXCEPT ![c] = t]
      BY <2>1 DEF Goto
    <3> HIDE DEF t
    <3> QED
      BY <3>1, <3>2
  <2>2. ASSUME NEW spec \in Asks[c], Subscribe(c, spec)
        PROVE  \E t : TaskOK(t) /\ task' = [task EXCEPT ![c] = t]
    <3>1. PICK q \in QueryIds :
            task' = [task EXCEPT ![c] = [pc |-> "reading", query |-> q, rows |-> {}]]
      BY <2>2, InvParts, IndexParts DEF Subscribe, IdsOf, IndexOK
    <3>2. TaskOK([pc |-> "reading", query |-> q, rows |-> {}])
      BY QueryIdsAreSmall DEF Tasks, NoQuery
    <3> QED
      BY <3>1, <3>2
  <2>3. ASSUME Snapshot(c)
        PROVE  \E t : TaskOK(t) /\ task' = [task EXCEPT ![c] = t]
    <3>1. task[c].query \in QueryIds
      BY <1>1, <2>3 DEF Snapshot, At, Tasks
    <3>2. PICK S \in FirstRows(index.queries[task[c].query]) :
            \E t \in Applying(task[c].query, {e[2] : e \in S}) :
               task' = [task EXCEPT ![c] = t]
      BY <2>3 DEF Snapshot, Becomes
    <3>3. S \subseteq Rows
      BY <3>2 DEF FirstRows, IInv, TypeOK
    <3>4. {e[2] : e \in S} \subseteq Docs
      BY <3>3 DEF Rows
    <3> QED
      BY <1>3, <3>1, <3>2, <3>4
  <2>4. ASSUME NEW d \in Docs, ApplyRow(c, d)
        PROVE  \E t : TaskOK(t) /\ task' = [task EXCEPT ![c] = t]
    <3>1. task[c].query \in QueryIds /\ task[c].rows \ {d} \subseteq Docs
      BY <1>1, <2>4 DEF ApplyRow, At, Tasks
    <3>2. \E t \in Applying(task[c].query, task[c].rows \ {d}) :
             task' = [task EXCEPT ![c] = t]
      BY <2>4 DEF ApplyRow, Becomes
    <3> QED
      BY <1>3, <3>1, <3>2
  <2>5. ASSUME SnapshotFails(c) \/ \E spec \in Asks[c] : Unsubscribe(c, spec)
        PROVE  \E t : TaskOK(t) /\ task' = [task EXCEPT ![c] = t]
    <3>1. \E t \in Answered : task' = [task EXCEPT ![c] = t]
      BY <2>5 DEF SnapshotFails, Unsubscribe, Becomes, Answered
    <3>2. \A t \in Answered : TaskOK(t)
      BY DEF Answered, Listening, Failed, Tasks
    <3> QED
      BY <3>1, <3>2
  <2> QED
    BY <1>4, <2>1, <2>2, <2>3, <2>4, <2>5
       DEF Connection, Connect, Unregister, LeaveQueries, ClearStorage
<1>5. ASSUME UNCHANGED task
      PROVE  task' \in [Conns -> Tasks] /\ \A x \in Conns : TaskOK(task'[x])
  BY <1>1, <1>5
<1>6. Replication => UNCHANGED task
  BY DEF Replication, TakeChange, TakeDelete, Take, ReadConns, Tell, IndexDoc,
         DropQuery, Drop, UnindexDoc, Refill, ChooseFill, Fill
<1>7. task' \in [Conns -> Tasks] /\ \A x \in Conns : TaskOK(task'[x])
  BY <1>2, <1>4, <1>5, <1>6 DEF Next, vars, Insert, Update, Delete, Change
<1> QED
  BY <1>7

\* What holds of the handler of TypeOK.
HandlerOK(r) ==
  /\ r \in Handlers
  /\ r.pc \in {"choose", "fill"} => r.pair # <<>>
  /\ r.pc \in {"conns", "tell"} => r.kind # "delete"
  /\ r.pc = "drop" => r.kind = "delete"
  /\ r.kind = "delete" /\ r.todo # {} => r.query # NoQuery

LEMMA IdleOK == HandlerOK(Idle)
<1>1. NoDoc \in Docs /\ (CHOOSE x \in Specs : TRUE) \in Specs
  BY SomeDocs, SomeSpecs DEF NoDoc
<1> QED
  BY <1>1 DEF HandlerOK, Handlers, Idle, Values, Kinds

LEMMA OnwardOK ==
  ASSUME NEW r, HandlerOK(r)
  PROVE  HandlerOK(Onward(r))
<1>1. CASE r.pc = "refill" /\ r.refills = {} /\ r.kind = "delete"
  <2>1. HandlerOK([r EXCEPT !.pc = "drop"])
    BY <1>1 DEF HandlerOK, Handlers
  <2> QED
    BY <1>1, <2>1 DEF Onward
<1> QED
  BY <1>1, IdleOK DEF Onward

LEMMA HandlerStep ==
  ASSUME IInv, [Next]_vars
  PROVE  HandlerOK(rep')
<1>0. HandlerOK(rep)
  BY DEF IInv, TypeOK, HandlerOK
<1>1. ASSUME TakeChange
      PROVE  HandlerOK(rep')
  <2>1. PICK Q \in Covers(index, Head(wal).new) :
               Take("conns", index.tracked[Head(wal).doc], Q)
    BY <1>1 DEF TakeChange
  <2>2. Head(wal) \in Changes /\ Head(wal).kind # "delete"
    BY <1>1, ChangeType DEF TakeChange, IInv
  <2>3. /\ index.tracked[Head(wal).doc] \subseteq QueryIds
        /\ Q \subseteq QueryIds
    BY <2>2, CoversLive, InvParts, IndexParts DEF Changes, IndexOK
  <2> QED
    BY <2>1, <2>2, <2>3, IdleOK DEF Take, HandlerOK, Handlers, Changes
<1>2. ASSUME TakeDelete
      PROVE  HandlerOK(rep')
  <2>1. Head(wal) \in Changes /\ Head(wal).kind = "delete"
    BY <1>2, ChangeType DEF TakeDelete, IInv
  <2>2. index.tracked[Head(wal).doc] \subseteq QueryIds
    BY <2>1, InvParts, IndexParts DEF Changes, IndexOK
  <2>3. Idle.todo = {}
    BY DEF Idle
  <2> QED
    BY <1>2, <2>1, <2>2, <2>3, IdleOK
       DEF TakeDelete, Take, HandlerOK, Handlers, Changes
<1>3. ASSUME ReadConns
      PROVE  HandlerOK(rep')
  <2>1. \A c \in Conns : /\ Of(rep.before, c) \subseteq QueryIds
                         /\ Of(rep.after, c) \subseteq QueryIds
    BY <1>0 DEF Of, HandlerOK, Handlers
  <2> QED
    BY <1>0, <1>3, <2>1 DEF ReadConns, HandlerOK, Handlers
<1>4. ASSUME NEW c \in Conns, Tell(c)
      PROVE  HandlerOK(rep')
  <2> DEFINE was == rep.wasIn[c]  is == rep.isIn[c]
  <2>1. was \subseteq QueryIds /\ is \subseteq QueryIds
    BY <1>0 DEF HandlerOK, Handlers
  <2>2. rep' = [rep EXCEPT !.todo = @ \ {c}, !.wasIn[c] = {}, !.isIn[c] = {},
                           !.refills = @ \cup ({c} \X (was \ is))]
    BY <1>4 DEF Tell, Notify
  <2> QED
    BY <1>0, <1>4, <2>1, <2>2 DEF Tell, HandlerOK, Handlers
<1>5. ASSUME IndexDoc
      PROVE  HandlerOK(rep')
  <2>1. HandlerOK([rep EXCEPT !.pc = "refill"])
    BY <1>0 DEF HandlerOK, Handlers
  <2> QED
    BY <1>5, <2>1, OnwardOK DEF IndexDoc, Become
<1>6. ASSUME NEW q \in QueryIds, DropQuery(q)
      PROVE  HandlerOK(rep')
  <2>1. index.subs[q] \subseteq Conns
    BY InvParts, IndexParts DEF IndexOK
  <2>2. q # NoQuery
    BY QueryIdsAreSmall DEF NoQuery
  <2> QED
    BY <1>0, <1>6, <2>1, <2>2 DEF DropQuery, HandlerOK, Handlers
<1>7. ASSUME NEW c \in Conns, Drop(c)
      PROVE  HandlerOK(rep')
  <2>1. rep.query \in QueryIds
    BY <1>0, <1>7 DEF Drop, HandlerOK, Handlers
  <2>2. {<<c, rep.query>>} \subseteq Conns \X QueryIds
    BY <2>1
  <2>3. rep' = [rep EXCEPT !.pc = "refill", !.todo = @ \ {c},
                           !.refills = {<<c, rep.query>>}]
    BY <1>7 DEF Drop, Notify
  <2>4. rep.query # NoQuery
    BY <1>0, <1>7 DEF Drop, HandlerOK
  <2> QED
    BY <1>0, <2>2, <2>3, <2>4 DEF HandlerOK, Handlers
<1>8. ASSUME UnindexDoc
      PROVE  HandlerOK(rep')
  BY <1>8, IdleOK DEF UnindexDoc, Become
<1>9. ASSUME NEW r \in Conns \X QueryIds, Refill(r)
      PROVE  HandlerOK(rep')
  <2> DEFINE rest == [rep EXCEPT !.refills = @ \ {r}]
             next == [rest EXCEPT !.pc = "choose", !.pair = r,
                                  !.spec = index.queries[r[2]]]
  <2>1. HandlerOK(rest)
    BY <1>0 DEF HandlerOK, Handlers
  <2>2. CASE r[2] \in Live(index)
    <3>1. index.queries[r[2]] \in Specs
      BY <2>2, InvParts, IndexParts DEF IndexOK
    <3>2. r # <<>>
      OBVIOUS
    <3>3. HandlerOK(next)
      BY <2>1, <3>1, <3>2 DEF HandlerOK, Handlers
    <3> QED
      BY <1>9, <2>2, <3>3 DEF Refill, Become
  <2>3. CASE r[2] \notin Live(index)
    BY <1>9, <2>1, <2>3, OnwardOK DEF Refill, Become
  <2> QED
    BY <2>2, <2>3
<1>10. ASSUME ChooseFill
       PROVE  HandlerOK(rep')
  <2>1. PICK rows \in Visits(rep.spec) :
          LET current == DocumentsForQuery(store, rep.pair[1], rep.pair[2])
              fill    == IterRange(rows, current,
                                   rep.spec.limit - Cardinality(current))
          IN  rep' = IF fill = {} THEN Onward([rep EXCEPT !.pc = "refill"])
                     ELSE [rep EXCEPT !.pc = "fill", !.fill = fill]
    BY <1>10 DEF ChooseFill, Become
  <2>2. rows \subseteq docIndex
    BY DEF Visits
  <2>3. rows \subseteq Rows
    BY <2>2 DEF IInv, TypeOK
  <2>4. HandlerOK([rep EXCEPT !.pc = "refill"])
    BY <1>0 DEF HandlerOK, Handlers
  <2>5. ASSUME NEW S, S \subseteq Rows
        PROVE  HandlerOK([rep EXCEPT !.pc = "fill", !.fill = S])
    BY <1>0, <1>10, <2>5 DEF ChooseFill, HandlerOK, Handlers
  <2>6. \A Q, n : IterRange(rows, Q, n) \subseteq Rows
    BY <2>3 DEF IterRange
  <2> QED
    BY <2>1, <2>4, <2>5, <2>6, OnwardOK
<1>11. ASSUME Fill
       PROVE  HandlerOK(rep')
  <2>1. PICK e \in rep.fill :
          LET rest == [rep EXCEPT !.fill = @ \ {e}] IN
          rep' = IF rest.fill = {} THEN Onward([rest EXCEPT !.pc = "refill"])
                                   ELSE rest
    BY <1>11 DEF Fill, Notify
  <2> DEFINE rest == [rep EXCEPT !.fill = @ \ {e}]
  <2>2. HandlerOK(rest)
    BY <1>0 DEF HandlerOK, Handlers
  <2>3. HandlerOK([rest EXCEPT !.pc = "refill"])
    BY <2>2 DEF HandlerOK, Handlers
  <2> QED
    BY <2>1, <2>2, <2>3, OnwardOK
<1>12. ASSUME UNCHANGED rep
       PROVE  HandlerOK(rep')
  BY <1>0, <1>12
<1>13. ASSUME NEW c \in Conns, Connection(c)
       PROVE  UNCHANGED rep
  BY <1>13 DEF Connection, Connect, Subscribe, Snapshot, SnapshotFails,
               ApplyRow, Unsubscribe, Unregister, LeaveQueries, ClearStorage
<1>14. ASSUME Replication
       PROVE  HandlerOK(rep')
  BY <1>1, <1>2, <1>3, <1>4, <1>5, <1>6, <1>7, <1>8, <1>9, <1>10, <1>11, <1>14
     DEF Replication
<1> QED
  BY <1>12, <1>13, <1>14 DEF Next, vars, Insert, Update, Delete, Change

LEMMA ScoreOfType ==
  ASSUME TypeOK, NEW d
  PROVE  ScoreOf(d) \in Values
<1>1. CASE \E e \in table : e[2] = d
  <2> DEFINE e == CHOOSE x \in table : x[2] = d
  <2>1. e \in table
    BY <1>1
  <2>2. e \in Rows
    BY <2>1 DEF TypeOK
  <2> QED
    BY <1>1, <2>2 DEF ScoreOf, Rows, Values
<1> QED
  BY <1>1 DEF ScoreOf, Values

LEMMA RowType ==
  ASSUME NEW d \in Docs, NEW v \in Values
  PROVE  Row(d, v) \subseteq Rows
BY DEF Row, Values, Rows

LEMMA DatabaseStep ==
  ASSUME IInv, [Next]_vars
  PROVE  /\ table' \subseteq Rows /\ docIndex' \subseteq Rows
         /\ wal' \in Seq(Changes) /\ registry' \subseteq Conns
<1>0. /\ table \subseteq Rows /\ docIndex \subseteq Rows
      /\ wal \in Seq(Changes) /\ registry \subseteq Conns
  BY DEF IInv, TypeOK, Changes
<1> DEFINE Kept == UNCHANGED <<table, wal, docIndex, registry>>
<1>1. ASSUME NEW kind \in Kinds, NEW d \in Docs, NEW v \in Values,
             Change(kind, d, v)
      PROVE  /\ table' \subseteq Rows /\ wal' \in Seq(Changes)
             /\ UNCHANGED <<docIndex, registry>>
  <2>1. table' \subseteq Rows
    BY <1>0, <1>1, RowType DEF Change
  <2> DEFINE m == [kind |-> kind, doc |-> d, old |-> ScoreOf(d), new |-> v]
  <2>2. m \in Changes
    BY ScoreOfType DEF Changes, IInv
  <2>3. wal' = Append(wal, m)
    BY <1>1 DEF Change
  <2> HIDE DEF m
  <2>4. wal' \in Seq(Changes)
    BY <1>0, <2>2, <2>3
  <2> QED
    BY <1>1, <2>1, <2>4 DEF Change
<1>2. ASSUME TakeChange \/ TakeDelete
      PROVE  wal' \in Seq(Changes) /\ UNCHANGED <<table, docIndex, registry>>
  <2>1. wal # <<>> /\ wal' = Tail(wal) /\ UNCHANGED <<table, docIndex, registry>>
    BY <1>2 DEF TakeChange, TakeDelete, Take
  <2> QED
    BY <2>1, ChangeType DEF IInv
<1>3. ASSUME IndexDoc \/ UnindexDoc
      PROVE  docIndex' \subseteq Rows /\ UNCHANGED <<table, wal, registry>>
  <2>1. rep.doc \in Docs /\ rep.new \in Values
    BY InvParts DEF Handlers
  <2>2. Row(rep.doc, rep.new) \subseteq Rows
    BY <2>1, RowType
  <2> QED
    BY <1>0, <1>3, <2>2 DEF IndexDoc, UnindexDoc, database
<1>4. ASSUME Replication
      PROVE  TakeChange \/ TakeDelete \/ IndexDoc \/ UnindexDoc \/ Kept
  BY <1>4 DEF Replication, ReadConns, Tell, DropQuery, Drop, Refill, ChooseFill,
              Fill, database
<1>5. ASSUME NEW c \in Conns, Connection(c)
      PROVE  /\ UNCHANGED <<table, wal, docIndex>>
             /\ registry' \in {registry, registry \cup {c}, registry \ {c}}
  BY <1>5 DEF Connection, Connect, Subscribe, Snapshot, SnapshotFails, ApplyRow,
              Unsubscribe, Unregister, LeaveQueries, ClearStorage, database
<1>6. ASSUME NEW d \in Docs, NEW v \in Scores, Insert(d, v) \/ Update(d, v)
      PROVE  /\ table' \subseteq Rows /\ wal' \in Seq(Changes)
             /\ UNCHANGED <<docIndex, registry>>
  BY <1>1, <1>6 DEF Insert, Update, Kinds, Values
<1>7. ASSUME NEW d \in Docs, Delete(d)
      PROVE  /\ table' \subseteq Rows /\ wal' \in Seq(Changes)
             /\ UNCHANGED <<docIndex, registry>>
  BY <1>1, <1>7 DEF Delete, Kinds, Values
<1>8. CASE UNCHANGED vars
  BY <1>0, <1>8 DEF vars, database
<1>9. CASE Replication
  BY <1>0, <1>2, <1>3, <1>4, <1>9
<1>10. CASE \E c \in Conns : Connection(c)
  BY <1>0, <1>5, <1>10
<1>11. CASE \/ \E d \in Docs, v \in Scores : Insert(d, v) \/ Update(d, v)
            \/ \E d \in Docs : Delete(d)
  BY <1>0, <1>6, <1>7, <1>11
<1> QED
  BY <1>8, <1>9, <1>10, <1>11 DEF Next

-----------------------------------------------------------------------------
(* The theorems.                                                            *)

LEMMA InvInit ==
  ASSUME Init
  PROVE  IInv
<1>1. store \in Stores /\ CountsExact
  BY EmptyStoreExact DEF Init, CountsExact
<1>2. IndexOK(index)
  BY EmptyIndexOK DEF Init
<1>3. HandlerOK(rep)
  BY IdleOK DEF Init
<1>4. /\ task \in [Conns -> Tasks]
      /\ \A c \in Conns : task[c].pc \notin {"reading", "applying"}
  BY DEF Init, Tasks
<1>5. table = {} /\ docIndex = {} /\ registry = {} /\ wal = <<>>
  BY DEF Init
<1>6. wal \in Seq(Changes)
  BY <1>5
<1> QED
  BY <1>1, <1>2, <1>3, <1>4, <1>5, <1>6
     DEF IInv, TypeOK, QueriesAreHeld, IndexOK, HandlerOK, Changes

LEMMA InvNext ==
  ASSUME IInv, [Next]_vars
  PROVE  IInv'
<1>1. IndexOK(index')
  BY IndexStep
<1>2. store' \in Stores /\ CountsExactIn(store')
  BY StoreStep
<1>3. HandlerOK(rep')
  BY HandlerStep
<1>4. /\ task' \in [Conns -> Tasks]
      /\ \A c \in Conns : task'[c].pc \in {"reading", "applying"}
                             => task'[c].query # NoQuery
  BY TaskStep
<1>5. /\ table' \subseteq Rows /\ docIndex' \subseteq Rows
      /\ wal' \in Seq(Changes) /\ registry' \subseteq Conns
  BY DatabaseStep
<1>6. TypeOK'
  BY <1>1, <1>2, <1>3, <1>4, <1>5 DEF TypeOK, IndexOK, HandlerOK, Changes
<1>7. CountsExact'
  BY <1>2 DEF CountsExact
<1>8. QueriesAreHeld'
  BY <1>1 DEF QueriesAreHeld, IndexOK
<1> QED
  BY <1>6, <1>7, <1>8 DEF IInv

LEMMA Invariance == Spec => []IInv
<1>1. Init => IInv
  BY InvInit
<1>2. IInv /\ [Next]_vars => IInv'
  BY InvNext
<1> QED
  BY <1>1, <1>2, PTL DEF Spec

\* The storage, the index, the handler and the tasks always hold values of
\* their types, and query ids are handed out in order (replication.rs,
\* websocket.rs, storage.rs, range_query_index.rs).
THEOREM TypeCorrect == Spec => []TypeOK
<1>1. IInv => TypeOK
  BY DEF IInv
<1> QED
  BY <1>1, Invariance, PTL

\* The count kept per document and connection is the number of the queries
\* that give it, whatever changes, snapshots and cleanups interleave: no
\* transaction loses an increment or makes a decrement twice
\* (storage.rs:119-389).
THEOREM CountsStayExact == Spec => []CountsExact
<1>1. IInv => CountsExact
  BY DEF IInv
<1> QED
  BY <1>1, Invariance, PTL

\* A query lives exactly as long as a connection holds it, and no document is
\* tracked for one that is gone (websocket.rs:213-223,
\* range_query_index.rs:51-117).
THEOREM QueriesStayHeld == Spec => []QueriesAreHeld
<1>1. IInv => QueriesAreHeld
  BY DEF IInv
<1> QED
  BY <1>1, Invariance, PTL

==============================================================================
