------------------------------- MODULE PubSub -------------------------------
(***************************************************************************)
(* The btree-pubsub server: PostgreSQL with its replication stream, the     *)
(* task that handles one change after the other (replication.rs), and one   *)
(* task per connection (websocket.rs).  They share the range index and the  *)
(* document index, each behind a read-write lock, the subscription storage  *)
(* and the registry of connections.  Tasks run in parallel: an action is    *)
(* what a task does under one lock, in one transaction or in one await.     *)
(***************************************************************************)
EXTENDS SubscriptionStore, Sequences

CONSTANTS Scores,
          Specs,       \* queries, [min, max, limit]
          Asks,        \* the queries each client may ask for
          Unlimited,   \* the limit of a query without one (u32::MAX)
          MaxChanges,  \* bound: changes of the table
          MaxQueries   \* bound: query ids handed out

ASSUME SomeDocs         == Docs # {}
ASSUME SomeSpecs        == Specs # {} /\ Asks \in [Conns -> SUBSET Specs]
ASSUME QueryIdsAreSmall == QueryIds = 0..(MaxQueries - 1)
ASSUME UnlimitedIsLarge == /\ IsFiniteSet(Docs) /\ Unlimited \in Nat
                           /\ Unlimited > Cardinality(Docs)

VARIABLES table,       \* the rows <<score, doc>> of the docs table
          wal,         \* the changes not yet handled
          changes,     \* the number of changes so far
          index,       \* RangeQueryIndex
          docIndex,    \* DocIndex: pairs <<score, doc>>
          registry,    \* the connections that receive notifications
          store,       \* SubscriptionStore
          task,        \* the tasks of the connections
          rep,         \* the replication task
          told         \* of the change being handled: what each connection,
                       \* whose queries have no limit and are those it had when
                       \* it was taken, had of the document and was sent about it

database    == <<table, wal, changes>>
vars        == <<database, index, docIndex, registry, store, task, rep, told>>

NoScore == -1
NoQuery == -1
NoDoc   == CHOOSE d \in Docs : TRUE

ASSUME ScoresAreScores == Scores \subseteq Int /\ NoScore \notin Scores

-----------------------------------------------------------------------------
(* RangeQueryIndex.  The triple of a query identifies it while it lives.    *)

EmptyIndex == [queries |-> <<>>, nextId |-> 0,
               subs |-> [q \in QueryIds |-> {}],
               tracked |-> [d \in Docs |-> {}]]

Live(x) == DOMAIN x.queries

InRange(spec, v) == spec.min <= v /\ v <= spec.max

\* The queries a value falls in.  A query without a limit covers its range;
\* of one with a limit the treap covers a part that depends on its shape.
Covers(x, v) ==
  LET fits == {q \in Live(x) : InRange(x.queries[q], v)}
      all  == {q \in fits : x.queries[q].limit = Unlimited}
  IN  {all \cup S : S \in SUBSET (fits \ all)}

\* lookup_range_query_id
IdsOf(x, spec) == {q \in Live(x) : x.queries[q] = spec}

\* add_query
WithQuery(x, spec, q) ==
  [p \in Live(x) \cup {q} |-> IF p = q THEN spec ELSE x.queries[p]]

\* Mutant of Subscribed: the next id is not advanced.
SubscribedSameId(x, c, spec, q) ==
  [queries |-> WithQuery(x, spec, q), nextId |-> x.nextId,
   subs    |-> [x.subs EXCEPT ![q] = @ \cup {c}], tracked |-> x.tracked]

\* add_query and subscribe_connection
Subscribed(x, c, spec, q) ==
  [queries |-> WithQuery(x, spec, q),
   nextId  |-> IF q = x.nextId THEN q + 1 ELSE x.nextId,
   subs    |-> [x.subs EXCEPT ![q] = @ \cup {c}], tracked |-> x.tracked]

\* unsubscribe_connection
WithoutConn(x, c, Q) ==
  [q \in QueryIds |-> IF q \in Q THEN x.subs[q] \ {c} ELSE x.subs[q]]

\* Mutant of Unsubscribed: queries without a connection stay.
UnsubscribedOnly(x, c, Q) == [x EXCEPT !.subs = WithoutConn(x, c, Q)]

\* unsubscribe_connection of the queries in Q, and remove_query of those that
\* are left without a connection.
Unsubscribed(x, c, Q) ==
  LET unheld == {q \in Q : x.subs[q] \subseteq {c}}
  IN  [queries |-> [q \in Live(x) \ unheld |-> x.queries[q]],
       nextId  |-> x.nextId,
       subs    |-> WithoutConn(x, c, Q),
       tracked |-> [d \in Docs |-> x.tracked[d] \ unheld]]

-----------------------------------------------------------------------------
(* The database.  Rows are inserted, updated and deleted; the old row comes *)
(* with every change (REPLICA IDENTITY FULL).                               *)

ScoreOf(d) ==
  IF \E e \in table : e[2] = d THEN (CHOOSE e \in table : e[2] = d)[1]
                               ELSE NoScore

Row(d, v) == IF v = NoScore THEN {} ELSE {<<v, d>>}

Change(kind, d, v) ==
  /\ changes < MaxChanges
  /\ changes' = changes + 1
  /\ table' = (table \ Row(d, ScoreOf(d))) \cup Row(d, v)
  /\ wal' = Append(wal, [kind |-> kind, doc |-> d, old |-> ScoreOf(d), new |-> v])
  /\ UNCHANGED <<index, docIndex, registry, store, task, rep, told>>

Insert(d, v) == ScoreOf(d) = NoScore /\ Change("insert", d, v)
Update(d, v) == ScoreOf(d) # NoScore /\ Change("update", d, v)
Delete(d)    == ScoreOf(d) # NoScore /\ Change("delete", d, NoScore)

-----------------------------------------------------------------------------
(* The replication task.                                                    *)

Idle == [pc |-> "idle", kind |-> "none", doc |-> NoDoc,
         old |-> NoScore, new |-> NoScore,
         before |-> {}, after |-> {},       \* queries; of a delete: to drop
         wasIn |-> [c \in Conns |-> {}],    \* before and after, of each
         isIn  |-> [c \in Conns |-> {}],    \* connection
         todo  |-> {},                      \* connections still to be told,
         query |-> NoQuery,                 \* of this query, in a delete
         refills |-> {},                    \* pairs <<connection, query>>
         spec |-> CHOOSE x \in Specs : TRUE,   \* the query being refilled
         pair |-> <<>>,                        \* with its connection
         fill |-> {}]                       \* the rows the refill still adds

\* The handler goes on when there is nothing left to refill.
Onward(r) ==
  IF r.pc # "refill" \/ r.refills # {} THEN r
  ELSE IF r.kind = "delete" THEN [r EXCEPT !.pc = "drop"] ELSE Idle

\* The replication task goes to r; once idle it is between two changes.
Become(r) == /\ rep' = r
             /\ told' = IF r.pc = "idle" THEN <<>> ELSE told

\* registry.notify: a connection that is not registered gets nothing.
Notify(r, c, d, what) ==
  /\ rep' = r
  /\ told' = IF r.pc = "idle" THEN <<>>
             ELSE IF c \in registry \cap DOMAIN told /\ d = rep.doc
               THEN [told EXCEPT ![c].events = Append(@, what)]
             ELSE told

QueriesOf(x, c) == {q \in QueryIds : c \in x.subs[q]}

AllUnlimited(c) ==
  \A q \in QueriesOf(index, c) : index.queries[q].limit = Unlimited

\* The connections whose notifications are followed: their queries cover exactly
\* their ranges.
Watchers == {c \in registry : QueriesOf(index, c) # {} /\ AllUnlimited(c)}

\* Before change m: of an insert or update, whether the index tracks the document
\* for a query of c (document_queries); of a delete, whether the storage has it.
Untold(c, m) ==
  LET Q == QueriesOf(index, c)
  IN  [tracked |-> m.kind # "delete" /\ index.tracked[m.doc] \cap Q # {},
       has     |-> m.kind = "delete" /\ Held(store, c, Q, m.doc) # {},
       events  |-> <<>>]

\* Under the write lock the change enters the range index.
Take(pc, before, after) ==
  LET m == Head(wal) IN
  /\ rep.pc = "idle"
  /\ wal' = Tail(wal)
  /\ index' = [index EXCEPT !.tracked[m.doc] = after]
  /\ rep' = [Idle EXCEPT !.pc = pc, !.kind = m.kind, !.doc = m.doc,
                         !.old = m.old, !.new = m.new,
                         !.before = before, !.after = after]
  /\ told' = [c \in Watchers |-> Untold(c, m)]
  /\ UNCHANGED <<table, changes, docIndex, registry, store, task>>

TakeChange ==
  /\ wal # <<>> /\ Head(wal).kind \in {"insert", "update"}
  /\ \E after \in Covers(index, Head(wal).new) :
       Take("conns", index.tracked[Head(wal).doc], after)

TakeDelete ==
  /\ wal # <<>> /\ Head(wal).kind = "delete"
  /\ Take("drop", index.tracked[Head(wal).doc], {})

Of(Q, c) == {q \in Q : c \in index.subs[q]}

\* Mutant of ReadConns: only the connections that had the document.
ReadConnsBefore ==
  /\ rep.pc = "conns"
  /\ rep' = [rep EXCEPT !.pc = "tell", !.before = {}, !.after = {},
               !.wasIn = [c \in Conns |-> Of(rep.before, c)],
               !.isIn  = [c \in Conns |-> Of(rep.after, c)],
               !.todo  = {c \in Conns : Of(rep.before, c) # {}}]
  /\ UNCHANGED <<database, index, docIndex, registry, store, task, told>>

\* The connections of the queries are read, under the read lock.
ReadConns ==
  /\ rep.pc = "conns"
  /\ rep' = [rep EXCEPT !.pc = "tell", !.before = {}, !.after = {},
               !.wasIn = [c \in Conns |-> Of(rep.before, c)],
               !.isIn  = [c \in Conns |-> Of(rep.after, c)],
               !.todo  = {c \in Conns : Of(rep.before \cup rep.after, c) # {}}]
  /\ UNCHANGED <<database, index, docIndex, registry, store, task, told>>

\* Mutant of Kind: leaving one of several queries removes the document.
KindByQuery(was, is) ==
  IF was = {} THEN "added" ELSE IF was \ is # {} THEN "removed" ELSE "updated"

Kind(was, is) ==
  IF was = {} THEN "added" ELSE IF is = {} THEN "removed" ELSE "updated"

\* One connection gets its entries, and one notification.
Tell(c) ==
  LET was == rep.wasIn[c]  is == rep.isIn[c]
  IN  /\ rep.pc = "tell" /\ c \in rep.todo
      /\ store' = HandleDeletion(AddDocument(store, c, is \ was, rep.doc),
                                 c, was \ is, rep.doc)
      /\ Notify([rep EXCEPT !.todo = @ \ {c}, !.wasIn[c] = {}, !.isIn[c] = {},
                            !.refills = @ \cup ({c} \X (was \ is))],
                c, rep.doc, Kind(was, is))
      /\ UNCHANGED <<database, index, docIndex, registry, task>>

\* The document index follows; then come the refills of an update.
IndexDoc ==
  /\ rep.pc = "tell" /\ rep.todo = {}
  /\ docIndex' = (docIndex \ Row(rep.doc, rep.old)) \cup Row(rep.doc, rep.new)
  /\ Become(Onward([rep EXCEPT !.pc = "refill"]))
  /\ UNCHANGED <<database, index, registry, store, task>>

\* handle_delete goes through the queries one by one, and reads the
\* connections of each.
DropQuery(q) ==
  /\ rep.pc = "drop" /\ rep.todo = {} /\ q \in rep.before
  /\ rep' = [rep EXCEPT !.before = @ \ {q}, !.query = q, !.todo = index.subs[q]]
  /\ UNCHANGED <<database, index, docIndex, registry, store, task, told>>

\* A refill follows for each connection and query.
Drop(c) ==
  /\ rep.pc = "drop" /\ c \in rep.todo
  /\ store' = HandleDeletion(store, c, {rep.query}, rep.doc)
  /\ Notify([rep EXCEPT !.pc = "refill", !.todo = @ \ {c},
                        !.refills = {<<c, rep.query>>}], c, rep.doc, "removed")
  /\ UNCHANGED <<database, index, docIndex, registry, task>>

\* Mutant of UnindexDoc: the document stays in the index.
UnindexNothing ==
  /\ rep.pc = "drop" /\ rep.todo = {} /\ rep.before = {}
  /\ Become(Idle)
  /\ UNCHANGED <<database, index, docIndex, registry, store, task>>

UnindexDoc ==
  /\ rep.pc = "drop" /\ rep.todo = {} /\ rep.before = {}
  /\ docIndex' = docIndex \ Row(rep.doc, rep.old)
  /\ Become(Idle)
  /\ UNCHANGED <<database, index, registry, store, task>>

\* refill_deficit looks the query up; nothing is done for one that is gone.  A
\* query without a limit is refilled too: its limit is not "infinite".
Refill(r) ==
  /\ rep.pc = "refill" /\ r \in rep.refills
  /\ LET rest == [rep EXCEPT !.refills = @ \ {r}]
         next == [rest EXCEPT !.pc = "choose", !.pair = r,
                              !.spec = index.queries[r[2]]]
     IN  Become(IF r[2] \in Live(index) THEN next ELSE Onward(rest))
  /\ UNCHANGED <<database, index, docIndex, registry, store, task>>

Smaller(e, f) == e[1] < f[1] \/ (e[1] = f[1] /\ e[2] < f[2])

\* iter_range prunes at a row whose score is a bound of the range: of several
\* rows with that score it may miss some, as the priorities of the treap fall.
Visits(spec) ==
  LET rows  == {e \in docIndex : InRange(spec, e[1])}
      low   == {e \in rows : e[1] = spec.min}
      high  == {e \in rows : e[1] = spec.max}
      inner == rows \ (low \cup high)
  IN  IF spec.min = spec.max
      THEN {{e} : e \in rows} \cup (IF rows = {} THEN {{}} ELSE {})
      ELSE {S \in SUBSET rows :
              /\ inner \subseteq S
              /\ \A e \in low : e \in S \/ \E f \in low : Smaller(e, f)
              /\ \A e \in high : e \in S \/ \E f \in high : Smaller(f, e)}

\* The first n of the visited rows whose documents are not to be skipped.
IterRange(rows, skip, n) ==
  LET kept == {e \in rows : e[2] \notin skip}
  IN  {e \in kept : Cardinality({f \in kept : Smaller(f, e)}) < n}

\* What the connection has of the query is read from the storage.
ChooseFill ==
  /\ rep.pc = "choose"
  /\ \E rows \in Visits(rep.spec) :
       LET current == DocumentsForQuery(store, rep.pair[1], rep.pair[2])
           fill    == IterRange(rows, current, rep.spec.limit - Cardinality(current))
       IN  Become(IF fill = {} THEN Onward([rep EXCEPT !.pc = "refill"])
                  ELSE [rep EXCEPT !.pc = "fill", !.fill = fill])
  /\ UNCHANGED <<database, index, docIndex, registry, store, task>>

\* The documents are added in order, each with its notification.
Fill ==
  /\ rep.pc = "fill"
  /\ \E e \in rep.fill :
       LET rest == [rep EXCEPT !.fill = @ \ {e}] IN
       /\ \A f \in rest.fill : Smaller(e, f)
       /\ store' = AddDocument(store, rep.pair[1], {rep.pair[2]}, e[2])
       /\ Notify(IF rest.fill = {} THEN Onward([rest EXCEPT !.pc = "refill"])
                                   ELSE rest,
                 rep.pair[1], e[2], "added")
  /\ UNCHANGED <<database, index, docIndex, registry, task>>

Replication ==
  \/ TakeChange \/ TakeDelete \/ ReadConns \/ IndexDoc \/ UnindexDoc
  \/ ChooseFill \/ Fill
  \/ \E c \in Conns : Tell(c) \/ Drop(c)
  \/ \E q \in QueryIds : DropQuery(q)
  \/ \E r \in Conns \X QueryIds : Refill(r)

-----------------------------------------------------------------------------
(* The task of a connection.  Connection ids are never used again.          *)

At(c, pc) == task[c].pc = pc
Goto(c, pc) == task' = [task EXCEPT ![c].pc = pc]
\* The subscriptions of c change: its notifications are no longer counted.
Resubscribed(c) == told' = [x \in DOMAIN told \ {c} |-> told[x]]

Connect(c) ==
  /\ At(c, "new")
  /\ registry' = registry \cup {c}
  /\ Goto(c, "listening")
  /\ UNCHANGED <<database, index, docIndex, store, rep, told>>

\* handle_subscribe: the query exists, or is added.
Subscribe(c, spec) ==
  /\ At(c, "listening")
  /\ \E q \in IF IdsOf(index, spec) # {} THEN IdsOf(index, spec)
              ELSE {index.nextId} \cap QueryIds :
       /\ index' = Subscribed(index, c, spec, q)
       /\ task' = [task EXCEPT ![c] = [pc |-> "reading", query |-> q, rows |-> {}]]
  /\ Resubscribed(c)
  /\ UNCHANGED <<database, docIndex, registry, store, rep>>

\* ORDER BY score LIMIT: any of the rows with the last score may be left out.
FirstRows(spec) ==
  LET rows == {e \in table : InRange(spec, e[1])}
      n    == IF Cardinality(rows) < spec.limit THEN Cardinality(rows)
                                                 ELSE spec.limit
  IN  {S \in SUBSET rows : /\ Cardinality(S) = n
                           /\ \A e \in S, f \in rows \ S : e[1] <= f[1]}

Listening == [pc |-> "listening", query |-> NoQuery, rows |-> {}]

\* An error ends the task without any cleanup: the connection stays registered
\* and its queries stay subscribed.
Failed == [pc |-> "failed", query |-> NoQuery, rows |-> {}]

\* The answer to a request is sent, or the channel to the client is closed.
Answered == {Listening, Failed}

\* The subscription is acknowledged once every row of the snapshot is applied.
Applying(q, rows) == IF rows = {} THEN Answered
                     ELSE {[pc |-> "applying", query |-> q, rows |-> rows]}

\* The task of c goes on with one of the states S.
Becomes(c, S) == \E t \in S : task' = [task EXCEPT ![c] = t]

\* The snapshot is read from the database.
Snapshot(c) ==
  /\ At(c, "reading")
  /\ \E S \in FirstRows(index.queries[task[c].query]) :
       Becomes(c, Applying(task[c].query, {e[2] : e \in S}))
  /\ UNCHANGED <<database, index, docIndex, registry, store, rep, told>>

\* An error of the database, or of the storage before a row is applied.
SnapshotFails(c) ==
  /\ At(c, "reading") \/ At(c, "applying")
  /\ Becomes(c, {Failed})
  /\ UNCHANGED <<database, index, docIndex, registry, store, rep, told>>

ApplyRow(c, d) ==
  /\ At(c, "applying") /\ d \in task[c].rows
  /\ store' = ApplyDbResult(store, c, task[c].query, d)
  /\ Becomes(c, Applying(task[c].query, task[c].rows \ {d}))
  /\ UNCHANGED <<database, index, docIndex, registry, rep, told>>

\* handle_unsubscribe holds the write lock over the change of the storage.
Unsubscribe(c, spec) ==
  /\ At(c, "listening")
  /\ \E q \in IdsOf(index, spec) :
       /\ index' = Unsubscribed(index, c, {q})
       /\ store' = RemoveQueryForConnection(store, c, q)
  /\ Becomes(c, Answered)
  /\ Resubscribed(c)
  /\ UNCHANGED <<database, docIndex, registry, rep>>

\* The client is gone.  The three parts of the cleanup follow each other.
Unregister(c) ==
  /\ At(c, "listening")
  /\ registry' = registry \ {c}
  /\ Goto(c, "leaving")
  /\ Resubscribed(c)
  /\ UNCHANGED <<database, index, docIndex, store, rep>>

LeaveQueries(c) ==
  /\ At(c, "leaving")
  /\ index' = Unsubscribed(index, c, QueriesOf(index, c))
  /\ Goto(c, "clearing")
  /\ UNCHANGED <<database, docIndex, registry, store, rep, told>>

ClearStorage(c) ==
  /\ At(c, "clearing")
  /\ store' = RemoveConnection(store, c)
  /\ Goto(c, "gone")
  /\ UNCHANGED <<database, index, docIndex, registry, rep, told>>

Connection(c) ==
  \/ Connect(c) \/ Snapshot(c) \/ SnapshotFails(c)
  \/ Unregister(c) \/ LeaveQueries(c) \/ ClearStorage(c)
  \/ \E d \in Docs : ApplyRow(c, d)
  \/ \E spec \in Asks[c] : Subscribe(c, spec) \/ Unsubscribe(c, spec)

-----------------------------------------------------------------------------

Init ==
  /\ table = {} /\ wal = <<>> /\ changes = 0
  /\ index = EmptyIndex /\ docIndex = {} /\ registry = {}
  /\ store = EmptyStore
  /\ task = [c \in Conns |-> [pc |-> "new", query |-> NoQuery, rows |-> {}]]
  /\ rep = Idle
  /\ told = <<>>

Next ==
  \/ \E d \in Docs, v \in Scores : Insert(d, v) \/ Update(d, v)
  \/ \E d \in Docs : Delete(d)
  \/ Replication
  \/ \E c \in Conns : Connection(c)

Spec == Init /\ [][Next]_vars

-----------------------------------------------------------------------------
(* Properties.                                                              *)

Rows == Scores \X Docs
Values == Scores \cup {NoScore}
Kinds == {"insert", "update", "delete"}

Indexes ==
  [queries : UNION {[Q -> Specs] : Q \in SUBSET QueryIds}, nextId : Nat,
   subs : [QueryIds -> SUBSET Conns], tracked : [Docs -> SUBSET QueryIds]]

Handlers ==
  [pc : {"idle", "conns", "tell", "refill", "choose", "fill", "drop"},
   kind : Kinds \cup {"none"}, doc : Docs, old : Values, new : Values,
   before : SUBSET QueryIds, after : SUBSET QueryIds,
   wasIn : [Conns -> SUBSET QueryIds], isIn : [Conns -> SUBSET QueryIds],
   todo : SUBSET Conns, query : QueryIds \cup {NoQuery},
   refills : SUBSET (Conns \X QueryIds), spec : Specs,
   pair : (Conns \X QueryIds) \cup {<<>>}, fill : SUBSET Rows]

Tasks ==
  [pc : {"new", "listening", "reading", "applying", "failed", "leaving",
         "clearing", "gone"},
   query : QueryIds \cup {NoQuery}, rows : SUBSET Docs]

\* Type invariant: the storage, the index and the tasks hold values of their
\* types, a handler and a snapshot know their query where they use it, and
\* query ids are handed out in order (replication.rs, websocket.rs, storage.rs).
TypeOK ==
  /\ table \subseteq Rows /\ docIndex \subseteq Rows
  /\ wal \in Seq([kind : Kinds, doc : Docs, old : Values, new : Values])
  /\ store \in Stores /\ registry \subseteq Conns
  /\ index \in Indexes /\ Live(index) \subseteq 0..(index.nextId - 1)
  /\ rep \in Handlers
  /\ rep.pc \in {"choose", "fill"} => rep.pair # <<>>
  /\ rep.pc \in {"conns", "tell"} => rep.kind # "delete"
  /\ rep.pc = "drop" => rep.kind = "delete"
  /\ rep.kind = "delete" /\ rep.todo # {} => rep.query # NoQuery
  /\ task \in [Conns -> Tasks]
  /\ \A c \in Conns : task[c].pc \in {"reading", "applying"}
                         => task[c].query # NoQuery

\* However deletions, additions, snapshots and cleanups interleave, the count
\* kept per document and connection is the number of queries that give the
\* document (storage.rs:119-389).
CountsExact == CountsExactIn(store)

\* A query lives exactly as long as a connection holds it, and no document is
\* tracked for a query that is gone: ids can be handed out and looked up
\* without leaking (websocket.rs:213-223, range_query_index.rs:103-117).
QueriesAreHeld ==
  /\ Live(index) = {q \in QueryIds : index.subs[q] # {}}
  /\ \A d \in Docs : index.tracked[d] \subseteq Live(index)

\* The changes of document d that wait, by their places.
Waiting(d) == {i \in DOMAIN wal : wal[i].doc = d}

\* v is the score of document d before the changes that wait: the one the first
\* of them replaces, or that of the table.
Handled(d, v) ==
  /\ Waiting(d) = {} => v = ScoreOf(d)
  /\ \A i \in Waiting(d) : (\A j \in Waiting(d) : i <= j) => v = wal[i].old

RowsOf(D, d) == {e \in D : e[2] = d}

\* Between two changes the document index holds the rows of the table as it
\* was before the changes that wait: refills choose from real documents
\* (replication.rs:272-276, :496-500, :578-580).
IndexFollowsTable ==
  rep.pc = "idle" =>
    \A d \in Docs : \E v \in Values :
      Handled(d, v) /\ RowsOf(docIndex, d) = Row(d, v)

Matching(c, v) == {q \in QueriesOf(index, c) : InRange(index.queries[q], v)}

\* The events of a change for a connection: whether it watched the document
\* before, and whether it matches one of its queries after.
Events(watched, matches) ==
  IF matches THEN IF watched THEN <<"updated">> ELSE <<"added">>
             ELSE IF watched THEN <<"removed">> ELSE <<>>

\* What c was sent about the document, with what the refill in hand will add.
Sent(c) ==
  told[c].events \o
    IF rep.pc = "fill" /\ rep.pair[1] = c /\ \E e \in rep.fill : e[2] = rep.doc
      THEN <<"added">> ELSE <<>>

\* Once an insert or an update has been handled, a connection whose
\* subscriptions, all without a limit, have not changed meanwhile was sent
\* exactly one event of the right kind, or none: by its queries that tracked the
\* document before the change, and those that match it now, one event for all of
\* them together, refills included (replication.rs:245-270, :436-501).  A
\* document that came with a snapshot is not tracked before it changes: this
\* says what follows from the index, DeleteIsTold what such a client is owed.
UpdateIsTold ==
  [][(rep.kind \in {"insert", "update"} /\ rep'.pc = "idle") =>
       \A c \in DOMAIN told : AllUnlimited(c) =>
         Sent(c) = Events(told[c].tracked, Matching(c, rep.new) # {})]_vars

\* "Delete: emit `removed` to every connection that was watching the document",
\* and "at most one event per document change" (specs/change-events.md:25, :40):
\* when handle_delete has told everybody, each connection that had the document
\* was sent "removed", and nothing else.
DeleteIsTold ==
  (rep.pc = "drop" /\ rep.todo = {} /\ rep.before = {}) =>
    \A c \in DOMAIN told : told[c].has => told[c].events = <<"removed">>

\* At rest, the storage has, not as deleted, every document of the table that
\* an acknowledged query without a limit matches: a document that changes while
\* the snapshot is read is not lost (storage.rs:9-12, websocket.rs:289-293).
NothingMissed ==
  (rep.pc = "idle" /\ wal = <<>>) =>
    \A c \in Conns : At(c, "listening") =>
      \A q \in QueriesOf(index, c) : index.queries[q].limit = Unlimited =>
        \A e \in table : InRange(index.queries[q], e[1])
                           => store.entry[<<c, q, e[2]>>] \in {"exists", "notset"}

==============================================================================
