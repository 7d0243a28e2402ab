-------------------------- MODULE SubscriptionStore --------------------------
(***************************************************************************)
(* The subscription storage of btree-pubsub (storage.rs): which document a  *)
(* connection has through which query, and through how many queries.  Each  *)
(* method is one LMDB transaction, hence an operator from a value of the    *)
(* store to the next.                                                       *)
(***************************************************************************)
EXTENDS Integers, FiniteSets

CONSTANTS Conns, Docs, QueryIds

ASSUME QueryIdsAssumption == IsFiniteSet(QueryIds)

\* DocState: "deleted" is -1, "notset" 0, "exists" 1; "absent" is no key.
EntryStates == {"absent", "deleted", "notset", "exists"}

\* connection_documents and document_connections; a missing count is 0.
Keys   == Conns \X QueryIds \X Docs
Stores == [entry : [Keys -> EntryStates], count : [Conns \X Docs -> Nat]]

EmptyStore == [entry |-> [k \in Keys |-> "absent"],
               count |-> [p \in Conns \X Docs |-> 0]]

\* A count goes down; its key is deleted with the last one.
Lowered(n, m) == IF n <= m THEN 0 ELSE n - m

\* Those of the queries Q through which connection c has document d.
Held(s, c, Q, d) == {q \in Q : s.entry[<<c, q, d>>] = "exists"}
Through(s, c, d) == Held(s, c, QueryIds, d)

\* The keys of document d in the queries Q of connection c.
KeysOf(c, Q, d) == {c} \X Q \X {d}

\* Mutant of AddDocument: the count is raised whatever the entry was.
AddDocumentAgain(s, c, Q, d) ==
  [entry |-> [k \in Keys |-> IF k \in KeysOf(c, Q, d) THEN "exists"
                                                     ELSE s.entry[k]],
   count |-> [s.count EXCEPT ![<<c, d>>] = @ + Cardinality(Q)]]

\* add_document_to_connection, for each query of Q: any state becomes "exists".
AddDocument(s, c, Q, d) ==
  [entry |-> [k \in Keys |-> IF k \in KeysOf(c, Q, d) THEN "exists"
                                                     ELSE s.entry[k]],
   count |-> [s.count EXCEPT ![<<c, d>>] =
                @ + Cardinality(Q \ Held(s, c, Q, d))]]

\* handle_deletion, for each query of Q: a missing key is set to "deleted", a
\* key is deleted.
HandleDeletion(s, c, Q, d) ==
  [entry |-> [k \in Keys |-> IF k \notin KeysOf(c, Q, d) THEN s.entry[k]
                             ELSE IF s.entry[k] = "absent" THEN "deleted"
                             ELSE "absent"],
   count |-> [s.count EXCEPT ![<<c, d>>] =
                Lowered(@, Cardinality(Held(s, c, Q, d)))]]

\* apply_db_result: a row of a snapshot.  A document deleted since is kept as
\* "notset", any other exists.
ApplyDbResult(s, c, q, d) ==
  IF s.entry[<<c, q, d>>] = "deleted"
    THEN [s EXCEPT !.entry = [@ EXCEPT ![<<c, q, d>>] = "notset"]]
    ELSE AddDocument(s, c, {q}, d)

\* The entries of connection c for the queries Q go.
Cleared(s, c, Q) ==
  [k \in Keys |-> IF k[1] = c /\ k[2] \in Q THEN "absent" ELSE s.entry[k]]

\* Mutant of RemoveQueries: the counts are left alone.
RemoveQueriesUncounted(s, c, Q) ==
  [entry |-> Cleared(s, c, Q), count |-> s.count]

\* The count of a document is lowered once for each of its entries that exists.
RemoveQueries(s, c, Q) ==
  [entry |-> Cleared(s, c, Q),
   count |-> [p \in Conns \X Docs |->
                IF p[1] = c
                  THEN Lowered(s.count[p], Cardinality(Held(s, c, Q, p[2])))
                  ELSE s.count[p]]]

RemoveQueryForConnection(s, c, q) == RemoveQueries(s, c, {q})
RemoveConnection(s, c)            == RemoveQueries(s, c, QueryIds)

\* get_documents_for_query: the keys, in whatever state.
DocumentsForQuery(s, c, q) == {d \in Docs : s.entry[<<c, q, d>>] # "absent"}

\* The count of a document is the number of queries that give it.
CountsExactIn(s) ==
  \A c \in Conns, d \in Docs : s.count[<<c, d>>] = Cardinality(Through(s, c, d))

==============================================================================
