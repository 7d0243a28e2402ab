----------------------------- MODULE TopKQueries -----------------------------
(***************************************************************************)
(* What a limit operator promises, without an index: the documents, the     *)
(* specs of the live queries, and for each change the exact difference it   *)
(* makes to the window (the first k documents of the range) of every query. *)
(* LimitStream.tla implements it as long as a document does not change its  *)
(* score.                                                                   *)
(***************************************************************************)
EXTENDS DocsIndex

CONSTANTS Docs, Scores, Specs, MaxQueries

VARIABLES docs,    \* the pairs <<score, id>> of the existing documents
          specs,   \* [a, k, max] of each live query
          nextId,  \* the id of the next query
          delta    \* what the last step told downstream

vars == <<docs, specs, nextId, delta>>

Window(D, spec) == CollectRange(D, spec.a, spec.max, spec.k)
Ids(D) == {e[2] : e \in D}
Members(D, q) == Ids(Window(D, specs[q]))

Silence == [left |-> {}, entered |-> {}, displaced |-> {}, fetched |-> {}]

\* The difference between the windows over D and over E, where document d is
\* the one that changed.
Difference(D, E, d) ==
  LET live == DOMAIN specs
      lostBy(q)   == Members(D, q) \ Members(E, q)
      gainedBy(q) == Members(E, q) \ Members(D, q)
  IN  [left      |-> {q \in live : d \in lostBy(q)},
       entered   |-> {q \in live : d \in gainedBy(q)},
       displaced |-> {p \in live \X Docs : p[2] # d /\ p[2] \in lostBy(p[1])},
       fetched   |-> {p \in live \X Docs : p[2] # d /\ p[2] \in gainedBy(p[1])}]

Init == docs = {} /\ specs = << >> /\ nextId = 1 /\ delta = Silence

Insert(v, d) ==
  /\ d \notin Ids(docs)
  /\ docs' = docs \cup {<<v, d>>}
  /\ delta' = Difference(docs, docs', d)
  /\ UNCHANGED <<specs, nextId>>

Delete(v, d) ==
  /\ <<v, d>> \in docs
  /\ docs' = docs \ {<<v, d>>}
  /\ delta' = Difference(docs, docs', d)
  /\ UNCHANGED <<specs, nextId>>

\* The document changes and keeps its place: every query showing it is told,
\* as one that shows it before and after.
Touch(v, d) ==
  /\ <<v, d>> \in docs
  /\ LET showing == {q \in DOMAIN specs : d \in Members(docs, q)}
     IN  delta' = [Silence EXCEPT !.left = showing, !.entered = showing]
  /\ UNCHANGED <<docs, specs, nextId>>

\* A new query is shown its whole window.
AddQuery(spec) ==
  /\ nextId <= MaxQueries
  /\ specs' = [q \in DOMAIN specs \cup {nextId} |->
                 IF q = nextId THEN spec ELSE specs[q]]
  /\ delta' = [Silence EXCEPT !.fetched =
                 {nextId} \X Ids(Window(docs, spec))]
  /\ nextId' = nextId + 1
  /\ UNCHANGED docs

RemoveQuery(q) ==
  /\ q \in DOMAIN specs
  /\ specs' = [p \in DOMAIN specs \ {q} |-> specs[p]]
  /\ delta' = Silence
  /\ UNCHANGED <<docs, nextId>>

\* The initial documents, before there is a query to tell about them.
Seed(E) ==
  /\ DOMAIN specs = {}
  /\ docs' = docs \cup E
  /\ delta' = Silence
  /\ UNCHANGED <<specs, nextId>>

Next ==
  \/ \E v \in Scores, d \in Docs : Insert(v, d) \/ Delete(v, d) \/ Touch(v, d)
  \/ \E spec \in Specs : AddQuery(spec)
  \/ \E q \in 1 .. MaxQueries : RemoveQuery(q)
  \/ \E E \in SUBSET (Scores \X Docs) : Seed(E)

Spec == Init /\ [][Next]_vars

==============================================================================
