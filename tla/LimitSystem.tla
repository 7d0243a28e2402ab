----------------------------- MODULE LimitSystem -----------------------------
(***************************************************************************)
(* A run of thunderdb-ts: the limit stream (LimitStream.tla), the retrieval *)
(* job with the document store (RetrievalJob.tla), and a client that builds *)
(* the contents of each query from the two kinds of events, as the perf     *)
(* harness does when it checks a run (perf.ts:298-435).  The worker runs in *)
(* the same JavaScript thread: an item is handled between two awaits of the *)
(* retrieval loop, and events reach the client in the order of emission.    *)
(***************************************************************************)
EXTENDS Integers, FiniteSets

CONSTANTS Docs, Scores, Specs, MaxQueries, Moves, LateSeeds, Paced, MayFail

\* What the stream and the job assume of their constants.
ASSUME SystemAssumption ==
  /\ Docs \subseteq Nat /\ Scores \subseteq Nat
  /\ Specs \subseteq [a : Scores, k : Nat, max : Scores]
  /\ MaxQueries \in Nat
  /\ Moves \subseteq Scores \X Scores /\ LateSeeds \in BOOLEAN
  /\ Paced \in BOOLEAN /\ MayFail \in BOOLEAN

VARIABLES idx, out, failed,                          \* the limit stream
          store, batches, pc, waiter, stopped, loaded, emitted,  \* the job
          view      \* for each query, the entries <<score, doc>> the client has

streamVars == <<idx, out, failed>>
jobVars    == <<store, batches, pc, waiter, stopped, loaded, emitted>>
vars       == <<streamVars, jobVars, view>>

\* The two parts, LimitStream and RetrievalJob, with what is proved of each.
Stream == INSTANCE LimitStreamProofs
Job    == INSTANCE RetrievalJobProofs WITH Queries <- Stream!QueryIds,
                                           States  <- Scores

QueryIds == Stream!QueryIds

-----------------------------------------------------------------------------
(* The calls of a handler on the retrieval job.                             *)

\* The registrations on which register() throws now: the request is in the
\* batch that is being processed.
Refused == {r \in Stream!Pairs : Job!CannotRegister(batches, r[1], r[2])}

\* Mutant of RegisterAll: the loop ends after one registration.
RegisterOne(b, R) ==
  IF R = {} THEN b ELSE [b EXCEPT !.pending = @ \cup {CHOOSE r \in R : TRUE}]

RegisterAll(b, R) == [b EXCEPT !.pending = @ \cup R]

\* Mutant of CancelAll: nothing is cancelled.
CancelNone(b, evictions) == b

\* The cancellations, one after the other.  cancel() looks in `pending` as long
\* as the document has a request there: a request leaves `processing` only if
\* earlier ones have taken all those of its document out of `pending`.
CancelAll(b, evictions) ==
  [pending    |-> b.pending \ evictions,
   processing |-> b.processing \
     {x \in evictions : \A p \in Job!OfDoc(b.pending, x[2]) :
                          p \in evictions /\ Stream!Earlier(idx', p[1], x[1])}]

\* Registrations, then cancellations, then resolveDoc of the changed document.
\* When register() threw the handler ended there: what follows did not happen.
Calls ==
  LET b1 == RegisterAll(batches, out'.registers)
      b2 == CancelAll(b1, out'.evictions)
      b3 == IF out'.doc = Stream!NoDoc THEN b2 ELSE Job!Resolve(b2, out'.doc)
  IN  /\ failed' = out'.error
      /\ batches' = IF failed' THEN b1 ELSE b3
      /\ waiter' = (waiter /\ out'.registers = {})

-----------------------------------------------------------------------------
(* The client of the perf harness.                                          *)

WithoutDocs(entries, D) == {e \in entries : e[2] \notin D}

\* Mutant of OnMatch: evictions are not applied.
OnMatchKeepingEvicted(V, o, docs) ==
  [q \in QueryIds |->
     LET dropped == IF q \in o.matchesOld \cup o.matchesNew THEN {o.doc} ELSE {}
         taken   == IF q \in o.matchesNew THEN {e \in docs : e[2] = o.doc} ELSE {}
     IN  WithoutDocs(V[q], dropped) \cup taken]

\* A match event: the queries of matchesOld drop the document, those of
\* matchesNew take its new state, and the evicted documents go.
OnMatch(V, o, docs) ==
  [q \in QueryIds |->
     LET dropped == IF q \in o.matchesOld \cup o.matchesNew THEN {o.doc} ELSE {}
         taken   == IF q \in o.matchesNew THEN {e \in docs : e[2] = o.doc} ELSE {}
         evicted == {x[2] : x \in {y \in o.evictions : y[1] = q}}
     IN  WithoutDocs(WithoutDocs(V[q], dropped) \cup taken, evicted)]

\* A retrieval event: a document the client does not have is added.
OnRetrieval(V, event) ==
  [q \in QueryIds |->
     V[q] \cup {<<x[2], x[3]>> : x \in
                  {y \in event : y[1] = q /\ \A e \in V[q] : e[2] # y[3]}}]

-----------------------------------------------------------------------------
(* The steps.                                                               *)

\* Mutants of Put: nothing is deleted; the parts of an entry are exchanged.
PutOnly(d, S)      == store' = store \cup (S \X {d})
PutExchanged(d, S) == store' = {e \in store : e[2] # d} \cup ({d} \X S)

\* What an item does besides its handler in the stream.  S is the new state of
\* document d in the store, which is written first.
Put(d, S) == store' = {e \in store : e[2] # d} \cup (S \X {d})

Handled ==
  /\ Calls
  /\ view' = IF failed' THEN view ELSE OnMatch(view, out', idx'.docs)
  /\ emitted' = {}
  /\ UNCHANGED <<pc, stopped, loaded>>

DocInsert(d, v) == Stream!DocInsert(d, v) /\ Put(d, {v}) /\ Handled
DocDelete(d)    == Stream!DocDelete(d, Refused) /\ Put(d, {}) /\ Handled
DocTouch(d)     == Stream!DocTouch(d)     /\ UNCHANGED store /\ Handled
DocMove(d, v)   == Stream!DocMove(d, v, Refused) /\ Put(d, {v}) /\ Handled
QueryAdd(spec)  == Stream!QueryAdd(spec)  /\ UNCHANGED store /\ Handled
QueryRemove(q)  == Stream!QueryRemove(q)  /\ UNCHANGED store /\ Handled
SeedDocs(d, v)  == Stream!SeedDocs(d, v)  /\ Put(d, {v}) /\ Handled

Item ==
  /\ ~failed /\ ~stopped
  /\ \/ \E d \in Docs, v \in Scores : DocInsert(d, v)
     \/ \E d \in Docs : DocDelete(d)
     \/ \E d \in Docs : DocTouch(d)
     \/ \E d \in Docs, v \in Scores : DocMove(d, v)
     \/ \E spec \in Specs : QueryAdd(spec)
     \/ \E q \in QueryIds : QueryRemove(q)
     \/ \E d \in Docs, v \in Scores : SeedDocs(d, v)

\* The retrieval loop runs to its next await; what it emits reaches the client.
Retrieve ==
  /\ Job!Loop
  /\ view' = OnRetrieval(view, emitted')
  /\ UNCHANGED streamVars

\* The stream is over: the generator ends and stops the retrieval job.  A
\* generator that threw never gets there.
End ==
  /\ ~failed
  /\ Job!Stop
  /\ UNCHANGED <<streamVars, view>>

Init ==
  /\ Stream!Init
  /\ Job!Init
  /\ view = [q \in QueryIds |-> {}]

Next == Item \/ Retrieve \/ End

Spec == Init /\ [][Next]_vars /\ WF_vars(Retrieve)

-----------------------------------------------------------------------------
(* Properties.                                                              *)

Live == DOMAIN idx.queries
Window(q) == Stream!DocsForQuery(idx, q)
Ids(entries) == {e[2] : e \in entries}
Open(q) == {p[2] : p \in {r \in batches.pending \cup batches.processing :
                            r[1] = q}}

\* What the client has of a query.
TypeOK ==
  /\ Job!TypeOK
  /\ view \in [QueryIds -> SUBSET (Scores \X Docs)]

\* The store holds the documents of the index: every retrieval of a window
\* finds its document (limitStream.ts:162-191).
StoreIsIndex == ~failed => store = idx.docs

\* No retrieval is under way for a document outside the window: one that left
\* was cancelled or resolved, whatever moved (limitStream.ts:126-149).
NoIdleRequest ==
  ~failed => \A q \in Live : Open(q) \subseteq Ids(Window(q))

\* As long as no handler threw, the match counters stay what a recount would
\* give, also across changes of score (LimitQueries.ts:27-37).
CurrentMatchesExact == ~failed => Stream!CurrentMatchesExact

\* A move reports every query the document leaves or enters, and every other
\* document that is displaced or fetched (limitStream.ts:59-149).
AlwaysMoveReported  == [][Item => Stream!MoveReported]_vars

\* Across changes of score too, the client has of a query only documents of its
\* window, be it in an earlier state (limitStream.ts:121-149).
NoneOutside ==
  ~failed => \A q \in Live : Ids(view[q]) \subseteq Ids(Window(q))

\* Nothing is missing: at every moment, a document of a window is with the
\* client or on its way in a retrieval (limitStream.ts:162-169, :107-119).
NothingMissing ==
  ~failed => \A q \in Live : Ids(Window(q)) \subseteq Ids(view[q]) \cup Open(q)

\* Nothing is extra: the client has, in their current state, only documents of
\* the window (limitStream.ts:121-132 and retrievalJob.ts:45-60).
NothingExtra == ~failed => \A q \in Live : view[q] \subseteq Window(q)

\* When the retrieval job has nothing left to do, the client has exactly the
\* window of each query: the check at the end of a perf run (perf.ts:404-434),
\* made at every moment of rest.
SettledViewExact ==
  (~failed /\ pc \in {"waiting", "done"} /\ batches = Job!NoBatches)
     => \A q \in Live : view[q] = Window(q)

\* Once the stream is over the retrieval job ends, and the client then has
\* each window (perf.ts:400-434).
EndsExact ==
  stopped ~> (pc = "done" /\ \A q \in Live : view[q] = Window(q))

\* register() never throws "Cannot register a doc that is currently being
\* processed" (retrievalJob.ts:36-38).
NeverRegistersProcessed == ~failed

\* At the end of a run no document of a window is missing: perf.ts:429 throws
\* "missing matched doc".
FinalNoneMissing ==
  pc = "done" => \A q \in Live : Ids(Window(q)) \subseteq Ids(view[q])

==============================================================================
