----------------------------- MODULE RetrievalJob -----------------------------
(***************************************************************************)
(* RetrievalJobWorker (retrievalJob.ts) and the document store it loads     *)
(* from (docStore.ts).  The worker keeps two batches of requests            *)
(* <<query, doc>>: callers register into `pending`; the worker's loop swaps *)
(* the batches, loads the documents of `processing` asynchronously, and     *)
(* emits those nobody cancelled or resolved while the load was under way.   *)
(* JavaScript runs one piece of code at a time: an action is the code from  *)
(* one await to the next, and callers run between two of them.              *)
(***************************************************************************)
EXTENDS Integers, FiniteSets

CONSTANTS Docs, Queries,
          States,    \* states of a document in the store
          Paced,     \* TRUE: batchIntervalMs > 0, the loop sleeps after a batch
          MayFail    \* TRUE: loadDocs may reject

ASSUME PacedAssumption == Paced \in BOOLEAN
ASSUME MayFailAssumption == MayFail \in BOOLEAN

VARIABLES store,     \* the pairs <<state, doc>> in the document store
          batches,   \* [pending, processing]: pendingBatch, processingBatch
          pc,        \* the await at which the loop stands
          waiter,    \* pendingWaiter is unresolved
          stopped,   \* stop() was called
          loaded,    \* what loadDocs returned, from its read to the end of
                     \* the batch
          emitted    \* <<query, state, doc>> of the retrieval event emitted by
                     \* the last step, {} if none

loopVars == <<pc, waiter, stopped, loaded>>
vars == <<store, batches, loopVars, emitted>>

Requests  == Queries \X Docs
NoBatches == [pending |-> {}, processing |-> {}]
OfDoc(B, d) == {p \in B : p[2] = d}

-----------------------------------------------------------------------------
(* The methods callers use, on the pair of batches.                         *)

\* register(docId, queryId) throws on a request that is being processed.
CannotRegister(b, q, d) == <<q, d>> \in b.processing

Register(b, q, d) == [b EXCEPT !.pending = @ \cup {<<q, d>>}]

\* cancel(docId, queryId) looks in one batch only: in `pending` as soon as the
\* document has a request there, whoever made it.
Cancel(b, q, d) ==
  IF OfDoc(b.pending, d) # {}
    THEN [b EXCEPT !.pending = @ \ {<<q, d>>}]
    ELSE [b EXCEPT !.processing = @ \ {<<q, d>>}]

\* Mutant of Resolve: only the pending batch is looked at.
ResolvePending(b, d) == [b EXCEPT !.pending = @ \ OfDoc(@, d)]

\* resolveDoc(docId)
Resolve(b, d) == [pending    |-> b.pending \ OfDoc(b.pending, d),
                  processing |-> b.processing \ OfDoc(b.processing, d)]

SignalNobody == UNCHANGED waiter            \* mutant of Signal

\* signalPending() resolves the promise the loop awaits, if there is one.
Signal == waiter' = FALSE

-----------------------------------------------------------------------------
(* The loop.                                                                *)

\* Mutant of Iterate: a stopped worker waits for more.
IterateIgnoringStop(b) ==
  \/ /\ b.pending = {}
     /\ pc' = "waiting" /\ batches' = b
     /\ waiter' = TRUE
  \/ /\ b.pending # {}
     /\ pc' = "loading"
     /\ batches' = [pending |-> {}, processing |-> b.pending]
     /\ UNCHANGED waiter

\* The top of `while (true)`, reached with batches b: leave, wait, or take the
\* pending batch and start to load it.
Iterate(b) ==
  \/ /\ b.pending = {} /\ stopped
     /\ pc' = "done" /\ batches' = b
     /\ UNCHANGED waiter
  \/ /\ b.pending = {} /\ ~stopped
     /\ pc' = "waiting" /\ batches' = b
     /\ waiter' = TRUE
  \/ /\ b.pending # {}
     /\ pc' = "loading"
     /\ batches' = [pending |-> {}, processing |-> b.pending]
     /\ UNCHANGED waiter

\* waitForPending() returns: the loop looks again.
Resume ==
  /\ pc = "waiting" /\ ~waiter
  /\ Iterate(batches)
  /\ emitted' = {}
  /\ UNCHANGED <<store, stopped, loaded>>

\* The store reads the documents of the batch (getMany).
Read ==
  /\ pc = "loading"
  /\ pc' = "loaded"
  /\ loaded' = {e \in store : OfDoc(batches.processing, e[2]) # {}}
  /\ emitted' = {}
  /\ UNCHANGED <<store, batches, waiter, stopped>>

\* Mutant of EndBatch: the batch is not cleared.
EndBatchUncleared ==
  /\ loaded' = {}
  /\ IF Paced THEN pc' = "delaying" /\ UNCHANGED <<batches, waiter>>
              ELSE Iterate(batches)

\* The batch is over: processingBatch.clear(), and the delay if there is one.
EndBatch ==
  LET b == [batches EXCEPT !.processing = {}]
  IN  /\ loaded' = {}
      /\ IF Paced THEN pc' = "delaying" /\ batches' = b /\ UNCHANGED waiter
                  ELSE Iterate(b)

\* Mutant of Payload: query and document are exchanged.
PayloadExchanged ==
  {<<x[3], x[2], x[1]>> : x \in
     {y \in Queries \X States \X Docs :
        <<y[1], y[3]>> \in batches.processing /\ <<y[2], y[3]>> \in loaded}}

\* The requests still in the batch whose document was found.
Payload ==
  {x \in Queries \X States \X Docs :
     <<x[1], x[3]>> \in batches.processing /\ <<x[2], x[3]>> \in loaded}

Emit ==
  /\ pc = "loaded"
  /\ emitted' = Payload
  /\ EndBatch
  /\ UNCHANGED <<store, stopped>>

\* loadDocs rejects: the error is logged and the batch is dropped.
LoadFails ==
  /\ MayFail
  /\ pc = "loading"
  /\ emitted' = {}
  /\ EndBatch
  /\ UNCHANGED <<store, stopped>>

DelayOver ==
  /\ pc = "delaying"
  /\ Iterate(batches)
  /\ emitted' = {}
  /\ UNCHANGED <<store, stopped, loaded>>

Loop == Resume \/ Read \/ Emit \/ LoadFails \/ DelayOver

-----------------------------------------------------------------------------
(* The callers: the handlers of the limit stream, until the run is finished *)
(* and the worker is told to stop (workerRuntime.ts:91-94).                 *)

RegisterDoc(q, d) ==
  /\ ~stopped
  /\ ~CannotRegister(batches, q, d)
  /\ batches' = Register(batches, q, d)
  /\ Signal
  /\ emitted' = {}
  /\ UNCHANGED <<store, pc, stopped, loaded>>

CancelDoc(q, d) ==
  /\ ~stopped
  /\ batches' = Cancel(batches, q, d)
  /\ emitted' = {}
  /\ UNCHANGED <<store, loopVars>>

\* A document changes: put or delete in the store, then resolveDoc
\* (limitStream.ts:183-191 and :149).  S holds the new state, or nothing.
ChangeDoc(d, S) ==
  /\ ~stopped
  /\ store' = {e \in store : e[2] # d} \cup (S \X {d})
  /\ batches' = Resolve(batches, d)
  /\ emitted' = {}
  /\ UNCHANGED loopVars

Stop ==
  /\ ~stopped
  /\ stopped' = TRUE
  /\ Signal
  /\ emitted' = {}
  /\ UNCHANGED <<store, batches, pc, loaded>>

Callers ==
  \/ \E q \in Queries, d \in Docs : RegisterDoc(q, d)
  \/ \E q \in Queries, d \in Docs : CancelDoc(q, d)
  \/ \E d \in Docs : ChangeDoc(d, {})
  \/ \E d \in Docs, s \in States : ChangeDoc(d, {s})
  \/ Stop

\* The constructor runs the loop up to its first await.
Init ==
  /\ store = {} /\ batches = NoBatches
  /\ pc = "waiting" /\ waiter = TRUE /\ stopped = FALSE
  /\ loaded = {} /\ emitted = {}

Next == Loop \/ Callers

\* A resolved promise, a settled load and an elapsed timer are run by the
\* event loop; nothing obliges a caller to call.
Spec == Init /\ [][Next]_vars /\ WF_vars(Loop)

-----------------------------------------------------------------------------
(* Properties.                                                              *)

\* Type invariant of the worker.
TypeOK ==
  /\ store \subseteq States \X Docs /\ loaded \subseteq States \X Docs
  /\ batches \in [pending : SUBSET Requests, processing : SUBSET Requests]
  /\ pc \in {"waiting", "loading", "loaded", "delaying", "done"}
  /\ waiter \in BOOLEAN /\ stopped \in BOOLEAN
  /\ emitted \subseteq Queries \X States \X Docs

\* The loop sleeps on an unresolved promise only when it has nothing to do:
\* no wake-up is lost between the test of pendingBatch and the await
\* (retrievalJob.ts:67-73, :99-115).
NoLostWakeup ==
  (pc = "waiting" /\ waiter) => batches.pending = {} /\ ~stopped

\* Between the read and the emission a loaded document may go stale, but then
\* it has left the batch: what is to be emitted is in the store now
\* (retrievalJob.ts:77-84 against resolveDoc, :56-60).
LoadedIsCurrent ==
  \A e \in loaded : OfDoc(batches.processing, e[2]) # {} => e \in store

\* The promise of a retrieval job, kept by two batches.
Requested == INSTANCE RetrievalRequests WITH
               wanted    <- batches.pending \cup batches.processing,
               delivered <- emitted

KeepsRequests == Requested!Spec

\* A registered document is retrieved, cancelled, resolved or dropped: it does
\* not stay in the batches for ever (retrievalJob.ts:62-96).
EveryRequestIsClosed ==
  \A p \in Requests :
    p \in batches.pending \cup batches.processing
      ~> p \notin batches.pending \cup batches.processing

\* stop() returns: the loop drains what is pending and ends
\* (retrievalJob.ts:25-33).
StopEnds == stopped ~> pc = "done"

==============================================================================
