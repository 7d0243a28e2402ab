-------------------------- MODULE RetrievalJobProofs --------------------------
(***************************************************************************)
(* Theorems about RetrievalJob, for every set of documents, queries and     *)
(* states: type correctness, its two safety invariants, and that its two    *)
(* batches keep the promise of RetrievalRequests.                           *)
(***************************************************************************)
EXTENDS RetrievalJob, TLAPS

\* The batch that is processed holds something only while its documents are
\* loaded or emitted, what was loaded is kept only until the emission, and a
\* request is in one batch at most.
BatchesApart ==
  /\ pc \notin {"loading", "loaded"} => batches.processing = {}
  /\ pc # "loaded" => loaded = {}
  /\ batches.pending \cap batches.processing = {}

\* For a document still in the batch, what was loaded is what the store has:
\* a document that changed since has left the batch.
LoadedIsStore ==
  pc = "loaded" =>
    \A e \in States \X Docs :
      OfDoc(batches.processing, e[2]) # {} => (e \in loaded <=> e \in store)

IInv == TypeOK /\ NoLostWakeup /\ BatchesApart /\ LoadedIsStore

-----------------------------------------------------------------------------
(* The parts of a step.                                                     *)

\* The loop looks at its batches with nothing in hand: it ends, waits with
\* nothing to do, or takes the pending batch.
LEMMA IterateKeeps ==
  ASSUME NEW b \in [pending : SUBSET Requests, processing : SUBSET Requests],
         b.processing = {}, waiter \in BOOLEAN, stopped' = stopped, Iterate(b)
  PROVE  /\ batches' \in [pending : SUBSET Requests, processing : SUBSET Requests]
         /\ pc' \in {"waiting", "loading", "done"} /\ waiter' \in BOOLEAN
         /\ pc' # "loading" => batches'.processing = {}
         /\ batches'.pending \cap batches'.processing = {}
         /\ batches'.pending \cup batches'.processing = b.pending
         /\ NoLostWakeup'
<1>1. CASE /\ b.pending = {}
           /\ batches' = b
           /\ \/ stopped /\ pc' = "done" /\ waiter' = waiter
              \/ ~stopped /\ pc' = "waiting" /\ waiter' = TRUE
  <2>1. /\ pc' \in {"waiting", "loading", "done"} /\ waiter' \in BOOLEAN
        /\ NoLostWakeup'
    BY <1>1 DEF NoLostWakeup
  <2> QED
    BY <1>1, <2>1
<1>2. CASE /\ pc' = "loading" /\ waiter' = waiter
           /\ batches' = [pending |-> {}, processing |-> b.pending]
  <2>1. batches'.pending = {} /\ batches'.processing = b.pending
    BY <1>2
  <2> QED
    BY <1>2, <2>1 DEF NoLostWakeup
<1> QED
  BY <1>1, <1>2 DEF Iterate

\* The end of a batch.
LEMMA EndBatchKeeps ==
  ASSUME TypeOK, stopped' = stopped, store' = store,
         emitted' \subseteq Queries \X States \X Docs, EndBatch
  PROVE  /\ IInv'
         /\ batches'.pending \cup batches'.processing = batches.pending
<1> DEFINE b == [batches EXCEPT !.processing = {}]
<1>1. /\ b \in [pending : SUBSET Requests, processing : SUBSET Requests]
      /\ b.processing = {} /\ b.pending = batches.pending
  BY DEF TypeOK
<1>2. loaded' = {}
  BY DEF EndBatch
<1>3. CASE Paced
  <2>1. pc' = "delaying" /\ batches' = b /\ waiter' = waiter
    BY <1>3 DEF EndBatch
  <2> HIDE DEF b
  <2> QED
    BY <1>1, <1>2, <2>1
       DEF IInv, TypeOK, NoLostWakeup, BatchesApart, LoadedIsStore
<1>4. CASE ~Paced
  <2>1. Iterate(b)
    BY <1>4 DEF EndBatch
  <2> HIDE DEF b
  <2> QED
    BY <1>1, <1>2, <2>1, IterateKeeps
       DEF IInv, TypeOK, BatchesApart, LoadedIsStore
<1> QED
  BY <1>3, <1>4

\* What is emitted at the end of a load is what the store has of the batch.
LEMMA PayloadIsCurrent ==
  ASSUME IInv, pc = "loaded"
  PROVE  Payload = {x \in Queries \X States \X Docs :
                      /\ <<x[1], x[3]>> \in batches.processing
                      /\ <<x[2], x[3]>> \in store}
<1>1. ASSUME NEW x \in Queries \X States \X Docs,
             <<x[1], x[3]>> \in batches.processing
      PROVE  <<x[2], x[3]>> \in loaded <=> <<x[2], x[3]>> \in store
  <2>1. <<x[1], x[3]>> \in OfDoc(batches.processing, x[3])
    BY <1>1 DEF OfDoc
  <2>2. <<x[2], x[3]>> \in States \X Docs
    OBVIOUS
  <2> DEFINE e == <<x[2], x[3]>>
  <2>3. e \in States \X Docs /\ OfDoc(batches.processing, e[2]) # {}
    BY <2>1, <2>2
  <2>4. e \in loaded <=> e \in store
    <3> HIDE DEF e
    <3> QED
      BY <2>3 DEF IInv, LoadedIsStore
  <2> QED
    BY <2>4
<1> QED
  BY <1>1 DEF Payload

-----------------------------------------------------------------------------
(* The steps: each keeps the invariant, and is a step of RetrievalRequests. *)

LEMMA ResumeCorrect ==
  ASSUME IInv, Resume
  PROVE  IInv' /\ [Requested!Next]_(Requested!vars)
<1>1. /\ batches.processing = {} /\ loaded = {} /\ pc = "waiting"
      /\ batches \in [pending : SUBSET Requests, processing : SUBSET Requests]
      /\ waiter \in BOOLEAN
  BY DEF IInv, TypeOK, BatchesApart, Resume
<1>2. /\ Iterate(batches) /\ emitted' = {}
      /\ store' = store /\ stopped' = stopped /\ loaded' = loaded
  BY DEF Resume
<1>3. batches'.pending \cup batches'.processing
        = batches.pending \cup batches.processing
  BY <1>1, <1>2, IterateKeeps
<1>4. IInv'
  BY <1>1, <1>2, IterateKeeps DEF IInv, TypeOK, BatchesApart, LoadedIsStore
<1>5. Requested!Close({})
  BY <1>2, <1>3 DEF Requested!Close
<1> QED
  BY <1>4, <1>5 DEF Requested!Next

LEMMA DelayOverCorrect ==
  ASSUME IInv, DelayOver
  PROVE  IInv' /\ [Requested!Next]_(Requested!vars)
<1>1. /\ batches.processing = {} /\ loaded = {} /\ pc = "delaying"
      /\ batches \in [pending : SUBSET Requests, processing : SUBSET Requests]
      /\ waiter \in BOOLEAN
  BY DEF IInv, TypeOK, BatchesApart, DelayOver
<1>2. /\ Iterate(batches) /\ emitted' = {}
      /\ store' = store /\ stopped' = stopped /\ loaded' = loaded
  BY DEF DelayOver
<1>3. batches'.pending \cup batches'.processing
        = batches.pending \cup batches.processing
  BY <1>1, <1>2, IterateKeeps
<1>4. IInv'
  BY <1>1, <1>2, IterateKeeps DEF IInv, TypeOK, BatchesApart, LoadedIsStore
<1>5. Requested!Close({})
  BY <1>2, <1>3 DEF Requested!Close
<1> QED
  BY <1>4, <1>5 DEF Requested!Next

LEMMA ReadCorrect ==
  ASSUME IInv, Read
  PROVE  IInv' /\ [Requested!Next]_(Requested!vars)
<1>1. IInv'
  BY DEF IInv, TypeOK, NoLostWakeup, BatchesApart, LoadedIsStore, Read, OfDoc
<1>2. Requested!Close({})
  BY DEF Requested!Close, Read
<1> QED
  BY <1>1, <1>2 DEF Requested!Next

LEMMA EmitCorrect ==
  ASSUME IInv, Emit
  PROVE  IInv' /\ [Requested!Next]_(Requested!vars)
<1>1. /\ pc = "loaded" /\ emitted' = Payload /\ EndBatch
      /\ store' = store /\ stopped' = stopped
  BY DEF Emit
<1> DEFINE B == batches.processing
<1>2. emitted' = {x \in Queries \X States \X Docs :
                    <<x[1], x[3]>> \in B /\ <<x[2], x[3]>> \in store}
  BY <1>1, PayloadIsCurrent
<1>3. IInv' /\ batches'.pending \cup batches'.processing = batches.pending
  BY <1>1, <1>2, EndBatchKeeps DEF IInv
<1>4. batches.pending = (batches.pending \cup B) \ B
  BY DEF IInv, BatchesApart
<1>5. Requested!Close(B)
  BY <1>1, <1>2, <1>3, <1>4 DEF Requested!Close
<1> QED
  BY <1>3, <1>5 DEF Requested!Next

LEMMA LoadFailsCorrect ==
  ASSUME IInv, LoadFails
  PROVE  IInv' /\ [Requested!Next]_(Requested!vars)
<1>1. /\ MayFail /\ emitted' = {} /\ EndBatch
      /\ store' = store /\ stopped' = stopped
  BY DEF LoadFails
<1> DEFINE B == batches.processing
<1>2. IInv' /\ batches'.pending \cup batches'.processing = batches.pending
  BY <1>1, EndBatchKeeps DEF IInv
<1>3. batches.pending = (batches.pending \cup B) \ B
  BY DEF IInv, BatchesApart
<1>4. Requested!Close(B)
  BY <1>1, <1>2, <1>3 DEF Requested!Close
<1> QED
  BY <1>2, <1>4 DEF Requested!Next

LEMMA RegisterDocCorrect ==
  ASSUME IInv, NEW q \in Queries, NEW d \in Docs, RegisterDoc(q, d)
  PROVE  IInv' /\ [Requested!Next]_(Requested!vars)
<1>1. /\ batches'.pending = batches.pending \cup {<<q, d>>}
      /\ batches'.processing = batches.processing
      /\ batches' \in [pending : SUBSET Requests, processing : SUBSET Requests]
      /\ <<q, d>> \notin batches.processing
  BY DEF IInv, TypeOK, RegisterDoc, Register, CannotRegister, Requests
<1>2. /\ waiter' = FALSE /\ emitted' = {} /\ store' = store /\ pc' = pc
      /\ stopped' = stopped /\ loaded' = loaded
  BY DEF RegisterDoc, Signal
<1>3. IInv'
  BY <1>1, <1>2 DEF IInv, TypeOK, NoLostWakeup, BatchesApart, LoadedIsStore
<1>4. Requested!Request(q, d)
  BY <1>1, <1>2 DEF Requested!Request
<1> QED
  BY <1>3, <1>4 DEF Requested!Next

\* A cancellation withdraws the request, or, when the document is pending for
\* another query and the request is being processed, does nothing.
LEMMA CancelDocCorrect ==
  ASSUME IInv, NEW q \in Queries, NEW d \in Docs, CancelDoc(q, d)
  PROVE  IInv' /\ [Requested!Next]_(Requested!vars)
<1> DEFINE P == batches.pending
           R == batches.processing
<1>1. /\ emitted' = {} /\ store' = store /\ pc' = pc /\ waiter' = waiter
      /\ stopped' = stopped /\ loaded' = loaded
  BY DEF CancelDoc, loopVars
<1>2. batches \in [pending : SUBSET Requests, processing : SUBSET Requests]
  BY DEF IInv, TypeOK
<1>3. /\ batches' \in [pending : SUBSET Requests, processing : SUBSET Requests]
      /\ \/ OfDoc(P, d) # {} /\ batches'.pending = P \ {<<q, d>>}
                             /\ batches'.processing = R
         \/ OfDoc(P, d) = {} /\ batches'.pending = P
                             /\ batches'.processing = R \ {<<q, d>>}
  BY <1>2 DEF CancelDoc, Cancel
<1>4. IInv'
  <2>1. TypeOK' /\ NoLostWakeup' /\ BatchesApart'
    BY <1>1, <1>3 DEF IInv, TypeOK, NoLostWakeup, BatchesApart
  <2>2. LoadedIsStore'
    BY <1>1, <1>3 DEF IInv, LoadedIsStore, OfDoc
  <2> QED
    BY <2>1, <2>2 DEF IInv
<1>5. CASE OfDoc(P, d) # {} /\ <<q, d>> \in R
  <2>1. batches'.pending \cup batches'.processing = P \cup R
    BY <1>3, <1>5
  <2> HIDE DEF P, R
  <2>2. Requested!Close({})
    BY <1>1, <2>1 DEF Requested!Close, P, R
  <2> QED
    BY <1>4, <2>2 DEF Requested!Next
<1>6. CASE ~(OfDoc(P, d) # {} /\ <<q, d>> \in R)
  <2>1. OfDoc(P, d) = {} => <<q, d>> \notin P
    BY DEF OfDoc
  <2>2. batches'.pending \cup batches'.processing = (P \cup R) \ {<<q, d>>}
    BY <1>3, <1>6, <2>1
  <2>3. Requested!Withdraw(q, d)
    BY <1>1, <2>2 DEF Requested!Withdraw
  <2> QED
    BY <1>4, <2>3 DEF Requested!Next
<1> QED
  BY <1>5, <1>6

LEMMA ChangeDocCorrect ==
  ASSUME IInv, NEW d \in Docs, NEW S \in SUBSET States, ChangeDoc(d, S)
  PROVE  IInv' /\ Requested!Change(d, S)
<1>1. /\ store' = {e \in store : e[2] # d} \cup (S \X {d})
      /\ emitted' = {} /\ pc' = pc /\ waiter' = waiter
      /\ stopped' = stopped /\ loaded' = loaded
  BY DEF ChangeDoc, loopVars
<1>2. /\ batches'.pending = {p \in batches.pending : p[2] # d}
      /\ batches'.processing = {p \in batches.processing : p[2] # d}
      /\ batches' = [pending |-> batches'.pending,
                     processing |-> batches'.processing]
  BY DEF ChangeDoc, Resolve, OfDoc
<1>3. TypeOK' /\ NoLostWakeup' /\ BatchesApart'
  BY <1>1, <1>2 DEF IInv, TypeOK, NoLostWakeup, BatchesApart
<1>4. LoadedIsStore'
  <2> SUFFICES ASSUME pc = "loaded", NEW e \in States \X Docs,
                      OfDoc(batches'.processing, e[2]) # {}
               PROVE  e \in loaded <=> e \in store'
    BY <1>1 DEF LoadedIsStore
  <2>1. e[2] # d /\ OfDoc(batches.processing, e[2]) # {}
    BY <1>2 DEF OfDoc
  <2>2. e \in store' <=> e \in store
    BY <1>1, <2>1
  <2> QED
    BY <2>1, <2>2 DEF IInv, LoadedIsStore
<1>5. Requested!Change(d, S)
  <2>1. batches'.pending \cup batches'.processing =
          (batches.pending \cup batches.processing)
            \ {p \in batches.pending \cup batches.processing : p[2] = d}
    BY <1>2
  <2> QED
    BY <1>1, <2>1 DEF Requested!Change, Requested!OfDoc
<1> QED
  BY <1>3, <1>4, <1>5 DEF IInv

LEMMA StopCorrect ==
  ASSUME IInv, Stop
  PROVE  IInv' /\ [Requested!Next]_(Requested!vars)
<1>1. IInv'
  BY DEF IInv, TypeOK, NoLostWakeup, BatchesApart, LoadedIsStore, Stop, Signal
<1>2. Requested!Close({})
  BY DEF Requested!Close, Stop
<1> QED
  BY <1>1, <1>2 DEF Requested!Next

LEMMA NextCorrect ==
  ASSUME IInv, [Next]_vars
  PROVE  IInv' /\ [Requested!Next]_(Requested!vars)
<1>1. CASE UNCHANGED vars
  <2>1. IInv'
    BY <1>1 DEF IInv, TypeOK, NoLostWakeup, BatchesApart, LoadedIsStore, OfDoc,
                vars, loopVars
  <2>2. UNCHANGED Requested!vars
    BY <1>1 DEF vars, loopVars, Requested!vars
  <2> QED
    BY <2>1, <2>2
<1>2. CASE Loop
  BY <1>2, ResumeCorrect, ReadCorrect, EmitCorrect, LoadFailsCorrect,
     DelayOverCorrect DEF Loop
<1>3. ASSUME NEW d \in Docs, NEW S \in SUBSET States, ChangeDoc(d, S),
             S = {} \/ \E st \in States : S = {st}
      PROVE  IInv' /\ [Requested!Next]_(Requested!vars)
  BY <1>3, ChangeDocCorrect DEF Requested!Next
<1>4. CASE Callers
  <2>1. CASE \E q \in Queries, d \in Docs : RegisterDoc(q, d)
    BY <2>1, RegisterDocCorrect
  <2>2. CASE \E q \in Queries, d \in Docs : CancelDoc(q, d)
    BY <2>2, CancelDocCorrect
  <2>3. CASE \E d \in Docs : ChangeDoc(d, {})
    BY <1>3, <2>3
  <2>4. CASE \E d \in Docs, st \in States : ChangeDoc(d, {st})
    BY <1>3, <2>4
  <2>5. CASE Stop
    BY <2>5, StopCorrect
  <2> QED
    BY <1>4, <2>1, <2>2, <2>3, <2>4, <2>5 DEF Callers
<1> QED
  BY <1>1, <1>2, <1>4 DEF Next

LEMMA InitCorrect == Init => IInv /\ Requested!Init
<1> SUFFICES ASSUME Init PROVE IInv /\ Requested!Init
  OBVIOUS
<1>1. batches.pending = {} /\ batches.processing = {}
  BY DEF Init, NoBatches
<1>2. TypeOK
  BY DEF Init, TypeOK, NoBatches
<1>3. NoLostWakeup /\ BatchesApart /\ LoadedIsStore
  BY <1>1 DEF Init, NoLostWakeup, BatchesApart, LoadedIsStore
<1>4. Requested!Init
  BY <1>1 DEF Init, Requested!Init
<1> QED
  BY <1>2, <1>3, <1>4 DEF IInv

-----------------------------------------------------------------------------
(* The theorems.                                                            *)

LEMMA Invariant == Spec => []IInv
<1>1. IInv /\ [Next]_vars => IInv'
  BY NextCorrect
<1> QED
  BY <1>1, InitCorrect, PTL DEF Spec

\* The worker's state keeps its types.
THEOREM TypeCorrect == Spec => []TypeOK
  BY Invariant, PTL DEF IInv

\* For any callers, the loop never sleeps on an unresolved promise while it has
\* a request to serve or has been told to stop (retrievalJob.ts:66-73, :99-115).
THEOREM NoWakeupIsLost == Spec => []NoLostWakeup
  BY Invariant, PTL DEF IInv

\* For any callers, what a load returned and is still to be emitted is what the
\* store holds at that moment (retrievalJob.ts:56-60, :77-88).
THEOREM LoadedStaysCurrent == Spec => []LoadedIsCurrent
<1>1. IInv => LoadedIsCurrent
  <2> SUFFICES ASSUME IInv, NEW e \in loaded,
                      OfDoc(batches.processing, e[2]) # {}
               PROVE  e \in store
    BY DEF LoadedIsCurrent
  <2>1. pc = "loaded" /\ e \in States \X Docs
    BY DEF IInv, BatchesApart, TypeOK
  <2> QED
    BY <2>1 DEF IInv, LoadedIsStore
<1> QED
  BY <1>1, Invariant, PTL

\* The two batches, swapped while callers register, cancel and resolve, keep
\* the promise of one set of open requests: a request is served once, with the
\* state its document has when it is delivered (retrievalJob.ts:35-96).
THEOREM KeepsThePromise == Spec => KeepsRequests
<1>1. IInv /\ [Next]_vars => [Requested!Next]_(Requested!vars)
  BY NextCorrect
<1> QED
  BY <1>1, InitCorrect, Invariant, PTL DEF Spec, KeepsRequests, Requested!Spec

==============================================================================
