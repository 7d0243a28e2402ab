-------------------------- MODULE RetrievalRequests --------------------------
(***************************************************************************)
(* What a retrieval job promises to those who register documents with it: a *)
(* set of open requests <<query, doc>>.  An open request stays open until it*)
(* is cancelled, its document changes, or it is handled in a batch that is  *)
(* delivered or, when the store fails, dropped.  A delivery carries the     *)
(* state the store has at that moment.  RetrievalJob.tla implements it.     *)
(***************************************************************************)
EXTENDS Naturals

CONSTANTS Docs, Queries, States,
          MayFail   \* TRUE: the store may fail to deliver

VARIABLES store,      \* the pairs <<state, doc>> of the existing documents
          wanted,     \* the open requests
          delivered   \* <<query, state, doc>> delivered by the last step

vars == <<store, wanted, delivered>>

OfDoc(d) == {p \in wanted : p[2] = d}

Init == store = {} /\ wanted = {} /\ delivered = {}

Request(q, d) ==
  /\ wanted' = wanted \cup {<<q, d>>}
  /\ delivered' = {}
  /\ UNCHANGED store

Withdraw(q, d) ==
  /\ wanted' = wanted \ {<<q, d>>}
  /\ delivered' = {}
  /\ UNCHANGED store

\* The document gets one of the states of S, or disappears when S is empty.
Change(d, S) ==
  /\ store' = {e \in store : e[2] # d} \cup (S \X {d})
  /\ wanted' = wanted \ OfDoc(d)
  /\ delivered' = {}

\* A batch B of open requests is closed: delivered, or dropped by a failure.
Close(B) ==
  /\ B \subseteq wanted
  /\ wanted' = wanted \ B
  /\ \/ delivered' = {x \in Queries \X States \X Docs :
                        <<x[1], x[3]>> \in B /\ <<x[2], x[3]>> \in store}
     \/ MayFail /\ delivered' = {}
  /\ UNCHANGED store

Next ==
  \/ \E q \in Queries, d \in Docs : Request(q, d) \/ Withdraw(q, d)
  \/ \E d \in Docs : Change(d, {}) \/ \E s \in States : Change(d, {s})
  \/ \E B \in SUBSET wanted : Close(B)

Spec == Init /\ [][Next]_vars

==============================================================================
