# Verification of testmet

`testmet` compares ways to keep *live top-k range queries* up to date: a client
subscribes to "the first `limit` documents with a score in `[min, max]`" and is
told of every change of that window. This directory holds TLA+ models of the
program's own core, the TLC configurations that check them, and TLAPS proofs.

    tlc -config MCLimitStream.cfg MCLimitStream.tla      # any run below
    tlapm LimitStreamProofs.tla                          # any *Proofs module

## 1. Inventory

| Part | Source | State | Operations | Modelled by |
|---|---|---|---|---|
| Document index | `thunderdb-ts/src/limit-index/docs-index.ts/` | documents ordered by (score, id) | add, remove, rank, countAtMost, getAtRank, collectRange | `DocsIndex` |
| Query index | `.../queries-index/queries-index.treap.ts` | treap by start with lazy additions and cached maxima | insert, remove, range addition, two traversals | `QueriesTreap` |
| `DynamicRangeQueries` | `.../LimitQueries.ts` | the two indexes, `idToQuery` with `currentMatches`, `idToBaseScore` | add/remove document and query, seed, fillGap, pickOverflowDoc | `DynamicRangeQueries` |
| Limit stream | `.../limitStream.ts` | the above, inside a generator | one handler per stream item | `LimitStream` |
| Retrieval job | `retrievalJob.ts` | pending and processing batch, a waiter, the loop | register, cancel, resolveDoc, stop; the loop | `RetrievalJob` |
| Document store | `docStore.ts` | LMDB map from id to state | put, putMany, delete, getMany | in `RetrievalJob`, `LimitSystem` |
| Worker runtime, perf client | `workerRuntime.ts`, `perf.ts` | wiring; the contents of each query rebuilt from the events | run, final check | `LimitSystem` |
| Transport, socket protocol | `transport.ts`, `socketProtocol.ts`, `socketWorker.ts`; `runRemote` of `perf.ts` | handshake flags, lines in flight, the generator of the run | hello, event, end, close | `WorkerSession` |
| Subscription storage (Rust) | `btree-pubsub/src/storage.rs` | state -1/0/1 per (connection, query, document), a count per (document, connection) | add, deletion, apply_db_result, remove | `SubscriptionStore` |
| Replication and websocket handlers (Rust) | `btree-pubsub/src/replication.rs`, `websocket.rs`, `connection_registry.rs` | indexes and registry behind locks | insert, update, delete, refill; subscribe, unsubscribe, disconnect | `PubSub` |
| Range and document indexes (Rust) | `btree-pubsub/src/btree_index/`, `doc_index.rs` | two treaps, query and connection maps; the rows by score | change, deletion, iter_range | in `PubSub`, by what they hold |
| Retrieval job (Rust) | `btree-pubsub/src/retrieval_job.rs` | two batches | register, rotate, document_arrived | no: no client uses it |
| `RangeLimitIndex` (Rust) | `thunderdb/src/` | documents, query specs | apply_change, apply_query | not yet |
| Prototype, tester, other databases | `dynqueries.ts`, `tester/`, `meteor/`, `mongo/`, `postgres/` | | | not modelled: a superseded prototype, load generators, third-party set-ups |

How the parts of `thunderdb-ts` interact. The stream hands items to a generator,
which runs one handler to its end per item. A `doc-change` first writes the
store, then the indexes; the handler emits a *match event* (queries that lose or
gain the document, and documents evicted for it) and calls the retrieval job:
`register` for documents that enter a window without having changed, `cancel`
for evicted ones, `resolveDoc` for the document that changed. The job's loop
loads the registered documents in batches, asynchronously, and emits a
*retrieval event*. A client that applies both kinds of events should have the
window of each query. Everything runs in one JavaScript thread, so the only
interleavings are those at an `await` of the retrieval loop.

Over a socket, or an in-process bridge, a client writes a hello, its events and
an end, all without waiting, and reads until a summary or an error. The worker
feeds each event to the generator, item by item.

How the parts of `btree-pubsub` interact. One task reads the changes of the table
and handles them one after the other: a change goes into the range index (write
lock), the connections of its queries are read (read lock), each of them gets its
entries in the storage and one notification, the document index follows, and
queries that lost a document are refilled from it. One task per connection adds
queries and subscriptions to the range index, reads the rows from PostgreSQL,
applies them to the storage one by one, and cleans up in three steps when the
client has gone. Between any two of these steps any other task may run.

What is hard here, and what the properties are for:

- `currentMatches` is never recomputed: additions, removals, gap fills and
  blocked additions each change it by one, in several queries at a time;
- effective scores follow the ranks by *lazy* additions on a treap, and the
  traversals prune on cached maxima;
- losses, gains, replacements and evictions come from different traversals with
  different cutoffs, before, during and after the change;
- between the read of a batch and its emission, documents change, are evicted
  and are wanted again;
- the loop may sleep just when a registration or a stop arrives;
- a throw in a handler ends the generator for ever, and what is sent to it
  afterwards is counted and ignored;
- a connection that breaks leaves a prefix of the lines handled, and an answer
  under way;
- a subscription is seen by replication before its snapshot is read, and the
  snapshot is applied after changes that it does not show, or shows already;
- a handler goes on with queries and connections it read locks ago, which have
  unsubscribed or left since.

`PROJECT.json` lists each of these at its line ("hazards").

## 2. Modules

    DocsIndex <- DynamicRangeQueries <- LimitStream --implements--> TopKQueries
                                            |
    RetrievalJob --implements--> RetrievalRequests
         |                                  |
         +------------ LimitSystem ---------+          QueriesTreap

    WorkerSession           SubscriptionStore <- PubSub

The theorems about a component are in the module `<component>Proofs` (for `PubSub`
also `PubSubDeliveryProofs`). `LimitSystem` instantiates `LimitStreamProofs` and
`RetrievalJobProofs`, which are the two components with their theorems, so that
`LimitSystemProofs` can cite them.

**`DocsIndex`** - the operators of the document index on a set of pairs
`<<score, id>>`. `Rank` counts the entries before a position; `AtRank` and
`CollectRange` are stated through it. The treap behind it is not modelled.

**`DynamicRangeQueries`** - the class as operators from a state record to a state
record, because it is synchronous and has one owner. `eff[q]` is the effective
score of a query, meant to be `rank(a) + k`; `Covering` is the traversal for one
value, `CoveringButNot` the difference traversal, `RangeAdd` the range addition.

**`LimitStream`** - one action per stream item: `DocInsert`, `DocDelete`,
`DocTouch` (same score), `DocMove` (another score), `QueryAdd`, `QueryRemove`,
`SeedDocs`. Each is the whole handler; what it emits and asks of the retrieval
job is the variable `out`, overwritten at every step. `failed` is a generator
that threw. A handler that throws leaves what it had done: `removeDocument` has
counted down the queries before the first that counts no match (`CountedDown`), and
a registration that is refused ends the loop of the gap fills at its query
(`RefusedOutcome`), in the order of the treap's traversal (`Earlier`). Which
registrations are refused is the parameter `refused` of an item: none for the stream
by itself, those of the retrieval job in `LimitSystem`. Items are those a source in order can send: `old` is the score the
index has, as `buildEvents` of `perf.ts` and a change feed provide. The constant
`Moves` is the set of changes of a score, pairs of an old and a new one, that upstream
sends; `LateSeeds` says whether initial documents may come after a query (the perf
harness never sends them late).

**`TopKQueries`** - the abstract operator: documents, specs, and for every step
the exact difference of every window, with no index and no counter.

**`RetrievalJob`** - the loop as a program counter over its awaits (`waiting`,
`loading`, `loaded`, `delaying`, `done`); an action is the code between two of
them, so `Emit` also clears the batch and, without a delay, runs the top of the
loop. `waiter` is the unresolved promise of `waitForPending`. Callers act between
two loop steps. `LoadFails` is a rejected `loadDocs`. `store` holds the documents,
because what matters of a load is whether it is still true when it is emitted.

**`RetrievalRequests`** - what the job promises: open requests that stay open until
withdrawn, overtaken by a change of their document, or closed in a batch whose
deliveries are in the store at that moment (or dropped, where the store may fail).

**`LimitSystem`** - the two components and the client of the perf harness. An item
runs the stream's handler, with the registrations that `register` would refuse at
that moment (`Refused`), and then its calls: the registrations, and unless one of
them threw, the cancellations, the resolution of the changed document. The
cancellations run one after the other in the order of the treap's traversal, and
`CancelAll` states what the whole loop does: which batch `cancel` looks in depends
on what the earlier ones have left in `pending`. `view[q]` is what the client has. `perf.ts`
checks the views once, when a run is over; the invariants check them at every
step.

**`QueriesTreap`** - the query index itself: nodes with `add`, `localAdd`, the
items' base scores and bounds, and the cached maxima; insertion with rotations,
removal and range addition by split and merge, and both pruned traversals. The
random priorities are an input. `localMinCap` is a shortcut the traversal takes
within one node and is written there as the quantifier it stands for. The recursive
methods are functions on `Tree`, the trees up to the height of the highest an
operation builds: merging two treaps over `Scores` gives at most `2 * |Scores|`.

**`WorkerSession`** - one connection between `runRemote` and a worker. The client
(`client`, `at`) writes the lines of its plan, any of the set `Plans`; `inbox` and
`outbox` are the lines under way; `Lose` breaks the connection at any moment and
leaves a prefix of each. There is an action per kind of line, the whole handler
with its replies. Of the runtime it keeps what a client can tell apart: whether
the generator still runs, which items it has handled, and `eventsProcessed`.
Items are `Malformed` (their conversion throws), `Throwing` (their handler does)
or neither. The in-process transport is the special case in which a line is
handled as soon as it is written.

**`SubscriptionStore`** - every transaction of `storage.rs` as an operator from a
store to a store. `AddDocument` and `HandleDeletion` take a set of queries, for
the loops the handlers run over them: the entries are distinct keys, and the
count moves by the number that changed.

**`PubSub`** - the server. `table`, `wal` and the actions `Insert`, `Update`,
`Delete` are PostgreSQL. `handle_insert` and
`handle_update` are the same actions: an insertion finds no query before it, so
nothing is removed and nothing refilled. `rep` is the replication task: `Take...` is the step
under the write lock, `ReadConns` and `DropQuery` those under the read lock,
`Tell` and `Drop` a connection's transactions and its notification, `IndexDoc`
and `UnindexDoc` the document index, `Refill`, `ChooseFill` and `Fill` the three
locks of `refill_deficit`. `task[c]` is the task of a connection, from `Connect`
through `Subscribe`, `Snapshot`, one `ApplyRow` per row, to `Unregister`,
`LeaveQueries` and `ClearStorage`. An error ends it by `?`, past the cleanup: of the
database or the storage in `SnapshotFails`, of the channel to the client where a
request is answered (`Answered`, in `Snapshot`, `ApplyRow` and `Unsubscribe`). Sets iterated by a hash map are taken in any order. Which documents a
query *with* a limit covers depends on the shape of the treap and is left open
(`Covers`), and so is what `iter_range` misses among rows that share a bound
(`Visits`). `told` is a history variable, for each connection whose queries have no
limit and have not changed since the change in hand was taken: of an insert or
update, whether the range index tracked the document for it then, of a delete,
whether the storage had it, and the events it was sent about it since.

`MC...` modules hold the instances; operators marked *mutant* are plausible
mistakes in the operator beside them, kept so that each property can be seen to
fail on one.

## 3. Runs

| Run | Checks | States |
|---|---|---|
| `limit_stream` | types, effective scores and counters exact, no throw, implements `TopKQueries` | 19 thousand |
| `retrieval_job` | no lost wake-up, nothing stale emitted, implements `RetrievalRequests`, each request closed, `stop` returns | 8 thousand |
| `limit_system` | the client's view: nothing extra, nothing missing, exact at rest, exact at the end | 204 thousand |
| `limit_system_moves` | store equals index, no request outside a window, nothing outside it shown, no request registered while processed, counters exact and every leave and entry told, with moves, failures and pauses | 250 thousand |
| `queries_treap` | treap shape, exact scores, both traversals complete and exact | 236 thousand |
| `worker_session` | a summary stands for a complete run and is final, a correct client is never refused, the client ends | 158 thousand |
| `pub_sub` | counts and index exact, queries held, the document index follows the table, nothing lost between snapshot and replication, one event of the right kind for each insert and update | 2.6 million |

Bounds, and why they are enough. Three documents and three scores give ties,
windows that are empty, short, full and overfull, and a document beyond the
window to fill a gap. The specs have limits 0, 1 and 2, a range in the middle,
ranges open at one end and one that is empty; two queries at a time share
documents and starts. There is no bound on the length of a run except
`MaxQueries`, the number of queries ever added: documents come and go without
end. The retrieval job has two documents and two queries: enough for requests of
different queries for one document in different batches. `QueriesTreap` allows
one document of each score: effective scores then differ by every lazy addition,
and three nodes make every rotation, split and merge.

`limit_system_moves` has four scores, a range in the upper half and one at the lowest
score, and moves within each half: documents move above and below the start of a
range, and out of one by its end, and none crosses a start.

`WorkerSession` takes every client of up to three lines out of nine, and every
one of the form hello, two lines, end; an event has up to three items, with one
that throws between two that do not. `PubSub` has two connections whose queries
overlap (two unlimited ranges, one limited), two query ids, so that one is left
and another added while handlers still hold it, and two changes of one document:
an insertion followed by a move or a deletion, or both waiting while a snapshot
is read. With one document the interleavings of tasks are all there; what two
documents add is the choice of a refill among several rows, which no property is
about.

Deadlock is checked in the runs of the stream and of the treap. The retrieval job
stops after `stop`, and the systems that contain it do; a session ends; and the
server waits for ever when the changes are used up and the clients are gone.

Fairness. `WF(Loop)` in `RetrievalJob` and `WF(Retrieve)` in `LimitSystem`: a
settled load, an elapsed timer and a resolved promise are run by the JavaScript
event loop, and `getMany` settles. Nothing obliges a caller to call, so there is
no fairness on items, on registrations or on `stop`. Load failures may go on for
ever and the liveness properties of the job hold all the same, because a failed
batch is dropped. `WF(Worker)` and `WF(Client)` in `WorkerSession`: both processes
run their event loops, and a closed connection is noticed. `DrainFails` is not
among them: a client that waits for `drain` on a connection closed without an
error may wait for ever, and `EndIsAnswered` starts when everything is written.
`PubSub` has no liveness: nothing the handlers do waits for a client.

### Where the code departs from what it says

| Run | What happens |
|---|---|
| `crossing` | A score moves across the start of a range. `getQueriesCoveringButNot` does not compare the excluded value with the start, so the query is neither told nor refilled. In the run the document in a full window moves below the start while another one waits behind it: `currentMatches` is 0, the window holds the other document, and the verifier of `LimitQueries.ts:34` throws. |
| `register_throws` | `cancel` looks in the pending batch alone when *any* query has the document there. The request it should have withdrawn stays in the processing batch, and the next gap fill throws "Cannot register a doc that is currently being processed". |
| `missing_doc` | A score moves inside a window while its retrieval is open: the request is dropped, the change is not reported, and the client never gets the document. |
| `delete_untold` | A document that came with a snapshot is in the storage, but not in `document_queries`, from which `handle_delete` takes the queries: its deletion is told to nobody, although the client has it. For the same reason its first update is told as "added" instead of "updated", and a move out of the range not at all. A tracked document breaks the property in another way: `handle_delete` refills before the document leaves the document index, and a query without a limit is refilled too (its limit is `u32::MAX`, the test for "infinite" is against `i64::MAX / 2`), so its client gets "removed" and then "added". |
| `zombie_query` | `addQuery` computes the base score without the node's `localAdd`: a later `removeQuery` looks under the wrong score, and the query stays in the treap. |

The run `crossing` has two scores, two documents and one range that starts at the
upper score, so that its shortest counterexample is the one described. Because of
it, no change of score in `limit_system_moves` crosses the start of a range. Because
of `missing_doc`, what a client must have is checked without moves; with them, only
that it shows nothing outside the window (`NoneOutside`), as the copy it shows may
have an older score. Because of `register_throws`, the run has one query, and
`NeverRegistersProcessed` shows that one does not throw.

Also met, and kept as assumptions: the id `0n` is falsy, so `fillGap` never returns
that document (ids are positive in the instances and in the proofs); a move to the
last place of a full window is reported as a loss although the document stays
(`AlwaysMoveReported` therefore asks that losses are told, not that only losses
are). `UpdateIsTold` and `NothingMissed` speak of queries without a limit, whose
coverage does not depend on a treap. The first takes for watched what the index
tracks, and so says what the handlers make of the index; that a document of a
snapshot is not tracked is the matter of `delete_untold`. The second is one-sided (a
document deleted while its row is being applied may end as existing), and accepts
the state "notset" as well as "exists": a deletion handled after its query was
dropped leaves an entry "deleted", and the row of a later snapshot then becomes
"notset" (-1 to 0), as `specs/change-events.md:32` has it.

## 4. Proofs

`LimitStreamProofs`, for every set of documents, scores and specs:

- `TypeCorrect`: `Spec => []TypeOK`, with no assumption on `Moves` or `LateSeeds`.
- `EffectiveScoresExact`: `Spec => []EffExact` when `LateSeeds = FALSE`, whatever
  moves. Every handler is a sequence of class operations, and each range addition
  adds to `eff` what the change adds to the rank of the starts above it.
- `MatchCountersExact` and `StreamNeverThrows`: `[]CurrentMatchesExact` and
  `[]NoThrow`, when seeds are not late, `0` is not an id, and no change of a score
  crosses the start of a range: `MovesWithin` says of every pair of `Moves` and every
  spec that both scores are at or above the start, or both below it. Any range may
  have scores below its start, and documents that move there. These are the
  exclusions of section 3, and the last of them is the defect of `crossing`.
- `DifferenceIsReported`: `Spec => ReportsExactDifference` when, moreover, no score
  changes at all. The stream implements `TopKQueries`: each item maps to the step of
  the abstract operator it stands for, and its match event, with the retrievals
  registered beside it, is the exact difference between the windows before and
  after, for every query. (With moves it is not: see `missing_doc`, and the last
  place of a full window below it.)

`CurrentMatchesExact` is not inductive alone. The invariant is
`TypeOK /\ EffExact /\ MInv`: that a deletion finds `currentMatches > 0` needs the
document to have a rank below `eff`, hence `EffExact`; and that `fillGap` finds
the document at offset `currentMatches` exactly when the window can be refilled
needs ranks to number the documents without holes. `DocsIndexProofs` proves that
(`RankOnto`, `RankInjective`, `RankBounds`) with the effect of adding and removing
an entry on ranks and counts.

A move takes a document out and puts it back elsewhere, and the queries between
are computed from three different moments. `MoveBy` says what it does to the rank
of every other entry; `MoveQuery` and `MoveOutcome` follow one query through the
two traversals and the gap fill, from which come the new counter, that no gap fill
meets an empty count (`MoveNeverThrows`), and what is told (`MoveReports`). That
no move crosses the start of a query in the index (`StartsKept`) is part of the
invariant. It decides the case the difference traversal leaves out: a query that
covers one of the two scores starts at or below the other as well, and one that
starts above both is not visited and keeps its window.

The refinement rests on `WindowAdd`: an entry that enters a window displaces one
other entry at most, the one that was at offset `k - 1` and is now at offset `k`;
an entry that leaves lets that one back in. The code asks the index for those two
offsets (`pickOverflowDoc` and `fillGap`), the second by way of `currentMatches`;
`InsertReports` and `DeleteReports` show that it asks for the right ones, and that
it asks exactly the queries concerned, as `CoveringShown` says that a query covers
a document exactly when it shows it.

`RetrievalJobProofs`, for every set of documents, queries and states, paced or
not, failing or not: `TypeCorrect`, `NoWakeupIsLost`, `LoadedStaysCurrent`, and
`KeepsThePromise`, that the job refines `RetrievalRequests`. The invariant adds to
`TypeOK` and `NoLostWakeup` that the processing batch is empty unless a load is
under way, and that every loaded document still in the batch is the store's.

`LimitSystemProofs` puts the two together, for every set of documents, scores and
specs:

- `TypeCorrect` and `StoreFollowsIndex`: `[]TypeOK` and `[]StoreIsIndex`, whatever
  moves, comes late, fails or throws.
- `CountersStayExact` and `MovesAreReported`: `[]CurrentMatchesExact` and
  `AlwaysMoveReported` for any number of queries, when seeds are not late, `0` is not
  an id and no change of a score crosses the start of a range. The counters are exact
  until a handler throws: when `register` refuses, the gap fills of the queries after
  it are not made, and their counters are short from then on.
- `OneQueryNeverThrows`, `NoRequestIsIdle` and `NothingOutside`:
  `[]NeverRegistersProcessed`, `[]NoIdleRequest` and `[]NoneOutside`, under the same
  assumptions and `MaxQueries <= 1`. The last assumption is the code's: with two
  queries `cancel` may look in `pending`, where the other query waits for the
  document, while the request to take back is in `processing`.
- `NothingIsMissing`: `[]NothingMissing` for any number of queries, when no score
  changes and loads do not fail.
- `NothingIsExtra` and `SettledIsExact`: `[]NothingExtra` and, when loads do not
  fail, `[]SettledViewExact`, for one query and scores that do not change.

These, except for the first line, are about a stream that has not thrown; a second query can
make it throw (`register_throws`). The invariant `JobInv` says of such a stream that
the store is the index, that the job is in a state of its own invariant (`Job!IInv`,
whose steps are cited from `RetrievalJobProofs`), that every document being
retrieved is in the store (so a seed is none of them), and that nothing is known
yet of a query to come. Three things are then followed through an item for one
query: what it asked for is in its window (`AskedWithin`), what the client has is
(`ClientInside`), and everything in it is known (`AllKnown`, `NoneBeyond`, without
moves). They rest on two facts of `LimitStreamProofs`. `ItemOthers`: a query that
loses the document of an event is told, one that is told it gains it does, and
evictions and registrations are what the other documents of its window lost and
gained, whatever moved. `ItemReported`: without moves the two together are the exact
difference. For a batch that is emitted,
`PayloadIsCurrent` says that what goes out is what the store has at that moment.

`WorkerSessionProofs`, for plans of any length and any items: `TypeCorrect`,
`SummariesAreFinal` (a summary is only written once the generator has finished,
and it never runs again), `RunsAreNeverRefused` and `SummariesAreComplete`. That a
client which keeps to the protocol gets no error depends on how far the worker is:
the invariant says that there is a number `k` of lines handled such that the inbox
is the next segment of the plan, that the handshake is complete exactly when
`k > 0`, and that the generator runs until the last line.

`SummariesAreComplete`, `Spec => []SummaryIsComplete`, is about every client. For it
the invariant has a second such number, for any plan (`Follows`): as long as the
connection is open, no error is on its way and the generator runs, the lines so far
hold no end and `handled` is the concatenation of their items, `Before(k)`. A
summary is written in such a state or comes after an error, and is read after it
(`TrueIn`). `Before` is built with `FlattenSeq`, a recursive function, and facts about
it need induction. The induction theorems of the library have an operator as a
parameter; the induction here is for a *set* of numbers (`NatSet`), which follows
from the well-foundedness of `<` (`WFMin`). With it `FlattensExists` and
`FlattensAgree` show that the recursion defines a function, and `BeforeNext` that
one line more appends its items.

`QueriesTreapProofs` is about the query index, for every finite set of scores, any
number of documents and queries, and any priorities as long as there are as many as
scores: `TypeCorrect`, `TreapShape`, `ScoresAreExact`, `CollectIsExact` and
`DifferenceIsExact`, that is all five invariants of `queries_treap`. Every method is
a recursive function, and induction over the height of a tree (`NatSet` again) does
for each of them what the library's theorems cannot: that the function exists
(`<Op>Exists`, from the functions on trees one lower), what a call unfolds to
(`<Op>Is`), and what it does to three things:

- `Labels`, the pairs of a key and its priority: a split divides them by key, a
  merge unites them, the others add or remove one at most;
- `Held(n, acc)`, the entries `n` holds under the additions `acc` from above it:
  `push` and the rotations change nothing in it, a range addition shifts the scores
  of the keys above `t`, an insertion adds the entry with the score asked for;
- `Sound`: every node holds items, its cached maxima bound what is below it, and
  keys and priorities are in order. A priority belongs to one key (`Distinct`),
  which the height bound and the heap order need in a merge.

The invariant of the class (`IInv`) is that the root is sound and at most as high as
there are scores, that the maps agree, that the ids held were given out, and that
the entries of each live query are exactly the one it should have, with the score
`rank(a) + k`. It says nothing of the entries of *removed* queries, nor that
`idToBaseScore` is right: it is not (`zombie_query`). So `Remove` is shown to take
away entries of one id at most and to keep all others, whatever base score it is
called with. The traversals follow from it, as the live queries among what they
visit are decided by their scores, and pruning leaves out only what the maxima
exclude.

`PubSubProofs` first proves of `SubscriptionStore`, for all connections, documents
and a finite set of query ids, that each transaction keeps the counts equal to the
number of entries that exist, and then of the server: `TypeCorrect`,
`CountsStayExact` and `QueriesStayHeld`, whatever the interleaving. The invariant
is `TypeOK /\ CountsExact /\ QueriesAreHeld`: that a snapshot knows its query and
that what the index covers is alive make up the type invariant of the next step.

`PubSubDeliveryProofs` goes on to what the server delivers, for any number of
changes. It uses what the code lets one assume: a limit of `u32::MAX` is more than
the documents there are (`UnlimitedIsLarge`), and no score is the value that stands
for "no row" (`ScoresAreScores`).

- `DocumentIndexFollows`: `[]IndexFollowsTable`. The property says what the index
  holds when the replication is idle; the invariant says it at every step of a
  handler (`IndexTracks`): every other document is where the first change still
  waiting finds it, and the document in hand is where its old or its new value puts
  it, as the handler is before or after its update of the index. That needs each
  change of a document to replace what the one before it left (`LogChains`) and one
  row per document in the table (`OneRowPerDoc`).
- `NothingIsMissed`: `[]NothingMissed`. `Delivered` says, at every moment, of every
  query without a limit that a client was answered for and every row in its range,
  that the entry exists, or the row is one the snapshot has still to apply, or the
  handler is about to enter it (`Due`), or a change of the document still waits.
  A handler or a snapshot reads and then writes without a lock in between: the
  invariant needs what each remembers to agree with the index it has read
  (`HandlerKnows`), the queries of a document to be those that match what was last
  handled (`TrackedFits`), the last waiting change of a document to leave what the
  table has (`LogEnds`), and a connection before its first answer to hold nothing.
- `UpdatesAreTold`: `Spec => UpdateIsTold`. `ToldWell` follows one connection through
  the handler: nothing is told before its turn, and what the handler has read of the
  queries before and after is what the history variable and the index say; after its
  turn it was sent the one event of the change; and a refill that runs later concerns
  queries the document does not match, so none adds it again. A limit larger than the
  number of documents is never reached, which is where the assumption comes in.

Only model-checked: liveness (fairness and `ENABLED` are out of the prover's
reach), that is `EveryRequestIsClosed`, `StopEnds`, `EndsExact` and `EndIsAnswered`.
Every safety property of a passing run is a theorem.

## 5. Not modelled

The treaps behind `DocsIndex` and behind the two Rust indexes; LMDB, its
durability and its failures; the widths of numbers (`bigint` throughout the
counting code); the contents of a document beyond its score; more than one
connection to a worker (each has a runtime of its own); debugging and
verification hooks (`debugVerifyState` is what `CurrentMatchesExact` states).

A match event is applied by the client when it is emitted. Over a socket it is
applied later, but in the same order as the retrievals, and nothing the client
does returns to the worker.

Of `btree-pubsub`: a restart (the indexes are empty after it, while the storage
and the replication slot go on, with connection ids from the start: see the
hazards); rows that were there before the server started; `waitForDoc` and
`RetrievalJobIndex`, which no client of the repository uses; `timestamp_only_update`
and `handle_delete_no_value`, which a table with `REPLICA IDENTITY FULL` never
reaches; `rank` and `rangeCount`, which only read; `doc_metadata` of `storage.rs`,
which nobody uses. A connection's transactions for one change and its
notification are one step: only the order of notifications could tell them apart.

The prototype `dynqueries.ts` is a first version of what `thunderdb-ts` has; the
log replay script, the tests, the tester with its drivers for the compared
systems, and the deployment of those systems have no state of their own to check.

## 6. Plan

Done: `DocsIndex`, `DynamicRangeQueries`, `LimitStream`, `RetrievalJob`,
`LimitSystem`, `QueriesTreap`, `WorkerSession`, `SubscriptionStore`, `PubSub`, with
the proofs of section 4.

Next, in this order:

1. `RangeLimitIndex`: the Rust reference compared with `TopKQueries`.
2. `DocsTreap`: the treaps behind `DocsIndex` as functions of a set of nodes, with
   `DocsIndex` as what they implement.
