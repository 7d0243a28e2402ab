---------------------------- MODULE WorkerSession ----------------------------
(***************************************************************************)
(* One connection between a client and a worker of thunderdb-ts: the client *)
(* of perf.ts (runRemote), the lines in flight in either direction, and the *)
(* handler of transport.ts with the runtime it feeds (workerRuntime.ts).    *)
(* The client writes all its lines without waiting for an answer, and then  *)
(* reads until the first summary or error.  The connection may break at any *)
(* moment; what is in flight then arrives up to some point, in order.       *)
(* The in-process transport is the special case in which a line is handled  *)
(* as soon as it is written.                                                *)
(***************************************************************************)
EXTENDS Integers, SequencesExt

CONSTANTS Plans,      \* the lines a client may have to write, in order
          Malformed,  \* items wireToStreamItem cannot convert
          Throwing    \* items whose handler throws in the limit stream

VARIABLES plan,       \* the lines of this client
          at,         \* the next one to write
          client,     \* where runRemote stands
          result,     \* the summary it returned
          up,         \* the connection is open
          inbox, outbox,  \* lines on their way to the worker, and back
          handshake, closing,   \* handshakeComplete, closing
          gen,        \* "running", or "finished": the run's generator
          handled,    \* the items the limit stream has handled, in order
          processed   \* eventsProcessed

clientVars  == <<plan, at, client, result>>
runtimeVars == <<gen, handled, processed>>
workerVars  == <<handshake, closing, runtimeVars>>
vars        == <<clientVars, up, inbox, outbox, workerVars>>

-----------------------------------------------------------------------------
(* Messages.                                                                *)

Version == 1

\* Lines of a client.  Junk does not parse, Unknown parses and has no handler.
Hello(v)     == [type |-> "hello", version |-> v]
Event(items) == [type |-> "event", items |-> items]
End          == [type |-> "end"]
Junk         == [type |-> "junk"]
Unknown      == [type |-> "unknown"]

\* Lines of the worker.
Welcome    == [type |-> "hello"]
Error      == [type |-> "error"]
Summary(n) == [type |-> "summary", eventsProcessed |-> n]
NoSummary  == [type |-> "none"]

Elements(s) == {s[i] : i \in DOMAIN s}

ASSUME PlansAreLines ==
  \A p \in Plans :
    /\ p \in Seq(Elements(p))
    /\ \A i \in DOMAIN p :
         p[i].type = "event" => p[i].items \in Seq(Elements(p[i].items))

\* wireToStreamItem of every item: one that cannot be converted throws.
Converts(items) == Elements(items) \cap Malformed = {}

-----------------------------------------------------------------------------
(* The runtime.                                                             *)

\* Of a batch, n items are handed to the generator without an exception: those
\* before the first that throws, or all of them once it is finished.
Accepts(items, n) ==
  /\ \A i \in 1..n : gen = "running" => items[i] \notin Throwing
  /\ n < Len(items) => gen = "running" /\ items[n + 1] \in Throwing

\* enqueueBatch: the items go to the generator one by one and are counted.  One
\* that throws ends the loop and finishes the generator; a finished generator
\* ignores what it is given.
EnqueueBatch(items, n) ==
  /\ Accepts(items, n)
  /\ processed' = processed + n
  /\ handled' = IF gen = "running" THEN handled \o SubSeq(items, 1, n) ELSE handled
  /\ gen' = IF n = Len(items) THEN gen ELSE "finished"

FinishRunOpen == UNCHANGED gen              \* mutant: the generator goes on

\* finishRun: the generator ends.
FinishRun == gen' = "finished"

-----------------------------------------------------------------------------
(* The connection.                                                          *)

\* A line for the client of a closed connection is dropped.
Reply(m) == outbox' = IF up THEN Append(outbox, m) ELSE outbox

\* The connection is gone.  Of the lines on their way, those that had already
\* been received are still delivered.
Cut(in, out) ==
  /\ up' = FALSE
  /\ \E i \in Prefixes(in) : inbox' = i
  /\ \E o \in Prefixes(out) : outbox' = o

-----------------------------------------------------------------------------
(* The handler of a line, in the worker: each action is the whole handler.  *)

HandleJunk ==
  /\ Reply(Error)
  /\ UNCHANGED <<up, workerVars>>

\* Mutant of HandleHello: the handshake is not recorded.
HandleHelloForgotten(line) ==
  /\ handshake \/ line.version = Version
  /\ Reply(IF handshake THEN Error ELSE Welcome)
  /\ UNCHANGED <<up, workerVars>>

HandleHello(line) ==
  \/ /\ handshake
     /\ Reply(Error)
     /\ UNCHANGED <<up, workerVars>>
  \/ /\ ~handshake /\ line.version = Version
     /\ handshake' = TRUE
     /\ Reply(Welcome)
     /\ UNCHANGED <<up, closing, runtimeVars>>

\* A wrong version is refused, and the worker closes the connection.
RefuseVersion(line) ==
  /\ ~handshake /\ line.version # Version
  /\ closing' = TRUE
  /\ IF closing \/ ~up
       THEN Reply(Error) /\ inbox' = Tail(inbox) /\ UNCHANGED up
       ELSE Cut(Tail(inbox), Append(outbox, Error))
  /\ UNCHANGED <<handshake, runtimeVars>>

\* Mutant of HandleEarly: a line before the handshake is skipped.
HandleEarlySilently ==
  /\ ~handshake
  /\ UNCHANGED <<up, outbox, workerVars>>

HandleEarly ==
  /\ ~handshake
  /\ Reply(Error)
  /\ UNCHANGED <<up, workerVars>>

\* Mutant of HandleEvent: an event that cannot be ingested is skipped.
HandleEventSilently(line) ==
  /\ handshake
  /\ IF Converts(line.items)
       THEN \E n \in 0..Len(line.items) : EnqueueBatch(line.items, n)
       ELSE UNCHANGED runtimeVars
  /\ UNCHANGED <<up, outbox, handshake, closing>>

\* All items of an event are converted before the first is handled.
HandleEvent(line) ==
  /\ handshake
  /\ IF Converts(line.items)
       THEN \E n \in 0..Len(line.items) :
              /\ EnqueueBatch(line.items, n)
              /\ IF n = Len(line.items) THEN UNCHANGED outbox ELSE Reply(Error)
       ELSE Reply(Error) /\ UNCHANGED runtimeVars
  /\ UNCHANGED <<up, handshake, closing>>

\* Mutant of HandleEnd: the end is counted as an event.
HandleEndCounted ==
  /\ handshake
  /\ Reply(IF gen = "running" THEN Summary(processed + 1) ELSE Error)
  /\ FinishRun
  /\ UNCHANGED <<up, handshake, closing, handled, processed>>

\* A generator that is already finished yields no summary, and reading one
\* throws within the handler.
HandleEnd ==
  /\ handshake
  /\ Reply(IF gen = "running" THEN Summary(processed) ELSE Error)
  /\ FinishRun
  /\ UNCHANGED <<up, handshake, closing, handled, processed>>

HandleUnknown ==
  /\ handshake
  /\ Reply(Error)
  /\ UNCHANGED <<up, workerVars>>

\* The next line, whichever it is.  Lines that had arrived are handled even
\* after the connection was closed.
HandleLine ==
  /\ inbox # <<>>
  /\ LET line == Head(inbox) IN
       \/ /\ inbox' = Tail(inbox)
          /\ \/ line.type = "junk"    /\ HandleJunk
             \/ line.type = "hello"   /\ HandleHello(line)
             \/ line.type \in {"event", "end", "unknown"} /\ HandleEarly
             \/ line.type = "event"   /\ HandleEvent(line)
             \/ line.type = "end"     /\ HandleEnd
             \/ line.type = "unknown" /\ HandleUnknown
       \/ line.type = "hello" /\ RefuseVersion(line)
  /\ UNCHANGED clientVars

\* The close handler of the transport: it stops neither the lines that have
\* arrived nor the runtime.
NoticeClose ==
  /\ ~up /\ ~closing
  /\ closing' = TRUE
  /\ UNCHANGED <<clientVars, up, inbox, outbox, handshake, runtimeVars>>

Worker == HandleLine \/ NoticeClose

-----------------------------------------------------------------------------
(* The client.                                                              *)

Written == at > Len(plan)

\* runRemote ends, and its `finally` closes the connection.
Finish(how) ==
  /\ client' = how
  /\ up' = FALSE
  /\ IF up THEN \E i \in Prefixes(inbox) : inbox' = i ELSE UNCHANGED inbox

\* A line is written; a full socket makes the client wait for 'drain'.
Write ==
  /\ client = "running" /\ ~Written /\ up
  /\ inbox' = Append(inbox, plan[at])
  /\ at' = at + 1
  /\ client' \in {"running", "draining"}
  /\ UNCHANGED <<plan, result, up, outbox, workerVars>>

Drained ==
  /\ client = "draining" /\ up
  /\ client' = "running"
  /\ UNCHANGED <<plan, at, result, up, inbox, outbox, workerVars>>

\* The connection is gone: the line vanishes, or the socket is known not to be
\* writable and write() throws.
WriteClosed ==
  /\ client = "running" /\ ~Written /\ ~up
  /\ \/ at' = at + 1 /\ UNCHANGED <<client, inbox, up>>
     \/ Finish("threw") /\ UNCHANGED at
  /\ UNCHANGED <<plan, result, outbox, workerVars>>

\* nextMessage(): a summary is returned, an error thrown, a welcome skipped.
Receive ==
  /\ client = "running" /\ Written /\ outbox # <<>>
  /\ LET m == Head(outbox) IN
       \/ /\ m.type = "summary"
          /\ Finish("returned") /\ result' = m
       \/ /\ m.type = "error"
          /\ Finish("threw") /\ UNCHANGED result
       \/ /\ m.type = "hello"
          /\ UNCHANGED <<client, result, up, inbox>>
  /\ outbox' = Tail(outbox)
  /\ UNCHANGED <<plan, at, workerVars>>

\* Nothing is left to read of a closed connection: "worker disconnected".
Disconnected ==
  /\ client = "running" /\ Written /\ ~up /\ outbox = <<>>
  /\ Finish("threw")
  /\ UNCHANGED <<plan, at, result, outbox, workerVars>>

\* A socket error rejects once(socket, 'drain'); a close without one does not.
DrainFails ==
  /\ client = "draining" /\ ~up
  /\ Finish("threw")
  /\ UNCHANGED <<plan, at, result, outbox, workerVars>>

Client == Write \/ Drained \/ WriteClosed \/ Receive \/ Disconnected

-----------------------------------------------------------------------------

\* The connection breaks.
Lose ==
  /\ up
  /\ Cut(inbox, outbox)
  /\ UNCHANGED <<clientVars, workerVars>>

Init ==
  /\ plan \in Plans /\ at = 1
  /\ client = "running" /\ result = NoSummary
  /\ up = TRUE /\ inbox = <<>> /\ outbox = <<>>
  /\ handshake = FALSE /\ closing = FALSE
  /\ gen = "running" /\ handled = <<>> /\ processed = 0

Next == Worker \/ Client \/ DrainFails \/ Lose

\* The event loops of both processes run.  Nothing makes the socket report an
\* error, nor the connection break.
Spec == Init /\ [][Next]_vars /\ WF_vars(Worker) /\ WF_vars(Client)

-----------------------------------------------------------------------------
(* Properties.                                                              *)

\* The items of the first k lines, and of those a client has written before its
\* first end.
ItemsOf(line) == IF line.type = "event" THEN line.items ELSE <<>>
Before(k) == FlattenSeq([i \in 1..k |-> ItemsOf(plan[i])])

FirstEnd == SelectInSeq(plan, LAMBDA line : line.type = "end")
Asked == Before(FirstEnd - 1)

Summaries == {Summary(n) : n \in 0..processed}

\* Type invariant: the channels carry lines, and the states are the four of
\* runRemote and the two of the generator.
TypeOK ==
  /\ plan \in Plans /\ at \in 1..(Len(plan) + 1)
  /\ client \in {"running", "draining", "returned", "threw"}
  /\ inbox \in Seq(Elements(plan)) /\ processed \in Nat
  /\ outbox \in Seq({Welcome, Error} \cup Summaries)
  /\ result \in {NoSummary} \cup Summaries
  /\ {up, handshake, closing} \subseteq BOOLEAN
  /\ gen \in {"running", "finished"}

\* A summary that reaches the client stands for a complete run: every item it
\* sent before End was converted, handled in order, and counted.  An item that
\* was refused, lost with the connection, or dropped by a finished generator
\* never goes unnoticed (transport.ts:177-203, perf.ts:492-500).
SummaryIsComplete ==
  client = "returned" => /\ handled = Asked
                         /\ result.eventsProcessed = Len(Asked)

\* The plan of runRemote, with items the worker can handle.
IsRun ==
  /\ plan # <<>> /\ plan[1] = Hello(Version) /\ plan[Len(plan)] = End
  /\ \A i \in 2..(Len(plan) - 1) :
       /\ plan[i].type = "event"
       /\ Elements(plan[i].items) \cap (Malformed \cup Throwing) = {}

\* A client that keeps to the protocol, with items the worker can handle, is
\* never refused: whatever else happens, no error is on its way to it
\* (perf.ts:475-500, transport.ts:143-209).
RunIsNeverRefused == IsRun => Error \notin Elements(outbox)

\* Nothing is handled after a summary was written: what comes after End is
\* counted at most, and the summary stays true (workerRuntime.ts:105-121).
SummaryIsFinal ==
  [][(\E m \in Elements(outbox) : m.type = "summary") \/ client = "returned"
       => UNCHANGED handled]_vars

\* runRemote ends: once a client has written End and reads, it returns or
\* throws, whatever it wrote before and even if the connection breaks
\* (perf.ts:492-503, transport.ts:187-203).
EndIsAnswered ==
  (FirstEnd # 0 /\ Written /\ client = "running")
     ~> client \in {"returned", "threw"}

==============================================================================
