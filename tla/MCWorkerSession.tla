--------------------------- MODULE MCWorkerSession ---------------------------
(* An instance of WorkerSession for TLC: clients with any lines, in order. *)
EXTENDS WorkerSession

MCMalformed == {"malformed"}
MCThrowing  == {"throws"}

\* Events of one item of each kind, and of two of which the first throws.
MCLines == {Hello(1), Hello(2), End, Junk, Unknown,
            Event(<<"ok">>), Event(<<"malformed">>), Event(<<"ok", "ok">>),
            Event(<<"ok", "throws", "ok">>)}

\* Clients of up to three lines, and runs that may start and end as they
\* should, with any two lines between.
MCPlans == BoundedSeq(MCLines, 3)
             \cup {<<Hello(1), x, y, End>> : x, y \in MCLines}
==============================================================================
