---------------------------- MODULE MCLimitSystem ----------------------------
(* Instances of LimitSystem for TLC.                                        *)
EXTENDS LimitSystem

MCDocs   == {1, 2, 3}
MCScores == {0, 1}

\* A window of two over everything, and a window of one in the upper half.
MCSpecs == {[a |-> 0, k |-> 2, max |-> 1], [a |-> 1, k |-> 1, max |-> 1]}

\* One window that is never full.
MCWideSpec == {[a |-> 0, k |-> 3, max |-> 1]}

\* A window of one in the upper half of four scores, and one at the lowest score;
\* moves within the lower and within the upper half.  None crosses the start of
\* a range: it stays above it, or below it, and may leave a range by its end.
MCFourScores == {0, 1, 2, 3}
MCHalfSpecs  == {[a |-> 2, k |-> 1, max |-> 3], [a |-> 0, k |-> 1, max |-> 0]}
MCHalfMoves  == {<<0, 1>>, <<1, 0>>, <<2, 3>>, <<3, 2>>}

\* Every change of a score.
MCAllMoves == MCScores \X MCScores

\* Windows of one over everything.
MCTopOne == {[a |-> 0, k |-> 1, max |-> 1]}
MCTwoDocs == {1, 2}
==============================================================================
