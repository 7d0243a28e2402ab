---------------------------- MODULE MCLimitStream ----------------------------
(* Instances of LimitStream for TLC: the ranges and limits of the queries.  *)
EXTENDS LimitStream

MCDocs   == {1, 2, 3}
MCScores == {0, 1, 2}

\* A range in the middle, a half-open one, one that is empty; limits 0, 1, 2.
MCSpecs == {[a |-> 1, k |-> 2, max |-> 2], [a |-> 0, k |-> 1, max |-> 1],
            [a |-> 0, k |-> 2, max |-> 2], [a |-> 1, k |-> 0, max |-> 2],
            [a |-> 2, k |-> 1, max |-> 0]}

\* Two documents, two scores, one range of limit 1 that starts at the upper
\* score: the smallest instance in which a change crosses the start of a range.
MCTwoDocs   == {1, 2}
MCTwoScores == {0, 1}
MCUpperSpec == {[a |-> 1, k |-> 1, max |-> 1]}
MCCrossing  == {<<0, 1>>, <<1, 0>>}
==============================================================================
