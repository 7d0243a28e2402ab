---------------------------- MODULE MCQueriesTreap ----------------------------
(* Instances of QueriesTreap for TLC.                                       *)
EXTENDS QueriesTreap

MCScores == {0, 1, 2}
MCPrios  == {1, 2, 3}

\* Three starts, the lowest with two limits and bounds.
MCSpecs == {[a |-> 0, k |-> 1, max |-> 1], [a |-> 0, k |-> 2, max |-> 2],
            [a |-> 1, k |-> 1, max |-> 2], [a |-> 2, k |-> 2, max |-> 2]}
==============================================================================
