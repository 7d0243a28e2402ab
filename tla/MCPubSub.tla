------------------------------ MODULE MCPubSub ------------------------------
(* Instances of PubSub for TLC.                                             *)
EXTENDS PubSub, TLC

CONSTANTS c1, c2

MCScores    == {0, 1}
MCOneDoc    == {1}
MCUnlimited == 9

MCLow     == [min |-> 0, max |-> 0, limit |-> MCUnlimited]
MCAll     == [min |-> 0, max |-> 1, limit |-> MCUnlimited]
MCLimited == [min |-> 0, max |-> 1, limit |-> 1]
MCSpecs   == {MCLow, MCAll, MCLimited}

MCAsks     == c1 :> {MCLow, MCAll} @@ c2 :> {MCAll, MCLimited}
MCAskAll   == c1 :> {MCAll}
MCQueryIds == 0..(MaxQueries - 1)
==============================================================================
