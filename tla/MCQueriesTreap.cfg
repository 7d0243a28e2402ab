\* Every sequence of additions and removals over three nodes.
CONSTANTS
  Scores <- MCScores
  Specs <- MCSpecs
  Prios <- MCPrios
  MaxQueries = 3
  MaxDocs = 1
SPECIFICATION Spec
INVARIANTS TypeOK IsTreap ScoresExact CollectExact DifferenceExact
