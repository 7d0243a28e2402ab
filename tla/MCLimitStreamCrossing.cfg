\* A change of score across the start of a range.
CONSTANTS
  Docs <- MCTwoDocs
  Scores <- MCTwoScores
  Specs <- MCUpperSpec
  MaxQueries = 1
  Moves <- MCCrossing
  LateSeeds = FALSE
SPECIFICATION Spec
INVARIANTS CurrentMatchesExact
CHECK_DEADLOCK FALSE
