\* Two queries whose windows share documents.
CONSTANTS
  Docs <- MCTwoDocs
  Scores <- MCScores
  Specs <- MCTopOne
  MaxQueries = 2
  Moves = {}
  LateSeeds = FALSE
  Paced = FALSE
  MayFail = FALSE
SPECIFICATION Spec
INVARIANTS NeverRegistersProcessed
CHECK_DEADLOCK FALSE
