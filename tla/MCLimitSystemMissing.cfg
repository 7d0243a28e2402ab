\* A change of score while the document is being retrieved.
CONSTANTS
  Docs <- MCTwoDocs
  Scores <- MCScores
  Specs <- MCWideSpec
  MaxQueries = 1
  Moves <- MCAllMoves
  LateSeeds = FALSE
  Paced = FALSE
  MayFail = FALSE
SPECIFICATION Spec
INVARIANTS FinalNoneMissing
CHECK_DEADLOCK FALSE
