\* Scores change on one side of each start; the store may fail, and the worker sleeps between batches.
CONSTANTS
  Docs <- MCDocs
  Scores <- MCFourScores
  Specs <- MCHalfSpecs
  MaxQueries = 1
  Moves <- MCHalfMoves
  LateSeeds = FALSE
  Paced = TRUE
  MayFail = TRUE
SPECIFICATION Spec
INVARIANTS StoreIsIndex NoIdleRequest CurrentMatchesExact NoneOutside
  NeverRegistersProcessed
PROPERTIES AlwaysMoveReported
CHECK_DEADLOCK FALSE
