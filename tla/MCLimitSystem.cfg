\* One query: the client follows its window.
CONSTANTS
  Docs <- MCDocs
  Scores <- MCScores
  Specs <- MCSpecs
  MaxQueries = 1
  Moves = {}
  LateSeeds = FALSE
  Paced = FALSE
  MayFail = FALSE
SPECIFICATION Spec
INVARIANTS TypeOK NothingExtra NothingMissing SettledViewExact
PROPERTIES EndsExact
CHECK_DEADLOCK FALSE
