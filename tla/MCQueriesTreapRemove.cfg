\* Removal by the stored base score.
CONSTANTS
  Scores <- MCScores
  Specs <- MCSpecs
  Prios <- MCPrios
  MaxQueries = 2
  MaxDocs = 1
SPECIFICATION Spec
INVARIANTS RemovedIsGone
