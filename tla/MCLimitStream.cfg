\* Documents appear, disappear and are touched; two queries.
CONSTANTS
  Docs <- MCDocs
  Scores <- MCScores
  Specs <- MCSpecs
  MaxQueries = 2
  Moves = {}
  LateSeeds = FALSE
SPECIFICATION Spec
INVARIANTS TypeOK EffExact CurrentMatchesExact NoThrow
PROPERTIES ReportsExactDifference
