\* One connection with a query without a limit: what it is told of a delete.
CONSTANTS
  c1 = c1
  c2 = c2
  Conns = {c1}
  Docs <- MCOneDoc
  Scores <- MCScores
  Specs <- MCSpecs
  Asks <- MCAskAll
  Unlimited = 9
  MaxChanges = 2
  MaxQueries = 2
  QueryIds <- MCQueryIds
SPECIFICATION Spec
INVARIANTS DeleteIsTold
CHECK_DEADLOCK FALSE
