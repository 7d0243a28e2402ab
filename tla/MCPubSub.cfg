\* Two connections, whose queries overlap.
CONSTANTS
  c1 = c1
  c2 = c2
  Asks <- MCAsks
  Conns = {c1, c2}
  Docs <- MCOneDoc
  Scores <- MCScores
  Specs <- MCSpecs
  Unlimited = 9
  MaxChanges = 2
  MaxQueries = 2
  QueryIds <- MCQueryIds
SPECIFICATION Spec
INVARIANTS TypeOK CountsExact QueriesAreHeld IndexFollowsTable NothingMissed
PROPERTIES UpdateIsTold
CHECK_DEADLOCK FALSE
