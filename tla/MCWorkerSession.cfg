\* One connection, which may break at any moment.
CONSTANTS
  Plans <- MCPlans
  Malformed <- MCMalformed
  Throwing <- MCThrowing
SPECIFICATION Spec
INVARIANTS TypeOK SummaryIsComplete RunIsNeverRefused
PROPERTIES SummaryIsFinal EndIsAnswered
CHECK_DEADLOCK FALSE
