\* The worker under every order of calls, awaits and load failures, with a
\* sleep between two batches.
CONSTANTS
  Docs = {d1, d2}
  Queries = {q1, q2}
  States = {s1, s2}
  Paced = TRUE
  MayFail = TRUE
SPECIFICATION Spec
INVARIANTS TypeOK NoLostWakeup LoadedIsCurrent
PROPERTIES KeepsRequests EveryRequestIsClosed StopEnds
CHECK_DEADLOCK FALSE
