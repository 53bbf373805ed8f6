SPECIFICATION FairSpec
CONSTANTS
  a = a
  n = n
  Tasks = {a}
  Name <- MCName
  Runs = {r1, r2, r3}
  MaxRetries <- MCMaxRetries
  Exhausted = {a}
  MaxStarts = 1
  NoTask = NoTask
  TimeOuts = TRUE
INVARIANTS TypeOK OneRunPerGap StopWaitsForAll
PROPERTIES TaskRunsAgain StopReturnsEventually
CHECK_DEADLOCK FALSE
