SPECIFICATION Spec
CONSTANTS
  j1 = j1
  j2 = j2
  Jobs <- MCJobs
  Workers = {w1, w2}
  NoJob = NoJob
  Timed = {j2}
  MaxAttempts = 2
  Priority <- MCPriority
  MaxPriority = 10
  MaxDeliveries = 4
  MaxBreaks = 2
INVARIANTS NoJobLost CopiesCounted
SYMMETRY WorkerSymmetry
CHECK_DEADLOCK FALSE
