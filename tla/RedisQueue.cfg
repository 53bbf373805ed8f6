SPECIFICATION Spec
CONSTANTS
  j1 = j1
  j2 = j2
  Jobs <- MCJobs
  Hosts = {h1, h2}
  NoJob = NoJob
  Timed <- MCTimed
  MaxAttempts = 2
  Priority <- MCPriority
  MaxFailures = 1
  ScanLimit = 1
  Deletable = {j1}
  Features = {"readError", "move", "pipeError"}
INVARIANTS NoJobLost OneRunAtATime
CONSTRAINT NotTwice
SYMMETRY HostSymmetry
CHECK_DEADLOCK FALSE
