SPECIFICATION Spec
CONSTANTS
  j1 = j1
  j2 = j2
  w1 = w1
  w2 = w2
  t1 = t1
  Jobs = {j1, j2}
  Consumers = {w1, w2}
  NoJob = NoJob
  Priority <- MCPriority
  CreatedAt <- MCCreatedAt
  MaxStarts = 1
  Team <- OneTeam
  Type <- MCType
  Types = {t1}
  MaxAttempts <- MCMaxAttempts
  maxRetries = 1
  ScheduleLimit = 1
  EnqueueOverdue = FALSE
  Interventions = {"stop", "close", "delete"}
INVARIANTS OnePlace NoJobLost AttemptsBounded CleanStopLeavesNothingRunning StatsBalance
PROPERTIES LifecycleSpec
SYMMETRY WorkerSymmetry
CHECK_DEADLOCK FALSE
