SPECIFICATION FairSpec
CONSTANTS
  j1 = j1
  j2 = j2
  w1 = w1
  w2 = w2
  t1 = t1
  Jobs = {j1, j2}
  Consumers = {w1}
  NoJob = NoJob
  Priority <- MCPriority
  CreatedAt <- MCCreatedAt
  MaxStarts = 1
  Team <- OneWorker
  Type <- MCType
  Types = {t1}
  MaxAttempts <- MCMaxAttempts
  maxRetries = 1
  ScheduleLimit = 2
  EnqueueOverdue = FALSE
  Interventions = {"stop", "cancel"}
PROPERTIES EveryJobEnds WorkersDrain
CHECK_DEADLOCK FALSE
