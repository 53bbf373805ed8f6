SPECIFICATION MQSpec
CONSTANTS
  j1 = j1
  j2 = j2
  Jobs = {j1, j2}
  Consumers = {c1, c2}
  NoJob = NoJob
  Priority <- MCPriority
  CreatedAt <- MCCreatedAt
  MaxCopies = 1
  SetStatus = {"Pending", "Retrying", "Completed"}
INVARIANTS MQTypeOK NotAllAsleep ScheduledAreStored
PROPERTIES CloseReleasesDequeue
