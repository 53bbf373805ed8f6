SPECIFICATION FairSpec
CONSTANTS
    Sessions <- Two
    Handlers <- Two
    Workers = {w1}
    Auth = TRUE
    Starts <- Two
    Messages <- Two
    MaxRetries = 1
    Budgets <- MCBudgets
    MaxRuns = 2
    Redeliverable = {2}
INVARIANTS QueuedCoversBacklog OnlyLaterMailsAreLost StoppedIsQuiet
PROPERTY QueuedTasksRun
CHECK_DEADLOCK FALSE
