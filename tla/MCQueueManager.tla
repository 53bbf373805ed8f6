--------------------------- MODULE MCQueueManager ---------------------------
(* QueueManager with two jobs: j1 may be attempted twice, j2 was built with *)
(* MaxAttempts 0 and gets the manager's default.                            *)
EXTENDS QueueManager, TLC

CONSTANTS j1, j2, w1, w2, t1

OneTeam     == <<{w1, w2}>>
OneWorker   == <<{w1}>>
TwoTeams    == <<{w1}, {w2}>>
WorkerSymmetry == Permutations({w1, w2})
MCPriority  == [j \in Jobs |-> IF j = j1 THEN 1 ELSE 2]
MCCreatedAt == [j \in Jobs |-> IF j = j1 THEN 1 ELSE 2]
MCType      == [j \in Jobs |-> t1]
MCMaxAttempts == [j \in Jobs |-> IF j = j1 THEN 2 ELSE 0]
=============================================================================
