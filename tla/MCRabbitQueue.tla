---------------------------- MODULE MCRabbitQueue ----------------------------
(* One program with two workers, a plain job and a scheduled one.  The     *)
(* negative priority of the plain job is the highest of the broker.        *)
EXTENDS RabbitQueue, TLC
CONSTANTS j1, j2
MCJobs == {j1, j2}
MCPriority == [j \in MCJobs |-> IF j = j1 THEN -1 ELSE 5]
WorkerSymmetry == Permutations(Workers)
=============================================================================
