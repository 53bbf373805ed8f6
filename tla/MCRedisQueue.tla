---------------------------- MODULE MCRedisQueue ----------------------------
(* Two programs, a plain job of high priority and a scheduled one. *)
EXTENDS RedisQueue, TLC
CONSTANTS j1, j2
HostSymmetry == Permutations(Hosts)
MCJobs == {j1, j2}
MCTimed == {j2}
MCPriority == [j \in Jobs |-> IF j = j1 THEN 1 ELSE 0]
(* No property says anything of a job after its second release. *)
NotTwice == twice = {}
=============================================================================
