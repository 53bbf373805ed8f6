------------------------ MODULE MCMemoryQueueClients ------------------------
(* MemoryQueue on small instances: two jobs of different urgency, and two *)
(* consumers.                                                              *)
EXTENDS MemoryQueueClients, TLC

CONSTANTS j1, j2

MCPriority  == (j1 :> 1) @@ (j2 :> 2)
MCCreatedAt == (j1 :> 1) @@ (j2 :> 2)
=============================================================================
