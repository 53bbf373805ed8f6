--------------------------- MODULE MCTaskScheduler ---------------------------
(* TaskScheduler with one task, which is retried once. *)
EXTENDS TaskScheduler, TLC

CONSTANTS a, n

MCName       == a :> n
MCMaxRetries == a :> 1
=============================================================================
