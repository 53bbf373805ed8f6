---------------------------- MODULE JobLifecycle ----------------------------
(***************************************************************************)
(* What the queue manager promises about one job, whatever the number of   *)
(* workers and whatever queue lies below: once accepted a job is released, *)
(* attempted by one worker at a time at most AttemptLimit times, and, once *)
(* Completed or Failed, left alone.  The states are those of queue/job.go, *)
(* with "New" for a job no call of Enqueue or Schedule has accepted yet.   *)
(***************************************************************************)
EXTENDS Naturals

CONSTANTS
  Jobs,
  AttemptLimit  \* AttemptLimit[j], at least one

VARIABLES state, tries

vars == <<state, tries>>

Init ==
  /\ state = [j \in Jobs |-> "New"]
  /\ tries = [j \in Jobs |-> 0]

Move(j, from, to) ==
  /\ state[j] = from
  /\ state' = [state EXCEPT ![j] = to]

Accept(j)  == (Move(j, "New", "Pending") \/ Move(j, "New", "Scheduled")) /\ UNCHANGED tries

Release(j) == Move(j, "Scheduled", "Pending") /\ UNCHANGED tries

Attempt(j) ==
  /\ Move(j, "Pending", "Running")
  /\ tries[j] < AttemptLimit[j]
  /\ tries' = [tries EXCEPT ![j] = @ + 1]

End(j)     == (Move(j, "Running", "Completed") \/ Move(j, "Running", "Failed")) /\ UNCHANGED tries

BackOff(j) == tries[j] < AttemptLimit[j] /\ Move(j, "Running", "Retrying") /\ UNCHANGED tries

Requeue(j) == Move(j, "Retrying", "Pending") /\ UNCHANGED tries

Next ==
  \E j \in Jobs : Accept(j) \/ Release(j) \/ Attempt(j) \/ End(j) \/ BackOff(j) \/ Requeue(j)

Spec == Init /\ [][Next]_vars
=============================================================================
