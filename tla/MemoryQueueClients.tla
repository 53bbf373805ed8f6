------------------------- MODULE MemoryQueueClients -------------------------
(***************************************************************************)
(* MemoryQueue under any program: consumers that call Dequeue and drop     *)
(* what they get, callers that use every method on any job in any order.   *)
(***************************************************************************)
EXTENDS MemoryQueue

CONSTANTS
  MaxCopies,  \* bound: how often the heap may hold one job
  SetStatus   \* the statuses callers hand to UpdateJob

ASSUME CallersAssumption == MaxCopies \in Nat /\ SetStatus \subseteq Statuses

MQInit ==
  /\ jobs = {}
  /\ pending = [j \in Jobs |-> 0]
  /\ scheduledJobs = {}
  /\ notifyC = 0
  /\ closed = FALSE
  /\ scheduleAt \in [Jobs -> Times]
  /\ status = [j \in Jobs |-> BuiltStatus(scheduleAt[j])]
  /\ pc = [c \in Consumers |-> "idle"]
  /\ cur = [c \in Consumers |-> NoJob]

CallDequeue(c) ==
  /\ pc[c] = "idle"
  /\ Goto(c, "lock")
  /\ UNCHANGED <<queueVars, jobVars, cur>>

DropJob(c) ==
  /\ pc[c] = "got"
  /\ cur' = [cur EXCEPT ![c] = NoJob]
  /\ Goto(c, "idle")
  /\ UNCHANGED <<queueVars, jobVars>>

CallEnqueue(j) ==
  /\ pending[j] < MaxCopies
  /\ Enqueue(j, scheduleAt[j]) \/ Refused
  /\ UNCHANGED <<jobVars, pc, cur>>

CallSchedule(j) ==
  /\ Schedule(j) \/ Refused
  /\ UNCHANGED <<jobVars, pc, cur>>

CallUpdateJob(j, s) ==
  /\ pending[j] < MaxCopies
  /\ status' = [status EXCEPT ![j] = s]
  /\ UpdateJob(j, s) \/ Refused
  /\ UNCHANGED <<scheduleAt, pc, cur>>

CallDeleteJob(j) ==
  /\ DeleteJob(j) \/ Refused
  /\ UNCHANGED <<jobVars, pc, cur>>

CallClose ==
  /\ Close
  /\ UNCHANGED <<jobVars, pc, cur>>

MQNext ==
  \/ \E c \in Consumers :
       \/ CallDequeue(c) \/ DequeueFirst(c) \/ DequeueNotified(c)
       \/ DequeueAgain(c) \/ DequeueGiveUp(c) \/ DropJob(c)
  \/ \E j \in Jobs :
       \/ CallEnqueue(j) \/ CallSchedule(j) \/ CallDeleteJob(j) \/ TimePasses(j)
       \/ \E s \in SetStatus : CallUpdateJob(j, s)
  \/ CallClose

(* A goroutine that can take the mutex or receive eventually does; nothing *)
(* is assumed of the callers, nor of the timer.                            *)
MQFairness ==
  \A c \in Consumers :
    WF_mqVars(DequeueFirst(c)) /\ WF_mqVars(DequeueNotified(c)) /\ WF_mqVars(DequeueAgain(c))

MQSpec == MQInit /\ [][MQNext]_mqVars /\ MQFairness

-----------------------------------------------------------------------------
MQTypeOK ==
  /\ QueueTypeOK
  /\ pc \in [Consumers -> {"idle", "lock", "waiting", "woken", "got"}]

(* Close wakes every goroutine blocked in Dequeue (memory.go:255): each    *)
(* one returns, without the help of its timer.                             *)
CloseReleasesDequeue ==
  \A c \in Consumers :
    closed /\ pc[c] \in {"lock", "waiting", "woken"} ~> pc[c] = "idle"

(* A dequeuer sleeps over a pending job only while a notification is on    *)
(* its way to some dequeuer: what notify (memory.go:260-267) says of a     *)
(* full channel, "notification already pending".                           *)
WaiterIsNotified ==
  (~closed /\ ~HeapEmpty /\ \E c \in Consumers : pc[c] = "waiting")
    => notifyC = 1 \/ \E c \in Consumers : pc[c] = "woken"
=============================================================================
