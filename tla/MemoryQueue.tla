----------------------------- MODULE MemoryQueue -----------------------------
(***************************************************************************)
(* The in-memory job queue of queue/memory.go.                             *)
(*                                                                         *)
(* Every method runs under mq.mutex, so it is one step, except Dequeue,    *)
(* which gives the mutex up to wait on notifyC, a channel of capacity one, *)
(* on its context and on a timer.  pc[c] says where consumer c stands:     *)
(*   "idle"     outside Dequeue, without a job                             *)
(*   "lock"     Dequeue called, about to take the mutex                    *)
(*   "waiting"  in the select of Dequeue's loop                            *)
(*   "woken"    received from notifyC, about to take the mutex again       *)
(*   "got"      Dequeue returned cur[c]                                    *)
(*                                                                         *)
(* A *Job and its ID are one value: jobs is the domain of the map, and the *)
(* mutable fields Status and ScheduleAt, which callers write without the   *)
(* mutex, are the functions status and scheduleAt.  The clock is abstract: *)
(* scheduleAt[j] is "none" (zero time), "future" or "past".  The heap      *)
(* pendingJobs may hold one pointer several times, so it is a bag.         *)
(***************************************************************************)
EXTENDS Naturals, FiniteSets

CONSTANTS
  Jobs,        \* the *Job values a program builds
  Consumers,   \* the goroutines that call Dequeue
  NoJob,       \* cur[c] when c has no job
  Priority,    \* Priority[j], larger is more urgent
  CreatedAt    \* CreatedAt[j], smaller is earlier

ASSUME JobsAssumption ==
  /\ NoJob \notin Jobs
  /\ Priority \in [Jobs -> Nat]
  /\ CreatedAt \in [Jobs -> Nat]

VARIABLES
  jobs,           \* mq.jobs
  pending,        \* mq.pendingJobs
  scheduledJobs,  \* mq.scheduledJobs
  notifyC,        \* messages buffered in mq.notifyC
  closed,         \* mq.closed, and notifyC is closed with it
  status,         \* job.Status
  scheduleAt,     \* job.ScheduleAt
  pc, cur         \* where each consumer is, and the job it has

queueVars == <<jobs, pending, scheduledJobs, notifyC, closed>>
jobVars   == <<status, scheduleAt>>
mqVars    == <<queueVars, jobVars, pc, cur>>

Statuses == {"Pending", "Running", "Completed", "Failed",
             "Retrying", "Scheduled", "DeadLetter"}
Terminal == {"Completed", "Failed", "DeadLetter"}
Times    == {"none", "future", "past"}

(* The status JobBuilder gives a job: WithScheduleAt and WithDelay make it *)
(* Scheduled, a job built without them is Pending.                         *)
BuiltStatus(t) == IF t = "none" THEN "Pending" ELSE "Scheduled"

IsScheduled(t) == t = "future"

InHeap(j) == pending[j] > 0

HeapEmpty == \A j \in Jobs : ~InHeap(j)

(* jobHeap.Less *)
Less(j, k) ==
  \/ Priority[j] > Priority[k]
  \/ Priority[j] = Priority[k] /\ CreatedAt[j] < CreatedAt[k]

(* The jobs heap.Pop may return: minimal ones, ties in any order. *)
Best == {j \in Jobs : InHeap(j) /\ \A k \in Jobs : InHeap(k) => ~Less(k, j)}

-----------------------------------------------------------------------------
(* The methods, as effects on the queue.  A closed queue refuses each of   *)
(* them; the callers choose what else happens in the same step.            *)

Refused == closed /\ UNCHANGED queueVars

(* Mutants of Push: no notification; a send that is never dropped. *)
PushSilently(j) ==
  /\ pending' = [pending EXCEPT ![j] = @ + 1]
  /\ UNCHANGED notifyC

PushUnbounded(j) ==
  /\ pending' = [pending EXCEPT ![j] = @ + 1]
  /\ notifyC' = notifyC + 1

(* heap.Push followed by notify, whose send is dropped when the channel is full *)
Push(j) ==
  /\ pending' = [pending EXCEPT ![j] = @ + 1]
  /\ notifyC' = 1

Enqueue(j, t) ==
  /\ ~closed
  /\ jobs' = jobs \cup {j}
  /\ IF IsScheduled(t)
       THEN scheduledJobs' = scheduledJobs \cup {j} /\ UNCHANGED <<pending, notifyC>>
       ELSE Push(j) /\ UNCHANGED scheduledJobs
  /\ UNCHANGED closed

Schedule(j) ==
  /\ ~closed
  /\ jobs' = jobs \cup {j}
  /\ scheduledJobs' = scheduledJobs \cup {j}
  /\ UNCHANGED <<pending, notifyC, closed>>

UpdateJob(j, s) ==
  /\ ~closed
  /\ jobs' = jobs \cup {j}
  /\ scheduledJobs' = IF s \in {"Scheduled", "Retrying"} THEN scheduledJobs \cup {j}
                       ELSE IF s = "Running" THEN scheduledJobs
                       ELSE scheduledJobs \ {j}
  /\ IF s = "Pending" THEN Push(j) ELSE UNCHANGED <<pending, notifyC>>
  /\ UNCHANGED closed

(* Mutant of DeleteJob: the scheduled index is forgotten. *)
DeleteJobKeepsIndex(j) ==
  /\ ~closed
  /\ jobs' = jobs \ {j}
  /\ UNCHANGED <<scheduledJobs, pending, notifyC, closed>>

(* The heap entry of a deleted job stays. *)
DeleteJob(j) ==
  /\ ~closed
  /\ jobs' = jobs \ {j}
  /\ scheduledJobs' = scheduledJobs \ {j}
  /\ UNCHANGED <<pending, notifyC, closed>>

GetJobs(s) == {j \in jobs : status[j] = s}

Close ==
  /\ ~closed
  /\ closed' = TRUE
  /\ UNCHANGED <<jobs, pending, scheduledJobs, notifyC>>

-----------------------------------------------------------------------------
(* Dequeue, step by step *)

Goto(c, where) == pc' = [pc EXCEPT ![c] = where]

(* Under the mutex: the closed check, then a pop; an empty heap sends the  *)
(* consumer to the select.                                                 *)
PopOrWait(c) ==
  \/ /\ closed
     /\ Goto(c, "idle")
     /\ UNCHANGED <<queueVars, cur>>
  \/ /\ ~closed
     /\ \E j \in Best :
          /\ pending' = [pending EXCEPT ![j] = @ - 1]
          /\ cur' = [cur EXCEPT ![c] = j]
     /\ Goto(c, "got")
     /\ UNCHANGED <<jobs, scheduledJobs, notifyC, closed>>
  \/ /\ ~closed
     /\ HeapEmpty
     /\ Goto(c, "waiting")
     /\ UNCHANGED <<queueVars, cur>>

DequeueFirst(c) ==
  /\ pc[c] = "lock"
  /\ PopOrWait(c)
  /\ UNCHANGED jobVars

(* Mutant of CanReceive: Close forgets to close the channel. *)
CanReceiveMessage == notifyC = 1

(* A receive succeeds when a message is buffered, and always once closed. *)
CanReceive == notifyC = 1 \/ closed

DequeueNotified(c) ==
  /\ pc[c] = "waiting"
  /\ CanReceive
  /\ notifyC' = 0
  /\ Goto(c, "woken")
  /\ UNCHANGED <<jobs, pending, scheduledJobs, closed, jobVars, cur>>

DequeueAgain(c) ==
  /\ pc[c] = "woken"
  /\ PopOrWait(c)
  /\ UNCHANGED jobVars

(* The timer of Dequeue fires, or its context is done. *)
DequeueGiveUp(c) ==
  /\ pc[c] = "waiting"
  /\ Goto(c, "idle")
  /\ UNCHANGED <<queueVars, jobVars, cur>>

(* The clock passes job.ScheduleAt. *)
TimePasses(j) ==
  /\ scheduleAt[j] = "future"
  /\ scheduleAt' = [scheduleAt EXCEPT ![j] = "past"]
  /\ UNCHANGED <<queueVars, status, pc, cur>>

-----------------------------------------------------------------------------
QueueTypeOK ==
  /\ jobs \subseteq Jobs
  /\ pending \in [Jobs -> Nat]
  /\ scheduledJobs \subseteq Jobs
  /\ notifyC \in {0, 1}
  /\ closed \in BOOLEAN
  /\ status \in [Jobs -> Statuses]
  /\ scheduleAt \in [Jobs -> Times]
  /\ cur \in [Consumers -> Jobs \cup {NoJob}]

(* However many goroutines wait in Dequeue (memory.go:82-107) and however  *)
(* many notifications notify drops (memory.go:264), it never happens that  *)
(* all consumers sleep over a heap with a job and no notification is left. *)
NotAllAsleep ==
  ~HeapEmpty => notifyC = 1 \/ \E c \in Consumers : pc[c] # "waiting"

(* The scheduled index never holds a job the queue does not know, so       *)
(* GetJobs, which scans mq.jobs only (memory.go:192), can find every       *)
(* scheduled job, whatever order of calls and deletions led there.         *)
ScheduledAreStored == scheduledJobs \subseteq jobs
=============================================================================
