-------------------------- MODULE QueueManagerProofs --------------------------
(***************************************************************************)
(* Proofs about the in-memory queue, under any calls, and about the queue  *)
(* manager over it, for any number of jobs, workers and types, any attempt *)
(* limits and any of the interventions.                                    *)
(*                                                                         *)
(* Type correctness needs no assumption.  The rest about the manager is    *)
(* for one that is started once, and whose callers do not Enqueue an       *)
(* overdue job; the README tells what happens otherwise.                   *)
(***************************************************************************)
EXTENDS QueueManager, MemoryQueueClients, FiniteSetTheorems, TLAPS

-----------------------------------------------------------------------------
(* The queue by itself, with the callers of MemoryQueueClients *)

(* The consumers' steps keep the queue well typed. *)
LEMMA ConsumerType ==
  ASSUME MQTypeOK, NEW c \in Consumers,
         \/ CallDequeue(c) \/ DequeueFirst(c) \/ DequeueNotified(c)
         \/ DequeueAgain(c) \/ DequeueGiveUp(c) \/ DropJob(c)
  PROVE  MQTypeOK'
<1> USE JobsAssumption DEF MQTypeOK, QueueTypeOK, Goto, queueVars, jobVars
<1>1. ASSUME PopOrWait(c), UNCHANGED jobVars PROVE MQTypeOK'
  BY <1>1 DEF PopOrWait, Best, InHeap
<1>2. CASE CallDequeue(c)     BY <1>2 DEF CallDequeue
<1>3. CASE DequeueFirst(c)    BY <1>3, <1>1 DEF DequeueFirst
<1>4. CASE DequeueNotified(c) BY <1>4 DEF DequeueNotified
<1>5. CASE DequeueAgain(c)    BY <1>5, <1>1 DEF DequeueAgain
<1>6. CASE DequeueGiveUp(c)   BY <1>6 DEF DequeueGiveUp
<1>7. CASE DropJob(c)         BY <1>7 DEF DropJob
<1> QED BY <1>2, <1>3, <1>4, <1>5, <1>6, <1>7

(* The callers' steps keep the queue well typed. *)
LEMMA CallerType ==
  ASSUME MQTypeOK, NEW j \in Jobs,
         \/ CallEnqueue(j) \/ CallSchedule(j) \/ CallDeleteJob(j) \/ TimePasses(j)
         \/ \E s \in SetStatus : CallUpdateJob(j, s)
  PROVE  MQTypeOK'
<1> USE CallersAssumption DEF MQTypeOK, QueueTypeOK, queueVars, jobVars, Refused, Push
<1>1. CASE CallEnqueue(j)   BY <1>1 DEF CallEnqueue, Enqueue
<1>2. CASE CallSchedule(j)  BY <1>2 DEF CallSchedule, Schedule
<1>3. CASE CallDeleteJob(j) BY <1>3 DEF CallDeleteJob, DeleteJob
<1>4. CASE TimePasses(j)    BY <1>4 DEF TimePasses, Times
<1>5. ASSUME NEW s \in SetStatus, CallUpdateJob(j, s) PROVE MQTypeOK'
  BY <1>5 DEF CallUpdateJob, UpdateJob, Statuses, Terminal
<1> QED BY <1>1, <1>2, <1>3, <1>4, <1>5

(* The queue is well typed (memory.go:13-20) under any sequence of calls. *)
THEOREM MQTypeCorrect == MQSpec => []MQTypeOK
<1>1. MQInit => MQTypeOK
  <2> SUFFICES ASSUME MQInit PROVE MQTypeOK
    OBVIOUS
  <2>1. \A t : BuiltStatus(t) \in Statuses
    BY DEF BuiltStatus, Statuses
  <2> QED
    BY <2>1, JobsAssumption DEF MQInit, MQTypeOK, QueueTypeOK
<1>2. MQTypeOK /\ [MQNext]_mqVars => MQTypeOK'
  <2> SUFFICES ASSUME MQTypeOK, [MQNext]_mqVars PROVE MQTypeOK'
    OBVIOUS
  <2>1. CASE CallClose
    BY <2>1 DEF CallClose, Close, MQTypeOK, QueueTypeOK, jobVars
  <2>2. CASE UNCHANGED mqVars
    BY <2>2 DEF mqVars, queueVars, jobVars, MQTypeOK, QueueTypeOK
  <2> QED
    BY <2>1, <2>2, ConsumerType, CallerType DEF MQNext
<1> QED
  BY <1>1, <1>2, PTL DEF MQSpec

(* However many notifications notify drops (memory.go:261-267), the        *)
(* consumers never all sleep in Dequeue over a heap with a job and an      *)
(* empty notifyC.                                                          *)
THEOREM MQNotAllAsleep == MQSpec => []NotAllAsleep
<1>1. MQInit => NotAllAsleep
  BY DEF MQInit, NotAllAsleep, HeapEmpty, InHeap
<1>2. MQTypeOK /\ NotAllAsleep /\ [MQNext]_mqVars => NotAllAsleep'
  <2> SUFFICES ASSUME MQTypeOK, NotAllAsleep, [MQNext]_mqVars PROVE NotAllAsleep'
    OBVIOUS
  <2> USE DEF MQTypeOK, QueueTypeOK, NotAllAsleep, HeapEmpty, InHeap, Goto, queueVars, jobVars
  <2>1. ASSUME NEW c \in Consumers, PopOrWait(c) PROVE NotAllAsleep'
    BY <2>1 DEF PopOrWait
  <2>2. ASSUME NEW c \in Consumers,
               \/ CallDequeue(c) \/ DequeueFirst(c) \/ DequeueNotified(c)
               \/ DequeueAgain(c) \/ DequeueGiveUp(c) \/ DropJob(c)
        PROVE  NotAllAsleep'
    BY <2>1, <2>2 DEF CallDequeue, DequeueFirst, DequeueNotified, DequeueAgain, DequeueGiveUp, DropJob
  <2>3. ASSUME NEW j \in Jobs,
               \/ CallEnqueue(j) \/ CallSchedule(j) \/ CallDeleteJob(j) \/ TimePasses(j)
               \/ \E s \in SetStatus : CallUpdateJob(j, s)
        PROVE  NotAllAsleep'
    BY <2>3 DEF CallEnqueue, Enqueue, CallSchedule, Schedule, CallDeleteJob, DeleteJob,
                TimePasses, CallUpdateJob, UpdateJob, Refused, Push
  <2>4. CASE CallClose
    BY <2>4 DEF CallClose, Close
  <2>5. CASE UNCHANGED mqVars
    BY <2>5 DEF mqVars
  <2> QED
    BY <2>2, <2>3, <2>4, <2>5 DEF MQNext
<1> QED
  BY <1>1, <1>2, MQTypeCorrect, PTL DEF MQSpec

(* mq.scheduledJobs never holds a job that mq.jobs does not               *)
(* (memory.go:48-55, 119-120, 150-160, 175-176).                          *)
THEOREM MQScheduledAreStored == MQSpec => []ScheduledAreStored
<1>1. MQInit => ScheduledAreStored
  BY DEF MQInit, ScheduledAreStored
<1>2. ScheduledAreStored /\ [MQNext]_mqVars => ScheduledAreStored'
  <2> SUFFICES ASSUME ScheduledAreStored, [MQNext]_mqVars PROVE ScheduledAreStored'
    OBVIOUS
  <2> USE DEF ScheduledAreStored, queueVars
  <2>1. ASSUME NEW c \in Consumers,
               \/ CallDequeue(c) \/ DequeueFirst(c) \/ DequeueNotified(c)
               \/ DequeueAgain(c) \/ DequeueGiveUp(c) \/ DropJob(c)
        PROVE  ScheduledAreStored'
    BY <2>1 DEF CallDequeue, DequeueFirst, DequeueNotified, DequeueAgain, DequeueGiveUp,
                DropJob, PopOrWait
  <2>2. ASSUME NEW j \in Jobs,
               \/ CallEnqueue(j) \/ CallSchedule(j) \/ CallDeleteJob(j) \/ TimePasses(j)
        PROVE  ScheduledAreStored'
    BY <2>2 DEF CallEnqueue, Enqueue, CallSchedule, Schedule, CallDeleteJob, DeleteJob,
                TimePasses, Refused
  <2>3. ASSUME NEW j \in Jobs, NEW s \in SetStatus, CallUpdateJob(j, s)
        PROVE  ScheduledAreStored'
    BY <2>3 DEF CallUpdateJob, UpdateJob, Refused
  <2>4. CASE CallClose
    BY <2>4 DEF CallClose, Close
  <2>5. CASE UNCHANGED mqVars
    BY <2>5 DEF mqVars
  <2> QED
    BY <2>1, <2>2, <2>3, <2>4, <2>5 DEF MQNext
<1> QED
  BY <1>1, <1>2, PTL DEF MQSpec

-----------------------------------------------------------------------------
(* The manager: how it is meant to be used *)

ProperUse == MaxStarts <= 1 /\ EnqueueOverdue = FALSE

-----------------------------------------------------------------------------
(* The inductive invariant *)

(* A worker has a job exactly from Dequeue's return to the end of processJob. *)
HoldInv == \A w \in Consumers : cur[w] \in Jobs <=> pc[w] \in {"got", "running"}

HasJob == \A w \in Consumers : pc[w] \in {"got", "running"} => cur[w] \in Jobs

(* Before Start nothing runs; after Stop nothing starts again. *)
LifeInv ==
  /\ starts = 0 => \A w \in Consumers : pc[w] = "off"
  /\ running => starts > 0
  /\ stop # "none" => starts > 0 /\ ~running
  /\ stop = "clean" => \A w \in Consumers : pc[w] = "off"

(* A job that was not accepted is as it was built, and nobody knows it. *)
NewInv ==
  \A j \in Jobs : ~Accepted(j) =>
    /\ status[j] = BuiltStatus(scheduleAt[j])
    /\ calls[j] = "schedule" => scheduleAt[j] # "none"
    /\ attempts[j] = 0 /\ pending[j] = 0 /\ sleeping[j] = 0
    /\ j \notin jobs
    /\ \A w \in Consumers : cur[w] # j
    /\ \A n \in Starts : j \notin due[n]

(* The place a job is in determines its status. *)
StatusInv ==
  \A j \in Jobs :
    /\ pending[j] > 0 => status[j] = "Pending"
    /\ sleeping[j] > 0 => status[j] = "Retrying"
    /\ \A w \in Consumers : cur[w] = j =>
         status[j] = IF pc[w] = "got" THEN "Pending" ELSE "Running"
    /\ \A n \in Starts : j \in due[n] => status[j] = "Scheduled"
    /\ Accepted(j) /\ status[j] # "Scheduled" => scheduleAt[j] = "none"

(* A job that may still be attempted has attempts left. *)
AttemptInv ==
  \A j \in Jobs :
    /\ attempts[j] <= AttemptLimit[j]
    /\ status[j] \in {"Pending", "Retrying", "Scheduled"} => attempts[j] < AttemptLimit[j]

JobInv == HoldInv /\ NewInv /\ StatusInv /\ AttemptInv /\ OnePlace /\ NoJobLost

IInv == TypeOK /\ LifeInv /\ JobInv

-----------------------------------------------------------------------------
(* Type correctness *)

(* Start, Stop, the context, handlers and the owner keep the types. *)
LEMMA LifeType ==
  ASSUME TypeOK, Start \/ StopBegin \/ StopClose \/ StopReturn \/ Cancel \/ CloseQueue
  PROVE  TypeOK'
<1> USE ManagerAssumption DEF TypeOK, QueueTypeOK, queueVars, jobVars, mqVars, processVars, scanVars,
        lifeVars, Starts
<1>1. CASE Start      BY <1>1 DEF Start, WorkerPlaces
<1>2. CASE StopBegin  BY <1>2 DEF StopBegin, StopPlaces
<1>3. CASE StopClose  BY <1>3 DEF StopClose, StopPlaces
<1>4. CASE StopReturn BY <1>4 DEF StopReturn, StopPlaces
<1>5. CASE Cancel     BY <1>5 DEF Cancel
<1>6. CASE CloseQueue BY <1>6 DEF CloseQueue, Close
<1> QED BY <1>1, <1>2, <1>3, <1>4, <1>5, <1>6

(* Calls, the clock and the retry goroutines keep the types. *)
LEMMA CallType ==
  ASSUME TypeOK, NEW j \in Jobs, CallStep(j) \/ TimeStep(j) \/ RetryWakes(j)
  PROVE  TypeOK'
<1> USE DEF TypeOK, QueueTypeOK, queueVars, jobVars, mqVars, processVars, scanVars, lifeVars,
        CallPlaces, Refused
<1>1. CASE EnqueueCheck(j)  BY <1>1 DEF EnqueueCheck
<1>2. CASE EnqueueJob(j)    BY <1>2 DEF EnqueueJob, Enqueue, Push
<1>3. CASE ScheduleCheck(j) BY <1>3 DEF ScheduleCheck
<1>4. CASE ScheduleJob(j)   BY <1>4 DEF ScheduleJob, Schedule
<1>5. CASE Delete(j)        BY <1>5 DEF Delete, DeleteJob
<1>6. CASE TimeStep(j)      BY <1>6 DEF TimeStep, TimePasses, Times
<1>7. CASE RetryWakes(j)    BY <1>7 DEF RetryWakes, Enqueue, Push, Statuses
<1> QED BY <1>1, <1>2, <1>3, <1>4, <1>5, <1>6, <1>7 DEF CallStep

(* What processJob does at its end is the same for every outcome. *)
LEMMA EndType ==
  ASSUME TypeOK, NEW w \in Consumers, cur[w] \in Jobs,
         NEW s \in Statuses, NEW counter \in Counters,
         EndJob(w, s, counter), sleeping' \in [Jobs -> Nat]
  PROVE  TypeOK'
<1> USE DEF EndJob
<1>1. UpdateJob(cur[w], s) \/ Refused =>
        /\ jobs' \subseteq Jobs /\ scheduledJobs' \subseteq Jobs
        /\ pending' \in [Jobs -> Nat] /\ notifyC' \in {0, 1} /\ closed' \in BOOLEAN
  BY DEF TypeOK, QueueTypeOK, UpdateJob, Push, Refused, queueVars
<1>2. stats' \in [Counters -> Nat]
  BY DEF TypeOK
<1>3. status' \in [Jobs -> Statuses] /\ cur' \in [Consumers -> Jobs \cup {NoJob}]
  BY DEF TypeOK, QueueTypeOK
<1> QED
  BY <1>1, <1>2, <1>3 DEF TypeOK, QueueTypeOK, processVars, scanVars, lifeVars, WorkerPlaces, Goto

(* Every step of a worker keeps the types. *)
LEMMA WorkerType ==
  ASSUME TypeOK, HasJob, NEW w \in Consumers, WorkerStep(w)
  PROVE  TypeOK'
<1> USE DEF TypeOK, QueueTypeOK, queueVars, jobVars, mqVars, processVars, scanVars, lifeVars,
        WorkerPlaces, Goto
<1>1. CASE WorkerExit(w) BY <1>1 DEF WorkerExit
<1>2. CASE WorkerLoop(w) BY <1>2 DEF WorkerLoop
<1>3. CASE WorkerDequeue(w)
  BY <1>3 DEF WorkerDequeue, DequeueFirst, DequeueNotified, DequeueAgain, DequeueGiveUp,
              PopOrWait, Best, InHeap
<1>4. CASE BeginJob(w)
  BY <1>4 DEF BeginJob, UpdateJob, Refused, Statuses, HasJob
<1>5. ASSUME pc[w] = "running", FailJob(w) PROVE TypeOK'
  BY <1>5, EndType DEF FailJob, HasJob, Statuses, Counters
<1>6. CASE NoHandler(w) BY <1>5, <1>6 DEF NoHandler
<1>7. CASE HandlerSucceeds(w)
  BY <1>7, EndType DEF HandlerSucceeds, HasJob, Statuses, Counters
<1>8. ASSUME NEW retryable \in BOOLEAN, HandlerFails(w, retryable) PROVE TypeOK'
  BY <1>5, <1>8, EndType DEF HandlerFails, HasJob, Statuses, Counters
<1> QED BY <1>1, <1>2, <1>3, <1>4, <1>6, <1>7, <1>8 DEF WorkerStep

(* Every step of a schedule processor keeps the types. *)
LEMMA ProcessorType ==
  ASSUME TypeOK, NEW n \in Starts, ProcessorStep(n)
  PROVE  TypeOK'
<1> USE DEF TypeOK, QueueTypeOK, queueVars, jobVars, mqVars, processVars, scanVars, lifeVars
<1>1. CASE ProcessorTick(n) BY <1>1 DEF ProcessorTick, GetJobs
<1>2. CASE ProcessorEnds(n) BY <1>2 DEF ProcessorEnds
<1>3. CASE ProcessorExit(n) BY <1>3 DEF ProcessorExit
<1>4. ASSUME NEW j \in Jobs, ProcessorJob(n, j) PROVE TypeOK'
  BY <1>4 DEF ProcessorJob, Enqueue, Push, Refused, Statuses, Times
<1> QED BY <1>1, <1>2, <1>3, <1>4 DEF ProcessorStep

(* Every step keeps the types. *)
LEMMA StepType ==
  ASSUME TypeOK, HasJob, [Next]_vars
  PROVE  TypeOK'
<1>1. ASSUME NEW t \in Types, RegisterHandler(t) PROVE TypeOK'
  BY <1>1 DEF RegisterHandler, TypeOK, QueueTypeOK, queueVars, jobVars, mqVars, processVars,
              scanVars, lifeVars
<1>2. CASE UNCHANGED vars
  BY <1>2 DEF vars, TypeOK, QueueTypeOK, queueVars, jobVars, mqVars, processVars, scanVars, lifeVars
<1> QED
  BY <1>1, <1>2, LifeType, CallType, WorkerType, ProcessorType DEF Next

(* A worker's place and its job change together. *)
LEMMA StepHasJob ==
  ASSUME TypeOK, HasJob, [Next]_vars
  PROVE  HasJob'
<1> USE DEF HasJob, queueVars, jobVars, mqVars, vars
<1>1. CASE UNCHANGED <<pc, cur>>
  BY <1>1
<1>2. CASE Start
  BY <1>2 DEF Start
<1>3. ASSUME NEW w \in Consumers, WorkerStep(w) PROVE HasJob'
  <2> USE DEF TypeOK, QueueTypeOK, Goto
  <2>1. CASE WorkerExit(w) \/ WorkerLoop(w) \/ BeginJob(w)
    BY <2>1 DEF WorkerExit, WorkerLoop, BeginJob
  <2>2. CASE WorkerDequeue(w)
    BY <2>2 DEF WorkerDequeue, DequeueFirst, DequeueNotified, DequeueAgain, DequeueGiveUp,
                PopOrWait, Best
  <2>3. ASSUME NEW s, NEW counter, EndJob(w, s, counter) PROVE HasJob'
    BY <2>3 DEF EndJob
  <2> QED
    BY <1>3, <2>1, <2>2, <2>3 DEF WorkerStep, NoHandler, HandlerSucceeds, HandlerFails, FailJob
<1>4. CASE \/ StopBegin \/ StopClose \/ StopReturn \/ Cancel \/ CloseQueue
           \/ \E t \in Types : RegisterHandler(t)
  BY <1>1, <1>4 DEF StopBegin, StopClose, StopReturn, Cancel, CloseQueue, RegisterHandler
<1>5. CASE \E j \in Jobs : CallStep(j) \/ TimeStep(j) \/ RetryWakes(j)
  BY <1>1, <1>5 DEF CallStep, EnqueueCheck, EnqueueJob, ScheduleCheck, ScheduleJob, Delete,
                    TimeStep, TimePasses, RetryWakes
<1>6. CASE \E n \in Starts : ProcessorStep(n)
  BY <1>1, <1>6 DEF ProcessorStep, ProcessorTick, ProcessorJob, ProcessorEnds, ProcessorExit
<1> QED
  BY <1>1, <1>2, <1>3, <1>4, <1>5, <1>6 DEF Next

(* The initial states have their types, and no worker has a job. *)
LEMMA InitType == Init => TypeOK /\ HasJob
<1> SUFFICES ASSUME Init PROVE TypeOK /\ HasJob
  OBVIOUS
<1>1. \A t : BuiltStatus(t) \in Statuses
  BY DEF BuiltStatus, Statuses
<1>2. QueueTypeOK
  BY <1>1, JobsAssumption DEF Init, QueueTypeOK
<1>3. HasJob
  BY DEF Init, HasJob
<1>4. /\ running \in BOOLEAN /\ shutdown \in BOOLEAN /\ ctxDone \in BOOLEAN /\ panicked \in BOOLEAN
      /\ stop \in StopPlaces /\ handlers \subseteq Types /\ deleted \subseteq Jobs
  BY DEF Init, StopPlaces
<1>5. starts \in 0 .. MaxStarts
  BY ManagerAssumption DEF Init
<1>6. /\ pc \in [Consumers -> WorkerPlaces] /\ calls \in [Jobs -> CallPlaces]
      /\ attempts \in [Jobs -> Nat] /\ sleeping \in [Jobs -> Nat] /\ stats \in [Counters -> Nat]
      /\ processor \in [Starts -> {"off", "select", "scan"}] /\ due \in [Starts -> SUBSET Jobs]
  BY DEF Init, WorkerPlaces, CallPlaces
<1> QED
  BY <1>2, <1>3, <1>4, <1>5, <1>6 DEF TypeOK

(* The manager and its queue keep their types under any use: restarts,     *)
(* overdue jobs and interventions included (queue.go:165-181, 295-546).    *)
THEOREM TypeCorrect == Spec => []TypeOK
<1>1. Init => TypeOK /\ HasJob
  BY InitType
<1>2. TypeOK /\ HasJob /\ [Next]_vars => (TypeOK /\ HasJob)'
  BY StepType, StepHasJob
<1> QED
  BY <1>1, <1>2, PTL DEF Spec

-----------------------------------------------------------------------------
(* Every step preserves JobInv.  The steps that concern one job, one       *)
(* worker or one processor each have a lemma; the remaining ones touch     *)
(* nothing that JobInv speaks of, or only the workers' places.             *)

(* A job may be attempted at least once and at least MaxAttempts times. *)
LEMMA LimitPositive ==
  \A j \in Jobs : /\ AttemptLimit[j] \in Nat \ {0}
                  /\ JobMaxAttempts(j) \in Nat
                  /\ JobMaxAttempts(j) <= AttemptLimit[j]
BY ManagerAssumption DEF AttemptLimit, JobMaxAttempts

(* With at most one Start there is at most one processor. *)
LEMMA OneStart ==
  ASSUME ProperUse
  PROVE  \A m, n \in Starts : m = n
BY ManagerAssumption DEF ProperUse, Starts

(* A step that touches no job and no worker preserves JobInv. *)
LEMMA Unconcerned ==
  ASSUME JobInv,
         UNCHANGED <<jobs, pending, status, scheduleAt, pc, cur, calls, attempts, sleeping, due, deleted>>,
         closed => closed'
  PROVE  JobInv'
BY DEF JobInv, HoldInv, NewInv, StatusInv, AttemptInv, OnePlace, NoJobLost, Tracked, Accepted, Holds, InHeap

(* Manager.Enqueue puts a new job in one place. *)
LEMMA EnqueueKeeps ==
  ASSUME ProperUse, TypeOK, JobInv, NEW j \in Jobs, EnqueueCheck(j) \/ EnqueueJob(j)
  PROVE  JobInv'
<1> USE DEF JobInv, HoldInv, NewInv, StatusInv, AttemptInv, OnePlace, NoJobLost, Tracked, Accepted, Holds, InHeap,
            TypeOK, QueueTypeOK, jobVars, queueVars, mqVars, processVars, scanVars, lifeVars
<1>1. CASE EnqueueCheck(j)
  BY <1>1 DEF EnqueueCheck, CallPlaces
<1>2. CASE EnqueueJob(j) /\ Refused
  BY <1>2 DEF EnqueueJob, Refused, Enqueue, CallPlaces
<1>3. CASE EnqueueJob(j) /\ Enqueue(j, scheduleAt[j])
  <2>1. ~Accepted(j) /\ scheduleAt[j] \in {"none", "future"}
    BY <1>3 DEF EnqueueJob, ProperUse, Times
  <2>2. /\ calls' = [calls EXCEPT ![j] = "accepted"]
        /\ jobs' = jobs \cup {j}
        /\ ~closed /\ ~closed'
        /\ UNCHANGED <<jobVars, pc, cur, attempts, sleeping, due, deleted>>
    BY <1>3 DEF EnqueueJob, Enqueue, Refused
  <2>3. pending' = [pending EXCEPT ![j] = IF scheduleAt[j] = "none" THEN 1 ELSE 0]
    BY <1>3, <2>1 DEF EnqueueJob, Enqueue, Push, IsScheduled
  <2>4. HoldInv' BY <2>2
  <2>5. NewInv' BY <2>2, <2>3
  <2>6. StatusInv' BY <2>1, <2>2, <2>3 DEF BuiltStatus
  <2>7. AttemptInv' BY <2>2
  <2>8. OnePlace' BY <2>1, <2>2, <2>3
  <2>9. NoJobLost' BY <2>1, <2>2, <2>3 DEF BuiltStatus
  <2> QED BY <2>4, <2>5, <2>6, <2>7, <2>8, <2>9
<1> QED
  BY <1>1, <1>2, <1>3 DEF EnqueueJob

(* Manager.Schedule stores a new job without putting it in the heap. *)
LEMMA ScheduleKeeps ==
  ASSUME TypeOK, JobInv, NEW j \in Jobs, ScheduleCheck(j) \/ ScheduleJob(j)
  PROVE  JobInv'
<1> USE DEF JobInv, HoldInv, NewInv, StatusInv, AttemptInv, OnePlace, NoJobLost, Tracked, Accepted, Holds, InHeap,
            TypeOK, QueueTypeOK, jobVars, queueVars, mqVars, processVars, scanVars, lifeVars
<1>1. CASE ScheduleCheck(j)
  BY <1>1 DEF ScheduleCheck, CallPlaces
<1>2. CASE ScheduleJob(j) /\ Refused
  <2>1. /\ calls[j] = "schedule" /\ calls' = [calls EXCEPT ![j] = "new"]
        /\ UNCHANGED <<queueVars, jobVars, pc, cur, attempts, sleeping, due, deleted>>
    BY <1>2 DEF ScheduleJob, Refused, Schedule
  <2> QED BY <2>1
<1>3. CASE ScheduleJob(j) /\ Schedule(j)
  <2>1. /\ calls[j] = "schedule" /\ calls' = [calls EXCEPT ![j] = "accepted"]
        /\ jobs' = jobs \cup {j}
        /\ UNCHANGED <<pending, closed, jobVars, pc, cur, attempts, sleeping, due, deleted>>
    BY <1>3 DEF ScheduleJob, Refused, Schedule
  <2>2. status[j] = "Scheduled"
    BY <2>1 DEF BuiltStatus
  <2>3. HoldInv' /\ NewInv' BY <2>1
  <2>4. StatusInv' /\ AttemptInv' BY <2>1, <2>2
  <2>5. OnePlace' BY <2>1
  <2>6. NoJobLost'
    <3>1. Tracked(j)' BY <2>1, <2>2
    <3>2. \A k \in Jobs \ {j} : Accepted(k)' => Tracked(k)' BY <2>1
    <3> QED BY <3>1, <3>2
  <2> QED BY <2>3, <2>4, <2>5, <2>6
<1> QED
  BY <1>1, <1>2, <1>3 DEF ScheduleJob

(* Deleting a job, or the clock, takes no job from where it is. *)
LEMMA OwnerKeeps ==
  ASSUME TypeOK, JobInv, NEW j \in Jobs, Delete(j) \/ TimeStep(j)
  PROVE  JobInv'
<1> USE DEF JobInv, HoldInv, NewInv, StatusInv, AttemptInv, OnePlace, NoJobLost, Tracked, Accepted, Holds, InHeap,
            TypeOK, QueueTypeOK, jobVars, queueVars, mqVars, processVars, scanVars, lifeVars
<1>1. CASE Delete(j)
  BY <1>1 DEF Delete, DeleteJob
<1>2. CASE TimeStep(j)
  BY <1>2 DEF TimeStep, TimePasses, BuiltStatus
<1> QED
  BY <1>1, <1>2

(* The retry goroutine gives the job back to the heap it cannot be in. *)
LEMMA RetryKeeps ==
  ASSUME TypeOK, JobInv, NEW j \in Jobs, RetryWakes(j)
  PROVE  JobInv'
<1> USE DEF JobInv, HoldInv, NewInv, StatusInv, AttemptInv, OnePlace, NoJobLost, Tracked, Accepted, Holds, InHeap,
            TypeOK, QueueTypeOK, jobVars, queueVars, mqVars, processVars, scanVars, lifeVars
<1>1. /\ status[j] = "Retrying" /\ sleeping[j] = 1 /\ pending[j] = 0 /\ scheduleAt[j] = "none"
      /\ \A w \in Consumers : cur[w] # j
      /\ Accepted(j) /\ \A n \in Starts : j \notin due[n]
  BY DEF RetryWakes
<1>2. /\ sleeping' = [sleeping EXCEPT ![j] = 0]
      /\ status' = [status EXCEPT ![j] = "Pending"]
      /\ closed' = closed /\ jobs' \in {jobs, jobs \cup {j}}
      /\ UNCHANGED <<scheduleAt, pc, cur, calls, attempts, due, deleted>>
  BY <1>1 DEF RetryWakes, Enqueue, Refused
<1>3. pending' = IF closed THEN pending ELSE [pending EXCEPT ![j] = 1]
  BY <1>1 DEF RetryWakes, Enqueue, Refused, Push, IsScheduled
<1>4. HoldInv' /\ NewInv' BY <1>1, <1>2, <1>3
<1>5. StatusInv' BY <1>1, <1>2, <1>3
<1>6. AttemptInv' BY <1>1, <1>2
<1>7. OnePlace' BY <1>1, <1>2, <1>3
<1>8. NoJobLost'
  <2>1. Tracked(j)' BY <1>1, <1>2, <1>3
  <2>2. \A k \in Jobs \ {j} : Accepted(k)' => Tracked(k)' BY <1>2, <1>3
  <2> QED BY <2>1, <2>2
<1> QED BY <1>4, <1>5, <1>6, <1>7, <1>8

(* A worker takes a job out of the heap: the job changes its place, not    *)
(* its status.                                                             *)
LEMMA PopKeeps ==
  ASSUME TypeOK, JobInv, NEW w \in Consumers, pc[w] \notin {"got", "running"},
         NEW j \in Jobs, pending[j] > 0,
         pending' = [pending EXCEPT ![j] = @ - 1],
         cur' = [cur EXCEPT ![w] = j],
         pc' = [pc EXCEPT ![w] = "got"],
         UNCHANGED <<jobs, closed, status, scheduleAt, calls, attempts, sleeping, due, deleted>>
  PROVE  JobInv'
<1> USE DEF JobInv, HoldInv, NewInv, StatusInv, AttemptInv, OnePlace, NoJobLost, Tracked, Accepted, Holds, InHeap,
            TypeOK, QueueTypeOK, jobVars, queueVars, mqVars, processVars, scanVars, lifeVars
<1>1. /\ status[j] = "Pending" /\ pending[j] = 1 /\ sleeping[j] = 0 /\ Accepted(j)
      /\ \A v \in Consumers : cur[v] # j
  OBVIOUS
<1>2. pending' = [pending EXCEPT ![j] = 0]
  BY <1>1
<1>3. HoldInv' OBVIOUS
<1>4. NewInv' BY <1>1, <1>2
<1>5. StatusInv' BY <1>1, <1>2
<1>6. AttemptInv' OBVIOUS
<1>7. OnePlace' BY <1>1, <1>2
<1>8. NoJobLost'
  <2>1. Tracked(j)' BY <1>1
  <2>2. \A k \in Jobs \ {j} : Accepted(k)' => Tracked(k)' BY <1>2
  <2> QED BY <2>1, <2>2
<1> QED BY <1>3, <1>4, <1>5, <1>6, <1>7, <1>8

(* A worker without a job moves to another place without one. *)
LEMMA MoveKeeps ==
  ASSUME TypeOK, JobInv, NEW w \in Consumers, pc[w] \notin {"got", "running"},
         NEW where \in WorkerPlaces \ {"got", "running"}, pc' = [pc EXCEPT ![w] = where],
         UNCHANGED <<jobs, pending, closed, status, scheduleAt, cur, calls, attempts, sleeping, due, deleted>>
  PROVE  JobInv'
<1> USE DEF JobInv, HoldInv, NewInv, StatusInv, AttemptInv, OnePlace, NoJobLost, Tracked, Accepted, Holds, InHeap,
            TypeOK, QueueTypeOK, jobVars, queueVars, mqVars, processVars, scanVars, lifeVars
<1>1. HoldInv' OBVIOUS
<1>2. NewInv' OBVIOUS
<1>3. StatusInv' OBVIOUS
<1>4. AttemptInv' OBVIOUS
<1>5. OnePlace' OBVIOUS
<1>6. NoJobLost' OBVIOUS
<1> QED BY <1>1, <1>2, <1>3, <1>4, <1>5, <1>6

(* The worker that has a job makes it Running, one attempt later. *)
LEMMA BeginKeeps ==
  ASSUME TypeOK, JobInv, NEW w \in Consumers, BeginJob(w)
  PROVE  JobInv'
<1> USE DEF JobInv, HoldInv, NewInv, StatusInv, AttemptInv, OnePlace, NoJobLost, Tracked, Accepted, Holds, InHeap,
            TypeOK, QueueTypeOK, jobVars, queueVars, mqVars, processVars, scanVars, lifeVars
<1>0. PICK j \in Jobs : cur[w] = j
  BY DEF BeginJob
<1>1. Accepted(j) /\ status[j] = "Pending" /\ attempts[j] < AttemptLimit[j]
  BY <1>0 DEF BeginJob
<1>2. /\ pc' = [pc EXCEPT ![w] = "running"]
      /\ status' = [status EXCEPT ![j] = "Running"]
      /\ attempts' = [attempts EXCEPT ![j] = @ + 1]
      /\ closed' = closed /\ pending' = pending /\ jobs' \in {jobs, jobs \cup {j}}
      /\ UNCHANGED <<scheduleAt, cur, calls, sleeping, due, deleted>>
  BY <1>0 DEF BeginJob, Goto, UpdateJob, Refused
<1>3. /\ pc[w] = "got" /\ pending[j] = 0 /\ sleeping[j] = 0
      /\ \A v \in Consumers : cur[v] = j => v = w
      /\ \A n \in Starts : j \notin due[n]
  BY <1>0, <1>1 DEF BeginJob
<1>4. HoldInv' BY <1>2, <1>3
<1>5. NewInv' BY <1>1, <1>2
<1>6. StatusInv' BY <1>0, <1>1, <1>2, <1>3
<1>7. AttemptInv' BY <1>1, <1>2, LimitPositive
<1>8. OnePlace' BY <1>1, <1>2, <1>3
<1>9. NoJobLost'
  <2>1. Tracked(j)' BY <1>0, <1>1, <1>2
  <2>2. \A k \in Jobs \ {j} : Accepted(k)' => Tracked(k)' BY <1>0, <1>2
  <2> QED BY <2>1, <2>2
<1> QED BY <1>4, <1>5, <1>6, <1>7, <1>8, <1>9

(* The end of processJob: in a terminal status the job is nowhere, in      *)
(* Retrying it is with the new goroutine.                                  *)
LEMMA EndKeeps ==
  ASSUME TypeOK, JobInv, NEW w \in Consumers, pc[w] = "running",
         NEW s \in {"Completed", "Failed", "Retrying"}, NEW counter, EndJob(w, s, counter),
         sleeping' = IF s = "Retrying" THEN [sleeping EXCEPT ![cur[w]] = @ + 1] ELSE sleeping,
         s = "Retrying" => attempts[cur[w]] < AttemptLimit[cur[w]]
  PROVE  JobInv'
<1> USE DEF JobInv, HoldInv, NewInv, StatusInv, AttemptInv, OnePlace, NoJobLost, Tracked, Accepted, Holds, InHeap,
            TypeOK, QueueTypeOK, jobVars, queueVars, mqVars, processVars, scanVars, lifeVars
<1>0. PICK j \in Jobs : cur[w] = j
  OBVIOUS
<1>1. /\ Accepted(j) /\ status[j] = "Running" /\ pending[j] = 0 /\ sleeping[j] = 0
      /\ \A v \in Consumers : cur[v] = j => v = w
      /\ \A n \in Starts : j \notin due[n]
      /\ scheduleAt[j] = "none"
  BY <1>0
<1>2. /\ pc' = [pc EXCEPT ![w] = "idle"]
      /\ cur' = [cur EXCEPT ![w] = NoJob]
      /\ status' = [status EXCEPT ![j] = s]
      /\ closed' = closed /\ pending' = pending /\ jobs' \in {jobs, jobs \cup {j}}
      /\ UNCHANGED <<scheduleAt, calls, attempts, due, deleted>>
  BY <1>0 DEF EndJob, Goto, UpdateJob, Refused
<1>3. sleeping' = [sleeping EXCEPT ![j] = IF s = "Retrying" THEN 1 ELSE 0]
  <2>1. CASE s = "Retrying" BY <2>1, <1>0, <1>1
  <2>2. CASE s # "Retrying" BY <2>2, <1>0, <1>1
  <2> QED BY <2>1, <2>2
<1>4. HoldInv' BY <1>2, JobsAssumption
<1>5. NewInv' BY <1>1, <1>2, <1>3, JobsAssumption
<1>6. StatusInv' BY <1>1, <1>2, <1>3, JobsAssumption
<1>7. AttemptInv' BY <1>0, <1>1, <1>2
<1>8. OnePlace' BY <1>1, <1>2, <1>3, JobsAssumption
<1>9. NoJobLost'
  <2>1. Tracked(j)' BY <1>1, <1>2, <1>3
  <2>2. \A k \in Jobs \ {j} : Accepted(k)' => Tracked(k)' BY <1>0, <1>2, <1>3
  <2> HIDE DEF Tracked
  <2> QED BY <2>1, <2>2
<1> QED BY <1>4, <1>5, <1>6, <1>7, <1>8, <1>9

(* What GetJobs returns is Scheduled and nowhere else. *)
LEMMA TickKeeps ==
  ASSUME ProperUse, TypeOK, JobInv, NEW n \in Starts, ProcessorTick(n)
  PROVE  JobInv'
<1> USE DEF JobInv, HoldInv, NewInv, StatusInv, AttemptInv, OnePlace, NoJobLost, Tracked, Accepted, Holds, InHeap,
            TypeOK, QueueTypeOK, jobVars, queueVars, mqVars, processVars, scanVars, lifeVars
<1>1. PICK S \in SUBSET GetJobs("Scheduled") : due' = [due EXCEPT ![n] = S]
  BY DEF ProcessorTick
<1>2. \A j \in S : j \in jobs /\ status[j] = "Scheduled"
  BY DEF GetJobs
<1>3. UNCHANGED <<jobs, pending, closed, status, scheduleAt, pc, cur, calls, attempts, sleeping, deleted>>
  BY DEF ProcessorTick
<1>4. NewInv' BY <1>1, <1>2, <1>3
<1>5. StatusInv' BY <1>1, <1>2, <1>3
<1> QED BY <1>3, <1>4, <1>5

(* The schedule processor releases a job that is nowhere else: its status  *)
(* is still the one GetJobs saw.                                           *)
LEMMA ReleaseKeeps ==
  ASSUME ProperUse, TypeOK, JobInv, NEW n \in Starts, NEW j \in Jobs, ProcessorJob(n, j)
  PROVE  JobInv'
<1> USE DEF JobInv, HoldInv, NewInv, StatusInv, AttemptInv, OnePlace, NoJobLost, Tracked, Accepted, Holds, InHeap,
            TypeOK, QueueTypeOK, jobVars, queueVars, mqVars, processVars, scanVars, lifeVars
<1>1. /\ Accepted(j) /\ status[j] = "Scheduled" /\ pending[j] = 0 /\ sleeping[j] = 0
      /\ \A w \in Consumers : cur[w] # j
  BY DEF ProcessorJob
<1>2. /\ due' = [due EXCEPT ![n] = @ \ {j}]
      /\ \A m \in Starts : j \notin due'[m]
      /\ UNCHANGED <<closed, pc, cur, calls, attempts, sleeping, deleted>>
  BY OneStart DEF ProcessorJob, Enqueue, Refused
<1>3. CASE scheduleAt[j] = "future"
  <2>1. UNCHANGED <<jobs, pending, status, scheduleAt>>
    BY <1>3 DEF ProcessorJob
  <2>2. NewInv' BY <1>2, <2>1
  <2>3. StatusInv' BY <1>2, <2>1
  <2> QED BY <1>2, <2>1, <2>2, <2>3
<1>4. CASE scheduleAt[j] # "future"
  <2>1. /\ status' = [status EXCEPT ![j] = "Pending"]
        /\ scheduleAt' = [scheduleAt EXCEPT ![j] = "none"]
        /\ jobs' \in {jobs, jobs \cup {j}}
    BY <1>4 DEF ProcessorJob, Enqueue, Refused
  <2>2. pending' = IF closed THEN pending ELSE [pending EXCEPT ![j] = 1]
    BY <1>1, <1>4 DEF ProcessorJob, Enqueue, Refused, Push, IsScheduled
  <2>3. HoldInv' BY <1>2
  <2>4. NewInv' BY <1>1, <1>2, <2>1, <2>2
  <2>5. StatusInv' BY <1>1, <1>2, <2>1, <2>2
  <2>6. AttemptInv' BY <1>1, <1>2, <2>1
  <2>7. OnePlace' BY <1>1, <1>2, <2>2
  <2>8. NoJobLost'
    <3>1. Tracked(j)' BY <1>1, <1>2, <2>1, <2>2
    <3>2. \A k \in Jobs \ {j} : Accepted(k)' => Tracked(k)' BY <1>2, <2>1, <2>2
    <3> QED BY <3>1, <3>2
  <2> QED BY <2>3, <2>4, <2>5, <2>6, <2>7, <2>8
<1> QED BY <1>3, <1>4

-----------------------------------------------------------------------------
(* The steps of one worker *)

(* Every step of a worker preserves JobInv. *)
LEMMA WorkerKeeps ==
  ASSUME TypeOK, JobInv, NEW w \in Consumers, WorkerStep(w)
  PROVE  JobInv'
<1> USE DEF queueVars, jobVars, processVars, scanVars, Goto
<1>1. CASE WorkerExit(w) \/ WorkerLoop(w)
  BY <1>1, MoveKeeps DEF WorkerExit, WorkerLoop, WorkerPlaces
<1>2. CASE WorkerDequeue(w)
  <2>1. pc[w] \in {"lock", "waiting", "woken"}
    BY <1>2 DEF WorkerDequeue, DequeueFirst, DequeueNotified, DequeueAgain, DequeueGiveUp
  <2>2. UNCHANGED <<jobs, closed, status, scheduleAt, calls, attempts, sleeping, due, deleted>>
    BY <1>2 DEF WorkerDequeue, DequeueFirst, DequeueNotified, DequeueAgain, DequeueGiveUp, PopOrWait
  <2>3. CASE \E j \in Best : /\ pending' = [pending EXCEPT ![j] = @ - 1]
                             /\ cur' = [cur EXCEPT ![w] = j]
                             /\ pc' = [pc EXCEPT ![w] = "got"]
    BY <2>1, <2>2, <2>3, PopKeeps DEF Best, InHeap
  <2>4. CASE /\ \E where \in {"idle", "waiting", "woken"} : pc' = [pc EXCEPT ![w] = where]
             /\ UNCHANGED <<pending, cur>>
    BY <2>1, <2>2, <2>4, MoveKeeps DEF WorkerPlaces
  <2> QED
    BY <1>2, <2>3, <2>4 DEF WorkerDequeue, DequeueFirst, DequeueNotified, DequeueAgain,
                            DequeueGiveUp, PopOrWait
<1>3. CASE BeginJob(w)
  BY <1>3, BeginKeeps
<1>4. ASSUME pc[w] = "running", FailJob(w) PROVE JobInv'
  BY <1>4, EndKeeps DEF FailJob
<1>5. CASE NoHandler(w)
  BY <1>4, <1>5 DEF NoHandler
<1>6. CASE HandlerSucceeds(w)
  BY <1>6, EndKeeps DEF HandlerSucceeds
<1>7. ASSUME NEW retryable \in BOOLEAN, HandlerFails(w, retryable) PROVE JobInv'
  <2>1. cur[w] \in Jobs /\ pc[w] = "running"
    BY <1>7 DEF HandlerFails, JobInv, HoldInv
  <2>2. CASE MayRetry(cur[w]) /\ retryable
    <3>1. attempts[cur[w]] < AttemptLimit[cur[w]]
      BY <2>1, <2>2, LimitPositive DEF MayRetry, TypeOK
    <3> QED
      BY <1>7, <2>1, <2>2, <3>1, EndKeeps DEF HandlerFails
  <2>3. CASE ~(MayRetry(cur[w]) /\ retryable)
    BY <1>4, <1>7, <2>1, <2>3 DEF HandlerFails
  <2> QED
    BY <2>2, <2>3
<1> QED
  BY <1>1, <1>2, <1>3, <1>5, <1>6, <1>7 DEF WorkerStep

(* Every step preserves JobInv. *)
LEMMA StepJobInv ==
  ASSUME ProperUse, IInv, [Next]_vars
  PROVE  JobInv'
<1> USE DEF IInv
<1>1. CASE Start
  <2>1. starts = 0 /\ \A w \in Consumers : pc[w] = "off"
    BY <1>1, ManagerAssumption DEF Start, ProperUse, LifeInv, TypeOK
  <2>2. UNCHANGED <<jobs, pending, closed, status, scheduleAt, cur, calls, attempts, sleeping, due, deleted>>
    BY <1>1 DEF Start, queueVars, jobVars, processVars
  <2>3. \A w \in Consumers : pc'[w] \in {"off", "idle"} /\ cur[w] \notin Jobs
    BY <1>1, <2>1 DEF Start, JobInv, HoldInv
  <2> QED
    BY <2>1, <2>2, <2>3 DEF JobInv, HoldInv, NewInv, StatusInv, AttemptInv, OnePlace, NoJobLost,
                            Tracked, Accepted, Holds, InHeap
<1>2. CASE StopBegin \/ StopClose \/ StopReturn \/ Cancel \/ CloseQueue
  BY <1>2, Unconcerned DEF StopBegin, StopClose, StopReturn, Cancel, CloseQueue, Close,
                           mqVars, queueVars, jobVars, processVars, scanVars
<1>3. CASE \E t \in Types : RegisterHandler(t)
  BY <1>3, Unconcerned DEF RegisterHandler, mqVars, queueVars, jobVars, processVars, scanVars
<1>4. ASSUME NEW j \in Jobs, CallStep(j) \/ TimeStep(j) \/ RetryWakes(j) PROVE JobInv'
  BY <1>4, EnqueueKeeps, ScheduleKeeps, OwnerKeeps, RetryKeeps DEF CallStep
<1>5. ASSUME NEW w \in Consumers, WorkerStep(w) PROVE JobInv'
  BY <1>5, WorkerKeeps
<1>6. ASSUME NEW n \in Starts, ProcessorStep(n) PROVE JobInv'
  <2>1. CASE ProcessorEnds(n) \/ ProcessorExit(n)
    BY <2>1, Unconcerned DEF ProcessorEnds, ProcessorExit, mqVars, queueVars, jobVars, processVars
  <2> QED
    BY <1>6, <2>1, TickKeeps, ReleaseKeeps DEF ProcessorStep
<1>7. CASE UNCHANGED vars
  BY <1>7, Unconcerned DEF vars, mqVars, queueVars, jobVars, processVars, scanVars
<1> QED
  BY <1>1, <1>2, <1>3, <1>4, <1>5, <1>6, <1>7 DEF Next

(* Every step preserves LifeInv. *)
LEMMA StepLifeInv ==
  ASSUME ProperUse, TypeOK, LifeInv, [Next]_vars
  PROVE  LifeInv'
<1> USE DEF LifeInv
<1>1. CASE Start
  BY <1>1, ManagerAssumption DEF Start, ProperUse, TypeOK
<1>2. CASE StopBegin \/ StopClose \/ StopReturn \/ Cancel \/ CloseQueue
  BY <1>2 DEF StopBegin, StopClose, StopReturn, Cancel, CloseQueue, mqVars, lifeVars, TypeOK
<1>3. CASE UNCHANGED <<starts, running, stop, pc>>
  BY <1>3
<1>4. ASSUME NEW w \in Consumers, WorkerStep(w) PROVE LifeInv'
  <2>1. pc[w] # "off" /\ UNCHANGED <<starts, running, stop>>
    BY <1>4 DEF WorkerStep, WorkerExit, WorkerLoop, WorkerDequeue, DequeueFirst, DequeueNotified,
                DequeueAgain, DequeueGiveUp, BeginJob, NoHandler, HandlerSucceeds, HandlerFails,
                FailJob, EndJob, lifeVars
  <2> QED
    BY <2>1 DEF TypeOK
<1>5. CASE \E j \in Jobs : CallStep(j) \/ TimeStep(j) \/ RetryWakes(j)
  BY <1>3, <1>5 DEF CallStep, EnqueueCheck, EnqueueJob, ScheduleCheck, ScheduleJob, Delete,
                    TimeStep, TimePasses, RetryWakes, lifeVars, mqVars
<1>6. CASE \E n \in Starts : ProcessorStep(n)
  BY <1>3, <1>6 DEF ProcessorStep, ProcessorTick, ProcessorJob, ProcessorEnds, ProcessorExit,
                    lifeVars, mqVars
<1>7. CASE \E t \in Types : RegisterHandler(t)
  BY <1>3, <1>7 DEF RegisterHandler, lifeVars, mqVars
<1>8. CASE UNCHANGED vars
  BY <1>3, <1>8 DEF vars, lifeVars, mqVars
<1> QED
  BY <1>1, <1>2, <1>4, <1>5, <1>6, <1>7, <1>8 DEF Next

(* The initial states satisfy the inductive invariant. *)
LEMMA InitIInv == Init => IInv
<1> SUFFICES ASSUME Init PROVE IInv
  OBVIOUS
<1>1. TypeOK
  BY InitType
<1>2. LifeInv
  BY DEF Init, LifeInv
<1>3. HoldInv /\ NewInv /\ StatusInv /\ OnePlace /\ NoJobLost
  BY JobsAssumption DEF Init, HoldInv, NewInv, StatusInv, OnePlace, NoJobLost, Accepted, Holds
<1>4. AttemptInv
  BY LimitPositive DEF Init, AttemptInv
<1> QED
  BY <1>1, <1>2, <1>3, <1>4 DEF IInv, JobInv

(* The inductive invariant holds in every reachable state. *)
THEOREM Invariance ==
  ASSUME ProperUse
  PROVE  Spec => []IInv
<1>1. IInv /\ [Next]_vars => IInv'
  <2> SUFFICES ASSUME IInv, [Next]_vars PROVE IInv'
    OBVIOUS
  <2>1. HasJob
    BY DEF IInv, JobInv, HoldInv, HasJob
  <2> QED
    BY <2>1, StepType, StepJobInv, StepLifeInv DEF IInv
<1> QED
  BY <1>1, InitIInv, PTL DEF Spec

-----------------------------------------------------------------------------
(* What follows from the invariant *)

(* No job is ever in two places: one handler at a time runs on a *Job,     *)
(* and a retry or a schedule release never duplicates it (queue.go:442-512,*)
(* 568-582).                                                               *)
THEOREM OnePlaceAlways ==
  ASSUME ProperUse
  PROVE  Spec => []OnePlace
<1>1. IInv => OnePlace
  BY DEF IInv, JobInv
<1> QED
  BY <1>1, Invariance, PTL

(* An accepted job is never lost, also when Stop, a failed handler or a    *)
(* cancelled context gets in between (queue.go:349-384, 457-546).          *)
THEOREM NoJobLostAlways ==
  ASSUME ProperUse
  PROVE  Spec => []NoJobLost
<1>1. IInv => NoJobLost
  BY DEF IInv, JobInv
<1> QED
  BY <1>1, Invariance, PTL

(* The handler of a job is called at most MaxAttempts times (queue.go:489), *)
(* once if the maximum is zero.                                             *)
THEOREM AttemptsBoundedAlways ==
  ASSUME ProperUse
  PROVE  Spec => []AttemptsBounded
<1>1. IInv => AttemptsBounded
  BY DEF IInv, JobInv, AttemptInv, AttemptsBounded
<1> QED
  BY <1>1, Invariance, PTL

(* When Stop returns without its timeout (queue.go:339) no job is Running. *)
THEOREM CleanStopAlways ==
  ASSUME ProperUse
  PROVE  Spec => []CleanStopLeavesNothingRunning
<1>1. IInv => CleanStopLeavesNothingRunning
  BY DEF IInv, JobInv, LifeInv, NoJobLost, Tracked, CleanStopLeavesNothingRunning
<1> QED
  BY <1>1, Invariance, PTL

-----------------------------------------------------------------------------
(* The manager implements JobLifecycle: a step changes the life of one job *)
(* or of none.                                                             *)

State == [j \in Jobs |-> IF Accepted(j) THEN status[j] ELSE "New"]

(* A step that changes no status and no attempt is a stutter. *)
LEMMA LifecycleStutter ==
  ASSUME UNCHANGED <<status, calls, attempts>>
  PROVE  UNCHANGED Lifecycle!vars
BY DEF Lifecycle!vars, Accepted

(* An accepted call is Accept, a refused one a stutter. *)
LEMMA LifecycleCall ==
  ASSUME ProperUse, IInv, NEW j \in Jobs, CallStep(j)
  PROVE  [Lifecycle!Next]_(Lifecycle!vars)
<1> USE DEF IInv, TypeOK, QueueTypeOK, CallPlaces, jobVars, mqVars, processVars
<1>1. CASE Delete(j)
  BY <1>1, LifecycleStutter DEF Delete
<1>2. ASSUME UNCHANGED <<status, attempts>>, ~Accepted(j),
             calls' \in {[calls EXCEPT ![j] = "enqueue"], [calls EXCEPT ![j] = "schedule"],
                         [calls EXCEPT ![j] = "new"]}
      PROVE  UNCHANGED Lifecycle!vars
  BY <1>2 DEF Lifecycle!vars, Accepted
<1>3. ASSUME UNCHANGED <<status, attempts>>, ~Accepted(j),
             calls' = [calls EXCEPT ![j] = "accepted"]
      PROVE  Lifecycle!Accept(j)
  <2>1. status[j] \in {"Pending", "Scheduled"}
    BY <1>3 DEF JobInv, NewInv, BuiltStatus
  <2>2. State[j] = "New" /\ State' = [State EXCEPT ![j] = status[j]]
    BY <1>3 DEF State, Accepted
  <2> QED
    BY <1>3, <2>1, <2>2 DEF Lifecycle!Accept, Lifecycle!Move, State
<1>4. CASE EnqueueCheck(j) \/ ScheduleCheck(j)
  BY <1>2, <1>4 DEF EnqueueCheck, ScheduleCheck, Accepted
<1>5. CASE EnqueueJob(j) \/ ScheduleJob(j)
  BY <1>2, <1>3, <1>5 DEF EnqueueJob, ScheduleJob, Accepted, Lifecycle!Next
<1> QED
  BY <1>1, <1>4, <1>5 DEF CallStep

(* A step that moves an accepted job from one status to another. *)
LEMMA LifecycleMove ==
  ASSUME TypeOK, NEW j \in Jobs, Accepted(j), NEW from, NEW to,
         status[j] = from, status' = [status EXCEPT ![j] = to], UNCHANGED calls
  PROVE  Lifecycle!Move(j, from, to)
BY DEF Lifecycle!Move, TypeOK, QueueTypeOK, Accepted

(* The schedule processor takes Release steps. *)
LEMMA LifecycleRelease ==
  ASSUME IInv, NEW j \in Jobs, RetryWakes(j) \/ \E n \in Starts : ProcessorJob(n, j)
  PROVE  [Lifecycle!Next]_(Lifecycle!vars)
<1> USE DEF IInv, JobInv, NewInv, StatusInv, TypeOK, processVars, jobVars
<1>1. CASE RetryWakes(j)
  <2>1. Accepted(j) /\ status[j] = "Retrying"
    BY <1>1 DEF RetryWakes
  <2>2. Lifecycle!Move(j, "Retrying", "Pending")
    BY <1>1, <2>1, LifecycleMove DEF RetryWakes
  <2> QED
    BY <1>1, <2>2 DEF RetryWakes, Lifecycle!Requeue, Lifecycle!Next
<1>2. ASSUME NEW n \in Starts, ProcessorJob(n, j) PROVE [Lifecycle!Next]_(Lifecycle!vars)
  <2>1. Accepted(j) /\ status[j] = "Scheduled"
    BY <1>2 DEF ProcessorJob
  <2>2. CASE scheduleAt[j] = "future"
    BY <1>2, <2>2, LifecycleStutter DEF ProcessorJob
  <2>3. CASE scheduleAt[j] # "future"
    <3>1. Lifecycle!Move(j, "Scheduled", "Pending")
      BY <1>2, <2>1, <2>3, LifecycleMove DEF ProcessorJob
    <3> QED
      BY <1>2, <3>1 DEF ProcessorJob, Lifecycle!Release, Lifecycle!Next
  <2> QED
    BY <2>2, <2>3
<1> QED
  BY <1>1, <1>2

(* A worker takes Attempt, End and BackOff steps. *)
LEMMA LifecycleWorker ==
  ASSUME IInv, NEW w \in Consumers, WorkerStep(w)
  PROVE  [Lifecycle!Next]_(Lifecycle!vars)
<1> USE DEF processVars, jobVars
<1>1. CASE WorkerExit(w) \/ WorkerLoop(w) \/ WorkerDequeue(w)
  BY <1>1, LifecycleStutter DEF WorkerExit, WorkerLoop, WorkerDequeue, DequeueFirst,
                                DequeueNotified, DequeueAgain, DequeueGiveUp
<1>2. CASE BeginJob(w)
  <2>1. PICK j \in Jobs : cur[w] = j
    BY <1>2 DEF BeginJob, IInv, JobInv, HoldInv
  <2>2. Accepted(j) /\ status[j] = "Pending" /\ attempts[j] < AttemptLimit[j]
    BY <1>2, <2>1 DEF BeginJob, IInv, JobInv, NewInv, StatusInv, AttemptInv
  <2>3. Lifecycle!Move(j, "Pending", "Running")
    BY <1>2, <2>1, <2>2, LifecycleMove DEF BeginJob, IInv
  <2> QED
    BY <1>2, <2>1, <2>2, <2>3 DEF BeginJob, Lifecycle!Attempt, Lifecycle!Next
<1>3. ASSUME pc[w] = "running", NEW s, NEW counter, EndJob(w, s, counter)
      PROVE  \E j \in Jobs : cur[w] = j /\ Lifecycle!Move(j, "Running", s) /\ UNCHANGED attempts
  <2>1. PICK j \in Jobs : cur[w] = j
    BY <1>3 DEF IInv, JobInv, HoldInv
  <2>2. Accepted(j) /\ status[j] = "Running"
    BY <1>3, <2>1 DEF IInv, JobInv, NewInv, StatusInv
  <2>3. Lifecycle!Move(j, "Running", s)
    BY <1>3, <2>1, <2>2, LifecycleMove DEF EndJob, IInv
  <2> QED
    BY <1>3, <2>1, <2>3 DEF EndJob
<1>4. CASE NoHandler(w) \/ HandlerSucceeds(w)
  BY <1>3, <1>4 DEF NoHandler, HandlerSucceeds, FailJob, Lifecycle!End, Lifecycle!Next
<1>5. ASSUME NEW retryable \in BOOLEAN, HandlerFails(w, retryable)
      PROVE  [Lifecycle!Next]_(Lifecycle!vars)
  <2>1. CASE FailJob(w)
    BY <1>3, <1>5, <2>1 DEF HandlerFails, FailJob, Lifecycle!End, Lifecycle!Next
  <2>2. CASE MayRetry(cur[w]) /\ EndJob(w, "Retrying", "retried")
    <3>1. PICK j \in Jobs : cur[w] = j /\ Lifecycle!Move(j, "Running", "Retrying") /\ UNCHANGED attempts
      BY <1>3, <1>5, <2>2 DEF HandlerFails
    <3>2. attempts[j] < AttemptLimit[j]
      BY <2>2, <3>1, LimitPositive DEF MayRetry, IInv, TypeOK
    <3> QED
      BY <3>1, <3>2 DEF Lifecycle!BackOff, Lifecycle!Next
  <2> QED
    BY <1>5, <2>1, <2>2 DEF HandlerFails
<1> QED
  BY <1>1, <1>2, <1>4, <1>5 DEF WorkerStep

(* Every behaviour of the manager is, job by job, a life of JobLifecycle:  *)
(* a job moves only along its life cycle, is attempted only from Pending   *)
(* and with attempts left, and a Completed or Failed job never moves again.*)
THEOREM Refinement ==
  ASSUME ProperUse
  PROVE  Spec => LifecycleSpec
<1>1. Init => Lifecycle!Init
  BY DEF Init, Lifecycle!Init, Accepted
<1>2. IInv /\ [Next]_vars => [Lifecycle!Next]_(Lifecycle!vars)
  <2> SUFFICES ASSUME IInv, [Next]_vars PROVE [Lifecycle!Next]_(Lifecycle!vars)
    OBVIOUS
  <2> USE DEF mqVars, jobVars, processVars
  <2>1. CASE Start \/ StopBegin \/ StopClose \/ StopReturn \/ Cancel \/ CloseQueue
    BY <2>1, LifecycleStutter DEF Start, StopBegin, StopClose, StopReturn, Cancel, CloseQueue
  <2>2. CASE \E t \in Types : RegisterHandler(t)
    BY <2>2, LifecycleStutter DEF RegisterHandler
  <2>3. CASE \E j \in Jobs : TimeStep(j)
    BY <2>3, LifecycleStutter DEF TimeStep, TimePasses
  <2>4. CASE \E n \in Starts : ProcessorTick(n) \/ ProcessorEnds(n) \/ ProcessorExit(n)
    BY <2>4, LifecycleStutter DEF ProcessorTick, ProcessorEnds, ProcessorExit
  <2>5. CASE UNCHANGED vars
    BY <2>5, LifecycleStutter DEF vars
  <2> QED
    BY <2>1, <2>2, <2>3, <2>4, <2>5, LifecycleCall, LifecycleRelease, LifecycleWorker
       DEF Next, ProcessorStep
<1> QED
  BY <1>1, <1>2, Invariance, PTL DEF Spec, LifecycleSpec, Lifecycle!Spec

-----------------------------------------------------------------------------
(* The statistics: every attempt is counted once.  Any number of starts.   *)

Busy == {w \in Consumers : pc[w] = "running"}

Counted == stats["processed"] + stats["failed"] + stats["retried"]

(* A Start has its workers to itself: they are not yet running.  Then both *)
(* sides of the balance are finite and equal.                              *)
BalanceInv ==
  /\ \A n \in Starts : n > starts => \A w \in Team[n] : pc[w] = "off"
  /\ IsFiniteSet(AttemptsMade) /\ IsFiniteSet(Busy)
  /\ Cardinality(AttemptsMade) = Counted + Cardinality(Busy)

(* A step that no handler begins or ends in and no counter changes in. *)
LEMMA BalanceQuiet ==
  ASSUME BalanceInv, attempts' = attempts, stats' = stats, Busy' = Busy,
         \A n \in Starts : n > starts' => \A w \in Team[n] : pc'[w] = "off"
  PROVE  BalanceInv'
<1>1. AttemptsMade' = AttemptsMade /\ Counted' = Counted
  BY DEF AttemptsMade, Counted
<1> QED
  BY <1>1 DEF BalanceInv

(* processJob up to the handler (queue.go:457-465): one more attempt, and one *)
(* more handler that runs.                                                    *)
LEMMA BalanceBegin ==
  ASSUME TypeOK, HasJob, BalanceInv, NEW w \in Consumers, BeginJob(w)
  PROVE  BalanceInv'
<1>1. PICK j \in Jobs : j = cur[w]
  BY DEF BeginJob, HasJob
<1>2. PICK a \in Nat : a = attempts[j]
  BY DEF TypeOK
<1>3. /\ pc[w] = "got" /\ pc' = [pc EXCEPT ![w] = "running"]
      /\ attempts' = [attempts EXCEPT ![j] = a + 1]
      /\ stats' = stats /\ starts' = starts
  BY <1>1, <1>2 DEF BeginJob, Goto, lifeVars
<1>4. AttemptsMade' = AttemptsMade \cup {<<j, a + 1>>}
  <2>1. \A x \in Jobs : attempts'[x] = IF x = j THEN a + 1 ELSE attempts[x]
    BY <1>3 DEF TypeOK
  <2>2. 1 .. (a + 1) = (1 .. a) \cup {a + 1}
    OBVIOUS
  <2>3. ASSUME NEW p \in AttemptsMade' PROVE p \in AttemptsMade \cup {<<j, a + 1>>}
    <3>1. PICK x \in Jobs : p \in {x} \X (1 .. attempts'[x])
      BY <2>3 DEF AttemptsMade
    <3>2. PICK n \in 1 .. attempts'[x] : p = <<x, n>>
      BY <3>1
    <3>3. CASE x = j /\ n = a + 1
      BY <3>2, <3>3
    <3>4. CASE ~(x = j /\ n = a + 1)
      <4>1. n \in 1 .. attempts[x]
        BY <3>2, <3>4, <2>1, <2>2, <1>2
      <4> QED
        BY <4>1, <3>2 DEF AttemptsMade
    <3> QED
      BY <3>3, <3>4
  <2>4. ASSUME NEW p \in AttemptsMade PROVE p \in AttemptsMade'
    <3>1. PICK x \in Jobs : p \in {x} \X (1 .. attempts[x])
      BY <2>4 DEF AttemptsMade
    <3>2. 1 .. attempts[x] \subseteq 1 .. attempts'[x]
      BY <2>1, <2>2, <1>2
    <3>3. p \in {x} \X (1 .. attempts'[x])
      BY <3>1, <3>2
    <3> QED
      BY <3>3 DEF AttemptsMade
  <2>5. <<j, a + 1>> \in AttemptsMade'
    <3>1. <<j, a + 1>> \in {j} \X (1 .. attempts'[j])
      BY <2>1, <2>2
    <3> QED
      BY <3>1 DEF AttemptsMade
  <2> QED
    BY <2>3, <2>4, <2>5
<1>5. <<j, a + 1>> \notin AttemptsMade
  <2> SUFFICES ASSUME NEW x \in Jobs, <<j, a + 1>> \in {x} \X (1 .. attempts[x]) PROVE FALSE
    BY DEF AttemptsMade
  <2>1. x = j /\ a + 1 \in 1 .. attempts[x]
    OBVIOUS
  <2> QED
    BY <2>1, <1>2
<1>6. Busy' = Busy \cup {w} /\ w \notin Busy
  BY <1>3 DEF Busy, TypeOK
<1>7. /\ IsFiniteSet(AttemptsMade') /\ Cardinality(AttemptsMade') = Cardinality(AttemptsMade) + 1
      /\ IsFiniteSet(Busy') /\ Cardinality(Busy') = Cardinality(Busy) + 1
      /\ Cardinality(Busy) \in Nat /\ Cardinality(AttemptsMade) \in Nat
  BY <1>4, <1>5, <1>6, FS_AddElement, FS_CardinalityType DEF BalanceInv
<1>8. Counted' = Counted /\ Counted \in Nat
  BY <1>3 DEF Counted, TypeOK, Counters
<1>9. \A n \in Starts : n > starts' => \A v \in Team[n] : pc'[v] = "off"
  BY <1>3, ManagerAssumption DEF BalanceInv, TypeOK
<1> QED
  BY <1>7, <1>8, <1>9 DEF BalanceInv

(* The end of processJob (queue.go:482, 497, 522, 540): one handler less,  *)
(* one more in the statistics.                                             *)
LEMMA BalanceEnd ==
  ASSUME TypeOK, BalanceInv, NEW w \in Consumers, NEW s, NEW counter \in Counters,
         pc[w] = "running", EndJob(w, s, counter)
  PROVE  BalanceInv'
<1>1. /\ pc' = [pc EXCEPT ![w] = "idle"] /\ attempts' = attempts /\ starts' = starts
      /\ stats' = [stats EXCEPT ![counter] = @ + 1]
  BY DEF EndJob, Goto, lifeVars
<1>2. Busy' = Busy \ {w} /\ w \in Busy
  BY <1>1 DEF Busy, TypeOK
<1>3. /\ IsFiniteSet(Busy') /\ Cardinality(Busy') = Cardinality(Busy) - 1
      /\ Cardinality(Busy) \in Nat
  BY <1>2, FS_RemoveElement, FS_CardinalityType DEF BalanceInv
<1>4. Counted' = Counted + 1 /\ Counted \in Nat
  BY <1>1 DEF Counted, TypeOK, Counters
<1>5. AttemptsMade' = AttemptsMade
  BY <1>1 DEF AttemptsMade
<1>6. \A n \in Starts : n > starts' => \A v \in Team[n] : pc'[v] = "off"
  BY <1>1, ManagerAssumption DEF BalanceInv, TypeOK
<1> QED
  BY <1>3, <1>4, <1>5, <1>6 DEF BalanceInv

(* A worker's step keeps the balance. *)
LEMMA BalanceWorker ==
  ASSUME TypeOK, HasJob, BalanceInv, NEW w \in Consumers, WorkerStep(w)
  PROVE  BalanceInv'
<1>1. ASSUME NEW p, p # "running", pc' = [pc EXCEPT ![w] = p], pc[w] \notin {"off", "running"},
             attempts' = attempts, stats' = stats, starts' = starts
      PROVE  BalanceInv'
  <2>1. Busy' = Busy
    BY <1>1 DEF Busy, TypeOK
  <2>2. \A n \in Starts : n > starts' => \A v \in Team[n] : pc'[v] = "off"
    BY <1>1, ManagerAssumption DEF BalanceInv, TypeOK
  <2> QED
    BY <2>1, <2>2, <1>1, BalanceQuiet
<1>2. CASE WorkerExit(w) \/ WorkerLoop(w)
  BY <1>1, <1>2 DEF WorkerExit, WorkerLoop, Goto, processVars, lifeVars
<1>3. CASE WorkerDequeue(w)
  BY <1>1, <1>3 DEF WorkerDequeue, DequeueFirst, DequeueNotified, DequeueAgain, DequeueGiveUp,
     PopOrWait, Goto, processVars, lifeVars
<1>4. CASE BeginJob(w)
  BY <1>4, BalanceBegin
<1>5. CASE NoHandler(w) \/ HandlerSucceeds(w) \/ \E retryable \in BOOLEAN : HandlerFails(w, retryable)
  BY <1>5, BalanceEnd DEF NoHandler, HandlerSucceeds, HandlerFails, FailJob, Counters
<1> QED
  BY <1>2, <1>3, <1>4, <1>5 DEF WorkerStep

(* Every attempt is counted once, as processed, failed or retried          *)
(* (queue.go:482, 497, 522, 540), or is in its handler, also over          *)
(* restarts, refused calls and overdue jobs.                               *)
THEOREM StatsBalanceAlways == Spec => []StatsBalance
<1>1. Init => BalanceInv
  <2> SUFFICES ASSUME Init PROVE BalanceInv
    OBVIOUS
  <2>1. AttemptsMade = {}
    <3>1. \A j \in Jobs : attempts[j] = 0
      BY DEF Init
    <3>2. 1 .. 0 = {}
      OBVIOUS
    <3> QED
      BY <3>1, <3>2 DEF AttemptsMade
  <2>2. Busy = {} /\ Counted = 0
    BY DEF Init, Busy, Counted, Counters
  <2>3. \A n \in Starts : \A w \in Team[n] : pc[w] = "off"
    BY ManagerAssumption DEF Init
  <2> QED
    BY <2>1, <2>2, <2>3, FS_EmptySet DEF BalanceInv
<1>2. TypeOK /\ HasJob /\ BalanceInv /\ [Next]_vars => BalanceInv'
  <2> SUFFICES ASSUME TypeOK, HasJob, BalanceInv, [Next]_vars PROVE BalanceInv'
    OBVIOUS
  <2> USE DEF queueVars, jobVars, mqVars, processVars, lifeVars, vars
  <2>1. CASE UNCHANGED <<pc, attempts, stats, starts>>
    <3>1. Busy' = Busy
      BY <2>1 DEF Busy
    <3> QED
      BY <3>1, <2>1, BalanceQuiet DEF BalanceInv
  <2>2. CASE Start
    <3>1. /\ pc' = [w \in Consumers |-> IF w \in Team[starts + 1] THEN "idle" ELSE pc[w]]
          /\ starts' = starts + 1 /\ starts < MaxStarts /\ attempts' = attempts /\ stats' = stats
      BY <2>2 DEF Start
    <3>2. starts + 1 \in Starts /\ starts \in Nat
      BY <3>1, ManagerAssumption DEF TypeOK, Starts
    <3>3. \A w \in Team[starts + 1] : pc[w] = "off"
      BY <3>2 DEF BalanceInv
    <3>4. Busy' = Busy
      BY <3>1, <3>3 DEF Busy
    <3>5. ASSUME NEW n \in Starts, n > starts', NEW w \in Team[n] PROVE pc'[w] = "off"
      <4>1. n # starts + 1 /\ n > starts
        BY <3>1, <3>2, <3>5 DEF Starts
      <4>2. w \in Consumers /\ w \notin Team[starts + 1]
        BY <4>1, <3>2, ManagerAssumption
      <4> QED
        BY <4>1, <4>2, <3>1 DEF BalanceInv
    <3> QED
      BY <3>1, <3>4, <3>5, BalanceQuiet
  <2>3. ASSUME NEW w \in Consumers, WorkerStep(w) PROVE BalanceInv'
    BY <2>3, BalanceWorker
  <2>4. CASE \/ StopBegin \/ StopClose \/ StopReturn \/ Cancel \/ CloseQueue
             \/ \E t \in Types : RegisterHandler(t)
    BY <2>1, <2>4 DEF StopBegin, StopClose, StopReturn, Cancel, CloseQueue, RegisterHandler
  <2>5. CASE \E j \in Jobs : CallStep(j) \/ TimeStep(j) \/ RetryWakes(j)
    BY <2>1, <2>5 DEF CallStep, EnqueueCheck, EnqueueJob, ScheduleCheck, ScheduleJob, Delete,
                      TimeStep, TimePasses, RetryWakes
  <2>6. CASE \E n \in Starts : ProcessorStep(n)
    BY <2>1, <2>6 DEF ProcessorStep, ProcessorTick, ProcessorJob, ProcessorEnds, ProcessorExit
  <2> QED
    BY <2>1, <2>2, <2>3, <2>4, <2>5, <2>6 DEF Next
<1>3. TypeOK /\ HasJob /\ [Next]_vars => (TypeOK /\ HasJob)'
  BY StepType, StepHasJob
<1>4. BalanceInv => StatsBalance
  BY DEF BalanceInv, StatsBalance, Counted, Busy
<1> QED
  BY <1>1, <1>2, <1>3, <1>4, InitType, PTL DEF Spec
=============================================================================
