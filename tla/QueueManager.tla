---------------------------- MODULE QueueManager ----------------------------
(***************************************************************************)
(* The queue manager of queue/queue.go over the in-memory queue: Start and *)
(* Stop, the worker goroutines, processJob with its retry goroutines, and  *)
(* the schedule processor.                                                 *)
(*                                                                         *)
(* pc[w] is "off" before a worker is spawned and after it returned, "idle" *)
(* at the top of its loop, "running" from the Running update to the end of *)
(* processJob, and otherwise the place in Dequeue that MemoryQueue gives.  *)
(* A field write of processJob, the queue call and the counter that follow *)
(* it are one step.                                                        *)
(***************************************************************************)
EXTENDS MemoryQueue

CONSTANTS
  MaxStarts,      \* bound: how often Start succeeds
  Team,           \* Team[n], the workers the n-th Start spawns
  Type,           \* Type[j], job.Type
  Types,          \* the job types
  MaxAttempts,    \* MaxAttempts[j], as the job was built
  maxRetries,     \* m.maxRetries, the default for a job built with 0
  ScheduleLimit,  \* how many jobs one GetJobs returns, 100 in the code
  EnqueueOverdue, \* may Enqueue be called once a job's ScheduleAt has passed?
  Interventions   \* what the program does beyond submitting jobs

Starts == 1 .. MaxStarts

ASSUME ManagerAssumption ==
  /\ MaxStarts \in Nat
  /\ Team \in [Starts -> SUBSET Consumers]
  /\ \A m, n \in Starts : m # n => Team[m] \cap Team[n] = {}
  /\ Type \in [Jobs -> Types]
  /\ MaxAttempts \in [Jobs -> Nat]
  /\ maxRetries \in Nat
  /\ ScheduleLimit \in Nat
  /\ EnqueueOverdue \in BOOLEAN
  /\ Interventions \subseteq {"stop", "cancel", "close", "delete"}

VARIABLES
  running,    \* m.running
  shutdown,   \* m.shutdownChan is closed
  starts,     \* how often Start has succeeded
  ctxDone,    \* the context given to Start is done
  stop,       \* the progress of the call of Stop, and how it returned
  panicked,   \* close of a closed channel
  handlers,   \* the keys of m.handlers
  calls,      \* the progress of the Enqueue or Schedule call for each job
  attempts,   \* job.Attempts
  sleeping,   \* retry goroutines asleep for each job
  processor,  \* the schedule processor of each Start
  due,        \* the jobs its GetJobs returned that it has not looked at yet
  stats,      \* JobsProcessed, JobsFailed, JobsRetried of m.stats
  deleted     \* history: the jobs DeleteJob was called for

lifeVars    == <<running, shutdown, starts, ctxDone, stop, panicked>>
processVars == <<attempts, sleeping, stats>>
scanVars    == <<processor, due>>
vars        == <<mqVars, lifeVars, handlers, calls, processVars, scanVars, deleted>>

Counters == {"processed", "failed", "retried"}

Accepted(j) == calls[j] = "accepted"

(* job.MaxAttempts after Enqueue or Schedule filled the default in *)
JobMaxAttempts(j) == IF MaxAttempts[j] = 0 THEN maxRetries ELSE MaxAttempts[j]

(* One attempt is made even when the maximum is zero. *)
AttemptLimit == [j \in Jobs |-> IF JobMaxAttempts(j) = 0 THEN 1 ELSE JobMaxAttempts(j)]

Init ==
  /\ jobs = {}
  /\ pending = [j \in Jobs |-> 0]
  /\ scheduledJobs = {}
  /\ notifyC = 0
  /\ closed = FALSE
  /\ scheduleAt \in [Jobs -> Times]
  /\ status = [j \in Jobs |-> BuiltStatus(scheduleAt[j])]
  /\ pc = [w \in Consumers |-> "off"]
  /\ cur = [w \in Consumers |-> NoJob]
  /\ running = FALSE
  /\ shutdown = FALSE
  /\ starts = 0
  /\ ctxDone = FALSE
  /\ stop = "none"
  /\ panicked = FALSE
  /\ handlers = {}
  /\ calls = [j \in Jobs |-> "new"]
  /\ attempts = [j \in Jobs |-> 0]
  /\ sleeping = [j \in Jobs |-> 0]
  /\ processor = [n \in Starts |-> "off"]
  /\ due = [n \in Starts |-> {}]
  /\ stats = [counter \in Counters |-> 0]
  /\ deleted = {}

-----------------------------------------------------------------------------
(* Start and Stop.  A second close of shutdownChan panics; the program     *)
(* ends there, and what the model does after it means nothing.  Stop is    *)
(* called by one goroutine at a time.                                      *)

Start ==
  /\ ~running
  /\ starts < MaxStarts
  /\ running' = TRUE
  /\ starts' = starts + 1
  /\ processor' = [processor EXCEPT ![starts'] = "select"]
  /\ pc' = [w \in Consumers |-> IF w \in Team[starts'] THEN "idle" ELSE pc[w]]
  /\ UNCHANGED <<queueVars, jobVars, cur, shutdown, ctxDone, stop, panicked,
                 handlers, calls, processVars, due, deleted>>

StopBegin ==
  /\ "stop" \in Interventions
  /\ running
  /\ stop \notin {"closing", "waiting"}
  /\ running' = FALSE
  /\ stop' = "closing"
  /\ UNCHANGED <<mqVars, shutdown, starts, ctxDone, panicked,
                 handlers, calls, processVars, scanVars, deleted>>

StopClose ==
  /\ stop = "closing"
  /\ shutdown' = TRUE
  /\ panicked' = shutdown
  /\ stop' = "waiting"
  /\ UNCHANGED <<mqVars, running, starts, ctxDone,
                 handlers, calls, processVars, scanVars, deleted>>

(* Mutant of StopReturn: the workers are not waited for. *)
StopReturnAtOnce ==
  /\ stop = "waiting"
  /\ stop' = "clean"
  /\ UNCHANGED <<mqVars, running, shutdown, starts, ctxDone, panicked,
                 handlers, calls, processVars, scanVars, deleted>>

StopReturn ==
  /\ stop = "waiting"
  /\ \/ (\A w \in Consumers : pc[w] = "off") /\ stop' = "clean"
     \/ stop' = "timeout"
  /\ UNCHANGED <<mqVars, running, shutdown, starts, ctxDone, panicked,
                 handlers, calls, processVars, scanVars, deleted>>

Cancel ==
  /\ "cancel" \in Interventions
  /\ starts > 0 /\ ~ctxDone
  /\ ctxDone' = TRUE
  /\ UNCHANGED <<mqVars, running, shutdown, starts, stop, panicked,
                 handlers, calls, processVars, scanVars, deleted>>

RegisterHandler(t) ==
  /\ t \notin handlers
  /\ handlers' = handlers \cup {t}
  /\ UNCHANGED <<mqVars, lifeVars, calls, processVars, scanVars, deleted>>

-----------------------------------------------------------------------------
(* Manager.Enqueue and Manager.Schedule read m.running and then call the   *)
(* queue: Stop may come in between.  A refused job may be tried again.     *)

EnqueueCheck(j) ==
  /\ calls[j] = "new"
  /\ running
  /\ calls' = [calls EXCEPT ![j] = "enqueue"]
  /\ UNCHANGED <<mqVars, lifeVars, handlers, processVars, scanVars, deleted>>

EnqueueJob(j) ==
  /\ calls[j] = "enqueue"
  /\ scheduleAt[j] = "past" => EnqueueOverdue
  /\ \/ Enqueue(j, scheduleAt[j]) /\ calls' = [calls EXCEPT ![j] = "accepted"]
     \/ Refused /\ calls' = [calls EXCEPT ![j] = "new"]
  /\ UNCHANGED <<jobVars, pc, cur, lifeVars, handlers, processVars, scanVars, deleted>>

(* Schedule is for jobs built with a schedule time. *)
ScheduleCheck(j) ==
  /\ calls[j] = "new"
  /\ scheduleAt[j] # "none"
  /\ running
  /\ calls' = [calls EXCEPT ![j] = "schedule"]
  /\ UNCHANGED <<mqVars, lifeVars, handlers, processVars, scanVars, deleted>>

ScheduleJob(j) ==
  /\ calls[j] = "schedule"
  /\ \/ Schedule(j) /\ calls' = [calls EXCEPT ![j] = "accepted"]
     \/ Refused /\ calls' = [calls EXCEPT ![j] = "new"]
  /\ UNCHANGED <<jobVars, pc, cur, lifeVars, handlers, processVars, scanVars, deleted>>

(* The owner of the queue deletes a job, or closes the queue. *)
Delete(j) ==
  /\ "delete" \in Interventions
  /\ j \in jobs
  /\ DeleteJob(j)
  /\ deleted' = deleted \cup {j}
  /\ UNCHANGED <<jobVars, pc, cur, lifeVars, handlers, calls, processVars, scanVars>>

CloseQueue ==
  /\ "close" \in Interventions
  /\ Close
  /\ UNCHANGED <<jobVars, pc, cur, lifeVars, handlers, calls, processVars, scanVars, deleted>>

TimeStep(j) ==
  /\ TimePasses(j)
  /\ UNCHANGED <<lifeVars, handlers, calls, processVars, scanVars, deleted>>

-----------------------------------------------------------------------------
(* worker *)

(* Mutant of WorkerExit: the shutdown channel is not looked at. *)
WorkerExitOnCancel(w) ==
  /\ pc[w] = "idle"
  /\ ctxDone
  /\ Goto(w, "off")
  /\ UNCHANGED <<queueVars, jobVars, cur, lifeVars, handlers, calls, processVars, scanVars, deleted>>

WorkerExit(w) ==
  /\ pc[w] = "idle"
  /\ ctxDone \/ shutdown
  /\ Goto(w, "off")
  /\ UNCHANGED <<queueVars, jobVars, cur, lifeVars, handlers, calls, processVars, scanVars, deleted>>

WorkerLoop(w) ==
  /\ pc[w] = "idle"
  /\ ~ctxDone /\ ~shutdown
  /\ Goto(w, "lock")
  /\ UNCHANGED <<queueVars, jobVars, cur, lifeVars, handlers, calls, processVars, scanVars, deleted>>

WorkerDequeue(w) ==
  /\ DequeueFirst(w) \/ DequeueNotified(w) \/ DequeueAgain(w) \/ DequeueGiveUp(w)
  /\ UNCHANGED <<lifeVars, handlers, calls, processVars, scanVars, deleted>>

(* processJob, up to the call of the handler *)
BeginJob(w) ==
  /\ pc[w] = "got"
  /\ Goto(w, "running")
  /\ status' = [status EXCEPT ![cur[w]] = "Running"]
  /\ attempts' = [attempts EXCEPT ![cur[w]] = @ + 1]
  /\ UpdateJob(cur[w], "Running") \/ Refused
  /\ UNCHANGED <<scheduleAt, cur, lifeVars, handlers, calls, sleeping, stats, scanVars, deleted>>

(* the end of processJob: the job's last status, the statistics, the loop  *)
EndJob(w, s, counter) ==
  /\ Goto(w, "idle")
  /\ cur' = [cur EXCEPT ![w] = NoJob]
  /\ status' = [status EXCEPT ![cur[w]] = s]
  /\ UpdateJob(cur[w], s) \/ Refused
  /\ stats' = [stats EXCEPT ![counter] = @ + 1]
  /\ UNCHANGED <<scheduleAt, lifeVars, handlers, calls, attempts, scanVars, deleted>>

HasHandler(w) == Type[cur[w]] \in handlers

FailJob(w) == EndJob(w, "Failed", "failed") /\ UNCHANGED sleeping

(* Mutant of NoHandler: the failure is not counted. *)
NoHandlerUncounted(w) ==
  /\ pc[w] = "running"
  /\ ~HasHandler(w)
  /\ Goto(w, "idle")
  /\ cur' = [cur EXCEPT ![w] = NoJob]
  /\ status' = [status EXCEPT ![cur[w]] = "Failed"]
  /\ UpdateJob(cur[w], "Failed") \/ Refused
  /\ UNCHANGED <<scheduleAt, lifeVars, handlers, calls, attempts, scanVars, deleted, stats, sleeping>>

NoHandler(w) ==
  /\ pc[w] = "running"
  /\ ~HasHandler(w)
  /\ FailJob(w)

HandlerSucceeds(w) ==
  /\ pc[w] = "running"
  /\ HasHandler(w)
  /\ EndJob(w, "Completed", "processed")
  /\ UNCHANGED sleeping

(* Mutant of MayRetry: one attempt too many. *)
MayRetryOnceMore(j) == attempts[j] <= JobMaxAttempts(j)

MayRetry(j) == attempts[j] < JobMaxAttempts(j)

(* Mutants of HandlerFails: no retry goroutine; one for every failure. *)
HandlerFailsForgetful(w, retryable) ==
  /\ pc[w] = "running"
  /\ HasHandler(w)
  /\ IF retryable /\ MayRetry(cur[w])
       THEN EndJob(w, "Retrying", "retried") /\ UNCHANGED sleeping
       ELSE FailJob(w)

HandlerFailsStubborn(w, retryable) ==
  /\ pc[w] = "running"
  /\ HasHandler(w)
  /\ EndJob(w, IF retryable /\ MayRetry(cur[w]) THEN "Retrying" ELSE "Failed", "retried")
  /\ sleeping' = [sleeping EXCEPT ![cur[w]] = @ + 1]

HandlerFails(w, retryable) ==
  /\ pc[w] = "running"
  /\ HasHandler(w)
  /\ IF retryable /\ MayRetry(cur[w])
       THEN /\ EndJob(w, "Retrying", "retried")
            /\ sleeping' = [sleeping EXCEPT ![cur[w]] = @ + 1]
       ELSE FailJob(w)

(* The retry goroutine wakes.  Neither Stop nor the context ends it, and a *)
(* queue closed meanwhile refuses the job for good.                        *)
RetryWakes(j) ==
  /\ sleeping[j] > 0
  /\ sleeping' = [sleeping EXCEPT ![j] = @ - 1]
  /\ status' = [status EXCEPT ![j] = "Pending"]
  /\ Enqueue(j, scheduleAt[j]) \/ Refused
  /\ UNCHANGED <<scheduleAt, pc, cur, lifeVars, handlers, calls, attempts, stats, scanVars, deleted>>

-----------------------------------------------------------------------------
(* scheduleProcessor.  The status of a job is read in GetJobs and not      *)
(* again when its turn comes.  GetJobs picks jobs in map order, which is   *)
(* any order; on a closed queue it fails and the processor waits again.    *)

ProcessorTick(n) ==
  /\ processor[n] = "select"
  /\ ~closed
  /\ \E S \in SUBSET GetJobs("Scheduled") :
       /\ Cardinality(S) <= ScheduleLimit
       /\ S = GetJobs("Scheduled") \/ Cardinality(S) = ScheduleLimit
       /\ due' = [due EXCEPT ![n] = S]
  /\ processor' = [processor EXCEPT ![n] = "scan"]
  /\ UNCHANGED <<mqVars, lifeVars, handlers, calls, processVars, deleted>>

(* Mutant of ProcessorJob: the job stays Scheduled. *)
ProcessorJobStale(n, j) ==
  /\ processor[n] = "scan" /\ j \in due[n]
  /\ due' = [due EXCEPT ![n] = @ \ {j}]
  /\ IF scheduleAt[j] = "future"
       THEN UNCHANGED <<queueVars, jobVars>>
       ELSE /\ scheduleAt' = [scheduleAt EXCEPT ![j] = "none"]
            /\ Enqueue(j, "none") \/ Refused
            /\ UNCHANGED status
  /\ UNCHANGED <<pc, cur, lifeVars, handlers, calls, processVars, processor, deleted>>

ProcessorJob(n, j) ==
  /\ processor[n] = "scan" /\ j \in due[n]
  /\ due' = [due EXCEPT ![n] = @ \ {j}]
  /\ IF scheduleAt[j] = "future"
       THEN UNCHANGED <<queueVars, jobVars>>
       ELSE /\ status' = [status EXCEPT ![j] = "Pending"]
            /\ scheduleAt' = [scheduleAt EXCEPT ![j] = "none"]
            /\ Enqueue(j, "none") \/ Refused
  /\ UNCHANGED <<pc, cur, lifeVars, handlers, calls, processVars, processor, deleted>>

(* Mutant of ProcessorEnds: the processor returns after its first scan. *)
ProcessorReturns(n) ==
  /\ processor[n] = "scan" /\ due[n] = {}
  /\ processor' = [processor EXCEPT ![n] = "off"]
  /\ UNCHANGED <<mqVars, lifeVars, handlers, calls, processVars, due, deleted>>

ProcessorEnds(n) ==
  /\ processor[n] = "scan" /\ due[n] = {}
  /\ processor' = [processor EXCEPT ![n] = "select"]
  /\ UNCHANGED <<mqVars, lifeVars, handlers, calls, processVars, due, deleted>>

ProcessorExit(n) ==
  /\ processor[n] = "select"
  /\ ctxDone \/ shutdown
  /\ processor' = [processor EXCEPT ![n] = "off"]
  /\ UNCHANGED <<mqVars, lifeVars, handlers, calls, processVars, due, deleted>>

-----------------------------------------------------------------------------
WorkerStep(w) ==
  \/ WorkerExit(w) \/ WorkerLoop(w) \/ WorkerDequeue(w) \/ BeginJob(w)
  \/ NoHandler(w) \/ HandlerSucceeds(w)
  \/ \E retryable \in BOOLEAN : HandlerFails(w, retryable)

ProcessorStep(n) ==
  \/ ProcessorTick(n) \/ ProcessorEnds(n) \/ ProcessorExit(n)
  \/ \E j \in Jobs : ProcessorJob(n, j)

CallStep(j) ==
  \/ EnqueueCheck(j) \/ EnqueueJob(j) \/ ScheduleCheck(j) \/ ScheduleJob(j) \/ Delete(j)

Next ==
  \/ Start \/ StopBegin \/ StopClose \/ StopReturn \/ Cancel \/ CloseQueue
  \/ \E t \in Types : RegisterHandler(t)
  \/ \E j \in Jobs : CallStep(j) \/ TimeStep(j) \/ RetryWakes(j)
  \/ \E w \in Consumers : WorkerStep(w)
  \/ \E n \in Starts : ProcessorStep(n)

Spec == Init /\ [][Next]_vars

(* A spawned goroutine keeps running: handlers return, Dequeue's timer and *)
(* the retry timers fire, the ticker ticks, the clock advances.  The       *)
(* callers owe nothing: no fairness for Start, Stop, Enqueue or Schedule.  *)
Fairness ==
  /\ \A w \in Consumers : WF_vars(WorkerStep(w))
  /\ \A n \in Starts : WF_vars(ProcessorStep(n))
  /\ \A j \in Jobs : WF_vars(RetryWakes(j)) /\ WF_vars(TimeStep(j))

FairSpec == Spec /\ Fairness

-----------------------------------------------------------------------------
WorkerPlaces == {"off", "idle", "lock", "waiting", "woken", "got", "running"}
StopPlaces   == {"none", "closing", "waiting", "clean", "timeout"}
CallPlaces   == {"new", "enqueue", "schedule", "accepted"}

TypeOK ==
  /\ QueueTypeOK
  /\ pc \in [Consumers -> WorkerPlaces]
  /\ running \in BOOLEAN /\ shutdown \in BOOLEAN /\ ctxDone \in BOOLEAN /\ panicked \in BOOLEAN
  /\ starts \in 0 .. MaxStarts
  /\ stop \in StopPlaces
  /\ handlers \subseteq Types
  /\ calls \in [Jobs -> CallPlaces]
  /\ attempts \in [Jobs -> Nat]
  /\ sleeping \in [Jobs -> Nat]
  /\ processor \in [Starts -> {"off", "select", "scan"}]
  /\ due \in [Starts -> SUBSET Jobs]
  /\ stats \in [Counters -> Nat]
  /\ deleted \subseteq Jobs

Holds(w, j) == cur[w] = j /\ pc[w] \in {"got", "running"}

(* A job is never in two places: not at two workers (queue.go:442-449),    *)
(* not twice in the heap, not in the heap or at a worker while its retry   *)
(* goroutine (queue.go:505) sleeps.  Two places mean that a handler runs   *)
(* twice, concurrently, on one shared *Job.                                *)
OnePlace ==
  \A j \in Jobs :
    /\ pending[j] + sleeping[j] <= 1
    /\ \A v \in Consumers : Holds(v, j) =>
         /\ pending[j] + sleeping[j] = 0
         /\ \A w \in Consumers : Holds(w, j) => v = w

(* What moves a job on from its status: a worker, a retry goroutine, the   *)
(* heap, the jobs map that the schedule processor scans.                   *)
Tracked(j) ==
  /\ status[j] = "Running"  => \E w \in Consumers : Holds(w, j) /\ pc[w] = "running"
  /\ status[j] = "Retrying" => sleeping[j] > 0
  /\ status[j] = "Pending" /\ ~closed =>
       InHeap(j) \/ \E w \in Consumers : Holds(w, j) /\ pc[w] = "got"
  /\ status[j] = "Scheduled" => j \in jobs \cup deleted

(* An accepted job is never lost: whatever its status says, the goroutine  *)
(* or the structure that will move it on exists.  Only closing the queue   *)
(* (memory.go:44) or deleting the job takes that away.                     *)
NoJobLost == \A j \in Jobs : Accepted(j) => Tracked(j)

(* The handler is called at most MaxAttempts times for a job, counted over *)
(* all workers, retries and schedule releases (builder.go:54: "sets the    *)
(* maximum number of attempts", queue.go:489).                             *)
AttemptsBounded == \A j \in Jobs : attempts[j] <= AttemptLimit[j]

(* When Stop returns because workerWg is done (queue.go:339) no job is     *)
(* left in Running: every worker has finished the job it had.              *)
CleanStopLeavesNothingRunning ==
  stop = "clean" => \A j \in Jobs : ~(Accepted(j) /\ status[j] = "Running")

(* The attempts made: <<j, n>> is the n-th at job j. *)
AttemptsMade == UNION {{j} \X (1 .. attempts[j]) : j \in Jobs}

(* Every attempt is counted once, as processed, failed or retried          *)
(* (queue.go:482, 497, 522, 540), or is still in its handler.              *)
StatsBalance ==
  Cardinality(AttemptsMade) =
    stats["processed"] + stats["failed"] + stats["retried"]
      + Cardinality({w \in Consumers : pc[w] = "running"})

(* The manager implements the life cycle of JobLifecycle. *)
Lifecycle == INSTANCE JobLifecycle WITH
  state <- [j \in Jobs |-> IF Accepted(j) THEN status[j] ELSE "New"],
  tries <- attempts

LifecycleSpec == Lifecycle!Spec

(* Stop closes shutdownChan once: a manager that is started again can be   *)
(* stopped again (queue.go:319 "Stop stops the queue manager gracefully"). *)
StopNeverPanics == ~panicked

(* A deleted job is not waiting in the heap for a worker                   *)
(* (memory.go:166 "DeleteJob removes a job from the queue").               *)
DeletedLeaveTheQueue == \A j \in deleted : ~InHeap(j)

(* Every accepted job ends Completed or Failed, unless somebody stops the  *)
(* manager, cancels its context, closes the queue or deletes the job.      *)
EveryJobEnds ==
  \A j \in Jobs :
    Accepted(j) ~> status[j] \in Terminal \/ j \in deleted \/ closed \/ shutdown \/ ctxDone

(* After close(shutdownChan) every worker returns (queue.go:438), also one *)
(* that is blocked in Dequeue or in the middle of a job.                   *)
WorkersDrain == shutdown ~> \A w \in Consumers : pc[w] = "off"
=============================================================================
