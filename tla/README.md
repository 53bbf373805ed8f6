# A TLA+ verification of go-essentials

The repository is a library of independent Go packages. This directory models the
ones whose correctness depends on what several goroutines, programs or requests do in
which order, and the one algorithm that is hard to test (the search for the next run
of a cron specification). TLC checks the models on small instances; TLAPS proves the
safety properties for every instance.

## The system

| Part (source) | State | Operations | Interacts with | What is hard |
|---|---|---|---|---|
| In-memory queue (`queue/memory.go`) | job map, heap of pending jobs, scheduled index, one-slot channel `notifyC`, `closed` | Enqueue, Dequeue, Schedule, UpdateJob, DeleteJob, GetJobs, Close | called by the manager's goroutines; shares `*Job` with them | Dequeue waits without the mutex; dropped notifications; Close with waiters |
| Queue manager (`queue/queue.go`, `builder.go`) | running flag, shutdown channel, handlers, statistics, each job's status and attempts | Start, Stop, Enqueue, Schedule, RegisterHandler, workers, processJob, retry goroutines, schedule processor | the queue below, handlers above, the caller's context | jobs move between five goroutine kinds; retries outside the queue; Stop with jobs in flight; stale scans |
| Task scheduler (`queue/task.go`) | task table with IsRunning, Enabled, NextRun; running flag, shutdown channel, WaitGroup | Register, Enable, Disable, Remove, Start, Stop, the loop, runTask | task functions, cron | check and flag under different locks; timeouts between attempts; Stop while runs are spawned |
| Cron (`queue/cron.go`) | none over time | parsing, next run of a specification | task scheduler | nested loops that skip; calendar corners; loop counters |
| Redis queue (`queue/redis.go`) | hashes and two sorted sets in Redis | the queue interface, MoveScheduledToPending | managers of several programs | pipelines are no transactions; crash between commands |
| RabbitMQ queue (`queue/rabbitmq.go`) | broker's queue, unacknowledged messages, delivery tags, local job map | the queue interface, PurgeQueue, Reconnect | manager, broker | redelivery beside the manager's own retry; tags of an old channel |
| Batches (`queue/job.go`) | batch table | CreateBatch, UpdateBatchStatus, DeleteBatch | manager | partial failure; counts over moving jobs |
| Memory cache (`cache/memory.go`, `cache.go`) | item map, LRU list, size statistic | Get, Set, Delete, Exists, Clear, SetTTL, cleanup, Close | first level of the tiered cache | three structures for one thing; lock given up in Exists |
| Tiered and Redis cache (`cache/tiered.go`, `redis.go`) | two levels | as the memory cache, InvalidateL1, WarmupL1 | memory cache, Redis, other programs | no lock spans the levels; one level fails |
| Web server and router (`web/`) | routes and ServeMux, address lists, rate limits, hooks; http.Server, sticky Error | register, unregister, setters, ServeHTTP; Start, Stop, Shutdown, Restart | net/http, handlers | reconfiguration while serving; Stop racing Start |
| Mail manager, sender, SMTP server (`mail/`) | running flags, counters, handler queue, worker pool | Start, Stop, Send, SendAsync, sessions, handlers | queue manager, go-smtp | full handler queue; counters that overtake each other; Stop with work queued |
| Database (`database/`) | `connected`, `failed`, `cancel`, `done` | Connect, Reconnect, Disconnect, Execute | onConnect handlers | flags against a background loop |
| Configuration, interruption (`config/`, `interruption/`) | current configuration, watcher; signal channel | Read, Write, Watch; OnSignal | callbacks | change callbacks |
| Middleware, templates, security, errors, flags, sizes, version, logging | none over time | | | |

## Modules

`MemoryQueue` holds the queue's state and one operator per method. Dequeue is four
steps (`DequeueFirst`, `DequeueNotified`, `DequeueAgain`, `DequeueGiveUp`), because
it gives the mutex up; every other method is one step under the mutex. The heap is a
bag, since one pointer can be in it twice; `Best` is what `heap.Pop` may return. It
has no next-state relation of its own: two modules use it.

* `MemoryQueueClients` closes it with an open environment: consumers that call
  Dequeue and drop the job, callers that use every method on any job in any order.
* `QueueManager` closes it with the queue manager. `EnqueueCheck`/`EnqueueJob` and
  `ScheduleCheck`/`ScheduleJob` are the two halves of Manager.Enqueue and Schedule
  (the running flag is read before the queue is called). `WorkerLoop`,
  `WorkerDequeue`, `BeginJob`, `NoHandler`, `HandlerSucceeds`, `HandlerFails` are
  `worker` and `processJob`, `RetryWakes` the goroutine of a retry, `ProcessorTick`,
  `ProcessorJob`, `ProcessorEnds` one scan of `scheduleProcessor`, `StopBegin`,
  `StopClose`, `StopReturn` are Stop. A queue call inside an action is the queue's
  operator, or `Refused` when the queue is closed.

`JobLifecycle` is the abstract specification: a job goes New, Pending or Scheduled,
Running, Retrying, Completed or Failed along permitted moves only, one move at a
time, and is attempted at most `AttemptLimit` times. `QueueManager` implements it
(`LifecycleSpec`), with the job's status once accepted as the refinement mapping.

`RedisQueue` is the other queue below the same manager, shared by several programs.
A method is a list of Redis commands; `Exec` executes the next one of a thread's
list, so commands of others come between and `Crash` cuts a list short. The threads
are each program's worker, retry and schedule processor and one outside caller; every
thread has its own copy of a job, as decoding makes one. `PipeFails` ends a list early
because of an error of Redis, a cancelled context or Close; the manager logs that and
goes on. `dropped` and `twice` are histories of the jobs lost in the ways the code
allows (crash of the holder, failed read, DeleteJob, failed pipeline that was to store
the job or its end) and of the jobs released twice.

`RabbitQueue` is the third. The broker's queue is a bag of messages, each a job as it
was when published; `unacked` is what a channel has taken, by delivery tag. A lost
connection or a crash puts it back; `Reconnect` starts the tags from 1 again while
jobs in hand keep the old number. The channel is not in confirm mode, so a publication
may be lost with the connection after Enqueue has returned nil (`EnqueueLost`).

`TaskScheduler` is `queue/task.go`: the table operations, `Tick`, `Spawn`,
`TickEnds` for `checkAndRunTasks`, and the steps of one `runTask` goroutine, whose
two ways out are `Finish` (flag cleared, next run computed) and `Abandon` (a bare
return). Two variables are histories: `abandoned`, the tasks a bare return has left
flagged, about which `TaskRunsAgain` promises nothing, and `gaps`, for each task the
ticks that found a run of it spawned but its flag not yet set. Such a tick starts the
task once more, and the first of the runs to finish clears the flag of the other;
`OneRunPerGap` says that nothing else makes runs overlap.

`CronParse` has the texts of the fields, as their splits at `/`, `-` and `,`, and what
parseCronField makes of them, the wrap of an `int` included; `CronNext` is
ParseCronSpec and calculateNextCronRun. The nested loops of the search (year, month,
day, hour, minute, second) have one shape, so `Enter` and `Advance`, with the unit as
part of the state, stand for all of them, and `NextYear` for the outermost. A month
outside the calendar is normalised, as `time.Date` does. The reference (`Matches`,
`Ahead`) is a plain statement about times, without search.

`MemoryCache` is `cache/memory.go`: map, list and size; each method one step, Exists
two (`ExistsLooks`, `ExistsRemoves`), between which every other call and the cleanup
goroutine may come. When the element it removes has left the list meanwhile, the
removal is stray: the size is decremented once too often. The history `strays` counts
these since the last Clear, and the properties say that nothing else makes map, list
and size differ.

`TieredCache` is `cache/tiered.go` over two levels that are maps with expiry: every
call is a sequence of steps on L1 and L2 (`look1 look2 fill`, `write2 write1`,
`drop1 drop2`, `clear1 keys del`), a Multi call one over several keys. Redis may fail
at each, a value may fail to be encoded or decoded (`LookL1Fails`, `FillFails`,
`WriteL2Skips`, `WriteL1Fails`), another program writes Redis (`DirectWrite`). Values
stand for their encodings; `Recoded` says what a value may become when a read decodes
it, into the caller's destination or an `interface{}`, and the backfill encodes it
again. `disturbed` is the history of what may make the levels disagree.

`WebRouter` is the path of a request through the router: the snapshot under the read
lock, the address lists, rateLimit, the handler of the ServeMux it kept, the hooks. A
ServeMux is an object that Handle changes in place and unregistering replaces.
`WebServer` extends it with the configuration calls and the life cycle: each Start
makes an http.Server (external; closed, listening or refused), `BeginShutdown`,
`EndShutdown` and `ShutdownTimesOut` are Shutdown and Restart. The lists are emptied
and then filled (`FillList`, `FillDone`), as SetWhitelist and SetBlacklist do. The
RWMutex is represented by what can be left of it: read locks a panicking request
never gives back, and the writer that waits for them.

`MailServer` is the SMTP server: sessions, `notifyHandlers` with its bounded queue,
the worker pool, Start and Stop (which cancels and closes in two steps); go-smtp is
external. `MailManager` extends it with the manager's Start and Stop, Send, SendAsync,
the sender's retries and the statistics. Under SendAsync is the memory queue as its
jobs meet it: none has an ID, so `mq.jobs` has one entry for all of them (`jobs`); the
heap holds each job as often as it was pushed; the scan (`ScanGets`, `ScanEnqueues`)
finds only what is in `mq.jobs`, and may push a second time what is in the heap. A run
is one call of the sender, for Send or for a job a worker took; `Redeliver` is what
RabbitMQ adds. `later`, `off` and `repeats` are histories: the mails accepted for a
later time, those taken off the queued count, and how often one was taken off again.

`MC*.tla` give the instances for TLC; the `*Proofs` modules hold the theorems.
Operators commented "Mutant of" are variants of the operator that follows them with
one plausible mistake; replacing the operator by its variant makes TLC report the
property that guards against it. They are not part of any next-state relation.

### Abstractions

* In the queue models a job is one value: its pointer and its ID are the same, so IDs
  are assumed distinct. `NewJob` does not set an ID (`builder.go:14`); jobs built
  without `WithID` share a map key. The library itself does so in SendAsync
  (`mail.go:280`), which `MailManager` models.
* Time is what comparisons with the clock see: a schedule time is none, future or
  past, a task is due or not, an item timed, forever or expired. Durations, the
  exponential retry delay and check intervals are left out: a timer may fire at any
  moment. In `TaskScheduler` a task's next run is in the future, or, for a cron
  specification that has no further match (`Exhausted`), stays where it was;
  `CronNext` is the computation itself.
* Payloads, metadata, error texts, progress, logging and the gauges WorkersActive and
  WorkersBusy are left out. A handler succeeds, fails, or fails with a RetryableError;
  a handler that panics ends the program.
* Configuration set by `With...` methods of queue, scheduler and caches is a constant.
* Unsynchronised writes to `job.Status` (a data race in the Go sense) are steps of
  their own order; torn reads of a word-sized value do not occur on the supported
  platforms. Unsynchronised map writes of the router may end the process (`crashed`).
* In `processJob` a status write, the UpdateJob after it and the counter after that
  are one step over the memory queue; over Redis and RabbitMQ they are not.
* Redis and RabbitMQ are modelled from the commands the code sends: a Redis command
  is atomic, a pipeline is not; a broker keeps a message until it is acknowledged.
* A Redis pipeline that fails executes a prefix of its commands and nothing later.
* Schedule of a job that has no schedule time is left out.
* A value L2 could encode may still fail to be encoded for L1; one SetMulti could not
  encode for L2 is not encoded for L1 either, both levels having the same serializer.

## Runs

| Run | Instance | Shows |
|---|---|---|
| `memory_queue` | 2 jobs, 2 consumers | `NotAllAsleep`: the consumers never all sleep over a pending job with no token left. `ScheduledAreStored`: the scheduled index stays inside the job map. `CloseReleasesDequeue`: Close wakes everyone. `MQTypeOK`. |
| `manager` | 2 jobs (2 attempts; default of 1), 2 workers, Stop, Close, DeleteJob, scan limit 1 | `OnePlace`, `NoJobLost`, `AttemptsBounded`, `CleanStopLeavesNothingRunning`, `StatsBalance`, and `LifecycleSpec` |
| `manager_live` | 2 jobs, 1 worker, Stop, cancel | `EveryJobEnds`, `WorkersDrain` |
| `redis_queue` | 2 programs, 2 jobs (one scheduled, 2 attempts), 1 crash or failed pipeline, failed reads, a caller of Enqueue, Schedule, DeleteJob and MoveScheduledToPending, scan limit 1; 1.5 million states | `NoJobLost`: nothing but a crash of the holder, a failed read, DeleteJob, a second release or an error of the call that was to store it loses a job. `OneRunAtATime`: unless released twice, two programs never run it together. |
| `rabbit_queue` | 2 jobs (one scheduled, 2 attempts), 2 workers, 4 deliveries, 2 breaks (crash, lost, closed or renewed connection, lost publication, purge); 2 million states | `NoJobLost`: the broker has a message of every job that has not ended, unless a lost publication, a purge or a stale tag took it. `CopiesCounted`: no more of them than were published. |
| `scheduler` | 1 task (1 retry, cron that may be exhausted), 3 runs at a time, timeouts, cancel; 165 thousand states | `OneRunPerGap`: runs overlap only by ticks that come before a run's flag. `StopWaitsForAll`, `TaskRunsAgain`, `StopReturnsEventually`, `TypeOK` |
| `cron` | a calendar of 2 months with 3 and 2 days, a leap day every 4th year, weeks of 3 days; 288 specifications, with and without seconds, from 4 times; about 40 texts in each kind of field; `IntMax` 15 | `FieldsMeanTexts`: parsing. `Terminates`, `NothingSkipped`, `FoundMatches`: the search returns the first match, or none when there is none. |
| `memory_cache` | 3 keys, 2 slots, 1 caller of Exists that anything may overlap, 1 stray removal; 206 thousand states | `Consistent`, `CapacityBound`: map, list and size differ, and the cache grows past its bound, by the stray removals only. `LeastRecentLast`, `ExpiredIsRemoved` |
| `tiered_cache` | 2 keys, 2 values and a third that reading makes of one of them, 2 callers, all operations on one and on both keys, a foreign writer, failures of Redis and of the encoding, expiry, eviction; 1.1 million states | `L1FromL2`: L1 holds only what L2 once had or one reading made of it. `QuietCoherent`: the levels disagree, by more than a reading, only after overlapping calls, foreign writes or errors. `StaleNotForEver`: a disagreement ends. |
| `web` | 2 requests from 2 addresses, a honeypot and "/" with a rate limit, 2 Starts, 4 events; 288 thousand states | `ServedAsRegistered`, `TrappedStayOut`, `OnlyOvertakenRequestsPanic` (a request panics only if handlers were unregistered since its snapshot), `CloseIsReported` (a Start whose server is closed returns and reports) |
| `web_hangs` | same | violated: `RouterNeverHangs`. A pattern is unregistered between a request's snapshot and its rate limit; the request panics with the read lock held |
| `mail` | 2 messages without the SMTP server, or with it 1 message, 2 sessions and 2 handlers, or 2 Starts; 2 runs of the sender with 1 retry, 1 redelivery, 1 worker with a queue of 2; 534 thousand states | `QueuedCoversBacklog`: the queued count covers the backlog, up to increments under way and mails that ran again. `OnlyLaterMailsAreLost`: a mail for now is in the heap or was taken, whatever the shared ID does. `StoppedIsQuiet`, `QueuedTasksRun` |

**Bounds.** Two jobs and two consumers are the least that can compete for a token, a
heap entry or a job; a third job adds only another independent copy, and the theorems
cover all numbers. `MaxCopies` = 1 keeps a caller of `memory_queue` from pushing a job
that is in the heap; with 2 (927 thousand states, two minutes) the same properties
hold, and the theorems hold for any value. Two attempts give one retry, which is
followed by both outcomes. `ScheduleLimit` = 1 makes a scan of `manager` miss a job. In
`scheduler`, tasks share only the loop, so one is enough for a run, a second one of an
early tick and a third. In the cache three keys for two slots make every further Set
evict; `MaxStrays` = 1 is one overlapped Exists between two calls of Clear (with 2, 4.6
million states were explored without a violation, and the theorems hold for any value).
Four deliveries of `rabbit_queue` are a retry of one job beside a redelivery of the
other. `MaxEvents` of `web` bounds the calls from outside, in any mixture: four are two
requests and two changes, or a Start, a request and two changes. `Budgets` of `mail`
says how many events of each kind go together: the mails and the SMTP server share
nothing but the running flag, so two mails are tried without the server. `MaxRuns` = 2
runs of the sender are both mails, or one mail twice; `Redeliverable` = {2} lets
RabbitMQ redeliver the later mail, and the earlier one stays a mail of the memory
queue. `MaxMuxes` = 3 allows two replacements of the ServeMux. Requests, messages,
sessions and Starts are numbered and come in their order, which loses nothing, since
they are alike; workers of RabbitMQ and programs of Redis are symmetric. `NotTwice` of
`redis_queue` ends the exploration after a second release: both properties exclude such
a job from then on. Deadlock checking is off where a system may come to rest when its
callers stop calling.

**Assumptions on use.** `manager` is about a manager started once, whose callers
Enqueue no job that is already overdue. With `MaxStarts` = 2 (`Team <- TwoTeams`) or
`EnqueueOverdue` = TRUE the properties fail, as the section "Seen" tells.
`tiered_cache` leaves out SetTTL with 0 (`"persist"`), after which an entry of L1 never
expires and `StaleNotForEver` promises nothing; it assumes a default TTL, as the
default configuration has. `mail` assumes that Start is not called while a Stop is
under way, and a queue manager that goes on running. The queue models assume distinct
job IDs; the mail manager breaks that, so for its jobs the promises of `manager`,
`redis_queue` and `rabbit_queue` do not hold, and `mail` shows what does over the
memory queue.

**Fairness.** Nothing is assumed of callers: no fairness for Start, Stop, Enqueue,
registering, sending or removing. Goroutines of the library keep running (weak
fairness per worker, processor, run and loop; in `web` one for all requests, Starts
and list updates together): the Go scheduler is fair to runnable goroutines, mutexes
are eventually granted, handlers and task functions return. Timers fire and the clock
advances (`RetryWakes`, `TimeStep`, `TimePasses`, `Cleanup`, `ExpireL1`). Strong
fairness is used once, for `LoopExit` of the task scheduler: its select may prefer
the ticker to the closed channel any number of times, but Go chooses among ready cases
at random. `CloseReleasesDequeue` uses no timer: waking is the work of the closed
channel. `Terminates` needs only that the search takes its steps.

## Proofs

Each theorem is about the specification its run checks, for arbitrary values of the
constants: any sets of jobs, workers, programs, keys, requests or messages, finite or
not (only `Runs` of the task scheduler is assumed finite), and any bounds. The
assumptions are the ASSUMEs of the modules, which say what kind of thing a constant is
and that the values standing for "none" are no others, and the conditions on use named
below. Hardly any of the properties is inductive; the invariants that are add what the
actors know of each other in the middle of an operation.

* `QueueManagerProofs`, in-memory queue: type correctness, `NotAllAsleep` and
  `ScheduledAreStored` under the open environment. `NotAllAsleep` is inductive with the
  types: a push leaves a token, a consumer that takes the token is awake, and one goes
  to sleep only after it saw an empty heap under the mutex.
* `QueueManagerProofs`, manager: type correctness without conditions; under `ProperUse`
  (one start, no overdue Enqueue) `OnePlace`, `NoJobLost`, `AttemptsBounded`,
  `CleanStopLeavesNothingRunning` and the refinement of `JobLifecycle`. The invariant
  `IInv` adds: a worker has a job exactly in its last two places (`HoldInv`); a job not
  yet accepted is untouched (`NewInv`); each place a job can be in fixes its status,
  and what a scan has returned is still Scheduled (`StatusInv`), which is where one
  start and no overdue jobs are needed; a job that may be attempted again has attempts
  left (`AttemptInv`); and Stop follows Start (`LifeInv`). `StatsBalance` needs no
  condition on use: `BalanceInv` says that the attempts made and the workers in a
  handler are finitely many, that the former are as many as the latter and the counts
  together, and that a Start finds its workers not yet running.
* `RedisQueueProofs`: `OneRunAtATime` and `NoJobLost`. `ThreadInv` says what the rest of
  a thread's pipeline can look like in each place of the thread, which is all that is
  known of a method whose commands others interrupt. `TokenInv` says that the right to
  run a job is in one place only (the set `pending`, the memory of one worker or one
  retry, or one pipeline), and in none while the job waits for its time; a second
  release, which the histories exclude, is the one way to duplicate it. `FreshInv` and
  `StoredInv` say where a job is before and during its Enqueue, `ParkInv` that a program
  has room for the retry its worker is about to start, and `KeptInv` is `NoJobLost` in
  terms of the right to run. A failing pipeline only gives rights up, and a failing
  UpdateJob to Running or Retrying loses nothing, because the worker still has the job.
* `RabbitQueueProofs`: `NoJobLost` is inductive with the types and `TagInv`: a job taken
  on the present channel has the tag of its own message or of none. So settling it never
  removes another job's message, which after Reconnect it may; such a job is excused.
  `CopiesCounted` compares the broker's messages with the publications. Returning the
  unacknowledged messages of a broken channel makes no copies because they are numbered
  by their tags: an injection gives each of them a number of its own in the queue.
* `MemoryCacheProofs`: `Consistent`, `CapacityBound` and `LeastRecentLast`, whatever
  comes between the two locks of Exists. A mapped key has an element of its own that is
  in the list exactly once (`MapInv`); the size is never above the number of mapped keys
  and below the length of the list by exactly the stray removals (`SizeInv`); Set keeps
  it at or below MaxSize (`BoundInv`), hence the list, and with it the map, within
  MaxSize and the strays. Two mapped elements are in the order in which their keys were
  used; an element whose item a stray removal took from the map is no longer compared.
  The module also has what list.Remove, moving to the front and the cleanup do to a list
  without duplicates.
* `TieredCacheProofs`: `L1FromL2` and `QuietCoherent`, for any `Recoded`. A value a call
  is about to put into L1 is one that L2 has held or a copy of one, and what SetMulti
  skipped is kept apart (`StoredInv`). A key that is not disturbed has at most one writer,
  and no reader beside it (`Alone`); without a writer the levels agree about it
  (`Settled`), and while a call is under way each of its places fixes what the levels
  hold (`Progress`).
* `WebServerProofs`: `ServedAsRegistered`, `TrappedStayOut` and the action property
  `OnlyOvertakenRequestsPanic`. The current ServeMux has
  the routes of the table and the ones not made yet are empty (`TableInv`), and the mux
  a request took along has, for its path, something that was registered since it came:
  an older mux does not change any more (`FlightInv`). A trapped address is on the
  blacklist and not on the whitelist (`ListInv`), and a request that came from one gets
  no further than that check. Every limited pattern has its limitStore (`LimitInv`), and
  so have the patterns of a snapshot until handlers are unregistered.
* `MailManagerProofs`: `StoppedIsQuiet`, from `TaskInv`: a queued task is in the queue
  or with a worker until it has run, and Stop returns without an error only when every
  worker has gone. `QueuedCoversBacklog`, from `CountInv`: the accepted mails are
  finitely many, only an accepted mail is taken off the count (`SendInv`), so a decrement
  that finds the count at zero has an increment still to come, or repeats one.
  `OnlyLaterMailsAreLost`, from `KeptInv`: a mail that is neither in the heap nor taken is
  one for later that is still Scheduled; and from `QueueInv`: the one entry of `mq.jobs`
  is an accepted mail from the first on, so with a single mail it is that one.
* `TaskSchedulerProofs`, scheduler: type correctness, which includes that `workerWg`
  never becomes negative, and `StopWaitsForAll`, from `StopInv`: the counter equals the
  number of runs not returned, plus one for the loop. `OneRunPerGap`, from `OverlapInv`:
  the runs of a task, with the one the loop is about to spawn, are at most one more than
  its gaps (`Loaded`), and not one more when the loop would take the task for idle, so
  that the next tick has room (`Idle`).
* `TaskSchedulerProofs`, cron: type correctness, `NothingSkipped` and `FoundMatches` for
  every calendar, specification, starting time and set of field values, the real
  calendar among them. The invariant says that every matching time is still ahead of
  the search in the lexicographic order of units (`Reaches`): entering a unit takes its
  least value that is not behind, advancing takes the next, and going back to the unit
  above passes only values no match has. `FieldsMeanTexts` for every width of `int`,
  all fields whose bounds are numbers of an `int`, and all texts. Its core is that a loop
  from `start` to `end` by `step` appends exactly the numbers in between that are a
  multiple of `step` away from `start`: the last round is number
  `(end - start) \div step`, and the one after it still fits an `int` when
  `step <= IntMax - end`, so that it is seen to be past the end.

Only model-checked: the liveness properties (`CloseReleasesDequeue`, `EveryJobEnds`,
`WorkersDrain`, `TaskRunsAgain`, `StopReturnsEventually`, `ExpiredIsRemoved`,
`StaleNotForEver`, `Terminates`, `CloseIsReported`, `QueuedTasksRun`), since the prover
handles neither fairness nor ENABLED.

## Seen, and not covered by a run

What the code does where no property that holds can be stated. Formulas that are
named here are definitions of the modules which no configuration checks; they fail.

Queue:

* `notify` drops its send when the channel is full ("notification already pending",
  `memory.go:265`). Two Enqueues while two consumers wait leave one token; one
  consumer sleeps over the second job until the other calls Dequeue again, another
  notification comes or its timer fires (`WaiterIsNotified`).
* A job built with a schedule time that passed before Enqueue is pushed while it still
  says Scheduled (`memory.go:49`); the schedule processor may push it again, and it is
  executed more often than its maximum (`AttemptsBounded` with `EnqueueOverdue`).
* `shutdownChan` is made once: Start, Stop, Start, Stop closes it twice and panics
  (`queue.go:330`, `StopNeverPanics`; the task scheduler likewise, `task.go:299`).
* DeleteJob leaves the heap entry (`memory.go:175`); a worker still executes the
  deleted job (`DeletedLeaveTheQueue`).
* A timeout in the delay between two attempts returns at `task.go:406` with IsRunning
  set: the task neither runs again nor can be removed (`FlagMeansRunning`).
* A tick between a run's spawning and its flag starts the task a second time
  (`task.go:348`); the first run to finish clears the flag of the other, and
  `OneRunPerGap` bounds what comes of it.
* RemoveTask between the loop's check and the run's flag removes a task whose function
  then runs (`task.go:528`, `RemovedDoNotRun`). A task disabled after the loop
  collected it runs too (`task.go:331`).
* GetJobs returns 100 scheduled jobs in map order; that a due job beyond them is
  eventually released rests on the random order.
* UpdateBatchStatus counts jobs one after the other (`job.go:213`): its numbers are of
  no single moment. CreateBatch that fails leaves jobs of a batch that does not exist.
* Redis: the schedule processors of two programs may both release a due job; the second
  release may bring a job back that is running or has ended. MoveScheduledToPending
  releases what the scheduled set names, whatever the job's status. An error of Enqueue
  or UpdateJob is only logged (`queue.go:509`, `519`, `537`, `579`): the job may be left
  in no set, Running for ever in its hash.
* RabbitMQ: a failed attempt returns the message as it was delivered, with the old
  attempt count (`rabbitmq.go:334`, `336`), beside the copy the manager's retry
  publishes. A job may run more often than "WithMaxAttempts sets the maximum number of
  attempts" (`builder.go:54`) says (`AttemptsRespected`). Schedule publishes at once.
  A negative priority becomes a large one. After Reconnect a job in hand settles
  whatever message now has its old tag. Publications are not confirmed
  (`rabbitmq.go:231`).
* Cron: times are civil times, so a change of clocks may skip or repeat a match; a step
  near the largest `int` overflows the loop counter; 7 is no Sunday, and "1-5,10" is
  refused.

Cache:

* Exists gives up the read lock before it removes the element it saw
  (`cache/memory.go:254-257`), without another look. An item that Set or SetTTL renewed
  meanwhile is removed although it has not expired; if the cleanup goroutine or another
  caller removed the element first, the size is decremented twice, and the cache may
  from then on grow past MaxSize, by one item each time it happens, until Clear.
* L1 may differ from L2 by a decoding: Get stores the caller's destination, which may
  have been filled before (`tiered.go:70`), GetMulti and WarmupL1 store what decoding
  into an `interface{}` gives, with large integers as float64 (`tiered.go:220`, `389`).
* An error of L1 after L2 was written is only recorded (`tiered.go:105`, `251`): readers
  see the old entry until it expires. SetMulti over Redis leaves out what it cannot
  encode and reports success (`redis.go:270`).
* With statistics disabled the memory cache never evicts: `stats.Size`, by which Set
  decides (`cache/memory.go:206`), stays 0. `CapacityBound` is stated for enabled
  statistics.

Web:

* The rate limit's 429 and the canonical redirect's 301 do not end the request: the
  handler still runs (`router.go:86-88`; "allows 10 requests per minute",
  `web.go:689`). The rate limit does not consult the whitelist, though `web.go:774`
  says so.
* UnregisterAllHandler leaves the websockets in the server's table; WithHandler on the
  pattern of a honeypot panics in ServeMux.
* Between the emptying and the filling of a list a request meets a partial one, and
  the unlocked maps may end the process.
* Stop before Start has set `s.server` does nothing, and the Start goes on to listen.
  The server that redirects to HTTPS is never closed. StartAsync with a sticky Error
  sends to its channel in the caller's goroutine.

Mail:

* SendAsync builds its jobs without `WithID` (`mail.go:280`): all mail jobs have the
  ID "". Over the memory queue a mail accepted later takes a scheduled one out of the
  job map (`memory.go:48`), where alone the scan looks, and it is never sent; so does
  the end of another mail's job (`memory.go:150`). `OnlyLaterMailsAreLost` says that
  this is the only loss. Over Redis, whose sets hold IDs, mails for now replace each
  other too; over RabbitMQ a scheduled mail is published at once, and once more by the
  scan if it is still in the local job map.
* A mail whose ScheduleAt has passed is pushed while it still says Scheduled
  (`mail.go:286`, `memory.go:49`); the scan may push it again, and it is sent twice, as
  it is after a redelivery by RabbitMQ. Each repetition takes the queued count down
  once more.
* The queued count is too high after a failed mail, and for good when a decrement
  overtakes its increment, since it stops at zero; hence only `QueuedCoversBacklog`.
* A failed mail job is not a RetryableError, so the queue never retries it, whatever
  `config.go:99` and `mail.go:12` say. Attachments do not survive jobDataToMessage.
* Stop that runs before the goroutine of Start leaves the SMTP server listening. The
  workers end with the first Stop and are not made again: after a restart handlers are
  queued and never run.

Elsewhere: Connect's loop may store `connected` over a Reconnect that came meanwhile, or
establish a connection after Disconnect looked for one to close; OnSignal without
handlers cancels its context at once, not at a signal.

## Not modelled

* Batch manager: a table over the manager without promises of its own beyond a
  best-effort count.
* Middleware: wrappers of a handler that change only the error it returns.
* Mail templates and messages, security, errors, flags, sizes, version and logging:
  formatting, cryptographic calls and global settings without behaviour over time.
* Database: the connection loop is driven by gorm and a live server; what the package
  adds are two flags and a channel, listed as a hazard.
* Configuration: reflection over structs and files; the watcher is viper's.
* Interruption: panic reports and a signal handler of a few lines.

Left out of modelled components: statistics and events of the caches, response bodies
and middlewares' headers, TLS set-up, patterns with methods, hosts or wildcards.

## Plan

Every safety property of the runs is proved. What is left:

1. Abstract specifications of the Redis and RabbitMQ queues, in the manner of
   `JobLifecycle`, with the histories as the difference between them.
2. The safety part of the liveness arguments (what is enabled in every state that
   waits) as invariants, so that only fairness remains with TLC.
3. The database connection, should its loop gain promises to check.
