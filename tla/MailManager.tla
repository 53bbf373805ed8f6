----------------------------- MODULE MailManager -----------------------------
(***************************************************************************)
(* The mail manager: Start and Stop with the SMTP server under it, Send,   *)
(* SendAsync over the job queue, the sender's retries and the statistics.  *)
(*                                                                         *)
(* The jobs of SendAsync go to the memory queue under a running queue      *)
(* manager (its workers and its scan for scheduled jobs).  None has an ID, *)
(* so the map mq.jobs has one entry for all of them, the job written last. *)
(* The errors of handleMailJob are not retryable ones.  A message is a     *)
(* number; the SMTP exchange may fail.                                     *)
(***************************************************************************)
EXTENDS MailServer

CONSTANTS Messages,    \* the messages, 1..n in the order they are sent
          MaxRetries,  \* ClientConfig.MaxRetries
          Budgets,     \* bound: how many events of each kind go together
          MaxRuns,     \* bound on the calls of the sender
          Redeliverable  \* the mails that RabbitMQ, in place of the memory queue,
                         \* hands out a second time; {} for the memory queue

ASSUME MailAssumption == /\ MaxRetries \in Nat /\ MaxRuns \in Nat
                         /\ Messages \subseteq Nat \ {0}

VARIABLES enabled,     \* config.Server.Enabled
          mmRunning,   \* Manager.running
          manStop,     \* the call of Manager.Stop: "idle", "server", "done"
          call,        \* the caller of Send or SendAsync
          jobs,        \* the job of mq.jobs: a message or 0
          pending,     \* mq.pendingJobs: how often each job is in the heap
          job,         \* Status and ScheduleAt of a message's job
          scan,        \* the job scheduleProcessor has got, or 0
          run,         \* the calls of the sender: message, phase and attempt
          stats,       \* Stats
          later,       \* history: mails accepted for a later time
          off,         \* history: mails that were taken off the queued count
          repeats      \* history: how often one was taken off once more

manVars == <<enabled, mmRunning, manStop>>
queueVars == <<jobs, pending, job, scan, later>>
sendVars == <<call, queueVars, run, stats, off, repeats>>
vars == <<msVars, manVars, sendVars>>

Runs == 1..MaxRuns

Init ==
    /\ MSInit
    /\ enabled \in {b.enabled : b \in Budgets}
    /\ mmRunning = FALSE /\ manStop = "idle"
    /\ call = [m \in Messages |-> "idle"]
    /\ jobs = 0 /\ scan = 0
    /\ pending = [m \in Messages |-> 0]
    /\ job = [m \in Messages |-> [status |-> "none", at |-> "none"]]
    /\ run = [r \in Runs |-> [mail |-> 0, pc |-> "none", attempt |-> 0]]
    /\ stats = [sent |-> 0, failed |-> 0, queued |-> 0]
    /\ later = {} /\ off = {} /\ repeats = 0

\* One more event of a kind is within the bound.
Happened == [start |-> Cardinality({n \in Starts : starter[n].pc # "idle"}),
             mail |-> Cardinality({m \in Messages : call[m] # "idle"}),
             session |-> Cardinality({c \in Sessions : session[c].pc # "closed"}),
             handler |-> handlers]

Event(kind) ==
    \E b \in {c \in Budgets : c.enabled = enabled} :
      \A k \in DOMAIN Happened : Happened[k] + (IF k = kind THEN 1 ELSE 0) <= b[k]

-----------------------------------------------------------------------------
\* Start; the SMTP server, if it is enabled, starts in a goroutine.  Callers are
\* taken not to call Start while a Stop of theirs has not returned.
Start(n) ==
    /\ Event("start") /\ ~mmRunning /\ manStop # "server"
    /\ starter[n].pc = "idle" /\ \A m \in 1..(n - 1) : starter[m].pc # "idle"
    /\ mmRunning' = TRUE
    /\ manStop' = "idle"
    /\ stopper' = "idle"
    /\ SetStarter(n, IF enabled THEN "begin" ELSE "done")
    /\ UNCHANGED <<enabled, taskVars, cancelled, running, server, smtp, sendVars>>

\* Stop asks whether the server is running; the answer may be too early.
StopLooks ==
    /\ mmRunning /\ manStop = "idle"
    /\ mmRunning' = FALSE
    /\ manStop' = IF running THEN "server" ELSE "done"
    /\ UNCHANGED <<enabled, msVars, sendVars>>

\* smtpServer.Stop, which refuses when the server ended meanwhile.  (Stop then
\* waits for the goroutine of Start or its context; it returns either way.)
StopServer ==
    /\ manStop = "server"
    /\ \/ StopBegins /\ UNCHANGED manStop
       \/ StopCloses /\ manStop' = IF stopper' = "error" THEN "done" ELSE manStop
       \/ StopReturns /\ manStop' = "done"
       \/ ~running /\ stopper = "idle" /\ manStop' = "done" /\ UNCHANGED msVars
    /\ UNCHANGED <<enabled, mmRunning, sendVars>>

-----------------------------------------------------------------------------
SetRun(r, pc) == run' = [run EXCEPT ![r].pc = pc]

\* The next run is for message m.
BeginRun(r, m, pc) ==
    /\ run[r].pc = "none" /\ \A q \in 1..(r - 1) : run[q].pc # "none"
    /\ run' = [run EXCEPT ![r] = [mail |-> m, pc |-> pc, attempt |-> 0]]

\* A caller sends the next message; the manager must be running.
Calls(m) == /\ mmRunning /\ Event("mail") /\ call[m] = "idle"
            /\ \A l \in 1..(m - 1) : call[l] # "idle"

CallSend(m) ==
    /\ Calls(m)
    /\ call' = [call EXCEPT ![m] = "sync"]
    /\ \E r \in Runs : BeginRun(r, m, "send")
    /\ UNCHANGED <<msVars, manVars, queueVars, stats, off, repeats>>

\* Enqueue of the memory queue: it replaces the job that has the same ID.
EnqueueUntimed(m, at) ==
    /\ jobs' = m
    /\ pending' = IF at = "none" THEN [pending EXCEPT ![m] = @ + 1] ELSE pending

Enqueue(m, at) ==
    /\ jobs' = m
    /\ pending' = IF at = "future" THEN pending ELSE [pending EXCEPT ![m] = @ + 1]

\* SendAsync enqueues a job (or the queue refuses it) and counts it afterwards.
CallSendAsync(m) ==
    /\ Calls(m)
    /\ \/ \E at \in {"none", "future", "past"} :
             /\ call' = [call EXCEPT ![m] = "enqueued"]
             /\ job' = [job EXCEPT ![m] =
                  [status |-> IF at = "none" THEN "pending" ELSE "scheduled", at |-> at]]
             /\ Enqueue(m, at)
             /\ later' = IF at = "future" THEN later \cup {m} ELSE later
       \/ /\ call' = [call EXCEPT ![m] = "refused"]
          /\ UNCHANGED <<jobs, pending, job, later>>
    /\ UNCHANGED <<msVars, manVars, scan, run, stats, off, repeats>>

CountQueued(m) ==
    /\ call[m] = "enqueued"
    /\ call' = [call EXCEPT ![m] = "counted"]
    /\ stats' = [stats EXCEPT !.queued = @ + 1]
    /\ UNCHANGED <<msVars, manVars, queueVars, run, off, repeats>>

-----------------------------------------------------------------------------
\* The queue manager's scan: GetJobs looks into mq.jobs.
ScanGets ==
    /\ scan = 0 /\ jobs # 0 /\ job[jobs].status = "scheduled"
    /\ scan' = jobs
    /\ UNCHANGED <<msVars, manVars, call, jobs, pending, job, later, run, stats, off, repeats>>

\* The job is enqueued if its time has come, whatever happened to it meanwhile.
ScanEnqueues ==
    /\ scan # 0
    /\ IF job[scan].at = "future" THEN UNCHANGED <<jobs, pending, job>>
       ELSE /\ job' = [job EXCEPT ![scan] = [status |-> "pending", at |-> "none"]]
            /\ Enqueue(scan, "none")
    /\ scan' = 0
    /\ UNCHANGED <<msVars, manVars, call, later, run, stats, off, repeats>>

TimePasses(m) ==
    /\ job[m].at = "future"
    /\ job' = [job EXCEPT ![m].at = "past"]
    /\ UNCHANGED <<msVars, manVars, call, jobs, pending, scan, later, run, stats, off, repeats>>

\* A message of RabbitMQ whose channel was lost before it was acknowledged.
Redeliver(m) ==
    /\ m \in Redeliverable /\ call[m] # "sync" /\ pending[m] = 0
    /\ Cardinality({r \in Runs : run[r].mail = m}) = 1
    /\ pending' = [pending EXCEPT ![m] = @ + 1]
    /\ UNCHANGED <<msVars, manVars, call, jobs, job, scan, later, run, stats, off, repeats>>

-----------------------------------------------------------------------------
\* A worker of the queue takes a job.
Dequeue(m, r) ==
    /\ pending[m] > 0
    /\ BeginRun(r, m, "taken")
    /\ pending' = [pending EXCEPT ![m] = @ - 1]
    /\ UNCHANGED <<msVars, manVars, call, jobs, job, scan, later, stats, off, repeats>>

\* processJob writes the job's status and calls UpdateJob.
UpdateJob(r, status) ==
    /\ job' = [job EXCEPT ![run[r].mail].status = status]
    /\ jobs' = run[r].mail
    /\ UNCHANGED <<pending, scan, later>>

TakeJobAndCount(r) ==
    /\ run[r].pc = "taken"
    /\ UpdateJob(r, "running")
    /\ SetRun(r, "send") \/ SetRun(r, "finish")
    /\ stats' = [stats EXCEPT !.queued = IF @ > 0 THEN @ - 1 ELSE @]
    /\ UNCHANGED <<msVars, manVars, call, off, repeats>>

\* processJob calls handleMailJob, which decodes the payload.  If it cannot,
\* nothing is counted.
TakeJob(r) ==
    /\ run[r].pc = "taken"
    /\ UpdateJob(r, "running")
    /\ SetRun(r, "send") \/ SetRun(r, "finish")
    /\ UNCHANGED <<msVars, manVars, call, stats, off, repeats>>

\* The sender: the preparation of the mail, a turn of the loop and the delay
\* before the next one, where the context may be done.
Send(r) ==
    /\ run[r].pc = "send"
    /\ \/ \E pc \in {"sent", "failed"} : run' = [run EXCEPT ![r].pc = pc, ![r].attempt = 0]
       \/ /\ run[r].attempt < MaxRetries
          /\ run' = [run EXCEPT ![r].attempt = @ + 1]
    /\ UNCHANGED <<msVars, manVars, call, queueVars, stats, off, repeats>>

Sync(r) == call[run[r].mail] = "sync"

CountFailed(r) ==
    /\ run[r].pc = "failed"
    /\ stats' = [stats EXCEPT !.failed = @ + 1]
    /\ SetRun(r, IF Sync(r) THEN "ended" ELSE "finish")
    /\ UNCHANGED <<msVars, manVars, call, queueVars, off, repeats>>

CountSent(r) ==
    /\ run[r].pc = "sent"
    /\ stats' = [stats EXCEPT !.sent = @ + 1]
    /\ SetRun(r, IF Sync(r) THEN "ended" ELSE "uncount")
    /\ UNCHANGED <<msVars, manVars, call, queueVars, off, repeats>>

\* decrementQueuedCount stops at zero; a failed job is not taken off the count.
Uncount(r) ==
    /\ run[r].pc = "uncount"
    /\ stats' = [stats EXCEPT !.queued = IF @ > 0 THEN @ - 1 ELSE @]
    /\ off' = off \cup {run[r].mail}
    /\ repeats' = IF run[r].mail \in off THEN repeats + 1 ELSE repeats
    /\ SetRun(r, "finish")
    /\ UNCHANGED <<msVars, manVars, call, queueVars>>

\* processJob records the end of the job.
Finish(r) ==
    /\ run[r].pc = "finish"
    /\ UpdateJob(r, "ended")
    /\ SetRun(r, "ended")
    /\ UNCHANGED <<msVars, manVars, call, stats, off, repeats>>

RunStep(r) == \/ TakeJob(r) \/ Send(r) \/ CountFailed(r) \/ CountSent(r)
              \/ Uncount(r) \/ Finish(r)

MailStep(m) == \/ CallSend(m) \/ CallSendAsync(m) \/ CountQueued(m)
               \/ TimePasses(m) \/ Redeliver(m) \/ \E r \in Runs : Dequeue(m, r)

-----------------------------------------------------------------------------
Receive ==
    \/ Event("handler") /\ AddHandler
    \/ \E c \in Sessions : \/ Event("session") /\ NewSession(c)
                           \/ AuthPlain(c) \/ MailFromTo(c) \/ Reset(c)
                           \/ Data(c) \/ SessionStep(c)
    \/ \E w \in Workers : WorkerStep(w)
    \/ \E n \in Starts : StartStep(n)

Next ==
    \/ Receive /\ UNCHANGED <<manVars, sendVars>>
    \/ \E n \in Starts : Start(n)
    \/ StopLooks
    \/ StopServer
    \/ \E m \in Messages : MailStep(m)
    \/ ScanGets \/ ScanEnqueues
    \/ \E r \in Runs : RunStep(r)

Spec == Init /\ [][Next]_vars

\* The worker goroutines go on while they can, and handlers return.
Fairness == \A w \in Workers :
              WF_vars(WorkerStep(w) /\ UNCHANGED <<manVars, sendVars>>)

FairSpec == Spec /\ Fairness

-----------------------------------------------------------------------------
(***************************************************************************)
(* Properties.                                                             *)
(***************************************************************************)
\* The mails the queue has accepted, and those whose SendAsync is between Enqueue
\* and the increment.
Accepted == {m \in Messages : call[m] \in {"enqueued", "counted"}}
Uncounted == {m \in Messages : call[m] = "enqueued"}

\* The queued count covers the mails the queue accepted that have not been taken
\* off it, but for those whose SendAsync is between Enqueue and the increment and
\* those it loses to a second run of a mail (a job with a past ScheduleAt is found
\* by the scan, too; RabbitMQ delivers again), however increments and decrements,
\* which stop at zero, overtake each other (Manager.SendAsync, handleMailJob).
QueuedCoversBacklog ==
    stats.queued + Cardinality(Uncounted) + repeats >= Cardinality(Accepted \ off)

\* Although all mail jobs have the same ID and replace each other in mq.jobs, where
\* the scan looks for them, an accepted mail is in the heap or has been taken by a
\* worker, unless it was given a later time; and such a mail is found by the scan
\* until another mail is accepted (mail.go:280, memory.go:48, queue.go:564).
OnlyLaterMailsAreLost ==
    \A m \in Accepted :
      \/ pending[m] > 0
      \/ \E r \in Runs : run[r].mail = m
      \/ /\ m \in later
         /\ Accepted = {m} => jobs = m /\ job[m].status = "scheduled"

\* When smtpServer.Stop has returned without an error, every task a worker took
\* has been handled to its end, and no worker takes another from then on: what
\* was not handled is in the queue and stays there (smtpServer.Stop,
\* startWorkerPool, whose select may take a task after the cancellation).
StoppedIsQuiet ==
    stopper = "clean" =>
      \A t \in Tasks : fate[t] = "queued" => \E i \in DOMAIN queue : queue[i] = t

\* The tasks in the queue are handled, all of them, unless the server is stopped
\* first; none is forgotten (notifyHandlers, startWorkerPool).
QueuedTasksRun ==
    (\E t \in Tasks : fate[t] = "queued")
      ~> ((\A t \in Tasks : fate[t] # "queued") \/ cancelled)
=============================================================================
