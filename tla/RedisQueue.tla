---------------------------- MODULE RedisQueue ----------------------------
(***************************************************************************)
(* The Redis-backed queue of queue/redis.go under the managers of several  *)
(* programs (hosts) that share one Redis server and may crash.             *)
(*                                                                         *)
(* Redis keeps the encoded jobs and two sorted sets of job IDs.  A method  *)
(* sends a pipeline: its commands are executed in order, but not as a      *)
(* transaction, so commands of others come in between, and an error or a   *)
(* crash may cut it short.  A thread is a goroutine that uses the queue:   *)
(*   <<h, "worker">>    worker and processJob: "idle" "read" "handler"     *)
(*                      "park"                                             *)
(*   <<h, "retry">>     the goroutine of a retry: "idle" "sleep"           *)
(*   <<h, "schedule">>  scheduleProcessor: "idle" "load"                   *)
(*   Caller             a caller of Enqueue, Schedule, DeleteJob or        *)
(*                      MoveScheduledToPending: "idle" "move"              *)
(* A thread takes its next step when its pipeline is executed.  Unlike     *)
(* with the memory queue, every thread works on its own copy of a job.     *)
(***************************************************************************)
EXTENDS Integers, Sequences, FiniteSets

CONSTANTS
  Jobs, Hosts, NoJob,
  Timed,        \* the jobs built with a schedule time
  MaxAttempts,  \* job.MaxAttempts
  Priority,     \* Priority[j], job.Priority
  ScanLimit,    \* the limit scheduleProcessor gives to GetJobs
  MaxFailures,  \* bound: crashes of hosts and pipelines that fail
  Deletable,    \* bound: the jobs DeleteJob is called for, once
  Features      \* which of "move", "readError", "pipeError" happen

Statuses == {"pending", "scheduled", "running", "completed", "failed", "retrying"}
JobRecords == [id : Jobs, status : Statuses, attempts : Nat, timed : BOOLEAN]

ASSUME RedisAssumption ==
  /\ Timed \subseteq Jobs /\ NoJob \notin Jobs \cup Hosts \cup JobRecords
  /\ MaxAttempts \in Nat \ {0} /\ ScanLimit \in Nat /\ MaxFailures \in Nat
  /\ Priority \in [Jobs -> Int]

Caller == <<NoJob, "caller">>
Threads == (Hosts \X {"worker", "retry", "schedule"}) \cup {Caller}
Worker(h) == <<h, "worker">>
Retry(h) == <<h, "retry">>
Scheduler(h) == <<h, "schedule">>

VARIABLES
  data,       \* the hashes "job:<id>": [status, attempts, timed], or NoJob
  pending,    \* the sorted set "pending"
  scheduled,  \* the sorted set "scheduled"
  due,        \* jobs whose schedule time has passed
  at, copy,   \* the threads: place, and the job in memory
  todo,       \* the IDs or jobs a thread has still to treat
  pipe,       \* the commands of a thread that are not executed yet
  accepted,   \* history: jobs for which Enqueue or Schedule was called
  dropped,    \* history: jobs a crash, an error or DeleteJob took away
  released,   \* history: jobs a scan or MoveScheduledToPending made Pending
  twice,      \* history: jobs released by two of them, or while parked
  failures

serverVars == <<data, pending, scheduled>>
threadVars == <<at, copy, todo, pipe>>
historyVars == <<accepted, dropped, released, twice>>
vars == <<serverVars, due, threadVars, historyVars, failures>>

Job(j, s, n, t) == [id |-> j, status |-> s, attempts |-> n, timed |-> t]

Init ==
  /\ data = [j \in Jobs |-> NoJob]
  /\ pending = {} /\ scheduled = {} /\ due = {}
  /\ at = [t \in Threads |-> "idle"]
  /\ copy = [t \in Threads |-> NoJob]
  /\ todo = [t \in Threads |-> {}]
  /\ pipe = [t \in Threads |-> <<>>]
  /\ accepted = {} /\ dropped = {} /\ released = {} /\ twice = {}
  /\ failures = 0

-----------------------------------------------------------------------------
(* Pipelines *)

HSet(c)    == [cmd |-> "hset", id |-> c.id, set |-> "job", data |-> c]
Del(j)     == [cmd |-> "del", id |-> j, set |-> "job", data |-> NoJob]
ZAdd(z, j) == [cmd |-> "zadd", id |-> j, set |-> z, data |-> NoJob]
ZRem(z, j) == [cmd |-> "zrem", id |-> j, set |-> z, data |-> NoJob]

(* What a sorted set is after a command. *)
After(z, name, c) ==
  CASE c.set = name /\ c.cmd = "zadd" -> z \cup {c.id}
    [] c.set = name /\ c.cmd = "zrem" -> z \ {c.id}
    [] OTHER -> z

(* ScheduleAt is set and not yet reached. *)
IsScheduled(c) == c.timed /\ c.id \notin due

(* Mutant of EnqueuePipe: the ID first, then the data. *)
EnqueuePipeIdFirst(c) == <<ZAdd(IF IsScheduled(c) THEN "scheduled" ELSE "pending", c.id), HSet(c)>>

EnqueuePipe(c) == <<HSet(c), ZAdd(IF IsScheduled(c) THEN "scheduled" ELSE "pending", c.id)>>

(* Mutant of UpdatePipe: a job that is Retrying is put into pending. *)
UpdatePipeRetryNow(c) ==
  <<HSet(c), ZRem("pending", c.id), ZRem("scheduled", c.id)>> \o
  CASE c.status \in {"pending", "retrying"} -> <<ZAdd("pending", c.id)>>
    [] c.status = "scheduled" -> <<ZAdd("scheduled", c.id)>>
    [] OTHER -> <<>>

UpdatePipe(c) ==
  <<HSet(c), ZRem("pending", c.id), ZRem("scheduled", c.id)>> \o
  CASE c.status = "pending" -> <<ZAdd("pending", c.id)>>
    [] c.status \in {"scheduled", "retrying"} -> <<ZAdd("scheduled", c.id)>>
    [] OTHER -> <<>>

SchedulePipe(c) == <<HSet(c), ZAdd("scheduled", c.id)>>

DeletePipe(j) == <<Del(j), ZRem("pending", j), ZRem("scheduled", j)>>

(* Redis executes the next command of a thread's pipeline. *)
Exec(t) ==
  /\ pipe[t] # <<>>
  /\ LET c == Head(pipe[t]) IN
     /\ data' = IF c.set = "job" THEN [data EXCEPT ![c.id] = c.data] ELSE data
     /\ pending' = After(pending, "pending", c)
     /\ scheduled' = After(scheduled, "scheduled", c)
     /\ dropped' = IF c.cmd = "del" THEN dropped \cup {c.id} ELSE dropped
  /\ pipe' = [pipe EXCEPT ![t] = Tail(@)]
  /\ UNCHANGED <<due, at, copy, todo, accepted, released, twice, failures>>

(* A call fails: Redis does, the context is cancelled, or, before the      *)
(* first command, the queue is closed.  The rest of the pipeline is not    *)
(* executed.  The managers log the error and go on, so a job that was to   *)
(* be put into a set or to be recorded as finished is gone, unless the     *)
(* worker still has it.                                                    *)
PipeFails(t) ==
  /\ "pipeError" \in Features
  /\ failures < MaxFailures /\ failures' = failures + 1
  /\ pipe[t] # <<>>
  /\ dropped' = IF t[2] = "worker" /\ at[t] # "idle" THEN dropped
                ELSE dropped \cup {pipe[t][i].id : i \in {n \in DOMAIN pipe[t] : pipe[t][n].cmd # "zrem"}}
  /\ pipe' = [pipe EXCEPT ![t] = <<>>]
  /\ UNCHANGED <<serverVars, due, at, copy, todo, accepted, released, twice>>

(* Thread t goes to place p with copy c, and sends pipeline cs. *)
Moves(t, p, c, cs) ==
  /\ at' = [at EXCEPT ![t] = p]
  /\ copy' = [copy EXCEPT ![t] = c]
  /\ pipe' = [pipe EXCEPT ![t] = cs]

Ready(t, p) == at[t] = p /\ pipe[t] = <<>>

-----------------------------------------------------------------------------
(* Callers *)

Enqueue(j) ==
  /\ Ready(Caller, "idle")
  /\ j \notin accepted
  /\ LET c == Job(j, IF j \in Timed THEN "scheduled" ELSE "pending", 0, j \in Timed) IN
     Moves(Caller, "idle", NoJob, EnqueuePipe(c))
  /\ accepted' = accepted \cup {j}
  /\ UNCHANGED <<serverVars, due, todo, dropped, released, twice, failures>>

(* Schedule, for a job that has a time, which may have passed. *)
Schedule(j) ==
  /\ Ready(Caller, "idle")
  /\ j \in Timed \ accepted
  /\ Moves(Caller, "idle", NoJob, SchedulePipe(Job(j, "scheduled", 0, TRUE)))
  /\ accepted' = accepted \cup {j}
  /\ UNCHANGED <<serverVars, due, todo, dropped, released, twice, failures>>

DeleteJob(j) ==
  /\ Ready(Caller, "idle")
  /\ j \in (accepted \cap Deletable) \ dropped
  /\ Moves(Caller, "idle", NoJob, DeletePipe(j))
  /\ UNCHANGED <<serverVars, due, todo, historyVars, failures>>

(* Job j, of status s, becomes Pending without having been taken by a      *)
(* worker: the second time, or unless it is Scheduled, two threads may own *)
(* it from now on.                                                         *)
Releases(j, s) ==
  /\ released' = released \cup {j}
  /\ twice' = IF j \in released \/ s # "scheduled" THEN twice \cup {j} ELSE twice
  /\ UNCHANGED <<accepted, dropped>>

(* MoveScheduledToPending lists the IDs whose time has passed (a job that  *)
(* is Retrying and not scheduled has none) and updates them one by one.    *)
MoveList ==
  /\ "move" \in Features
  /\ Ready(Caller, "idle")
  /\ LET ids == {j \in scheduled : j \in due \/ j \notin Timed} IN
     /\ ids # {}
     /\ todo' = [todo EXCEPT ![Caller] = ids]
  /\ Moves(Caller, "move", NoJob, <<>>)
  /\ UNCHANGED <<serverVars, due, historyVars, failures>>

MoveOne ==
  /\ Ready(Caller, "move")
  /\ \E j \in todo[Caller] :
       LET left == todo[Caller] \ {j}
           c == [data[j] EXCEPT !.status = "pending", !.timed = FALSE] IN
       /\ todo' = [todo EXCEPT ![Caller] = left]
       /\ Moves(Caller, IF left = {} THEN "idle" ELSE "move", NoJob,
                IF data[j] = NoJob THEN <<>> ELSE UpdatePipe(c))
       /\ Releases(j, IF data[j] = NoJob THEN "deleted" ELSE data[j].status)
  /\ UNCHANGED <<serverVars, due, failures>>

-----------------------------------------------------------------------------
(* worker and processJob over Dequeue and UpdateJob *)

Pop(h) ==
  /\ Ready(Worker(h), "idle")
  /\ \E j \in pending :
       /\ \A k \in pending : Priority[k] <= Priority[j]
       /\ pending' = pending \ {j}
       /\ todo' = [todo EXCEPT ![Worker(h)] = {j}]
  /\ Moves(Worker(h), "read", NoJob, <<>>)
  /\ UNCHANGED <<data, scheduled, due, historyVars, failures>>

(* The job is read, processJob marks it as running and calls its handler.  *)
Read(h) ==
  /\ Ready(Worker(h), "read")
  /\ \E j \in todo[Worker(h)] :
       IF data[j] = NoJob THEN Moves(Worker(h), "idle", NoJob, <<>>)
       ELSE LET c == [data[j] EXCEPT !.status = "running", !.attempts = @ + 1] IN
            Moves(Worker(h), "handler", c, UpdatePipe(c))
  /\ todo' = [todo EXCEPT ![Worker(h)] = {}]
  /\ UNCHANGED <<serverVars, due, historyVars, failures>>

(* HGet fails: Dequeue returns an error, the ID is in neither set.         *)
ReadFails(h) ==
  /\ "readError" \in Features
  /\ Ready(Worker(h), "read")
  /\ dropped' = dropped \cup todo[Worker(h)]
  /\ todo' = [todo EXCEPT ![Worker(h)] = {}]
  /\ Moves(Worker(h), "idle", NoJob, <<>>)
  /\ UNCHANGED <<serverVars, due, accepted, released, twice, failures>>

HandlerEnds(h, s) ==
  /\ Ready(Worker(h), "handler")
  /\ Moves(Worker(h), "idle", NoJob, UpdatePipe([copy[Worker(h)] EXCEPT !.status = s]))
  /\ UNCHANGED <<serverVars, due, todo, historyVars, failures>>

(* A RetryableError.  Bound: one retry sleeps per host. *)
HandlerRetries(h) ==
  /\ Ready(Worker(h), "handler")
  /\ copy[Worker(h)].attempts < MaxAttempts
  /\ at[Retry(h)] = "idle"
  /\ LET c == [copy[Worker(h)] EXCEPT !.status = "retrying"] IN
     Moves(Worker(h), "park", c, UpdatePipe(c))
  /\ UNCHANGED <<serverVars, due, todo, historyVars, failures>>

(* UpdateJob has returned: the goroutine of the retry is started. *)
RetryStarts(h) ==
  /\ Ready(Worker(h), "park")
  /\ at' = [at EXCEPT ![Worker(h)] = "idle", ![Retry(h)] = "sleep"]
  /\ copy' = [copy EXCEPT ![Worker(h)] = NoJob, ![Retry(h)] = copy[Worker(h)]]
  /\ UNCHANGED <<serverVars, due, todo, pipe, historyVars, failures>>

RetryWakes(h) ==
  /\ Ready(Retry(h), "sleep")
  /\ Moves(Retry(h), "idle", NoJob, EnqueuePipe([copy[Retry(h)] EXCEPT !.status = "pending"]))
  /\ UNCHANGED <<serverVars, due, todo, historyVars, failures>>

-----------------------------------------------------------------------------
(* scheduleProcessor over GetJobs and Enqueue: the IDs, at most ScanLimit  *)
(* of them, then the jobs one by one, without those that cannot be read,   *)
(* then Enqueue for those that are due.                                    *)

ScanIds(h) ==
  /\ Ready(Scheduler(h), "idle")
  /\ scheduled # {}
  /\ \E ids \in SUBSET scheduled :
       /\ Cardinality(ids) = ScanLimit \/ (ids = scheduled /\ Cardinality(ids) < ScanLimit)
       /\ todo' = [todo EXCEPT ![Scheduler(h)] = ids]
  /\ Moves(Scheduler(h), "load", {}, <<>>)
  /\ UNCHANGED <<serverVars, due, historyVars, failures>>

(* The scan goes on with the jobs cs, or returns if none is left. *)
ScanGoesOn(h, cs, left, cmds) ==
  IF cs = {} /\ left = {} THEN Moves(Scheduler(h), "idle", NoJob, cmds)
  ELSE Moves(Scheduler(h), "load", cs, cmds)

ScanJob(h) ==
  /\ Ready(Scheduler(h), "load")
  /\ \E j \in todo[Scheduler(h)], skip \in {FALSE, "readError" \in Features} :
       LET left == todo[Scheduler(h)] \ {j} IN
       /\ todo' = [todo EXCEPT ![Scheduler(h)] = left]
       /\ ScanGoesOn(h, copy[Scheduler(h)] \cup
            {c \in {data[j]} : c # NoJob /\ c.status = "scheduled" /\ ~skip}, left, <<>>)
  /\ UNCHANGED <<serverVars, due, historyVars, failures>>

ScanEnqueue(h) ==
  /\ Ready(Scheduler(h), "load")
  /\ todo[Scheduler(h)] = {}
  /\ \E c \in copy[Scheduler(h)] :
       IF c.id \in due
         THEN /\ ScanGoesOn(h, copy[Scheduler(h)] \ {c}, {},
                   EnqueuePipe([c EXCEPT !.status = "pending", !.timed = FALSE]))
              /\ Releases(c.id, c.status)
         ELSE ScanGoesOn(h, copy[Scheduler(h)] \ {c}, {}, <<>>) /\ UNCHANGED historyVars
  /\ UNCHANGED <<serverVars, due, todo, failures>>

-----------------------------------------------------------------------------
TimePasses(j) ==
  /\ j \in Timed \ due
  /\ due' = due \cup {j}
  /\ UNCHANGED <<serverVars, threadVars, historyVars, failures>>

InPipe(t, j) == \E i \in DOMAIN pipe[t] : pipe[t][i].id = j

(* The jobs the threads of host h have in hand. *)
InHand(h) ==
  {j \in Jobs : \/ \E t \in {Worker(h), Retry(h), Scheduler(h)} : InPipe(t, j)
                \/ j \in todo[Worker(h)]
                \/ \E t \in {Worker(h), Retry(h)} : copy[t] # NoJob /\ copy[t].id = j}

(* The program of host h dies and is started again. *)
Crash(h) ==
  /\ failures < MaxFailures
  /\ failures' = failures + 1
  /\ dropped' = dropped \cup InHand(h)
  /\ at' = [t \in Threads |-> IF t[1] = h THEN "idle" ELSE at[t]]
  /\ copy' = [t \in Threads |-> IF t[1] = h THEN NoJob ELSE copy[t]]
  /\ todo' = [t \in Threads |-> IF t[1] = h THEN {} ELSE todo[t]]
  /\ pipe' = [t \in Threads |-> IF t[1] = h THEN <<>> ELSE pipe[t]]
  /\ UNCHANGED <<serverVars, due, accepted, released, twice>>

HostStep(h) ==
  \/ \E t \in Threads : t[1] = h /\ (Exec(t) \/ PipeFails(t))
  \/ Pop(h) \/ Read(h) \/ ReadFails(h)
  \/ (\E s \in {"completed", "failed"} : HandlerEnds(h, s)) \/ HandlerRetries(h)
  \/ RetryStarts(h) \/ RetryWakes(h)
  \/ ScanIds(h) \/ ScanJob(h) \/ ScanEnqueue(h)

Next ==
  \/ \E h \in Hosts : HostStep(h) \/ Crash(h)
  \/ \E j \in Jobs : Enqueue(j) \/ Schedule(j) \/ DeleteJob(j) \/ TimePasses(j)
  \/ Exec(Caller) \/ PipeFails(Caller) \/ MoveList \/ MoveOne

Spec == Init /\ [][Next]_vars

-----------------------------------------------------------------------------
Terminal(j) == data[j] # NoJob /\ data[j].status \in {"completed", "failed"}

Running(h, j) == Ready(Worker(h), "handler") /\ copy[Worker(h)].id = j

(* An accepted job is finished, findable through one of the two sets, or   *)
(* in the hands of a live thread, whatever the interleaving of the         *)
(* pipelines.  It is lost only by a crash of its holder (redis.go:81), a   *)
(* failing HGet after BZPopMax (redis.go:93-96), DeleteJob, two releases   *)
(* of one schedule (queue.go:573-580 in two programs, redis.go:396-405),   *)
(* or an error, a closed queue or a cancelled context in a call that was   *)
(* to put it into a set or to record its end (redis.go:67-70, 157-158,     *)
(* 184-187; only logged, queue.go:509-511, 519-520, 537-538, 579).  An     *)
(* UpdateJob to Running or Retrying that fails (queue.go:467, 494) loses   *)
(* nothing.                                                                *)
NoJobLost ==
  \A j \in accepted \ (dropped \cup twice) :
    Terminal(j) \/ j \in pending \cup scheduled \/ InPipe(Caller, j) \/ \E h \in Hosts : j \in InHand(h)

(* A job runs on one worker at a time, though several programs take jobs   *)
(* from the same sets, unless it was released twice: BZPopMax              *)
(* (redis.go:81) gives its ID to one of them, UpdateJob (redis.go:168-169) *)
(* takes it out of both sets, and the retry (queue.go:505-512) puts it     *)
(* back once.                                                              *)
OneRunAtATime ==
  \A j \in Jobs \ twice : \A g, h \in Hosts : Running(g, j) /\ Running(h, j) => g = h
=============================================================================
