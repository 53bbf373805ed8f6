---------------------------- MODULE RabbitQueue ----------------------------
(***************************************************************************)
(* The RabbitMQ-backed queue of queue/rabbitmq.go under one manager, whose *)
(* program may crash and whose connection may break.                       *)
(*                                                                         *)
(* The broker keeps the messages: copies of a job as it was when it was    *)
(* published.  A message that was got and is not acknowledged belongs to   *)
(* the channel under a delivery tag; when the channel goes, it is back in  *)
(* the queue.  Tags count from 1 on every channel, and a job remembers its *)
(* tag only, not the channel.                                              *)
(***************************************************************************)
EXTENDS Integers, FiniteSets, Bags

CONSTANTS
  Jobs, Workers, NoJob,
  Timed,          \* the jobs given to Schedule
  MaxAttempts,    \* job.MaxAttempts
  Priority,       \* Priority[j], job.Priority
  MaxPriority,    \* x-max-priority of the queue
  MaxDeliveries,  \* bound: messages the broker hands out
  MaxBreaks       \* bound: crashes, lost and renewed connections, purges

ASSUME RabbitAssumption ==
  /\ Timed \subseteq Jobs /\ NoJob \notin Jobs
  /\ MaxAttempts \in Nat \ {0} /\ MaxDeliveries \in Nat /\ MaxBreaks \in Nat
  /\ Priority \in [Jobs -> Int] /\ MaxPriority \in 1..255

VARIABLES
  queue,       \* the messages in the broker's queue, a bag of Message
  unacked,     \* the messages got and not settled, by delivery tag
  tags,        \* delivery tags given out on this channel
  channel,     \* the channel: "open", "broken" (it or its connection), "closed"
  due,         \* jobs whose schedule time has passed
  waiting,     \* the jobs that are Scheduled in the map rq.jobs
  scan,        \* the jobs scheduleProcessor has got and not treated
  job,         \* the job a worker's handler has, with its delivery tag, or NoJob
  retries,     \* the jobs of sleeping retry goroutines, a bag
  accepted,    \* history: jobs whose publication succeeded
  ended,       \* history: jobs with a message acknowledged by its own worker
  excused,     \* history: jobs purged, lost on their way to the broker, or settled
               \* under the tag of an older channel
  added,       \* history: publications of a job after the first
  runs,        \* history: handler calls
  epoch,       \* history: the number of the channel
  deliveries, breaks

brokerVars == <<queue, unacked, tags, channel>>
programVars == <<due, waiting, scan, job, retries>>
historyVars == <<accepted, ended, excused, added, runs, epoch>>
vars == <<brokerVars, programVars, historyVars, deliveries, breaks>>

Message(j, n) == [id |-> j, attempts |-> n]
NoMessages == [t \in {} |-> NoJob]

Init ==
  /\ queue = EmptyBag /\ unacked = NoMessages /\ tags = 0 /\ channel = "open"
  /\ due = {} /\ waiting = {} /\ scan = {}
  /\ job = [w \in Workers |-> NoJob] /\ retries = EmptyBag
  /\ accepted = {} /\ ended = {} /\ excused = {}
  /\ added = [j \in Jobs |-> 0] /\ runs = [j \in Jobs |-> 0]
  /\ epoch = 0 /\ deliveries = 0 /\ breaks = 0

-----------------------------------------------------------------------------
(* The broker *)

(* uint8(job.Priority), and the broker's cut at the queue's maximum. *)
Effective(j) == LET p == Priority[j] % 256 IN IF p > MaxPriority THEN MaxPriority ELSE p

(* The messages of the channel that goes are queued again. *)
Returned(q, un) ==
  LET ms == {un[t] : t \in DOMAIN un} IN
  q (+) [m \in ms |-> Cardinality({t \in DOMAIN un : un[t] = m})]

ChannelGoes(state) ==
  /\ channel' = state
  /\ queue' = Returned(queue, unacked)
  /\ unacked' = NoMessages

(* Publish: on a broken channel it returns an error. *)
Publish(m) == queue' = IF channel = "open" THEN queue (+) SetToBag({m}) ELSE queue

Republished(j) == added' = IF channel = "open" THEN [added EXCEPT ![j] = @ + 1] ELSE added

(* Mutant of Settle: a message that is queued again keeps its tag. *)
SettleKeepsTag(tag, requeue) ==
  IF channel # "open" THEN UNCHANGED <<queue, unacked, channel>>
  ELSE IF tag \notin DOMAIN unacked THEN ChannelGoes("broken")
  ELSE /\ unacked' = IF requeue THEN unacked ELSE [t \in DOMAIN unacked \ {tag} |-> unacked[t]]
       /\ queue' = IF requeue THEN queue (+) SetToBag({unacked[tag]}) ELSE queue
       /\ UNCHANGED channel

(* Ack or Nack of a tag.  One that the channel does not know closes the    *)
(* channel.                                                                *)
Settle(tag, requeue) ==
  IF channel # "open" THEN UNCHANGED <<queue, unacked, channel>>
  ELSE IF tag \notin DOMAIN unacked THEN ChannelGoes("broken")
  ELSE /\ unacked' = [t \in DOMAIN unacked \ {tag} |-> unacked[t]]
       /\ queue' = IF requeue THEN queue (+) SetToBag({unacked[tag]}) ELSE queue
       /\ UNCHANGED channel

-----------------------------------------------------------------------------
(* Enqueue, Schedule, DeleteJob, PurgeQueue *)

(* A scheduled job is published at once, like the others. *)
Enqueue(j) ==
  /\ channel # "closed"
  /\ j \notin accepted
  /\ Publish(Message(j, 0))
  /\ waiting' = IF j \in Timed THEN waiting \cup {j} ELSE waiting
  /\ accepted' = IF channel = "open" THEN accepted \cup {j} ELSE accepted
  /\ UNCHANGED <<unacked, tags, channel, due, scan, job, retries, ended, excused, added, runs,
                 epoch, deliveries, breaks>>

(* The channel confirms no publication: the message may go down with the   *)
(* connection when Enqueue has returned nil.  (A retry or a release that   *)
(* is lost like this leaves what it leaves on a broken channel.)           *)
EnqueueLost(j) ==
  /\ channel = "open" /\ breaks < MaxBreaks
  /\ breaks' = breaks + 1
  /\ j \notin accepted
  /\ ChannelGoes("broken")
  /\ waiting' = IF j \in Timed THEN waiting \cup {j} ELSE waiting
  /\ accepted' = accepted \cup {j} /\ excused' = excused \cup {j}
  /\ UNCHANGED <<tags, due, scan, job, retries, ended, added, runs, epoch, deliveries>>

(* The message stays. *)
DeleteJob(j) ==
  /\ channel # "closed"
  /\ j \in waiting
  /\ waiting' = waiting \ {j}
  /\ UNCHANGED <<brokerVars, due, scan, job, retries, historyVars, deliveries, breaks>>

PurgeQueue ==
  /\ channel = "open" /\ breaks < MaxBreaks
  /\ breaks' = breaks + 1
  /\ excused' = excused \cup {m.id : m \in DOMAIN queue}
  /\ queue' = EmptyBag /\ waiting' = {}
  /\ UNCHANGED <<unacked, tags, channel, due, scan, job, retries, accepted, ended, added, runs,
                 epoch, deliveries>>

-----------------------------------------------------------------------------
(* worker and processJob over Dequeue and UpdateJob *)

(* Dequeue gets a message, decodes it and remembers the tag; processJob    *)
(* counts the attempt and calls the handler.                               *)
Dequeue(w) ==
  /\ channel = "open" /\ job[w] = NoJob
  /\ deliveries < MaxDeliveries /\ deliveries' = deliveries + 1
  /\ \E m \in DOMAIN queue :
       /\ \A n \in DOMAIN queue : Effective(n.id) <= Effective(m.id)
       /\ queue' = queue (-) SetToBag({m})
       /\ tags' = tags + 1
       /\ unacked' = [t \in DOMAIN unacked \cup {tags + 1} |-> IF t = tags + 1 THEN m ELSE unacked[t]]
       /\ job' = [job EXCEPT ![w] =
            [id |-> m.id, attempts |-> m.attempts + 1, tag |-> tags + 1, epoch |-> epoch]]
       /\ waiting' = waiting \ {m.id}
       /\ runs' = [runs EXCEPT ![m.id] = @ + 1]
  /\ UNCHANGED <<channel, due, scan, retries, accepted, ended, excused, added, epoch, breaks>>

(* Mutant of Requeues: the message of a retried job is acknowledged. *)
RequeuesFailed(j, status) == status = "failed" /\ j.attempts < MaxAttempts

(* Does UpdateJob return the message to the queue for the new status, or   *)
(* acknowledge it?                                                         *)
Requeues(j, status) == status = "retrying" \/ (status = "failed" /\ j.attempts < MaxAttempts)

(* The worker settles its message and is free.  After Close, UpdateJob     *)
(* returns before it does anything.                                        *)
UpdateJob(w, status) ==
  LET j == job[w] IN
  /\ Settle(j.tag, Requeues(j, status))
  /\ waiting' = IF channel = "closed" THEN waiting ELSE waiting \ {j.id}
  /\ ended' = IF /\ channel = "open" /\ j.epoch = epoch
                 /\ status = "completed" \/ (status = "failed" /\ j.attempts >= MaxAttempts)
                THEN ended \cup {j.id} ELSE ended
  /\ excused' = IF channel = "open" /\ j.epoch # epoch /\ j.tag \in DOMAIN unacked
                  THEN excused \cup {unacked[j.tag].id} ELSE excused
  /\ job' = [job EXCEPT ![w] = NoJob]
  /\ UNCHANGED <<tags, due, scan, accepted, added, runs, epoch, deliveries, breaks>>

(* The handler returns nil, or an error that is not retried. *)
HandlerEnds(w, status) ==
  /\ job[w] # NoJob
  /\ UpdateJob(w, status)
  /\ UNCHANGED retries

HandlerRetries(w) ==
  /\ job[w] # NoJob /\ job[w].attempts < MaxAttempts
  /\ UpdateJob(w, "retrying")
  /\ retries' = retries (+) SetToBag({Message(job[w].id, job[w].attempts)})

(* The goroutine of a retry publishes the job again, besides the message   *)
(* that UpdateJob has returned to the queue.                               *)
RetryWakes(m) ==
  /\ m \in DOMAIN retries
  /\ retries' = retries (-) SetToBag({m})
  /\ IF channel = "closed" THEN UNCHANGED <<queue, waiting>>
     ELSE Publish(m) /\ waiting' = waiting \ {m.id}
  /\ Republished(m.id)
  /\ UNCHANGED <<unacked, tags, channel, due, scan, job, accepted, ended, excused, runs, epoch,
                 deliveries, breaks>>

-----------------------------------------------------------------------------
(* scheduleProcessor over GetJobs and Enqueue *)

ScanList ==
  /\ channel # "closed" /\ scan = {} /\ waiting # {}
  /\ scan' = waiting
  /\ UNCHANGED <<brokerVars, due, waiting, job, retries, historyVars, deliveries, breaks>>

(* The job of the list is published once more. *)
ScanJob(j) ==
  /\ j \in scan
  /\ scan' = scan \ {j}
  /\ IF j \notin due \/ channel = "closed" THEN UNCHANGED <<queue, waiting, accepted, added>>
     ELSE /\ Publish(Message(j, 0))
          /\ waiting' = waiting \ {j}
          /\ accepted' = IF channel = "open" THEN accepted \cup {j} ELSE accepted
          /\ Republished(j)
  /\ UNCHANGED <<unacked, tags, channel, due, job, retries, ended, excused, runs, epoch,
                 deliveries, breaks>>

TimePasses(j) ==
  /\ j \in Timed \ due
  /\ due' = due \cup {j}
  /\ UNCHANGED <<brokerVars, waiting, scan, job, retries, historyVars, deliveries, breaks>>

-----------------------------------------------------------------------------
(* Faults *)

ConnectionLost ==
  /\ channel = "open" /\ breaks < MaxBreaks
  /\ breaks' = breaks + 1
  /\ ChannelGoes("broken")
  /\ UNCHANGED <<tags, programVars, historyVars, deliveries>>

Close ==
  /\ channel # "closed" /\ breaks < MaxBreaks
  /\ breaks' = breaks + 1
  /\ ChannelGoes("closed")
  /\ UNCHANGED <<tags, programVars, historyVars, deliveries>>

(* Reconnect: a new channel, and the workers keep their jobs. *)
Reconnect ==
  /\ breaks < MaxBreaks \/ channel # "open"
  /\ breaks' = IF channel = "open" THEN breaks + 1 ELSE breaks
  /\ ChannelGoes("open")
  /\ tags' = 0 /\ epoch' = epoch + 1
  /\ UNCHANGED <<programVars, accepted, ended, excused, added, runs, deliveries>>

(* The program dies and starts again with NewRabbitMQ. *)
Crash ==
  /\ breaks < MaxBreaks /\ breaks' = breaks + 1
  /\ ChannelGoes("open")
  /\ tags' = 0 /\ epoch' = epoch + 1
  /\ waiting' = {} /\ scan' = {} /\ retries' = EmptyBag
  /\ job' = [w \in Workers |-> NoJob]
  /\ UNCHANGED <<due, accepted, ended, excused, added, runs, deliveries>>

-----------------------------------------------------------------------------
Next ==
  \/ \E j \in Jobs : \/ Enqueue(j) \/ EnqueueLost(j) \/ DeleteJob(j)
                     \/ ScanJob(j) \/ TimePasses(j)
  \/ \E w \in Workers :
       \/ Dequeue(w)
       \/ \E s \in {"completed", "failed"} : HandlerEnds(w, s)
       \/ HandlerRetries(w)
  \/ \E m \in DOMAIN retries : RetryWakes(m)
  \/ ScanList \/ PurgeQueue \/ ConnectionLost \/ Close \/ Reconnect \/ Crash

Spec == Init /\ [][Next]_vars

-----------------------------------------------------------------------------
AtBroker(j) ==
  \/ \E m \in DOMAIN queue : m.id = j
  \/ \E t \in DOMAIN unacked : unacked[t].id = j

(* The broker has a message of every accepted job until a worker that got  *)
(* it on the channel still in use has completed it or used up its          *)
(* attempts: a crash, a lost connection or a retry loses none, because     *)
(* UpdateJob (rabbitmq.go:327-336) acknowledges nothing else.  Excused are *)
(* the jobs of a purged queue, those whose first publication, which nobody *)
(* confirms (rabbitmq.go:231), went down with the connection, and those    *)
(* whose message was settled under a tag of the channel before Reconnect   *)
(* (rabbitmq.go:491-492).                                                  *)
NoJobLost == \A j \in accepted \ (ended \cup excused) : AtBroker(j)

(* The messages of a job: in the queue, where <<m, n>> is the n-th copy of *)
(* m, and among those taken, by their tags.                                *)
Queued(q, j) == UNION {{m} \X (1 .. q[m]) : m \in {x \in DOMAIN q : x.id = j}}
Held(un, j) == {t \in DOMAIN un : un[t].id = j}

Copies(j) == Cardinality(Queued(queue, j)) + Cardinality(Held(unacked, j))

(* A job has no more messages than publications: one of Enqueue and one    *)
(* more for each retry (queue.go:505-512) and each release of a schedule   *)
(* (queue.go:573-580).  Neither a message that is returned to the queue    *)
(* (rabbitmq.go:334, 336) nor a broken channel, whose messages come back,  *)
(* makes another.                                                          *)
CopiesCounted == \A j \in accepted : Copies(j) <= 1 + added[j]

(* A job runs at most as often as its maximum number of attempts. *)
AttemptsRespected == \A j \in Jobs : runs[j] <= MaxAttempts
=============================================================================
