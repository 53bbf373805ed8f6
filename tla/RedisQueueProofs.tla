-------------------------- MODULE RedisQueueProofs --------------------------
(***************************************************************************)
(* Proofs about RedisQueue, for any jobs, hosts, priorities, schedules,    *)
(* crashes and failing calls.                                              *)
(***************************************************************************)
EXTENDS RedisQueue, SequenceTheorems, TLAPS

-----------------------------------------------------------------------------
(* Pipelines: the commands of one are about one job; the first may write   *)
(* its data, the last may add it to a set.                                 *)

Commands == [cmd : {"hset", "del", "zadd", "zrem"}, id : Jobs,
             set : {"job", "pending", "scheduled"}, data : JobRecords \cup {NoJob}]

Id(s) == s[1].id
Writes(s) == s[1].cmd \in {"hset", "del"}
Sets(s) == s[1].cmd = "hset"
Adds(s) == s[Len(s)].cmd = "zadd"
To(s) == s[Len(s)].set

Shape(s) ==
  /\ s \in Seq(Commands)
  /\ \A i \in 1..Len(s) :
       /\ s[i].id = s[1].id
       /\ s[i].set = "job" <=> s[i].cmd \in {"hset", "del"}
       /\ s[i].cmd \in {"hset", "del"} => i = 1 /\ Len(s) > 1
       /\ s[i].cmd = "zadd" => i = Len(s)
       /\ s[i].cmd = "hset" => s[i].data \in JobRecords /\ s[i].data.id = s[i].id
       /\ s[i].cmd = "del" => s[i].data = NoJob

(* The pipeline of Enqueue before its first command. *)
Enters(s) == Len(s) = 2 /\ Sets(s)

Piped(t, j) == pipe[t] # <<>> /\ Id(pipe[t]) = j

-----------------------------------------------------------------------------
(* The threads, and what holds of each. *)

Workers == Hosts \X {"worker"}
Retries == Hosts \X {"retry"}
Schedulers == Hosts \X {"schedule"}

NotScheduled(j) == data[j] = NoJob \/ data[j].status # "scheduled"

(* A worker's pipeline is about the job it has in hand or, when it is      *)
(* idle, about the one it has finished.  It never puts a job into          *)
(* "pending"; what it puts into "scheduled" is not Scheduled, and the data *)
(* of a finished job say so.                                               *)
WorkerOK(w) ==
  /\ \/ at[w] = "idle" /\ copy[w] = NoJob /\ todo[w] = {}
     \/ at[w] = "read" /\ copy[w] = NoJob /\ (\E j \in Jobs : todo[w] = {j}) /\ pipe[w] = <<>>
     \/ at[w] \in {"handler", "park"} /\ copy[w] \in JobRecords /\ todo[w] = {}
  /\ Shape(pipe[w])
  /\ pipe[w] # <<>> =>
       /\ at[w] \in {"handler", "park"} => Id(pipe[w]) = copy[w].id
       /\ Writes(pipe[w]) => Sets(pipe[w]) /\ pipe[w][1].data.status # "scheduled"
       /\ Writes(pipe[w]) /\ at[w] = "idle" => pipe[w][1].data.status \in {"completed", "failed"}
       /\ ~Writes(pipe[w]) /\ at[w] = "idle" => Terminal(Id(pipe[w])) \/ Id(pipe[w]) \in dropped \cup twice
       /\ ~Writes(pipe[w]) /\ at[w] = "park" => NotScheduled(Id(pipe[w]))
       /\ Adds(pipe[w]) => at[w] = "park" /\ To(pipe[w]) = "scheduled"

RetryOK(r) ==
  /\ \/ at[r] = "idle" /\ copy[r] = NoJob
     \/ at[r] = "sleep" /\ copy[r] \in JobRecords
  /\ todo[r] = {}
  /\ Shape(pipe[r])
  /\ pipe[r] # <<>> => Adds(pipe[r]) /\ (Writes(pipe[r]) => Sets(pipe[r]) /\ pipe[r][1].data.status # "scheduled")

SchedulerOK(s) ==
  /\ at[s] = "load" => copy[s] \subseteq JobRecords /\ \A c \in copy[s] : c.status = "scheduled"
  /\ Shape(pipe[s])
  /\ pipe[s] # <<>> => Adds(pipe[s]) /\ (Writes(pipe[s]) => Sets(pipe[s]) /\ pipe[s][1].data.status # "scheduled")

CallerOK(t) ==
  /\ Shape(pipe[t])
  /\ pipe[t] # <<>> =>
       /\ Sets(pipe[t]) => Adds(pipe[t]) /\ (Enters(pipe[t]) \/ pipe[t][1].data.status # "scheduled")
       /\ ~Adds(pipe[t]) => pipe[t][1].cmd = "del" \/ (~Writes(pipe[t]) /\ Id(pipe[t]) \in dropped)

ThreadOK(t) ==
  /\ t \in Workers => WorkerOK(t)
  /\ t \in Retries => RetryOK(t)
  /\ t \in Schedulers => SchedulerOK(t)
  /\ t = Caller => CallerOK(t)

ThreadInv == \A t \in Threads : ThreadOK(t)

(* While a worker is about to start a retry its host has none. *)
ParkInv == \A h \in Hosts : at[Worker(h)] = "park" => at[Retry(h)] = "idle"

Places == {"idle", "read", "handler", "park", "sleep", "load", "move"}

TypeInv ==
  /\ data \in [Jobs -> JobRecords \cup {NoJob}]
  /\ \A j \in Jobs : data[j] # NoJob => data[j].id = j
  /\ pending \subseteq Jobs /\ scheduled \subseteq Jobs /\ accepted \subseteq Jobs
  /\ at \in [Threads -> Places]
  /\ copy = [t \in Threads |-> copy[t]]
  /\ todo \in [Threads -> SUBSET Jobs]
  /\ pipe \in [Threads -> Seq(Commands)]

-----------------------------------------------------------------------------
(* Only one place has the right to run job j: the set "pending", the       *)
(* memory of a worker or of a retry, or a pipeline that is to put the job  *)
(* back or to record that it is finished.                                  *)
Mem(t, j) ==
  \/ t \in Workers /\ j \in todo[t]
  \/ t \in Workers /\ at[t] \in {"handler", "park"} /\ copy[t].id = j
  \/ t \in Retries /\ at[t] = "sleep" /\ copy[t].id = j
Pip(t, j) == /\ Piped(t, j)
             /\ IF t \in Workers THEN at[t] = "idle" ELSE Adds(pipe[t])
Has(k, t, j) ==
  \/ k = "pending" /\ t = Caller /\ j \in pending
  \/ k = "memory" /\ Mem(t, j)
  \/ k = "pipe" /\ Pip(t, j)
Kinds == {"pending", "memory", "pipe"}

One(j) == \A k, l \in Kinds, t, u \in Threads : Has(k, t, j) /\ Has(l, u, j) => k = l /\ t = u
NoToken(j) == \A k \in Kinds, t \in Threads : ~Has(k, t, j)

(* Job j may be released: it, or a scan's copy of it, waits for its time.  *)
(* Then no place has the right to run it.                                  *)
Copied(t, j) == t \in Schedulers /\ at[t] = "load" /\ \E c \in copy[t] : c.id = j
Listed(j) == j \in scheduled \/ \E t \in Schedulers \cup {Caller} : j \in todo[t]
Waits(j) == (\E t \in Schedulers : Copied(t, j)) \/ (Listed(j) /\ ~NotScheduled(j))

TokenOK(j) == One(j) /\ (j \notin released /\ Waits(j) => NoToken(j))
TokenInv == \A j \in Jobs \ twice : TokenOK(j)

(* Nobody but a caller of Enqueue knows of job j. *)
Knows(t, j) == j \in todo[t] \/ Mem(t, j) \/ Copied(t, j) \/ (t # Caller /\ Piped(t, j))
Nowhere(j) == j \notin pending /\ j \notin scheduled /\ \A t \in Threads : ~Knows(t, j)

FreshInv ==
  /\ \A j \in Jobs \ accepted : Nowhere(j) /\ data[j] = NoJob /\ ~Piped(Caller, j)
  /\ \A j \in Jobs : Piped(Caller, j) /\ Enters(pipe[Caller]) => Nowhere(j)

(* The data of a job are there once Enqueue has stored them. *)
StoredInv == \A j \in accepted \ dropped : data[j] = NoJob => Piped(Caller, j) /\ Enters(pipe[Caller])

(* NoJobLost, in these terms. *)
Kept(j) == \/ Terminal(j) \/ j \in pending \/ j \in scheduled
           \/ \E t \in Threads : Mem(t, j) \/ Piped(t, j)
KeptInv == \A j \in accepted \ (dropped \cup twice) : Kept(j)

Inv == TypeInv /\ ThreadInv /\ ParkInv /\ TokenInv /\ FreshInv /\ StoredInv /\ KeptInv

-----------------------------------------------------------------------------
(* Threads *)

(* A thread is the caller, a worker, a retry or a scheduler, and one of them only. *)
LEMMA ThreadFacts ==
  /\ Caller \in Threads /\ Caller \notin Workers /\ Caller \notin Retries /\ Caller \notin Schedulers
  /\ \A t \in Workers : t \in Threads /\ t \notin Retries /\ t \notin Schedulers
  /\ \A t \in Retries : t \in Threads /\ t \notin Schedulers
  /\ \A t \in Schedulers : t \in Threads
  /\ \A t \in Threads : t = Caller \/ t \in Workers \/ t \in Retries \/ t \in Schedulers
BY DEF Threads, Caller, Workers, Retries, Schedulers

(* A host has one thread of each kind of its own (queue.go:295-317). *)
LEMMA HostFacts ==
  /\ \A h \in Hosts : /\ Worker(h) \in Workers /\ Retry(h) \in Retries /\ Scheduler(h) \in Schedulers
                      /\ Caller[1] # h
  /\ \A g, h \in Hosts : /\ Worker(g) = Worker(h) => g = h
                         /\ Retry(g) = Retry(h) => g = h
                         /\ Worker(g)[1] = h <=> g = h
                         /\ Retry(g)[1] = h <=> g = h
                         /\ Scheduler(g)[1] = h <=> g = h
  /\ \A t \in Workers : t[1] \in Hosts /\ t = Worker(t[1])
  /\ \A t \in Retries : t[1] \in Hosts /\ t = Retry(t[1])
  /\ \A t \in Schedulers : t[1] \in Hosts /\ t = Scheduler(t[1])
BY RedisAssumption DEF Caller, Worker, Retry, Scheduler, Workers, Retries, Schedulers

(* Pipelines *)

(* Nothing left of a pipeline is a rest of one. *)
LEMMA EmptyShape == Shape(<<>>)
BY DEF Shape

(* What is left of a pipeline is about one job, and writes its data first. *)
LEMMA ShapeFacts ==
  ASSUME NEW s, Shape(s), s # <<>>
  PROVE  /\ s[1] \in Commands /\ Id(s) \in Jobs /\ Head(s) = s[1]
         /\ Sets(s) => Writes(s) /\ s[1].data \in JobRecords /\ s[1].data.id = Id(s)
         /\ Writes(s) <=> s[1].set = "job"
         /\ s[1].cmd = "del" => Writes(s) /\ ~Sets(s) /\ s[1].data = NoJob
         /\ \A j \in Jobs : (\E i \in DOMAIN s : s[i].id = j) <=> Id(s) = j
<1>1. s \in Seq(Commands) /\ Len(s) \in Nat /\ Len(s) >= 1 /\ 1 \in 1..Len(s) /\ DOMAIN s = 1..Len(s)
  BY DEF Shape
<1>2. s[1] \in Commands /\ Head(s) = s[1]
  BY <1>1
<1>3. \A j \in Jobs : (\E i \in DOMAIN s : s[i].id = j) <=> Id(s) = j
  BY <1>1 DEF Shape, Id
<1> QED BY <1>1, <1>2, <1>3 DEF Shape, Commands, Id, Sets, Writes

(* What is left of a pipeline after its first command. *)
LEMMA TailFacts ==
  ASSUME NEW s, Shape(s), s # <<>>
  PROVE  /\ Shape(Tail(s))
         /\ Tail(s) # <<>> => Id(Tail(s)) = Id(s) /\ ~Writes(Tail(s)) /\ ~Sets(Tail(s)) /\ ~Enters(Tail(s))
                                /\ (Adds(Tail(s)) <=> Adds(s)) /\ To(Tail(s)) = To(s) /\ s[1].cmd # "zadd"
         /\ Tail(s) = <<>> => ~Writes(s) /\ (Adds(s) <=> s[1].cmd = "zadd") /\ To(s) = s[1].set
         /\ s[1].cmd = "zadd" => Tail(s) = <<>>
         /\ Writes(s) => Tail(s) # <<>>
<1>1. s \in Seq(Commands) /\ Len(s) \in Nat /\ Len(s) >= 1 /\ 1 \in 1..Len(s)
  BY DEF Shape
<1>2. PICK r : r = Tail(s)
  OBVIOUS
<1>3. r \in Seq(Commands) /\ Len(r) = Len(s) - 1 /\ Len(r) \in Nat /\ (r = <<>> <=> Len(r) = 0)
  <2>1. r \in Seq(Commands) /\ Len(r) = Len(s) - 1
    BY <1>1, <1>2, HeadTailProperties
  <2> QED BY <2>1, EmptySeq, LenProperties
<1>4. ASSUME NEW i \in 1..Len(r)
      PROVE  /\ r[i].id = s[1].id /\ r[i].cmd \notin {"hset", "del"} /\ r[i].set # "job"
             /\ r[i].cmd = "zadd" => i = Len(r)
  <2>1. i + 1 \in 1..Len(s) /\ i + 1 # 1 /\ i \in 1..(Len(s) - 1)
    BY <1>1, <1>3
  <2>2. r[i] = s[i + 1]
    BY <1>1, <1>2, <2>1
  <2>3. r[i].cmd = "zadd" => i + 1 = Len(s)
    BY <2>1, <2>2 DEF Shape
  <2> QED BY <1>1, <1>3, <2>1, <2>2, <2>3 DEF Shape
<1>5. Len(r) > 0 => 1 \in 1..Len(r) /\ r[Len(r)] = s[Len(s)] /\ Len(s) \in 1..Len(s) /\ Len(s) # 1
  <2>1. Len(r) > 0 => Len(r) \in 1..(Len(s) - 1) /\ Len(r) + 1 = Len(s)
    BY <1>1, <1>3
  <2> QED BY <1>1, <1>2, <1>3, <2>1
<1>6. r = <<>> => Len(s) = 1
  BY <1>1, <1>3
<1>7. Shape(r)
  <2>1. \A i \in 1..Len(r) : r[i].id = r[1].id
    BY <1>3, <1>4, <1>5
  <2> QED BY <1>3, <1>4, <2>1 DEF Shape
<1>8. r # <<>> => Id(r) = Id(s) /\ ~Writes(r) /\ ~Sets(r) /\ ~Enters(r)
                    /\ (Adds(r) <=> Adds(s)) /\ To(r) = To(s) /\ s[1].cmd # "zadd"
  <2>1. r # <<>> => Len(r) > 0 /\ 1 \in 1..Len(r)
    BY <1>3
  <2>2. r # <<>> => r[1].id = s[1].id /\ r[1].cmd \notin {"hset", "del"} /\ r[Len(r)] = s[Len(s)] /\ Len(s) # 1
    BY <1>4, <1>5, <2>1
  <2>3. Len(s) # 1 => s[1].cmd # "zadd"
    BY <1>1 DEF Shape
  <2> QED BY <2>2, <2>3 DEF Id, Writes, Sets, Enters, Adds, To
<1>9. Writes(s) => Len(s) > 1
  BY <1>1 DEF Shape, Writes
<1>10. s[1].cmd = "zadd" => Len(s) = 1
  BY <1>1 DEF Shape
<1>11. r = <<>> => ~Writes(s) /\ (Adds(s) <=> s[1].cmd = "zadd") /\ To(s) = s[1].set
  <2> SUFFICES ASSUME r = <<>> PROVE ~Writes(s) /\ (Adds(s) <=> s[1].cmd = "zadd") /\ To(s) = s[1].set
    OBVIOUS
  <2>1. Len(s) = 1
    BY <1>6
  <2>2. ~Writes(s)
    BY <1>9, <2>1
  <2>3. (Adds(s) <=> s[1].cmd = "zadd") /\ To(s) = s[1].set
    BY <2>1 DEF Adds, To
  <2> QED BY <2>2, <2>3
<1> QED BY <1>1, <1>2, <1>3, <1>7, <1>8, <1>9, <1>10, <1>11

(* The commands of the pipelines, with the job each is about. *)
LEMMA CommandTypes ==
  /\ \A c \in JobRecords : /\ HSet(c) \in Commands /\ HSet(c).cmd = "hset" /\ HSet(c).id = c.id
                           /\ HSet(c).set = "job" /\ HSet(c).data = c
  /\ \A j \in Jobs : /\ Del(j) \in Commands /\ Del(j).cmd = "del" /\ Del(j).id = j
                     /\ Del(j).set = "job" /\ Del(j).data = NoJob
  /\ \A j \in Jobs, z \in {"pending", "scheduled"} :
       /\ ZAdd(z, j) \in Commands /\ ZAdd(z, j).cmd = "zadd" /\ ZAdd(z, j).id = j /\ ZAdd(z, j).set = z
       /\ ZRem(z, j) \in Commands /\ ZRem(z, j).cmd = "zrem" /\ ZRem(z, j).id = j /\ ZRem(z, j).set = z
BY DEF HSet, Del, ZAdd, ZRem, Commands, JobRecords

(* The pipeline of Enqueue (redis.go:50-66) stores a job and adds it to a set. *)
LEMMA EnqueuePipeFacts ==
  ASSUME NEW c \in JobRecords
  PROVE  /\ Shape(EnqueuePipe(c)) /\ EnqueuePipe(c) # <<>> /\ Id(EnqueuePipe(c)) = c.id
         /\ Sets(EnqueuePipe(c)) /\ Adds(EnqueuePipe(c)) /\ Enters(EnqueuePipe(c))
         /\ EnqueuePipe(c)[1].data = c
<1>1. PICK z \in {"pending", "scheduled"} : EnqueuePipe(c) = <<HSet(c), ZAdd(z, c.id)>>
  BY DEF EnqueuePipe
<1>2. c.id \in Jobs
  BY DEF JobRecords
<1>3. PICK a, b : a = HSet(c) /\ b = ZAdd(z, c.id)
  OBVIOUS
<1>4. /\ a \in Commands /\ a.cmd = "hset" /\ a.id = c.id /\ a.set = "job" /\ a.data = c
      /\ b \in Commands /\ b.cmd = "zadd" /\ b.id = c.id /\ b.set = z
  BY <1>2, <1>3, CommandTypes
<1>5. EnqueuePipe(c) = <<a, b>>
  BY <1>1, <1>3
<1>6. <<a, b>> \in Seq(Commands) /\ Len(<<a, b>>) = 2 /\ <<a, b>>[1] = a /\ <<a, b>>[2] = b
  BY <1>4
<1> QED BY <1>4, <1>5, <1>6 DEF Shape, Id, Sets, Adds, Enters

(* The pipeline of Schedule (redis.go:116-128) does so, too. *)
LEMMA SchedulePipeFacts ==
  ASSUME NEW c \in JobRecords
  PROVE  /\ Shape(SchedulePipe(c)) /\ SchedulePipe(c) # <<>> /\ Id(SchedulePipe(c)) = c.id
         /\ Sets(SchedulePipe(c)) /\ Adds(SchedulePipe(c)) /\ Enters(SchedulePipe(c))
<1>1. c.id \in Jobs
  BY DEF JobRecords
<1>2. PICK a, b : a = HSet(c) /\ b = ZAdd("scheduled", c.id)
  OBVIOUS
<1>3. /\ a \in Commands /\ a.cmd = "hset" /\ a.id = c.id /\ a.set = "job" /\ a.data = c
      /\ b \in Commands /\ b.cmd = "zadd" /\ b.id = c.id /\ b.set = "scheduled"
  BY <1>1, <1>2, CommandTypes
<1>4. SchedulePipe(c) = <<a, b>>
  BY <1>2 DEF SchedulePipe
<1>5. <<a, b>> \in Seq(Commands) /\ Len(<<a, b>>) = 2 /\ <<a, b>>[1] = a /\ <<a, b>>[2] = b
  BY <1>3
<1> QED BY <1>3, <1>4, <1>5 DEF Shape, Id, Sets, Adds, Enters

(* The pipeline of DeleteJob (redis.go:198-203) adds the job to no set. *)
LEMMA DeletePipeFacts ==
  ASSUME NEW j \in Jobs
  PROVE  /\ Shape(DeletePipe(j)) /\ DeletePipe(j) # <<>> /\ Id(DeletePipe(j)) = j
         /\ DeletePipe(j)[1].cmd = "del" /\ ~Adds(DeletePipe(j)) /\ ~Sets(DeletePipe(j))
<1>1. PICK a, b, d : a = Del(j) /\ b = ZRem("pending", j) /\ d = ZRem("scheduled", j)
  OBVIOUS
<1>2. /\ a \in Commands /\ a.cmd = "del" /\ a.id = j /\ a.set = "job" /\ a.data = NoJob
      /\ b \in Commands /\ b.cmd = "zrem" /\ b.id = j /\ b.set = "pending"
      /\ d \in Commands /\ d.cmd = "zrem" /\ d.id = j /\ d.set = "scheduled"
  BY <1>1, CommandTypes
<1>3. DeletePipe(j) = <<a, b, d>>
  BY <1>1 DEF DeletePipe
<1>4. /\ <<a, b, d>> \in Seq(Commands) /\ Len(<<a, b, d>>) = 3
      /\ <<a, b, d>>[1] = a /\ <<a, b, d>>[2] = b /\ <<a, b, d>>[3] = d
  BY <1>2
<1> QED BY <1>2, <1>3, <1>4 DEF Shape, Id, Sets, Adds

(* The pipeline of UpdateJob (redis.go:156-190) adds the job back if it goes on. *)
LEMMA UpdatePipeFacts ==
  ASSUME NEW c \in JobRecords
  PROVE  /\ Shape(UpdatePipe(c)) /\ UpdatePipe(c) # <<>> /\ Id(UpdatePipe(c)) = c.id
         /\ Sets(UpdatePipe(c)) /\ ~Enters(UpdatePipe(c)) /\ UpdatePipe(c)[1].data = c
         /\ Adds(UpdatePipe(c)) <=> c.status \in {"pending", "scheduled", "retrying"}
         /\ c.status # "pending" => To(UpdatePipe(c)) = "scheduled"
<1>1. c.id \in Jobs /\ c.status \in Statuses
  BY DEF JobRecords
<1>2. PICK a, b, d : a = HSet(c) /\ b = ZRem("pending", c.id) /\ d = ZRem("scheduled", c.id)
  OBVIOUS
<1>3. /\ a \in Commands /\ a.cmd = "hset" /\ a.id = c.id /\ a.set = "job" /\ a.data = c
      /\ b \in Commands /\ b.cmd = "zrem" /\ b.id = c.id /\ b.set = "pending"
      /\ d \in Commands /\ d.cmd = "zrem" /\ d.id = c.id /\ d.set = "scheduled"
  BY <1>1, <1>2, CommandTypes
<1>4. CASE c.status \in {"pending", "scheduled", "retrying"}
  <2>1. PICK z \in {"pending", "scheduled"} :
          (UpdatePipe(c) = <<a, b, d>> \o <<ZAdd(z, c.id)>>) /\ (c.status # "pending" => z = "scheduled")
    <3>1. CASE c.status = "pending"
      BY <1>2, <3>1 DEF UpdatePipe
    <3>2. CASE c.status \in {"scheduled", "retrying"}
      BY <1>2, <3>2 DEF UpdatePipe
    <3> QED BY <1>4, <3>1, <3>2
  <2>a. c.status # "pending" => z = "scheduled"
    BY <2>1
  <2>b. UpdatePipe(c) = <<a, b, d>> \o <<ZAdd(z, c.id)>>
    BY <2>1
  <2>2. PICK e : e = ZAdd(z, c.id)
    OBVIOUS
  <2>3. e \in Commands /\ e.cmd = "zadd" /\ e.id = c.id /\ e.set = z
    BY <1>1, <2>2, CommandTypes
  <2>4. PICK u : u = UpdatePipe(c)
    OBVIOUS
  <2>5. /\ u \in Seq(Commands) /\ Len(u) = 4
        /\ u[1] = a /\ u[2] = b /\ u[3] = d /\ u[4] = e
    <3>1. <<a, b, d>> \in Seq(Commands) /\ <<e>> \in Seq(Commands) /\ u = <<a, b, d>> \o <<e>>
      BY <1>3, <2>b, <2>2, <2>3, <2>4
    <3>2. Len(<<a, b, d>>) = 3 /\ Len(<<e>>) = 1 /\ <<e>>[1] = e
             /\ <<a, b, d>>[1] = a /\ <<a, b, d>>[2] = b /\ <<a, b, d>>[3] = d
      OBVIOUS
    <3> HIDE DEF UpdatePipe
    <3>3. /\ u \in Seq(Commands) /\ Len(u) = 3 + 1
          /\ \A i \in 1..(3 + 1) : u[i] = IF i <= 3 THEN <<a, b, d>>[i] ELSE <<e>>[i - 3]
      BY <3>1, <3>2, ConcatProperties
    <3> QED BY <3>2, <3>3
  <2>6. Shape(u)
    <3>1. ASSUME NEW i \in 1..Len(u)
          PROVE  /\ u[i].id = u[1].id
                 /\ u[i].set = "job" <=> u[i].cmd \in {"hset", "del"}
                 /\ u[i].cmd \in {"hset", "del"} => i = 1 /\ Len(u) > 1
                 /\ u[i].cmd = "zadd" => i = Len(u)
                 /\ u[i].cmd = "hset" => u[i].data \in JobRecords /\ u[i].data.id = u[i].id
                 /\ u[i].cmd = "del" => u[i].data = NoJob
      <4>1. i = 1 \/ i = 2 \/ i = 3 \/ i = 4
        BY <2>5
      <4> QED BY <1>3, <2>3, <2>5, <4>1
    <3> QED BY <2>5, <3>1 DEF Shape
  <2>7. u # <<>>
    BY <2>5, EmptySeq
  <2>8. Id(u) = c.id /\ Sets(u) /\ ~Enters(u) /\ u[1].data = c /\ Adds(u) /\ To(u) = z
    BY <1>3, <2>3, <2>5 DEF Id, Sets, Adds, Enters, To
  <2> QED BY <1>4, <2>a, <2>4, <2>6, <2>7, <2>8
<1>5. CASE c.status \notin {"pending", "scheduled", "retrying"}
  <2>1. UpdatePipe(c) = <<a, b, d>> \o <<>>
    BY <1>2, <1>5 DEF UpdatePipe
  <2>2. UpdatePipe(c) = <<a, b, d>>
    BY <2>1
  <2>3. /\ <<a, b, d>> \in Seq(Commands) /\ Len(<<a, b, d>>) = 3
        /\ <<a, b, d>>[1] = a /\ <<a, b, d>>[2] = b /\ <<a, b, d>>[3] = d
    BY <1>3
  <2> QED BY <1>3, <1>5, <2>2, <2>3 DEF Shape, Id, Sets, Adds, Enters, To
<1> QED BY <1>4, <1>5

-----------------------------------------------------------------------------
(* A step of one thread. *)

(* The step leaves thread u alone. *)
Same(u) == at'[u] = at[u] /\ copy'[u] = copy[u] /\ todo'[u] = todo[u] /\ pipe'[u] = pipe[u]

(* What thread u has in hand, and what it tells of the jobs, is its own.   *)
LEMMA SameView ==
  ASSUME NEW u, Same(u)
  PROVE  \A j : /\ Mem(u, j)' <=> Mem(u, j)
                /\ Pip(u, j)' <=> Pip(u, j)
                /\ Piped(u, j)' <=> Piped(u, j)
                /\ Copied(u, j)' <=> Copied(u, j)
                /\ Knows(u, j)' <=> Knows(u, j)
<1> SUFFICES ASSUME NEW j
             PROVE  /\ Mem(u, j)' <=> Mem(u, j)
                    /\ Pip(u, j)' <=> Pip(u, j)
                    /\ Piped(u, j)' <=> Piped(u, j)
                    /\ Copied(u, j)' <=> Copied(u, j)
                    /\ Knows(u, j)' <=> Knows(u, j)
  OBVIOUS
<1>1. Mem(u, j)' <=> Mem(u, j)
  BY DEF Same, Mem
<1>2. Piped(u, j)' <=> Piped(u, j)
  BY DEF Same, Piped
<1>3. Pip(u, j)' <=> Pip(u, j)
  BY <1>2 DEF Same, Pip
<1>4. Copied(u, j)' <=> Copied(u, j)
  BY DEF Same, Copied
<1>5. Knows(u, j)' <=> Knows(u, j)
  BY <1>1, <1>2, <1>4 DEF Same, Knows
<1> QED BY <1>1, <1>2, <1>3, <1>4, <1>5

(* A thread that is left alone stays in order when no data are written.    *)
LEMMA SameOK ==
  ASSUME NEW u \in Threads, ThreadOK(u), Same(u), data' = data,
         dropped \subseteq dropped', twice \subseteq twice'
  PROVE  ThreadOK(u)'
<1>2. CASE u \in Workers
  <2>1. WorkerOK(u)
    BY <1>2 DEF ThreadOK
  <2>2. pipe[u] # <<>> /\ ~Writes(pipe[u]) /\ at[u] = "idle" =>
          Terminal(Id(pipe[u]))' \/ Id(pipe[u]) \in dropped' \cup twice'
    BY <2>1 DEF WorkerOK, Terminal, Same
  <2>3. pipe[u] # <<>> /\ ~Writes(pipe[u]) /\ at[u] = "park" => NotScheduled(Id(pipe[u]))'
    BY <2>1 DEF WorkerOK, NotScheduled, Same
  <2>4. WorkerOK(u)'
    BY <2>1, <2>2, <2>3 DEF WorkerOK, Same
  <2> QED BY <1>2, <2>4, ThreadFacts DEF ThreadOK
<1>3. CASE u \in Retries
  BY <1>3, ThreadFacts DEF ThreadOK, RetryOK, Same
<1>4. CASE u \in Schedulers
  BY <1>4, ThreadFacts DEF ThreadOK, SchedulerOK, Same
<1>5. CASE u = Caller
  BY <1>5, ThreadFacts DEF ThreadOK, CallerOK, Same
<1> QED BY <1>2, <1>3, <1>4, <1>5, ThreadFacts

(* What a thread's step leaves, where it goes to place p with copy c and   *)
(* IDs d and sends pipeline s.                                             *)
LEMMA MovesFacts ==
  ASSUME TypeInv, NEW t \in Threads, NEW p \in Places, NEW c, NEW d \in SUBSET Jobs, NEW s, Shape(s),
         Moves(t, p, c, s), todo' = [todo EXCEPT ![t] = d]
  PROVE  /\ at' \in [Threads -> Places] /\ copy' = [u \in Threads |-> copy'[u]]
         /\ todo' \in [Threads -> SUBSET Jobs] /\ pipe' \in [Threads -> Seq(Commands)]
         /\ at'[t] = p /\ copy'[t] = c /\ todo'[t] = d /\ pipe'[t] = s
         /\ \A u \in Threads : u # t => Same(u)
<1>1. s \in Seq(Commands)
  BY DEF Shape
<1>2. at' \in [Threads -> Places] /\ todo' \in [Threads -> SUBSET Jobs] /\ pipe' \in [Threads -> Seq(Commands)]
  BY <1>1 DEF Moves, TypeInv
<1>3. copy' = [u \in Threads |-> copy'[u]] /\ copy'[t] = c /\ \A u \in Threads : u # t => copy'[u] = copy[u]
  BY DEF Moves, TypeInv
<1>4. at'[t] = p /\ \A u \in Threads : u # t => at'[u] = at[u]
  BY DEF Moves, TypeInv
<1>5. todo'[t] = d /\ \A u \in Threads : u # t => todo'[u] = todo[u]
  BY DEF TypeInv
<1>6. pipe'[t] = s /\ \A u \in Threads : u # t => pipe'[u] = pipe[u]
  BY DEF Moves, TypeInv
<1> QED BY <1>2, <1>3, <1>4, <1>5, <1>6 DEF Same

(* What a step of a thread whose pipeline is executed may do with job j:   *)
(* it learns of j from the sets and from itself, it gets the right to run  *)
(* j by having it, by taking it from "pending" or by releasing it, and it  *)
(* gives j away through a pipeline only.                                   *)
Lawful(t, j) ==
  /\ Knows(t, j)' => Knows(t, j) \/ j \in pending \/ j \in scheduled
  /\ ~(Mem(t, j)' /\ Pip(t, j)')
  /\ Mem(t, j)' \/ Pip(t, j)' =>
       \/ Mem(t, j) \/ (j \in pending /\ j \notin pending')
       \/ (NoToken(j) /\ (j \in released' \/ ~Waits(j))) \/ j \in twice'
  /\ Copied(t, j)' => Waits(j)
  /\ t \in Schedulers \cup {Caller} /\ j \in todo'[t] => Listed(j)
  /\ Mem(t, j) /\ j \in accepted \ (dropped' \cup twice') => Mem(t, j)' \/ Piped(t, j)'
  /\ j \in pending /\ j \notin pending' => Mem(t, j)'
  /\ t = Caller /\ Piped(t, j)' => j \in accepted' /\ (Enters(pipe'[t]) => j \notin accepted)
  /\ j \in accepted' /\ j \notin accepted => t = Caller /\ Piped(t, j)' /\ Enters(pipe'[t])

(* Such a step writes no data and leaves the other threads alone.          *)
Own(t) ==
  /\ pipe[t] = <<>>
  /\ \A u \in Threads : u # t => Same(u)
  /\ data' = data /\ scheduled' = scheduled /\ pending' \subseteq pending
  /\ accepted \subseteq accepted' /\ dropped \subseteq dropped'
  /\ released \subseteq released' /\ twice \subseteq twice'
  /\ \A j \in Jobs : Lawful(t, j)

(* No step of this kind lets a job wait that did not. *)
LEMMA OwnWaits ==
  ASSUME NEW t \in Threads, Own(t), NEW j \in Jobs, Waits(j)'
  PROVE  Waits(j)
<1>0. NotScheduled(j)' <=> NotScheduled(j)
  BY DEF Own, NotScheduled
<1>1. ASSUME NEW u \in Schedulers, Copied(u, j)'
      PROVE  Waits(j)
  <2>1. CASE u = t
    BY <1>1, <2>1 DEF Own, Lawful
  <2>2. CASE u # t
    <3>1. Same(u)
      BY <2>2, ThreadFacts DEF Own
    <3>2. Copied(u, j)
      BY <1>1, <3>1, SameView
    <3> QED BY <3>2 DEF Waits
  <2> QED BY <2>1, <2>2
<1>2. ASSUME NEW u \in Schedulers \cup {Caller}, j \in todo'[u]
      PROVE  Listed(j)
  <2>1. CASE u = t
    BY <1>2, <2>1 DEF Own, Lawful
  <2>2. CASE u # t
    <3>1. todo'[u] = todo[u]
      BY <2>2, ThreadFacts DEF Own, Same
    <3> QED BY <1>2, <3>1 DEF Listed
  <2> QED BY <2>1, <2>2
<1>3. Listed(j)' => Listed(j)
  <2>1. j \in scheduled' => Listed(j)
    BY DEF Own, Listed
  <2> QED BY <1>2, <2>1 DEF Listed
<1> QED BY <1>0, <1>1, <1>3 DEF Waits

(* The right to run a job stays in one place. *)
LEMMA OwnToken ==
  ASSUME NEW t \in Threads, Own(t), NEW j \in Jobs \ twice', TokenOK(j)
  PROVE  TokenOK(j)'
<1>1. ASSUME NEW k \in Kinds, NEW u \in Threads, Has(k, u, j)', u # t \/ k = "pending"
      PROVE  Has(k, u, j)
  <2>1. CASE k = "pending"
    BY <1>1, <2>1 DEF Has, Own
  <2>2. CASE k # "pending"
    <3>1. Same(u)
      BY <1>1, <2>2 DEF Own
    <3> QED BY <1>1, <2>2, <3>1, SameView DEF Has
  <2> QED BY <2>1, <2>2
<1>2. ASSUME NEW k \in Kinds, k # "pending", Has(k, t, j)'
      PROVE  (Mem(t, j)' /\ k = "memory") \/ (Pip(t, j)' /\ k = "pipe")
  BY <1>2 DEF Has
<1>3. Mem(t, j)' \/ Pip(t, j)' =>
        \/ Has("memory", t, j) \/ (Has("pending", Caller, j) /\ j \notin pending')
        \/ (NoToken(j) /\ (j \in released' \/ ~Waits(j)))
  BY DEF Own, Lawful, Has
<1>4. ~(Mem(t, j)' /\ Pip(t, j)')
  BY DEF Own, Lawful
<1>5. "memory" \in Kinds /\ "pending" \in Kinds /\ Caller \in Threads /\ One(j)
  BY ThreadFacts DEF Kinds, TokenOK
<1>6. ASSUME Mem(t, j)' \/ Pip(t, j)', NEW k \in Kinds, NEW u \in Threads, Has(k, u, j)', u # t \/ k = "pending"
      PROVE  FALSE
  <2>1. Has(k, u, j)
    BY <1>1, <1>6
  <2>2. CASE Has("memory", t, j)
    BY <1>5, <1>6, <2>1, <2>2 DEF One
  <2>3. CASE Has("pending", Caller, j) /\ j \notin pending'
    <3>1. k = "pending"
      BY <1>5, <2>1, <2>3 DEF One
    <3> QED BY <1>6, <2>3, <3>1 DEF Has
  <2>4. CASE NoToken(j)
    BY <2>1, <2>4 DEF NoToken
  <2> QED BY <1>3, <1>6, <2>2, <2>3, <2>4
<1>7. ASSUME NEW k \in Kinds, NEW l \in Kinds, NEW u \in Threads, NEW v \in Threads, Has(k, u, j)', Has(l, v, j)'
      PROVE  k = l /\ u = v
  <2>1. CASE (u # t \/ k = "pending") /\ (v # t \/ l = "pending")
    <3>1. Has(k, u, j) /\ Has(l, v, j)
      BY <1>1, <1>7, <2>1
    <3> QED BY <1>5, <3>1 DEF One
  <2>2. CASE u = t /\ k # "pending"
    <3>1. (Mem(t, j)' /\ k = "memory") \/ (Pip(t, j)' /\ k = "pipe")
      BY <1>2, <1>7, <2>2
    <3>2. v = t /\ l # "pending"
      BY <1>6, <1>7, <3>1
    <3>3. (Mem(t, j)' /\ l = "memory") \/ (Pip(t, j)' /\ l = "pipe")
      BY <1>2, <1>7, <3>2
    <3> QED BY <1>4, <2>2, <3>1, <3>2, <3>3
  <2>3. CASE v = t /\ l # "pending"
    <3>1. (Mem(t, j)' /\ l = "memory") \/ (Pip(t, j)' /\ l = "pipe")
      BY <1>2, <1>7, <2>3
    <3>2. u = t /\ k # "pending"
      BY <1>6, <1>7, <3>1
    <3>3. (Mem(t, j)' /\ k = "memory") \/ (Pip(t, j)' /\ k = "pipe")
      BY <1>2, <1>7, <3>2
    <3> QED BY <1>4, <2>3, <3>1, <3>2, <3>3
  <2> QED BY <2>1, <2>2, <2>3
<1>8. One(j)'
  BY <1>7 DEF One
<1>9. ASSUME j \notin released', Waits(j)', NEW k \in Kinds, NEW u \in Threads, Has(k, u, j)'
      PROVE  FALSE
  <2>1. Waits(j) /\ j \notin released
    BY <1>9, OwnWaits DEF Own
  <2>2. NoToken(j)
    BY <2>1 DEF TokenOK
  <2>3. u = t /\ k # "pending"
    BY <1>1, <1>9, <2>2 DEF NoToken
  <2>4. Mem(t, j)' \/ Pip(t, j)'
    BY <1>2, <1>9, <2>3
  <2> QED BY <1>3, <1>5, <1>9, <2>1, <2>2, <2>4 DEF NoToken
<1> QED BY <1>8, <1>9 DEF TokenOK, NoToken

(* A job nobody knows of stays unknown. *)
LEMMA OwnNowhere ==
  ASSUME NEW t \in Threads, Own(t), NEW j \in Jobs, Nowhere(j)
  PROVE  Nowhere(j)'
<1>1. j \notin pending' /\ j \notin scheduled'
  BY DEF Own, Nowhere
<1>2. ASSUME NEW u \in Threads, Knows(u, j)'
      PROVE  FALSE
  <2>1. CASE u = t
    BY <1>2, <2>1 DEF Own, Lawful, Nowhere
  <2>2. CASE u # t
    <3>1. Same(u)
      BY <2>2 DEF Own
    <3> QED BY <1>2, <3>1, SameView DEF Nowhere
  <2> QED BY <2>1, <2>2
<1> QED BY <1>1, <1>2 DEF Nowhere

(* A step of a thread whose pipeline is executed keeps the invariant when  *)
(* it is lawful and leaves the thread in order.                            *)
LEMMA OwnStep ==
  ASSUME Inv, NEW t \in Threads, Own(t), TypeInv', ThreadOK(t)', ParkInv'
  PROVE  Inv'
<1>1. ThreadInv'
  <2> SUFFICES ASSUME NEW u \in Threads PROVE ThreadOK(u)'
    BY DEF ThreadInv
  <2>1. CASE u # t
    <3>1. ThreadOK(u) /\ Same(u)
      BY <2>1 DEF Inv, ThreadInv, Own
    <3> QED BY <3>1, SameOK DEF Own
  <2> QED BY <2>1
<1>2. TokenInv'
  <2> SUFFICES ASSUME NEW j \in Jobs \ twice' PROVE TokenOK(j)'
    BY DEF TokenInv
  <2>1. TokenOK(j)
    BY DEF Inv, TokenInv, Own
  <2> QED BY <2>1, OwnToken
<1>3. FreshInv'
  <2>1. ASSUME NEW j \in Jobs \ accepted'
        PROVE  Nowhere(j)' /\ data'[j] = NoJob /\ ~Piped(Caller, j)'
    <3>1. Nowhere(j) /\ data[j] = NoJob /\ ~Piped(Caller, j)
      BY DEF Inv, FreshInv, Own
    <3>2. ~Piped(Caller, j)'
      <4>1. CASE t = Caller
        BY <4>1 DEF Own, Lawful
      <4>2. CASE t # Caller
        BY <3>1, <4>2, SameView, ThreadFacts DEF Own
      <4> QED BY <4>1, <4>2
    <3> QED BY <3>1, <3>2, OwnNowhere DEF Own
  <2>2. ASSUME NEW j \in Jobs, Piped(Caller, j)', Enters(pipe'[Caller])
        PROVE  Nowhere(j)'
    <3>1. CASE t = Caller
      <4>1. j \notin accepted
        BY <2>2, <3>1 DEF Own, Lawful
      <4>2. Nowhere(j)
        BY <4>1 DEF Inv, FreshInv
      <4> QED BY <4>2, OwnNowhere
    <3>2. CASE t # Caller
      <4>1. Same(Caller)
        BY <3>2, ThreadFacts DEF Own
      <4>2. Piped(Caller, j) /\ Enters(pipe[Caller])
        BY <2>2, <4>1, SameView DEF Same
      <4>3. Nowhere(j)
        BY <4>2 DEF Inv, FreshInv
      <4> QED BY <4>3, OwnNowhere
    <3> QED BY <3>1, <3>2
  <2> QED BY <2>1, <2>2 DEF FreshInv
<1>4. StoredInv'
  <2> SUFFICES ASSUME NEW j \in accepted' \ dropped', data'[j] = NoJob
               PROVE  Piped(Caller, j)' /\ Enters(pipe'[Caller])
    BY DEF StoredInv
  <2>0. j \in Jobs
    BY DEF TypeInv
  <2>1. CASE j \notin accepted
    BY <2>0, <2>1 DEF Own, Lawful
  <2>2. CASE j \in accepted
    <3>1. Piped(Caller, j) /\ Enters(pipe[Caller])
      BY <2>2 DEF Inv, StoredInv, Own
    <3>2. t # Caller
      BY <3>1 DEF Own, Piped
    <3>3. Same(Caller)
      BY <3>2, ThreadFacts DEF Own
    <3> QED BY <3>1, <3>3, SameView DEF Same
  <2> QED BY <2>1, <2>2
<1>5. KeptInv'
  <2> SUFFICES ASSUME NEW j \in accepted' \ (dropped' \cup twice')
               PROVE  Kept(j)'
    BY DEF KeptInv
  <2>0. j \in Jobs /\ Lawful(t, j)
    BY DEF TypeInv, Own
  <2>1. CASE j \notin accepted
    BY <2>0, <2>1 DEF Lawful, Kept
  <2>2. CASE j \in accepted
    <3>1. Kept(j)
      BY <2>2 DEF Inv, KeptInv, Own
    <3>2. CASE Terminal(j)
      BY <3>2 DEF Kept, Terminal, Own
    <3>3. CASE j \in pending
      BY <2>0, <3>3 DEF Lawful, Kept
    <3>4. CASE j \in scheduled
      BY <3>4 DEF Kept, Own
    <3>5. ASSUME NEW u \in Threads, Mem(u, j) \/ Piped(u, j)
          PROVE  Kept(j)'
      <4>1. CASE u = t
        <5>1. Mem(t, j)
          BY <3>5, <4>1 DEF Own, Piped
        <5>2. Mem(t, j)' \/ Piped(t, j)'
          BY <2>0, <2>2, <5>1 DEF Lawful
        <5> QED BY <5>2 DEF Kept
      <4>2. CASE u # t
        <5>1. Mem(u, j)' \/ Piped(u, j)'
          BY <3>5, <4>2, SameView DEF Own
        <5> QED BY <5>1 DEF Kept
      <4> QED BY <4>1, <4>2
    <3> QED BY <3>1, <3>2, <3>3, <3>4, <3>5 DEF Kept
  <2> QED BY <2>1, <2>2
<1> QED BY <1>1, <1>2, <1>3, <1>4, <1>5 DEF Inv

(* The same, for a step given by where the thread goes. *)
LEMMA MovesInv ==
  ASSUME Inv, NEW t \in Threads, NEW p \in Places, NEW c, NEW d \in SUBSET Jobs, NEW s, Shape(s),
         Moves(t, p, c, s), todo' = [todo EXCEPT ![t] = d],
         pipe[t] = <<>>, data' = data, scheduled' = scheduled, pending' \subseteq pending,
         accepted \subseteq accepted', accepted' \subseteq Jobs, dropped \subseteq dropped',
         released \subseteq released', twice \subseteq twice',
         p = "park" => \E h \in Hosts : t = Worker(h) /\ at[Retry(h)] = "idle",
         t \in Retries => p = "idle",
         ThreadOK(t)', \A j \in Jobs : Lawful(t, j)
  PROVE  Inv'
<1>1. /\ at' \in [Threads -> Places] /\ copy' = [u \in Threads |-> copy'[u]]
      /\ todo' \in [Threads -> SUBSET Jobs] /\ pipe' \in [Threads -> Seq(Commands)]
      /\ at'[t] = p /\ \A u \in Threads : u # t => Same(u)
  BY MovesFacts DEF Inv
<1>2. TypeInv'
  BY <1>1 DEF Inv, TypeInv
<1>3. Own(t)
  BY <1>1 DEF Own
<1>4. ParkInv'
  <2> SUFFICES ASSUME NEW h \in Hosts, at'[Worker(h)] = "park" PROVE at'[Retry(h)] = "idle"
    BY DEF ParkInv, Worker, Retry
  <2>1. /\ Worker(h) \in Threads /\ Retry(h) \in Threads /\ Worker(h) # Retry(h)
        /\ Retry(h) \in Retries /\ Worker(h) \notin Retries
    BY HostFacts, ThreadFacts
  <2>2. at[Worker(h)] = "park" => at[Retry(h)] = "idle"
    BY DEF Inv, ParkInv
  <2>3. CASE t = Worker(h)
    <3>1. at[Retry(h)] = "idle"
      BY <1>1, <2>3, HostFacts
    <3> QED BY <1>1, <2>1, <2>3, <3>1 DEF Same
  <2>4. CASE t = Retry(h)
    BY <1>1, <2>1, <2>4
  <2>5. CASE t # Worker(h) /\ t # Retry(h)
    BY <1>1, <2>1, <2>2, <2>5 DEF Same
  <2> QED BY <2>3, <2>4, <2>5
<1> QED BY <1>2, <1>3, <1>4, OwnStep

-----------------------------------------------------------------------------
(* The worker *)

(* The pop of Dequeue (redis.go:81) moves the job from pending to its worker. *)
LEMMA PopInv ==
  ASSUME Inv, NEW h \in Hosts, Pop(h)
  PROVE  Inv'
<1>1. PICK t : t = Worker(h)
  OBVIOUS
<1>2. PICK x \in pending : pending' = pending \ {x} /\ todo' = [todo EXCEPT ![t] = {x}]
  BY <1>1 DEF Pop
<1>3. t \in Workers /\ t \in Threads /\ t \notin Retries /\ t \notin Schedulers /\ t # Caller
  BY <1>1, HostFacts, ThreadFacts
<1>4. x \in Jobs /\ {x} \in SUBSET Jobs /\ "read" \in Places /\ Shape(<<>>)
  BY EmptyShape DEF Inv, TypeInv, Places
<1>5. Moves(t, "read", NoJob, <<>>) /\ pipe[t] = <<>>
  BY <1>1 DEF Pop, Ready
<1>6. /\ at'[t] = "read" /\ copy'[t] = NoJob /\ todo'[t] = {x} /\ pipe'[t] = <<>>
  BY <1>2, <1>3, <1>4, <1>5, MovesFacts DEF Inv
<1>7. ThreadOK(t)'
  <2>1. WorkerOK(t)'
    BY <1>4, <1>6 DEF WorkerOK
  <2> QED BY <1>3, <2>1 DEF ThreadOK
<1>8. ASSUME NEW j \in Jobs PROVE Lawful(t, j)
  <2>1. (Mem(t, j)' <=> j = x) /\ ~Piped(t, j)' /\ ~Copied(t, j)'
    BY <1>3, <1>6 DEF Mem, Piped, Copied
  <2>2. ~Pip(t, j)' /\ (Knows(t, j)' <=> j = x)
    BY <1>6, <2>1 DEF Pip, Knows
  <2>3. ~Mem(t, j)
    <3>1. WorkerOK(t) /\ at[t] = "idle"
      BY <1>1, <1>3 DEF Inv, ThreadInv, ThreadOK, Pop, Ready
    <3> QED BY <1>3, <3>1 DEF WorkerOK, Mem
  <2> QED BY <1>2, <1>3, <2>1, <2>2, <2>3 DEF Lawful, Pop, historyVars
<1>9. data' = data /\ scheduled' = scheduled /\ UNCHANGED historyVars
  BY DEF Pop
<1> QED BY <1>2, <1>3, <1>4, <1>5, <1>7, <1>8, <1>9, MovesInv DEF historyVars, Inv, TypeInv

(* A thread's changes of its copy of a job keep it a record of that job. *)
LEMMA RecordFacts ==
  ASSUME NEW c \in JobRecords
  PROVE  /\ c.id \in Jobs /\ c # NoJob
         /\ \A s \in Statuses : LET e == [c EXCEPT !.status = s] IN
              e \in JobRecords /\ e.id = c.id /\ e.status = s
         /\ LET e == [c EXCEPT !.status = "running", !.attempts = @ + 1] IN
              e \in JobRecords /\ e.id = c.id /\ e.status = "running"
         /\ LET e == [c EXCEPT !.status = "pending", !.timed = FALSE] IN
              e \in JobRecords /\ e.id = c.id /\ e.status = "pending"
<1>0. c.id \in Jobs /\ c # NoJob
  BY RedisAssumption DEF JobRecords
<1>1. ASSUME NEW s \in Statuses
      PROVE  /\ [c EXCEPT !.status = s] \in JobRecords /\ [c EXCEPT !.status = s].id = c.id
             /\ [c EXCEPT !.status = s].status = s
  BY DEF JobRecords
<1>2. "running" \in Statuses /\ "pending" \in Statuses
  BY DEF Statuses
<1>3. LET e == [c EXCEPT !.status = "running", !.attempts = @ + 1] IN
        e \in JobRecords /\ e.id = c.id /\ e.status = "running"
  <2>1. \A n \in Nat : LET e == [c EXCEPT !.status = "running", !.attempts = n] IN
          e \in JobRecords /\ e.id = c.id /\ e.status = "running"
    BY <1>2 DEF JobRecords
  <2>2. c.attempts + 1 \in Nat
    BY DEF JobRecords
  <2> QED BY <2>1, <2>2, Zenon
<1>4. \A f \in BOOLEAN : LET e == [c EXCEPT !.status = "pending", !.timed = f] IN
        e \in JobRecords /\ e.id = c.id /\ e.status = "pending"
  BY <1>2 DEF JobRecords
<1>5. FALSE \in BOOLEAN
  OBVIOUS
<1>6. LET e == [c EXCEPT !.status = "pending", !.timed = FALSE] IN
        e \in JobRecords /\ e.id = c.id /\ e.status = "pending"
  BY <1>4, <1>5, Zenon
<1> QED BY <1>0, <1>1, <1>3, <1>6, Zenon

(* The read of Dequeue (redis.go:93-104) gives the worker the job it popped. *)
LEMMA ReadInv ==
  ASSUME Inv, NEW h \in Hosts, Read(h)
  PROVE  Inv'
<1>1. PICK t : t = Worker(h)
  OBVIOUS
<1>2. t \in Workers /\ t \in Threads /\ t \notin Retries /\ t \notin Schedulers /\ t # Caller
  BY <1>1, HostFacts, ThreadFacts
<1>3. WorkerOK(t) /\ at[t] = "read" /\ pipe[t] = <<>>
  BY <1>1, <1>2 DEF Inv, ThreadInv, ThreadOK, Read, Ready
<1>4. PICK x \in Jobs : todo[t] = {x}
  BY <1>3 DEF WorkerOK
<1>5. todo' = [todo EXCEPT ![t] = {}]
  BY <1>1 DEF Read
<1>a. IF data[x] = NoJob THEN Moves(t, "idle", NoJob, <<>>)
      ELSE LET c == [data[x] EXCEPT !.status = "running", !.attempts = @ + 1] IN
           Moves(t, "handler", c, UpdatePipe(c))
  BY <1>1, <1>4 DEF Read
<1>6. data' = data /\ scheduled' = scheduled /\ pending' = pending /\ UNCHANGED historyVars
  BY DEF Read, serverVars
<1>7. {} \in SUBSET Jobs /\ "idle" \in Places /\ "handler" \in Places
  BY DEF Places
<1>8. ASSUME NEW j \in Jobs
      PROVE  (Mem(t, j) <=> j = x) /\ (j = x => Knows(t, j)) /\ ~Piped(t, j) /\ ~Copied(t, j)
  BY <1>2, <1>3, <1>4 DEF Mem, Piped, Copied, Knows, WorkerOK
<1>9. CASE data[x] = NoJob
  <2>1. Moves(t, "idle", NoJob, <<>>)
    BY <1>a, <1>9
  <2>2. at'[t] = "idle" /\ copy'[t] = NoJob /\ todo'[t] = {} /\ pipe'[t] = <<>>
    BY <1>2, <1>5, <1>7, <2>1, MovesFacts, EmptyShape DEF Inv
  <2>3. ThreadOK(t)'
    <3>1. WorkerOK(t)'
      BY <2>2, EmptyShape DEF WorkerOK
    <3> QED BY <1>2, <3>1 DEF ThreadOK
  (* Nobody but the caller of Enqueue knows of an accepted job without     *)
  (* data, so a worker that finds none loses nothing.                      *)
  <2>4. x \notin accepted \/ x \in dropped
    <3>1. SUFFICES ASSUME x \in accepted, x \notin dropped PROVE FALSE
      OBVIOUS
    <3>2. Nowhere(x)
      BY <1>9, <3>1 DEF Inv, StoredInv, FreshInv
    <3> QED BY <1>2, <1>8, <3>2 DEF Nowhere
  <2>5. ASSUME NEW j \in Jobs PROVE Lawful(t, j)
    <3>1. ~Mem(t, j)' /\ ~Piped(t, j)' /\ ~Copied(t, j)'
      BY <1>2, <2>2 DEF Mem, Piped, Copied
    <3>2. ~Pip(t, j)' /\ ~Knows(t, j)'
      BY <2>2, <3>1 DEF Pip, Knows
    <3> QED BY <1>2, <1>6, <1>8, <2>4, <3>1, <3>2 DEF Lawful, historyVars
  <2> QED BY <1>2, <1>3, <1>5, <1>6, <1>7, <2>1, <2>3, <2>5, EmptyShape, MovesInv DEF historyVars, Inv, TypeInv
<1>10. CASE data[x] # NoJob
  <2>1. PICK c : c = [data[x] EXCEPT !.status = "running", !.attempts = @ + 1]
    OBVIOUS
  <2>2. data[x] \in JobRecords /\ data[x].id = x
    BY <1>10 DEF Inv, TypeInv
  <2>3. c \in JobRecords /\ c.id = x /\ c.status = "running"
    BY <2>1, <2>2, RecordFacts
  <2>4. PICK s : s = UpdatePipe(c)
    OBVIOUS
  <2>5. /\ Shape(s) /\ s # <<>> /\ Id(s) = x /\ Sets(s) /\ s[1].data = c /\ ~Adds(s)
    BY <2>3, <2>4, UpdatePipeFacts
  <2>6. Moves(t, "handler", c, s)
    BY <1>a, <1>10, <2>1, <2>4
  <2>a. Shape(s) /\ TypeInv
    BY <2>5 DEF Inv
  <2>7. at'[t] = "handler" /\ copy'[t] = c /\ todo'[t] = {} /\ pipe'[t] = s
    BY <1>2, <1>5, <1>7, <2>a, <2>6, MovesFacts
  <2>8. ThreadOK(t)'
    <3>1. WorkerOK(t)'
      BY <2>3, <2>5, <2>7 DEF WorkerOK
    <3> QED BY <1>2, <3>1 DEF ThreadOK
  <2>9. ASSUME NEW j \in Jobs PROVE Lawful(t, j)
    <3>1. (Mem(t, j)' <=> j = x) /\ (Piped(t, j)' <=> j = x) /\ ~Copied(t, j)'
      BY <1>2, <2>3, <2>5, <2>7 DEF Mem, Piped, Copied
    <3>2. ~Pip(t, j)' /\ (Knows(t, j)' => j = x)
      BY <1>2, <2>7, <3>1 DEF Pip, Knows
    <3> QED BY <1>2, <1>6, <1>8, <3>1, <3>2 DEF Lawful, historyVars
  <2> QED BY <1>2, <1>3, <1>5, <1>6, <1>7, <2>5, <2>6, <2>8, <2>9, MovesInv DEF historyVars, Inv, TypeInv
<1> QED BY <1>9, <1>10

(* When the read of Dequeue (redis.go:93-96) fails, the popped job is dropped. *)
LEMMA ReadFailsInv ==
  ASSUME Inv, NEW h \in Hosts, ReadFails(h)
  PROVE  Inv'
<1>1. PICK t : t = Worker(h)
  OBVIOUS
<1>2. t \in Workers /\ t \in Threads /\ t \notin Retries /\ t \notin Schedulers /\ t # Caller
  BY <1>1, HostFacts, ThreadFacts
<1>3. WorkerOK(t) /\ at[t] = "read" /\ pipe[t] = <<>>
  BY <1>1, <1>2 DEF Inv, ThreadInv, ThreadOK, ReadFails, Ready
<1>4. Moves(t, "idle", NoJob, <<>>) /\ todo' = [todo EXCEPT ![t] = {}] /\ dropped' = dropped \cup todo[t]
  BY <1>1 DEF ReadFails
<1>5. /\ data' = data /\ scheduled' = scheduled /\ pending' = pending /\ accepted' = accepted
      /\ released' = released /\ twice' = twice
  BY DEF ReadFails, serverVars
<1>6. {} \in SUBSET Jobs /\ "idle" \in Places
  BY DEF Places
<1>7. at'[t] = "idle" /\ copy'[t] = NoJob /\ todo'[t] = {} /\ pipe'[t] = <<>>
  BY <1>2, <1>4, <1>6, MovesFacts, EmptyShape DEF Inv
<1>8. ThreadOK(t)'
  <2>1. WorkerOK(t)'
    BY <1>7, EmptyShape DEF WorkerOK
  <2> QED BY <1>2, <2>1 DEF ThreadOK
<1>9. ASSUME NEW j \in Jobs PROVE Lawful(t, j)
  <2>1. ~Mem(t, j)' /\ ~Piped(t, j)' /\ ~Copied(t, j)'
    BY <1>2, <1>7 DEF Mem, Piped, Copied
  <2>2. ~Pip(t, j)' /\ ~Knows(t, j)'
    BY <1>7, <2>1 DEF Pip, Knows
  <2>3. Mem(t, j) => j \in dropped'
    BY <1>2, <1>3, <1>4 DEF Mem, WorkerOK
  <2> QED BY <1>2, <1>5, <2>1, <2>2, <2>3 DEF Lawful
<1> QED BY <1>2, <1>3, <1>4, <1>5, <1>6, <1>8, <1>9, EmptyShape, MovesInv DEF Inv, TypeInv

(* A worker that is done (queue.go:516-546) gives its job up with its update. *)
LEMMA HandlerEndsInv ==
  ASSUME Inv, NEW h \in Hosts, NEW v \in {"completed", "failed"}, HandlerEnds(h, v)
  PROVE  Inv'
<1>1. PICK t : t = Worker(h)
  OBVIOUS
<1>2. t \in Workers /\ t \in Threads /\ t \notin Retries /\ t \notin Schedulers /\ t # Caller
  BY <1>1, HostFacts, ThreadFacts
<1>3. WorkerOK(t) /\ at[t] = "handler" /\ pipe[t] = <<>>
  BY <1>1, <1>2 DEF Inv, ThreadInv, ThreadOK, HandlerEnds, Ready
<1>4. copy[t] \in JobRecords /\ todo[t] = {} /\ v \in Statuses
  BY <1>3 DEF WorkerOK, Statuses
<1>5. PICK c : c = [copy[t] EXCEPT !.status = v]
  OBVIOUS
<1>6. PICK x : x = copy[t].id
  OBVIOUS
<1>7. c \in JobRecords /\ c.id = x /\ c.status = v
  BY <1>4, <1>5, <1>6, RecordFacts
<1>8. PICK s : s = UpdatePipe(c)
  OBVIOUS
<1>9. Shape(s) /\ s # <<>> /\ Id(s) = x /\ Sets(s) /\ s[1].data = c /\ ~Adds(s)
  BY <1>7, <1>8, UpdatePipeFacts
<1>10. Moves(t, "idle", NoJob, s)
  BY <1>1, <1>5, <1>8 DEF HandlerEnds
<1>11. /\ data' = data /\ scheduled' = scheduled /\ pending' = pending /\ UNCHANGED historyVars
       /\ todo' = todo
  BY DEF HandlerEnds, serverVars
<1>12. {} \in SUBSET Jobs /\ "idle" \in Places /\ Shape(s) /\ TypeInv
  BY <1>9 DEF Places, Inv
<1>13. todo' = [todo EXCEPT ![t] = {}]
  BY <1>2, <1>4, <1>11, <1>12 DEF TypeInv
<1>14. at'[t] = "idle" /\ copy'[t] = NoJob /\ todo'[t] = {} /\ pipe'[t] = s
  BY <1>2, <1>10, <1>12, <1>13, MovesFacts
<1>15. ThreadOK(t)'
  <2>1. WorkerOK(t)'
    BY <1>7, <1>9, <1>14 DEF WorkerOK, Writes, Sets
  <2> QED BY <1>2, <2>1 DEF ThreadOK
<1>16. ASSUME NEW j \in Jobs PROVE Lawful(t, j)
  <2>1. ~Mem(t, j)' /\ (Piped(t, j)' <=> j = x) /\ ~Copied(t, j)'
    BY <1>2, <1>9, <1>14 DEF Mem, Piped, Copied
  <2>2. (Pip(t, j)' <=> j = x) /\ (Knows(t, j)' => j = x)
    BY <1>2, <1>14, <2>1 DEF Pip, Knows
  <2>3. (Mem(t, j) <=> j = x) /\ (j = x => Knows(t, j))
    BY <1>2, <1>3, <1>4, <1>6 DEF Mem, Knows
  <2> QED BY <1>2, <1>11, <2>1, <2>2, <2>3 DEF Lawful, historyVars
<1> QED BY <1>2, <1>3, <1>10, <1>11, <1>12, <1>13, <1>15, <1>16, MovesInv DEF historyVars, TypeInv

(* A worker whose job is retried (queue.go:487-498) updates it first. *)
LEMMA HandlerRetriesInv ==
  ASSUME Inv, NEW h \in Hosts, HandlerRetries(h)
  PROVE  Inv'
<1>1. PICK t : t = Worker(h)
  OBVIOUS
<1>2. t \in Workers /\ t \in Threads /\ t \notin Retries /\ t \notin Schedulers /\ t # Caller
  BY <1>1, HostFacts, ThreadFacts
<1>3. WorkerOK(t) /\ at[t] = "handler" /\ pipe[t] = <<>> /\ at[Retry(h)] = "idle"
  BY <1>1, <1>2 DEF Inv, ThreadInv, ThreadOK, HandlerRetries, Ready
<1>4. copy[t] \in JobRecords /\ todo[t] = {} /\ "retrying" \in Statuses
  BY <1>3 DEF WorkerOK, Statuses
<1>5. PICK c : c = [copy[t] EXCEPT !.status = "retrying"]
  OBVIOUS
<1>6. PICK x : x = copy[t].id
  OBVIOUS
<1>7. c \in JobRecords /\ c.id = x /\ c.status = "retrying"
  BY <1>4, <1>5, <1>6, RecordFacts
<1>8. PICK s : s = UpdatePipe(c)
  OBVIOUS
<1>9. Shape(s) /\ s # <<>> /\ Id(s) = x /\ Sets(s) /\ s[1].data = c /\ Adds(s) /\ To(s) = "scheduled"
  BY <1>7, <1>8, UpdatePipeFacts
<1>10. Moves(t, "park", c, s)
  BY <1>1, <1>5, <1>8 DEF HandlerRetries
<1>11. /\ data' = data /\ scheduled' = scheduled /\ pending' = pending /\ UNCHANGED historyVars
       /\ todo' = todo
  BY DEF HandlerRetries, serverVars
<1>12. {} \in SUBSET Jobs /\ "park" \in Places /\ Shape(s) /\ TypeInv
  BY <1>9 DEF Places, Inv
<1>13. todo' = [todo EXCEPT ![t] = {}]
  BY <1>2, <1>4, <1>11, <1>12 DEF TypeInv
<1>14. at'[t] = "park" /\ copy'[t] = c /\ todo'[t] = {} /\ pipe'[t] = s
  BY <1>2, <1>10, <1>12, <1>13, MovesFacts
<1>15. ThreadOK(t)'
  <2>1. WorkerOK(t)'
    BY <1>7, <1>9, <1>14 DEF WorkerOK, Writes, Sets
  <2> QED BY <1>2, <2>1 DEF ThreadOK
<1>16. ASSUME NEW j \in Jobs PROVE Lawful(t, j)
  <2>1. (Mem(t, j)' <=> j = x) /\ (Piped(t, j)' <=> j = x) /\ ~Copied(t, j)'
    BY <1>2, <1>7, <1>9, <1>14 DEF Mem, Piped, Copied
  <2>2. ~Pip(t, j)' /\ (Knows(t, j)' => j = x)
    BY <1>2, <1>14, <2>1 DEF Pip, Knows
  <2>3. (Mem(t, j) <=> j = x) /\ (j = x => Knows(t, j))
    BY <1>2, <1>3, <1>4, <1>6 DEF Mem, Knows
  <2> QED BY <1>2, <1>11, <2>1, <2>2, <2>3 DEF Lawful, historyVars
<1> QED BY <1>1, <1>2, <1>3, <1>10, <1>11, <1>12, <1>13, <1>15, <1>16, MovesInv DEF historyVars, TypeInv

(* A retry that wakes (queue.go:506-512) enqueues the job it alone has. *)
LEMMA RetryWakesInv ==
  ASSUME Inv, NEW h \in Hosts, RetryWakes(h)
  PROVE  Inv'
<1>1. PICK t : t = Retry(h)
  OBVIOUS
<1>2. t \in Retries /\ t \in Threads /\ t \notin Workers /\ t \notin Schedulers /\ t # Caller
  BY <1>1, HostFacts, ThreadFacts
<1>3. RetryOK(t) /\ at[t] = "sleep" /\ pipe[t] = <<>>
  BY <1>1, <1>2 DEF Inv, ThreadInv, ThreadOK, RetryWakes, Ready
<1>4. copy[t] \in JobRecords /\ todo[t] = {} /\ "pending" \in Statuses
  BY <1>3 DEF RetryOK, Statuses
<1>5. PICK c : c = [copy[t] EXCEPT !.status = "pending"]
  OBVIOUS
<1>6. PICK x : x = copy[t].id
  OBVIOUS
<1>7. c \in JobRecords /\ c.id = x /\ c.status = "pending"
  BY <1>4, <1>5, <1>6, RecordFacts
<1>8. PICK s : s = EnqueuePipe(c)
  OBVIOUS
<1>9. Shape(s) /\ s # <<>> /\ Id(s) = x /\ Sets(s) /\ s[1].data = c /\ Adds(s)
  BY <1>7, <1>8, EnqueuePipeFacts
<1>10. Moves(t, "idle", NoJob, s)
  BY <1>1, <1>5, <1>8 DEF RetryWakes
<1>11. /\ data' = data /\ scheduled' = scheduled /\ pending' = pending /\ UNCHANGED historyVars
       /\ todo' = todo
  BY DEF RetryWakes, serverVars
<1>12. {} \in SUBSET Jobs /\ "idle" \in Places /\ Shape(s) /\ TypeInv
  BY <1>9 DEF Places, Inv
<1>13. todo' = [todo EXCEPT ![t] = {}]
  BY <1>2, <1>4, <1>11, <1>12 DEF TypeInv
<1>14. at'[t] = "idle" /\ copy'[t] = NoJob /\ todo'[t] = {} /\ pipe'[t] = s
  BY <1>2, <1>10, <1>12, <1>13, MovesFacts
<1>15. ThreadOK(t)'
  <2>1. RetryOK(t)'
    BY <1>7, <1>9, <1>14 DEF RetryOK, Writes, Sets
  <2> QED BY <1>2, <2>1 DEF ThreadOK
<1>16. ASSUME NEW j \in Jobs PROVE Lawful(t, j)
  <2>1. ~Mem(t, j)' /\ (Piped(t, j)' <=> j = x) /\ ~Copied(t, j)'
    BY <1>2, <1>9, <1>14 DEF Mem, Piped, Copied
  <2>2. (Pip(t, j)' <=> j = x) /\ (Knows(t, j)' => j = x)
    BY <1>2, <1>9, <1>14, <2>1 DEF Pip, Knows
  <2>3. (Mem(t, j) <=> j = x) /\ (j = x => Knows(t, j))
    BY <1>2, <1>3, <1>4, <1>6 DEF Mem, Knows
  <2> QED BY <1>2, <1>11, <2>1, <2>2, <2>3 DEF Lawful, historyVars
<1> QED BY <1>2, <1>3, <1>10, <1>11, <1>12, <1>13, <1>15, <1>16, MovesInv DEF historyVars, TypeInv

-----------------------------------------------------------------------------
(* scheduleProcessor *)

(* A scan that sends no commands may go on with the IDs d, which it has    *)
(* read from "scheduled", and the copies c of jobs that wait.              *)
LEMMA ScanStep ==
  ASSUME Inv, NEW t \in Schedulers, NEW p \in {"idle", "load"}, NEW c, NEW d \in SUBSET Jobs,
         Moves(t, p, c, <<>>), todo' = [todo EXCEPT ![t] = d], pipe[t] = <<>>,
         UNCHANGED <<serverVars, historyVars>>,
         p = "load" => c \subseteq JobRecords /\ \A e \in c : e.status = "scheduled",
         \A j \in d : j \in scheduled \/ j \in todo[t],
         p = "load" => \A e \in c : Waits(e.id) /\ (Copied(t, e.id) \/ e.id \in todo[t])
  PROVE  Inv'
<1>1. t \in Threads /\ t \notin Workers /\ t \notin Retries /\ t # Caller
  BY ThreadFacts
<1>2. p \in Places /\ TypeInv
  BY DEF Places, Inv
<1>3. at'[t] = p /\ copy'[t] = c /\ todo'[t] = d /\ pipe'[t] = <<>>
  BY <1>1, <1>2, MovesFacts, EmptyShape
<1>4. ThreadOK(t)'
  <2>1. SchedulerOK(t)'
    BY <1>3, EmptyShape DEF SchedulerOK
  <2> QED BY <1>1, <2>1 DEF ThreadOK
<1>5. ASSUME NEW j \in Jobs PROVE Lawful(t, j)
  <2>1. ~Mem(t, j)' /\ ~Mem(t, j) /\ ~Piped(t, j)'
    BY <1>1, <1>3 DEF Mem, Piped
  <2>2. Copied(t, j)' => Waits(j) /\ (Copied(t, j) \/ j \in todo[t])
    BY <1>3 DEF Copied
  <2>3. ~Pip(t, j)' /\ (Knows(t, j)' => Copied(t, j)' \/ j \in d)
    BY <1>3, <2>1 DEF Pip, Knows
  <2>4. j \in d => Listed(j)
    BY DEF Listed
  <2>5. Knows(t, j)' => Knows(t, j) \/ j \in scheduled
    BY <2>2, <2>3 DEF Knows
  <2> QED BY <1>1, <1>3, <2>1, <2>2, <2>3, <2>4, <2>5 DEF Lawful, historyVars, serverVars
<1>6. p # "park"
  OBVIOUS
<1> QED BY <1>1, <1>2, <1>4, <1>5, <1>6, MovesInv, EmptyShape DEF historyVars, serverVars, TypeInv

(* scheduleProcessor lists the scheduled jobs (redis.go:212-233) and takes none. *)
LEMMA ScanIdsInv ==
  ASSUME Inv, NEW h \in Hosts, ScanIds(h)
  PROVE  Inv'
<1>1. PICK t : t = Scheduler(h)
  OBVIOUS
<1>2. t \in Schedulers
  BY <1>1, HostFacts
<1>3. PICK ids \in SUBSET scheduled : todo' = [todo EXCEPT ![t] = ids]
  BY <1>1 DEF ScanIds
<1>4. Moves(t, "load", {}, <<>>) /\ pipe[t] = <<>> /\ UNCHANGED <<serverVars, historyVars>>
  BY <1>1 DEF ScanIds, Ready
<1>5. ids \in SUBSET Jobs
  BY DEF Inv, TypeInv
<1> QED BY <1>2, <1>3, <1>4, <1>5, ScanStep

(* scheduleProcessor reads a listed job (redis.go:235-247) and takes it not. *)
LEMMA ScanJobInv ==
  ASSUME Inv, NEW h \in Hosts, ScanJob(h)
  PROVE  Inv'
<1>1. PICK t : t = Scheduler(h)
  OBVIOUS
<1>2. t \in Schedulers /\ t \in Threads /\ Scheduler(h) = t
  BY <1>1, HostFacts, ThreadFacts
<1>3. PICK x \in todo[t], skip \in {FALSE, "readError" \in Features} :
        /\ todo' = [todo EXCEPT ![t] = todo[t] \ {x}]
        /\ ScanGoesOn(h, copy[t] \cup {c \in {data[x]} : c # NoJob /\ c.status = "scheduled" /\ ~skip},
                      todo[t] \ {x}, <<>>)
  BY <1>1 DEF ScanJob
<1>4. PICK d : d = todo[t] \ {x}
  OBVIOUS
<1>5. PICK cs : cs = copy[t] \cup {c \in {data[x]} : c # NoJob /\ c.status = "scheduled" /\ ~skip}
  OBVIOUS
<1>6. /\ SchedulerOK(t) /\ at[t] = "load" /\ pipe[t] = <<>> /\ UNCHANGED <<serverVars, historyVars>>
  BY <1>1, <1>2, ThreadFacts DEF ScanJob, Ready, Inv, ThreadInv, ThreadOK
<1>7. copy[t] \subseteq JobRecords /\ \A e \in copy[t] : e.status = "scheduled"
  BY <1>6 DEF SchedulerOK
<1>8. x \in Jobs /\ d \in SUBSET Jobs /\ d \subseteq todo[t]
  BY <1>2, <1>4 DEF Inv, TypeInv
<1>9. \A e \in cs : e \in copy[t] \/ (e = data[x] /\ data[x] # NoJob /\ data[x].status = "scheduled")
  BY <1>5
<1>10. data[x] # NoJob => data[x] \in JobRecords /\ data[x].id = x
  BY <1>8 DEF Inv, TypeInv
<1>11. cs \subseteq JobRecords /\ \A e \in cs : e.status = "scheduled"
  BY <1>7, <1>9, <1>10
<1>12. ASSUME NEW e \in cs
       PROVE  Waits(e.id) /\ (Copied(t, e.id) \/ e.id \in todo[t])
  <2>1. CASE e \in copy[t]
    <3>1. Copied(t, e.id)
      BY <1>2, <1>6, <2>1 DEF Copied
    <3> QED BY <1>2, <3>1 DEF Waits
  <2>2. CASE e = data[x] /\ data[x] # NoJob /\ data[x].status = "scheduled"
    <3>1. e.id = x
      BY <1>10, <2>2
    <3>2. Listed(x) /\ ~NotScheduled(x)
      BY <1>2, <2>2 DEF Listed, NotScheduled
    <3> QED BY <3>1, <3>2 DEF Waits
  <2> QED BY <1>9, <2>1, <2>2
<1>13. todo' = [todo EXCEPT ![t] = d]
  BY <1>3, <1>4
<1>14. ScanGoesOn(h, cs, d, <<>>)
  BY <1>3, <1>4, <1>5
<1>15. CASE cs = {} /\ d = {}
  <2>1. Moves(t, "idle", NoJob, <<>>)
    BY <1>2, <1>14, <1>15 DEF ScanGoesOn
  <2> QED BY <1>2, <1>6, <1>8, <1>13, <2>1, ScanStep
<1>16. CASE ~(cs = {} /\ d = {})
  <2>1. Moves(t, "load", cs, <<>>)
    BY <1>2, <1>14, <1>16 DEF ScanGoesOn
  <2> QED BY <1>2, <1>6, <1>8, <1>11, <1>12, <1>13, <2>1, ScanStep
<1> QED BY <1>15, <1>16

(* Whoever releases a job that waits gets the right to run it, unless the  *)
(* job is released for the second time.                                    *)
LEMMA ReleaseFacts ==
  ASSUME Inv, NEW x \in Jobs, NEW v, Releases(x, v), v = "scheduled" => Waits(x)
  PROVE  /\ accepted' = accepted /\ dropped' = dropped
         /\ released \subseteq released' /\ twice \subseteq twice'
         /\ (NoToken(x) /\ x \in released') \/ x \in twice'
<1>1. /\ released' = released \cup {x} /\ accepted' = accepted /\ dropped' = dropped
      /\ twice' = IF x \in released \/ v # "scheduled" THEN twice \cup {x} ELSE twice
  BY DEF Releases
<1>2. CASE x \in released \/ v # "scheduled"
  BY <1>1, <1>2
<1>3. CASE ~(x \in released \/ v # "scheduled")
  <2>1. x \notin twice => NoToken(x)
    BY <1>3 DEF Inv, TokenInv, TokenOK
  <2> QED BY <1>1, <1>3, <2>1
<1> QED BY <1>2, <1>3

(* scheduleProcessor releases a job (queue.go:574-583): the history records it. *)
LEMMA ScanEnqueueInv ==
  ASSUME Inv, NEW h \in Hosts, ScanEnqueue(h)
  PROVE  Inv'
<1>1. PICK t : t = Scheduler(h)
  OBVIOUS
<1>2. /\ t \in Schedulers /\ t \in Threads /\ Scheduler(h) = t
      /\ t \notin Workers /\ t \notin Retries /\ t # Caller
  BY <1>1, HostFacts, ThreadFacts
<1>3. PICK c \in copy[t] :
        IF c.id \in due
          THEN /\ ScanGoesOn(h, copy[t] \ {c}, {}, EnqueuePipe([c EXCEPT !.status = "pending", !.timed = FALSE]))
               /\ Releases(c.id, c.status)
          ELSE ScanGoesOn(h, copy[t] \ {c}, {}, <<>>) /\ UNCHANGED historyVars
  BY <1>1 DEF ScanEnqueue
<1>4. /\ SchedulerOK(t) /\ at[t] = "load" /\ pipe[t] = <<>> /\ UNCHANGED serverVars
      /\ todo[t] = {} /\ todo' = todo /\ TypeInv
  BY <1>1, <1>2 DEF ScanEnqueue, Ready, Inv, ThreadInv, ThreadOK
<1>5. copy[t] \subseteq JobRecords /\ \A e \in copy[t] : e.status = "scheduled"
  BY <1>4 DEF SchedulerOK
<1>6. {} \in SUBSET Jobs /\ "idle" \in Places /\ "load" \in Places
  BY DEF Places
<1>7. todo' = [todo EXCEPT ![t] = {}]
  BY <1>2, <1>4 DEF TypeInv
<1>8. \A e \in copy[t] : Copied(t, e.id) /\ Waits(e.id) /\ Knows(t, e.id)
  BY <1>2, <1>4 DEF Copied, Waits, Knows
<1>9. PICK cs : cs = copy[t] \ {c}
  OBVIOUS
<1>10. cs \subseteq copy[t]
  BY <1>9
<1>11. CASE c.id \notin due
  <2>1. ScanGoesOn(h, cs, {}, <<>>) /\ UNCHANGED <<serverVars, historyVars>>
    BY <1>3, <1>4, <1>9, <1>11
  <2>2. CASE cs = {}
    <3>1. Moves(t, "idle", NoJob, <<>>)
      BY <1>2, <2>1, <2>2 DEF ScanGoesOn
    <3> QED BY <1>2, <1>4, <1>6, <1>7, <2>1, <3>1, ScanStep
  <2>3. CASE cs # {}
    <3>1. Moves(t, "load", cs, <<>>)
      BY <1>2, <2>1, <2>3 DEF ScanGoesOn
    <3> QED BY <1>2, <1>4, <1>5, <1>6, <1>7, <1>8, <1>10, <2>1, <3>1, ScanStep
  <2> QED BY <2>2, <2>3
<1>12. CASE c.id \in due
  <2>1. PICK e : e = [c EXCEPT !.status = "pending", !.timed = FALSE]
    OBVIOUS
  <2>2. PICK x : x = c.id
    OBVIOUS
  <2>3. c \in JobRecords /\ e \in JobRecords /\ e.id = x /\ e.status = "pending" /\ x \in Jobs
    <3>1. c \in JobRecords
      BY <1>5
    <3> QED BY <2>1, <2>2, <3>1, RecordFacts
  <2>4. PICK s : s = EnqueuePipe(e)
    OBVIOUS
  <2>5. Shape(s) /\ s # <<>> /\ Id(s) = x /\ Sets(s) /\ s[1].data = e /\ Adds(s)
    BY <2>3, <2>4, EnqueuePipeFacts
  <2>a. Shape(s)
    BY <2>5
  <2>6. ScanGoesOn(h, cs, {}, s) /\ Releases(x, c.status)
    BY <1>3, <1>9, <1>12, <2>1, <2>2, <2>4
  <2>7. /\ accepted' = accepted /\ dropped' = dropped
        /\ released \subseteq released' /\ twice \subseteq twice'
        /\ (NoToken(x) /\ x \in released') \/ x \in twice'
    BY <1>8, <2>2, <2>3, <2>6, ReleaseFacts
  <2>8. ASSUME NEW p \in Places, p \in {"idle", "load"}, NEW d, p = "load" => d = cs, Moves(t, p, d, s)
        PROVE  Inv'
    <3>1. at'[t] = p /\ copy'[t] = d /\ todo'[t] = {} /\ pipe'[t] = s
      <4>1. TypeInv /\ t \in Threads /\ Moves(t, p, d, s) /\ {} \in SUBSET Jobs
        BY <1>2, <1>4, <2>8
      <4> QED BY <1>7, <2>a, <4>1, MovesFacts
    <3>2. ThreadOK(t)'
      <4>1. SchedulerOK(t)'
        BY <1>5, <1>10, <2>3, <2>5, <2>8, <3>1 DEF SchedulerOK, Writes, Sets
      <4> QED BY <1>2, <4>1 DEF ThreadOK
    <3>3. ASSUME NEW j \in Jobs PROVE Lawful(t, j)
      <4>1. ~Mem(t, j)' /\ ~Mem(t, j) /\ (Piped(t, j)' <=> j = x)
        BY <1>2, <2>5, <3>1 DEF Mem, Piped
      <4>2. Pip(t, j)' <=> j = x
        BY <1>2, <2>5, <3>1, <4>1 DEF Pip
      <4>3. Copied(t, j)' => Waits(j) /\ Knows(t, j)
        BY <1>8, <1>10, <2>8, <3>1 DEF Copied
      <4>4. Knows(t, j)' => Knows(t, j)
        <5>1. Knows(t, x)
          BY <1>8, <2>2
        <5> QED BY <3>1, <4>1, <4>3, <5>1 DEF Knows
      <4> QED BY <1>2, <1>4, <2>7, <3>1, <4>1, <4>2, <4>3, <4>4 DEF Lawful, serverVars
    <3>4. p # "park"
      BY <2>8
    <3> QED BY <1>2, <1>4, <1>6, <1>7, <2>7, <2>a, <2>8, <3>2, <3>3, <3>4, MovesInv DEF serverVars, TypeInv
  <2>9. CASE cs = {}
    <3>1. Moves(t, "idle", NoJob, s)
      BY <1>2, <2>6, <2>9 DEF ScanGoesOn
    <3> QED BY <1>6, <2>8, <3>1
  <2>10. CASE cs # {}
    <3>1. Moves(t, "load", cs, s)
      BY <1>2, <2>6, <2>10 DEF ScanGoesOn
    <3> QED BY <1>6, <2>8, <3>1
  <2> QED BY <2>9, <2>10
<1> QED BY <1>11, <1>12

-----------------------------------------------------------------------------
(* Callers *)

(* A step of the caller leaves the jobs of the other threads alone. *)
LEMMA CallerStep ==
  ASSUME Inv, NEW p \in {"idle", "move"}, NEW d \in SUBSET Jobs, NEW s, Shape(s),
         Moves(Caller, p, NoJob, s), todo' = [todo EXCEPT ![Caller] = d], pipe[Caller] = <<>>,
         UNCHANGED serverVars,
         accepted \subseteq accepted', accepted' \subseteq Jobs, dropped' = dropped,
         released \subseteq released', twice \subseteq twice',
         \A j \in d : j \in scheduled \/ j \in todo[Caller],
         s # <<>> =>
           /\ Id(s) \in accepted' /\ (Enters(s) => Id(s) \notin accepted)
           /\ Sets(s) => Adds(s) /\ (Enters(s) \/ s[1].data.status # "scheduled")
           /\ ~Adds(s) => s[1].cmd = "del"
           /\ Adds(s) => (NoToken(Id(s)) /\ (Id(s) \in released' \/ ~Waits(Id(s)))) \/ Id(s) \in twice',
         \A j \in accepted' : j \notin accepted => s # <<>> /\ Id(s) = j /\ Enters(s)
  PROVE  Inv'
<1>1. Caller \in Threads /\ Caller \notin Workers /\ Caller \notin Retries /\ Caller \notin Schedulers
  BY ThreadFacts
<1>2. p \in Places /\ p # "park" /\ TypeInv
  BY DEF Places, Inv
<1>3. at'[Caller] = p /\ copy'[Caller] = NoJob /\ todo'[Caller] = d /\ pipe'[Caller] = s
  BY <1>1, <1>2, MovesFacts
<1>4. ThreadOK(Caller)'
  <2>1. CallerOK(Caller)'
    BY <1>3 DEF CallerOK, Caller
  <2> QED BY <1>1, <2>1 DEF ThreadOK, Caller
<1>5. ASSUME NEW j \in Jobs PROVE Lawful(Caller, j)
  <2>1. ~Mem(Caller, j)' /\ ~Mem(Caller, j) /\ (Piped(Caller, j)' <=> s # <<>> /\ Id(s) = j) /\ ~Copied(Caller, j)'
    BY <1>1, <1>3 DEF Mem, Piped, Copied, Caller
  <2>2. Pip(Caller, j)' => s # <<>> /\ Id(s) = j /\ Adds(s)
    BY <1>1, <1>3, <2>1 DEF Pip, Caller
  <2>3. Knows(Caller, j)' => j \in d
    BY <1>3, <2>1 DEF Knows, Caller
  <2>4. j \in d => Listed(j) /\ (Knows(Caller, j) \/ j \in scheduled)
    BY DEF Listed, Knows
  <2> QED BY <1>1, <1>3, <2>1, <2>2, <2>3, <2>4 DEF Lawful, serverVars, Caller
<1> QED BY <1>1, <1>2, <1>4, <1>5, MovesInv DEF serverVars, TypeInv

(* No thread has the right to run a job that only a caller of Enqueue      *)
(* knows of, and it does not wait.                                         *)
LEMMA NowhereFacts ==
  ASSUME NEW j \in Jobs, Nowhere(j), ~Piped(Caller, j)
  PROVE  NoToken(j) /\ ~Waits(j)
<1>1. ASSUME NEW k \in Kinds, NEW t \in Threads, Has(k, t, j) PROVE FALSE
  BY <1>1 DEF Has, Nowhere, Knows, Pip
<1>2. ~Waits(j)
  <2>1. \A t \in Schedulers \cup {Caller} : t \in Threads
    BY ThreadFacts
  <2> QED BY <2>1 DEF Waits, Listed, Nowhere, Knows
<1> QED BY <1>1, <1>2 DEF NoToken

(* Schedule and Enqueue (redis.go:40-73, 107-131) start with a job of nobody. *)
LEMMA EnqueueInv ==
  ASSUME Inv, NEW x \in Jobs, Enqueue(x)
  PROVE  Inv'
<1>1. PICK v : v = IF x \in Timed THEN "scheduled" ELSE "pending"
  OBVIOUS
<1>2. PICK c : c = Job(x, v, 0, x \in Timed)
  OBVIOUS
<1>3. c \in JobRecords /\ c.id = x
  <2>1. v \in Statuses
    BY <1>1 DEF Statuses
  <2>2. \A f \in BOOLEAN : Job(x, v, 0, f) \in JobRecords /\ Job(x, v, 0, f).id = x
    BY <2>1 DEF Job, JobRecords
  <2>3. (x \in Timed) \in BOOLEAN
    <3>1. (x \in Timed) = TRUE \/ (x \in Timed) = FALSE
      OBVIOUS
    <3> QED BY <3>1
  <2> QED BY <1>2, <2>2, <2>3, Zenon
<1>4. PICK s : s = EnqueuePipe(c)
  OBVIOUS
<1>5. Shape(s) /\ s # <<>> /\ Id(s) = x /\ Sets(s) /\ Adds(s) /\ Enters(s)
  BY <1>3, <1>4, EnqueuePipeFacts
<1>6. Moves(Caller, "idle", NoJob, s)
  <2>1. Moves(Caller, "idle", NoJob, EnqueuePipe(Job(x, IF x \in Timed THEN "scheduled" ELSE "pending", 0, x \in Timed)))
    BY DEF Enqueue
  <2> QED BY <1>1, <1>2, <1>4, <2>1, Zenon
<1>7. /\ pipe[Caller] = <<>> /\ x \notin accepted /\ accepted' = accepted \cup {x}
      /\ UNCHANGED serverVars /\ todo' = todo /\ dropped' = dropped /\ released' = released /\ twice' = twice
  BY DEF Enqueue, Ready
<1>8. Caller \in Threads /\ todo[Caller] \in SUBSET Jobs /\ todo' = [todo EXCEPT ![Caller] = todo[Caller]]
  BY <1>7, ThreadFacts DEF Inv, TypeInv
<1>9. NoToken(x) /\ ~Waits(x)
  BY <1>7, NowhereFacts DEF Inv, FreshInv
<1>10. accepted' \subseteq Jobs
  BY <1>7 DEF Inv, TypeInv
<1> QED BY <1>5, <1>6, <1>7, <1>8, <1>9, <1>10, CallerStep

(* Schedule (redis.go:107-131), too. *)
LEMMA ScheduleInv ==
  ASSUME Inv, NEW x \in Jobs, Schedule(x)
  PROVE  Inv'
<1>1. PICK c : c = Job(x, "scheduled", 0, TRUE)
  OBVIOUS
<1>2. c \in JobRecords /\ c.id = x
  BY <1>1 DEF Job, JobRecords, Statuses
<1>3. PICK s : s = SchedulePipe(c)
  OBVIOUS
<1>4. Shape(s) /\ s # <<>> /\ Id(s) = x /\ Sets(s) /\ Adds(s) /\ Enters(s)
  BY <1>2, <1>3, SchedulePipeFacts
<1>5. Moves(Caller, "idle", NoJob, s)
  BY <1>1, <1>3 DEF Schedule
<1>6. /\ pipe[Caller] = <<>> /\ x \notin accepted /\ accepted' = accepted \cup {x}
      /\ UNCHANGED serverVars /\ todo' = todo /\ dropped' = dropped /\ released' = released /\ twice' = twice
  BY DEF Schedule, Ready
<1>7. Caller \in Threads /\ todo[Caller] \in SUBSET Jobs /\ todo' = [todo EXCEPT ![Caller] = todo[Caller]]
  BY <1>6, ThreadFacts DEF Inv, TypeInv
<1>8. NoToken(x) /\ ~Waits(x)
  BY <1>6, NowhereFacts DEF Inv, FreshInv
<1>9. accepted' \subseteq Jobs
  BY <1>6 DEF Inv, TypeInv
<1> QED BY <1>4, <1>5, <1>6, <1>7, <1>8, <1>9, CallerStep

(* DeleteJob (redis.go:193-209) starts its pipeline. *)
LEMMA DeleteJobInv ==
  ASSUME Inv, NEW x \in Jobs, DeleteJob(x)
  PROVE  Inv'
<1>1. PICK s : s = DeletePipe(x)
  OBVIOUS
<1>2. Shape(s) /\ s # <<>> /\ Id(s) = x /\ ~Sets(s) /\ ~Adds(s) /\ s[1].cmd = "del"
  BY <1>1, DeletePipeFacts
<1>3. Moves(Caller, "idle", NoJob, s)
  BY <1>1 DEF DeleteJob
<1>4. /\ pipe[Caller] = <<>> /\ x \in accepted /\ UNCHANGED serverVars /\ todo' = todo
      /\ accepted' = accepted /\ dropped' = dropped /\ released' = released /\ twice' = twice
  BY DEF DeleteJob, Ready, historyVars
<1>5. Caller \in Threads /\ todo[Caller] \in SUBSET Jobs /\ todo' = [todo EXCEPT ![Caller] = todo[Caller]]
  BY <1>4, ThreadFacts DEF Inv, TypeInv
<1>6. accepted' \subseteq Jobs /\ ~Enters(s)
  BY <1>2, <1>4 DEF Inv, TypeInv, Enters
<1> QED BY <1>2, <1>3, <1>4, <1>5, <1>6, CallerStep

(* MoveScheduledToPending lists the due jobs (redis.go:379-393). *)
LEMMA MoveListInv ==
  ASSUME Inv, MoveList
  PROVE  Inv'
<1>1. PICK d : d = {j \in scheduled : j \in due \/ j \notin Timed}
  OBVIOUS
<1>2. todo' = [todo EXCEPT ![Caller] = d] /\ Moves(Caller, "move", NoJob, <<>>)
  BY <1>1 DEF MoveList
<1>3. /\ pipe[Caller] = <<>> /\ UNCHANGED serverVars
      /\ accepted' = accepted /\ dropped' = dropped /\ released' = released /\ twice' = twice
  BY DEF MoveList, Ready, historyVars
<1>4. d \in SUBSET Jobs /\ \A j \in d : j \in scheduled
  BY <1>1 DEF Inv, TypeInv
<1>5. accepted' \subseteq Jobs
  BY <1>3 DEF Inv, TypeInv
<1> QED BY <1>2, <1>3, <1>4, <1>5, EmptyShape, CallerStep

(* MoveScheduledToPending moves one due job (redis.go:395-410). *)
LEMMA MoveOneInv ==
  ASSUME Inv, MoveOne
  PROVE  Inv'
<1>1. PICK x \in todo[Caller] :
        LET left == todo[Caller] \ {x}
            c == [data[x] EXCEPT !.status = "pending", !.timed = FALSE] IN
        /\ todo' = [todo EXCEPT ![Caller] = left]
        /\ Moves(Caller, IF left = {} THEN "idle" ELSE "move", NoJob,
                 IF data[x] = NoJob THEN <<>> ELSE UpdatePipe(c))
        /\ Releases(x, IF data[x] = NoJob THEN "deleted" ELSE data[x].status)
  BY DEF MoveOne
<1>2. PICK d : d = todo[Caller] \ {x}
  OBVIOUS
<1>3. PICK p : p = IF d = {} THEN "idle" ELSE "move"
  OBVIOUS
<1>4. Caller \in Threads /\ x \in Jobs /\ d \in SUBSET Jobs /\ d \subseteq todo[Caller] /\ p \in {"idle", "move"}
  BY <1>2, <1>3, ThreadFacts DEF Inv, TypeInv
<1>5. todo' = [todo EXCEPT ![Caller] = d]
  BY <1>1, <1>2
<1>6. pipe[Caller] = <<>> /\ UNCHANGED serverVars
  BY DEF MoveOne, Ready
<1>7. PICK v : v = IF data[x] = NoJob THEN "deleted" ELSE data[x].status
  OBVIOUS
<1>8. Releases(x, v)
  BY <1>1, <1>7
<1>9. v = "scheduled" => Waits(x)
  BY <1>4, <1>7 DEF Waits, Listed, NotScheduled
<1>10. /\ accepted' = accepted /\ dropped' = dropped
       /\ released \subseteq released' /\ twice \subseteq twice'
       /\ (NoToken(x) /\ x \in released') \/ x \in twice'
  BY <1>4, <1>8, <1>9, ReleaseFacts
<1>11. accepted' \subseteq Jobs /\ x \in accepted
  <2>1. Knows(Caller, x)
    BY DEF Knows
  <2> QED BY <1>4, <1>10, <2>1 DEF Inv, TypeInv, FreshInv, Nowhere
<1>12. CASE data[x] = NoJob
  <2>1. Moves(Caller, p, NoJob, <<>>)
    BY <1>1, <1>2, <1>3, <1>12
  <2> QED BY <1>4, <1>5, <1>6, <1>10, <1>11, <2>1, EmptyShape, CallerStep
<1>13. CASE data[x] # NoJob
  <2>1. PICK c : c = [data[x] EXCEPT !.status = "pending", !.timed = FALSE]
    OBVIOUS
  <2>2. data[x] \in JobRecords /\ data[x].id = x
    BY <1>4, <1>13 DEF Inv, TypeInv
  <2>3. c \in JobRecords /\ c.id = x /\ c.status = "pending"
    BY <2>1, <2>2, RecordFacts
  <2>4. PICK s : s = UpdatePipe(c)
    OBVIOUS
  <2>5. Shape(s) /\ s # <<>> /\ Id(s) = x /\ Sets(s) /\ Adds(s) /\ ~Enters(s) /\ s[1].data.status = "pending"
    BY <2>3, <2>4, UpdatePipeFacts
  <2>6. Moves(Caller, p, NoJob, s)
    BY <1>1, <1>2, <1>3, <1>13, <2>1, <2>4
  <2> QED BY <1>4, <1>5, <1>6, <1>10, <1>11, <2>5, <2>6, CallerStep
<1> QED BY <1>12, <1>13

-----------------------------------------------------------------------------
(* Steps of more than one thread *)

(* The right to run job j is passed from (k, t) to (l, u), or not at all.  *)
LEMMA TokenPassed ==
  ASSUME NEW j, One(j), NEW k \in Kinds, NEW t \in Threads, NEW l \in Kinds, NEW u \in Threads, Has(k, t, j),
         \A m \in Kinds, v \in Threads :
           Has(m, v, j)' => (m = l /\ v = u) \/ (Has(m, v, j) /\ ~(m = k /\ v = t))
  PROVE  One(j)'
BY DEF One

(* A step after which nobody has a job anew leaves it with one owner at most. *)
LEMMA TokenKept ==
  ASSUME NEW j, One(j), \A m \in Kinds, v \in Threads : Has(m, v, j)' => Has(m, v, j)
  PROVE  One(j)' /\ (NoToken(j) => NoToken(j)')
BY DEF One, NoToken

(* The worker hands its job to the goroutine of the retry (queue.go:505-506). *)
LEMMA RetryStartsInv ==
  ASSUME Inv, NEW h \in Hosts, RetryStarts(h)
  PROVE  Inv'
<1>1. PICK w, r : w = Worker(h) /\ r = Retry(h)
  OBVIOUS
<1>2. /\ w \in Workers /\ w \in Threads /\ w \notin Retries /\ w \notin Schedulers /\ w # Caller
      /\ r \in Retries /\ r \in Threads /\ r \notin Workers /\ r \notin Schedulers /\ r # Caller /\ r # w
  BY <1>1, HostFacts, ThreadFacts
<1>3. /\ WorkerOK(w) /\ RetryOK(r) /\ at[w] = "park" /\ pipe[w] = <<>> /\ at[r] = "idle"
  BY <1>1, <1>2 DEF Inv, ThreadInv, ThreadOK, ParkInv, RetryStarts, Ready
<1>4. copy[w] \in JobRecords /\ todo[w] = {} /\ todo[r] = {} /\ copy[r] = NoJob
  BY <1>3 DEF WorkerOK, RetryOK
<1>5. PICK x : x = copy[w].id
  OBVIOUS
<1>6. /\ data' = data /\ scheduled' = scheduled /\ pending' = pending /\ todo' = todo /\ pipe' = pipe
      /\ accepted' = accepted /\ dropped' = dropped /\ released' = released /\ twice' = twice
  BY DEF RetryStarts, serverVars, historyVars
<1>7. /\ at' = [at EXCEPT ![w] = "idle", ![r] = "sleep"]
      /\ copy' = [copy EXCEPT ![w] = NoJob, ![r] = copy[w]]
  BY <1>1 DEF RetryStarts
<1>8. /\ at'[w] = "idle" /\ at'[r] = "sleep" /\ at' \in [Threads -> Places]
      /\ \A u \in Threads : u # w /\ u # r => at'[u] = at[u]
  BY <1>2, <1>7 DEF Inv, TypeInv, Places
<1>9. /\ copy'[w] = NoJob /\ copy'[r] = copy[w] /\ copy' = [u \in Threads |-> copy'[u]]
      /\ \A u \in Threads : u # w /\ u # r => copy'[u] = copy[u]
  BY <1>2, <1>7 DEF Inv, TypeInv
<1>10. \A u \in Threads : u # w /\ u # r => Same(u)
  BY <1>6, <1>8, <1>9 DEF Same
<1>11. TypeInv'
  BY <1>6, <1>8, <1>9 DEF Inv, TypeInv
<1>12. ThreadInv'
  <2> SUFFICES ASSUME NEW u \in Threads PROVE ThreadOK(u)'
    BY DEF ThreadInv
  <2>1. CASE u # w /\ u # r
    BY <1>6, <1>10, <2>1, SameOK DEF Inv, ThreadInv
  <2>2. CASE u = w
    <3>1. WorkerOK(w)'
      BY <1>3, <1>4, <1>6, <1>8, <1>9, EmptyShape DEF WorkerOK
    <3> QED BY <1>2, <2>2, <3>1 DEF ThreadOK
  <2>3. CASE u = r
    <3>1. RetryOK(r)'
      BY <1>3, <1>4, <1>6, <1>8, <1>9 DEF RetryOK
    <3> QED BY <1>2, <2>3, <3>1 DEF ThreadOK
  <2> QED BY <2>1, <2>2, <2>3
<1>13. ParkInv'
  <2> SUFFICES ASSUME NEW g \in Hosts, at'[Worker(g)] = "park" PROVE at'[Retry(g)] = "idle"
    BY DEF ParkInv, Worker, Retry
  <2>1. Worker(g) \in Threads /\ Retry(g) \in Threads /\ Worker(g) \in Workers /\ Retry(g) \in Retries
    BY HostFacts, ThreadFacts
  <2>2. g # h
    BY <1>1, <1>8
  <2>3. Worker(g) # w /\ Retry(g) # r /\ Worker(g) # r /\ Retry(g) # w
    BY <1>1, <1>2, <2>1, <2>2, HostFacts
  <2> QED BY <1>8, <2>1, <2>3 DEF Inv, ParkInv
<1>14. ASSUME NEW j
       PROVE  /\ (Mem(w, j) <=> j = x) /\ ~Mem(w, j)' /\ (Mem(r, j)' <=> j = x) /\ ~Mem(r, j)
              /\ (Pip(r, j)' <=> Pip(r, j)) /\ (Piped(r, j)' <=> Piped(r, j))
              /\ ~Pip(w, j)' /\ ~Piped(w, j)' /\ ~Piped(w, j)
              /\ ~Copied(w, j)' /\ ~Copied(r, j)'
  <2>1. (Mem(w, j) <=> j = x) /\ ~Mem(w, j)'
    BY <1>2, <1>3, <1>4, <1>5, <1>6, <1>8 DEF Mem
  <2>2. (Mem(r, j)' <=> j = x) /\ ~Mem(r, j)
    BY <1>2, <1>3, <1>4, <1>5, <1>8, <1>9 DEF Mem
  <2>3. (Piped(r, j)' <=> Piped(r, j)) /\ ~Piped(w, j)' /\ ~Piped(w, j)
    BY <1>3, <1>6 DEF Piped
  <2>4. (Pip(r, j)' <=> Pip(r, j)) /\ ~Pip(w, j)'
    BY <1>2, <1>6, <2>3 DEF Pip
  <2>5. ~Copied(w, j)' /\ ~Copied(r, j)'
    BY <1>2 DEF Copied
  <2> QED BY <2>1, <2>2, <2>3, <2>4, <2>5
<1>15. ASSUME NEW j, NEW k \in Kinds, NEW u \in Threads, Has(k, u, j)'
       PROVE  (k = "memory" /\ u = r /\ j = x) \/ (Has(k, u, j) /\ ~(k = "memory" /\ u = w))
  <2>1. CASE k = "pending"
    BY <1>6, <1>15, <2>1 DEF Has
  <2>2. CASE k # "pending" /\ u = w
    BY <1>14, <1>15, <2>2 DEF Has
  <2>3. CASE k # "pending" /\ u = r
    BY <1>2, <1>14, <1>15, <2>3 DEF Has
  <2>4. CASE k # "pending" /\ u # w /\ u # r
    BY <1>10, <1>15, <2>4, SameView DEF Has
  <2> QED BY <2>1, <2>2, <2>3, <2>4
<1>16. ASSUME NEW j PROVE Waits(j)' <=> Waits(j)
  <2>1. NotScheduled(j)' <=> NotScheduled(j)
    BY <1>6 DEF NotScheduled
  <2>2. Listed(j)' <=> Listed(j)
    BY <1>6 DEF Listed
  <2>3. \A u \in Schedulers : Copied(u, j)' <=> Copied(u, j)
    BY <1>2, <1>10, SameView, ThreadFacts
  <2> QED BY <2>1, <2>2, <2>3 DEF Waits
<1>17. TokenInv'
  <2> SUFFICES ASSUME NEW j \in Jobs \ twice PROVE TokenOK(j)'
    BY <1>6 DEF TokenInv
  <2>1. TokenOK(j)
    BY DEF Inv, TokenInv
  <2>2. CASE j = x
    <3>1. Has("memory", w, j) /\ "memory" \in Kinds
      BY <1>14, <2>2 DEF Has, Kinds
    <3>2. One(j)'
      BY <1>2, <1>15, <2>1, <3>1, TokenPassed DEF TokenOK
    <3>3. ~NoToken(j)
      BY <1>2, <3>1 DEF NoToken
    <3> QED BY <1>6, <1>16, <2>1, <3>2, <3>3 DEF TokenOK
  <2>3. CASE j # x
    <3>1. One(j)' /\ (NoToken(j) => NoToken(j)')
      BY <1>15, <2>1, <2>3, TokenKept DEF TokenOK
    <3> QED BY <1>6, <1>16, <2>1, <3>1 DEF TokenOK
  <2> QED BY <2>2, <2>3
<1>18. ASSUME NEW j \in Jobs, Nowhere(j) PROVE Nowhere(j)'
  <2>1. j # x
    BY <1>2, <1>14, <1>18 DEF Nowhere, Knows
  <2>2. ASSUME NEW u \in Threads, Knows(u, j)' PROVE FALSE
    <3>1. CASE u # w /\ u # r
      BY <1>10, <1>18, <2>2, <3>1, SameView DEF Nowhere
    <3>2. CASE u = w
      BY <1>4, <1>6, <1>14, <2>2, <3>2 DEF Knows
    <3>3. CASE u = r
      BY <1>2, <1>4, <1>6, <1>14, <1>18, <2>1, <2>2, <3>3 DEF Knows, Nowhere
    <3> QED BY <3>1, <3>2, <3>3
  <2> QED BY <1>6, <1>18, <2>2 DEF Nowhere
<1>19. Same(Caller)
  BY <1>2, <1>10, ThreadFacts
<1>20. FreshInv'
  BY <1>6, <1>18, <1>19, SameView DEF Inv, FreshInv, Same
<1>21. StoredInv'
  BY <1>6, <1>19, SameView DEF Inv, StoredInv, Same
<1>22. KeptInv'
  <2> SUFFICES ASSUME NEW j \in accepted \ (dropped \cup twice) PROVE Kept(j)'
    BY <1>6 DEF KeptInv
  <2>1. Kept(j)
    BY DEF Inv, KeptInv
  <2>2. ASSUME NEW u \in Threads, Mem(u, j) \/ Piped(u, j) PROVE Kept(j)'
    <3>1. CASE u # w /\ u # r
      BY <1>10, <2>2, <3>1, SameView DEF Kept
    <3>2. CASE u = w
      BY <1>2, <1>14, <2>2, <3>2 DEF Kept
    <3>3. CASE u = r
      BY <1>2, <1>14, <2>2, <3>3 DEF Kept
    <3> QED BY <3>1, <3>2, <3>3
  <2> QED BY <1>6, <2>1, <2>2 DEF Kept, Terminal
<1> QED BY <1>11, <1>12, <1>13, <1>17, <1>20, <1>21, <1>22 DEF Inv

(* What a thread of host h holds is what the crash of h takes away. *)
LEMMA InHandFacts ==
  ASSUME Inv, NEW h \in Hosts, NEW u \in Threads, u[1] = h, NEW j \in Jobs, Mem(u, j) \/ Piped(u, j)
  PROVE  j \in InHand(h)
<1>1. u \in {Worker(h), Retry(h), Scheduler(h)} /\ ThreadOK(u)
  BY HostFacts, ThreadFacts DEF Inv, ThreadInv
<1>2. CASE Piped(u, j)
  <2>1. Shape(pipe[u]) /\ pipe[u] # <<>> /\ Id(pipe[u]) = j
    BY <1>1, <1>2, ThreadFacts DEF ThreadOK, WorkerOK, RetryOK, SchedulerOK, CallerOK, Piped
  <2>2. InPipe(u, j)
    BY <2>1, ShapeFacts DEF InPipe
  <2> QED BY <1>1, <2>2 DEF InHand
<1>3. CASE u \in Workers /\ j \in todo[u]
  <2>1. u = Worker(h)
    BY <1>3, HostFacts
  <2> QED BY <1>3, <2>1 DEF InHand
<1>4. CASE u \in Workers /\ at[u] \in {"handler", "park"} /\ copy[u].id = j
  <2>1. u = Worker(h) /\ copy[u] # NoJob
    BY <1>1, <1>4, HostFacts, RedisAssumption DEF ThreadOK, WorkerOK
  <2> QED BY <1>4, <2>1 DEF InHand
<1>5. CASE u \in Retries /\ at[u] = "sleep" /\ copy[u].id = j
  <2>1. u = Retry(h) /\ copy[u] # NoJob
    BY <1>1, <1>5, HostFacts, RedisAssumption DEF ThreadOK, RetryOK
  <2> QED BY <1>5, <2>1 DEF InHand
<1> QED BY <1>2, <1>3, <1>4, <1>5 DEF Mem

(* A crash drops what the threads of the host had and leaves the server alone. *)
LEMMA CrashInv ==
  ASSUME Inv, NEW h \in Hosts, Crash(h)
  PROVE  Inv'
<1>1. /\ data' = data /\ scheduled' = scheduled /\ pending' = pending
      /\ accepted' = accepted /\ released' = released /\ twice' = twice /\ dropped' = dropped \cup InHand(h)
  BY DEF Crash, serverVars
<1>2. /\ at' = [t \in Threads |-> IF t[1] = h THEN "idle" ELSE at[t]]
      /\ copy' = [t \in Threads |-> IF t[1] = h THEN NoJob ELSE copy[t]]
      /\ todo' = [t \in Threads |-> IF t[1] = h THEN {} ELSE todo[t]]
      /\ pipe' = [t \in Threads |-> IF t[1] = h THEN <<>> ELSE pipe[t]]
  BY DEF Crash
<1>3. ASSUME NEW u \in Threads, u[1] # h PROVE Same(u)
  BY <1>2, <1>3 DEF Same
<1>4. ASSUME NEW u \in Threads, u[1] = h
      PROVE  at'[u] = "idle" /\ copy'[u] = NoJob /\ todo'[u] = {} /\ pipe'[u] = <<>>
  BY <1>2, <1>4
<1>5. TypeInv'
  <2>1. at' \in [Threads -> Places]
    BY <1>2 DEF Inv, TypeInv, Places
  <2>2. todo' \in [Threads -> SUBSET Jobs]
    BY <1>2 DEF Inv, TypeInv
  <2>3. pipe' \in [Threads -> Seq(Commands)]
    BY <1>2 DEF Inv, TypeInv
  <2>4. copy' = [u \in Threads |-> copy'[u]]
    BY <1>2
  <2> QED BY <1>1, <2>1, <2>2, <2>3, <2>4 DEF Inv, TypeInv
<1>6. Same(Caller)
  BY <1>3, HostFacts, ThreadFacts
<1>7. ThreadInv'
  <2> SUFFICES ASSUME NEW u \in Threads PROVE ThreadOK(u)'
    BY DEF ThreadInv
  <2>1. CASE u[1] # h
    BY <1>1, <1>3, <2>1, SameOK DEF Inv, ThreadInv
  <2>2. CASE u[1] = h
    <3>1. WorkerOK(u)' /\ RetryOK(u)' /\ SchedulerOK(u)' /\ CallerOK(u)'
      BY <1>4, <2>2, EmptyShape DEF WorkerOK, RetryOK, SchedulerOK, CallerOK
    <3> QED BY <3>1 DEF ThreadOK
  <2> QED BY <2>1, <2>2
<1>8. ParkInv'
  <2> SUFFICES ASSUME NEW g \in Hosts, at'[Worker(g)] = "park" PROVE at'[Retry(g)] = "idle"
    BY DEF ParkInv, Worker, Retry
  <2>1. Worker(g) \in Threads /\ Retry(g) \in Threads
    BY HostFacts, ThreadFacts
  <2>2. g # h
    BY <1>4, <2>1, HostFacts
  <2>3. Same(Worker(g)) /\ Same(Retry(g))
    BY <1>3, <2>1, <2>2, HostFacts
  <2> QED BY <2>3 DEF Inv, ParkInv, Same
<1>9. ASSUME NEW u \in Threads, NEW j
      PROVE  /\ (Mem(u, j)' => Mem(u, j)) /\ (Pip(u, j)' => Pip(u, j)) /\ (Copied(u, j)' => Copied(u, j))
             /\ (Knows(u, j)' => Knows(u, j)) /\ (j \in todo'[u] => j \in todo[u])
  <2>1. CASE u[1] # h
    BY <1>3, <2>1, SameView DEF Same
  <2>2. CASE u[1] = h
    <3>1. ~Mem(u, j)' /\ ~Piped(u, j)' /\ ~Copied(u, j)' /\ j \notin todo'[u]
      BY <1>4, <2>2 DEF Mem, Piped, Copied
    <3> QED BY <3>1 DEF Pip, Knows
  <2> QED BY <2>1, <2>2
<1>10. ASSUME NEW j, Waits(j)' PROVE Waits(j)
  <2>1. NotScheduled(j)' <=> NotScheduled(j)
    BY <1>1 DEF NotScheduled
  <2>2. Listed(j)' => Listed(j)
    BY <1>1, <1>9, ThreadFacts DEF Listed
  <2> QED BY <1>9, <1>10, <2>1, <2>2, ThreadFacts DEF Waits
<1>11. TokenInv'
  <2> SUFFICES ASSUME NEW j \in Jobs \ twice PROVE TokenOK(j)'
    BY <1>1 DEF TokenInv
  <2>1. TokenOK(j)
    BY DEF Inv, TokenInv
  <2>2. \A k \in Kinds, u \in Threads : Has(k, u, j)' => Has(k, u, j)
    BY <1>1, <1>9 DEF Has
  <2>3. One(j)' /\ (NoToken(j) => NoToken(j)')
    BY <2>1, <2>2, TokenKept DEF TokenOK
  <2> QED BY <1>1, <1>10, <2>1, <2>3 DEF TokenOK
<1>12. \A j \in Jobs : Nowhere(j) => Nowhere(j)'
  BY <1>1, <1>9 DEF Nowhere
<1>13. FreshInv'
  BY <1>1, <1>6, <1>12, SameView DEF Inv, FreshInv, Same
<1>14. StoredInv'
  BY <1>1, <1>6, SameView DEF Inv, StoredInv, Same
<1>15. KeptInv'
  <2> SUFFICES ASSUME NEW j \in accepted \ (dropped' \cup twice) PROVE Kept(j)'
    BY <1>1 DEF KeptInv
  <2>1. Kept(j) /\ j \in Jobs /\ j \notin InHand(h)
    BY <1>1 DEF Inv, KeptInv, TypeInv
  <2>2. ASSUME NEW u \in Threads, Mem(u, j) \/ Piped(u, j) PROVE Kept(j)'
    <3>1. CASE u[1] # h
      BY <1>3, <2>2, <3>1, SameView DEF Kept
    <3>2. CASE u[1] = h
      BY <2>1, <2>2, <3>2, InHandFacts
    <3> QED BY <3>1, <3>2
  <2> QED BY <1>1, <2>1, <2>2 DEF Kept, Terminal
<1> QED BY <1>5, <1>7, <1>8, <1>11, <1>13, <1>14, <1>15 DEF Inv

-----------------------------------------------------------------------------
(* Redis executes a command. *)

(* Every thread's pipeline has the shape of one. *)
LEMMA PipeFacts ==
  ASSUME Inv, NEW t \in Threads
  PROVE  Shape(pipe[t]) /\ ThreadOK(t)
BY ThreadFacts DEF Inv, ThreadInv, ThreadOK, WorkerOK, RetryOK, SchedulerOK, CallerOK

(* The effect of a command on the server, by its name. *)
LEMMA ExecServer ==
  ASSUME Inv, NEW t \in Threads, Exec(t), NEW s, s = pipe[t], NEW x, x = Id(s)
  PROVE  /\ s # <<>> /\ Shape(s) /\ x \in Jobs /\ s[1].cmd \in {"hset", "del", "zadd", "zrem"}
         /\ Writes(s) => /\ data' = [data EXCEPT ![x] = s[1].data]
                         /\ pending' = pending /\ scheduled' = scheduled
         /\ ~Writes(s) => data' = data
         /\ s[1].cmd = "zadd" => \/ s[1].set = "pending" /\ pending' = pending \cup {x} /\ scheduled' = scheduled
                                 \/ s[1].set = "scheduled" /\ pending' = pending /\ scheduled' = scheduled \cup {x}
         /\ s[1].cmd = "zrem" => /\ pending' \subseteq pending /\ pending \ {x} \subseteq pending'
                                 /\ scheduled' \subseteq scheduled /\ scheduled \ {x} \subseteq scheduled'
         /\ dropped' = IF s[1].cmd = "del" THEN dropped \cup {x} ELSE dropped
<1>1. s # <<>> /\ Shape(s)
  BY PipeFacts DEF Exec
<1>2. /\ x \in Jobs /\ Head(s) = s[1] /\ s[1].id = x /\ s[1] \in Commands
      /\ Writes(s) <=> s[1].set = "job"
  BY <1>1, ShapeFacts DEF Id
<1>3. /\ s[1].cmd \in {"hset", "del", "zadd", "zrem"} /\ s[1].set \in {"job", "pending", "scheduled"}
      /\ Writes(s) <=> s[1].cmd \in {"hset", "del"}
  BY <1>2 DEF Commands, Writes
<1>4. /\ data' = IF s[1].set = "job" THEN [data EXCEPT ![s[1].id] = s[1].data] ELSE data
      /\ pending' = After(pending, "pending", s[1]) /\ scheduled' = After(scheduled, "scheduled", s[1])
      /\ dropped' = IF s[1].cmd = "del" THEN dropped \cup {s[1].id} ELSE dropped
  BY <1>2 DEF Exec
<1>5. Writes(s) => /\ data' = [data EXCEPT ![x] = s[1].data]
                   /\ pending' = pending /\ scheduled' = scheduled
  BY <1>2, <1>3, <1>4 DEF After
<1>6. s[1].cmd = "zadd" => \/ s[1].set = "pending" /\ pending' = pending \cup {x} /\ scheduled' = scheduled
                           \/ s[1].set = "scheduled" /\ pending' = pending /\ scheduled' = scheduled \cup {x}
  BY <1>2, <1>3, <1>4 DEF After
<1>7. s[1].cmd = "zrem" => /\ pending' \subseteq pending /\ pending \ {x} \subseteq pending'
                           /\ scheduled' \subseteq scheduled /\ scheduled \ {x} \subseteq scheduled'
  BY <1>2, <1>3, <1>4 DEF After
<1> QED BY <1>1, <1>2, <1>3, <1>4, <1>5, <1>6, <1>7

(* The rest of the state. *)
LEMMA ExecThreads ==
  ASSUME Inv, NEW t \in Threads, Exec(t)
  PROVE  /\ at' = at /\ copy' = copy /\ todo' = todo
         /\ accepted' = accepted /\ released' = released /\ twice' = twice
         /\ pipe'[t] = Tail(pipe[t]) /\ \A u \in Threads : u # t => Same(u)
         /\ pipe' \in [Threads -> Seq(Commands)]
<1>1. /\ at' = at /\ copy' = copy /\ todo' = todo /\ pipe' = [pipe EXCEPT ![t] = Tail(pipe[t])]
      /\ accepted' = accepted /\ released' = released /\ twice' = twice
  BY DEF Exec
<1>2. Shape(Tail(pipe[t]))
  BY PipeFacts, TailFacts DEF Exec
<1>3. Tail(pipe[t]) \in Seq(Commands)
  BY <1>2 DEF Shape
<1>4. pipe'[t] = Tail(pipe[t]) /\ \A u \in Threads : u # t => pipe'[u] = pipe[u]
  BY <1>1 DEF Inv, TypeInv
<1>5. pipe' \in [Threads -> Seq(Commands)]
  BY <1>1, <1>3 DEF Inv, TypeInv
<1> QED BY <1>1, <1>4, <1>5 DEF Same

(* Who writes the data of a job has the right to run it, except DeleteJob. *)
LEMMA WriterHas ==
  ASSUME Inv, NEW t \in Threads, pipe[t] # <<>>, Sets(pipe[t])
  PROVE  \E k \in Kinds : Has(k, t, Id(pipe[t]))
<1>1. Piped(t, Id(pipe[t])) /\ Kinds = {"pending", "memory", "pipe"} /\ ThreadOK(t)
  BY PipeFacts DEF Piped, Kinds
<1>2. CASE t \in Workers
  <2>1. WorkerOK(t)
    BY <1>1, <1>2 DEF ThreadOK
  <2>2. CASE at[t] = "idle"
    <3>1. Pip(t, Id(pipe[t]))
      BY <1>1, <1>2, <2>2 DEF Pip
    <3> QED BY <1>1, <3>1 DEF Has
  <2>3. CASE at[t] \in {"handler", "park"}
    <3>1. Mem(t, Id(pipe[t]))
      BY <1>2, <2>1, <2>3 DEF WorkerOK, Mem
    <3> QED BY <1>1, <3>1 DEF Has
  <2> QED BY <2>1, <2>2, <2>3 DEF WorkerOK
<1>3. CASE t \notin Workers
  <2>1. Adds(pipe[t])
    BY <1>1, <1>3, ThreadFacts DEF ThreadOK, RetryOK, SchedulerOK, CallerOK
  <2>2. Pip(t, Id(pipe[t]))
    BY <1>1, <1>3, <2>1 DEF Pip
  <2> QED BY <1>1, <2>2 DEF Has
<1> QED BY <1>2, <1>3

(* Only Enqueue writes a job that is Scheduled. *)
LEMMA WritesScheduled ==
  ASSUME Inv, NEW t \in Threads, pipe[t] # <<>>, Sets(pipe[t]), pipe[t][1].data.status = "scheduled"
  PROVE  t = Caller /\ Nowhere(Id(pipe[t]))
<1>1. ThreadOK(t) /\ Shape(pipe[t])
  BY PipeFacts
<1>2. Writes(pipe[t]) /\ Id(pipe[t]) \in Jobs
  BY <1>1, ShapeFacts
<1>3. t = Caller
  BY <1>1, <1>2, ThreadFacts DEF ThreadOK, WorkerOK, RetryOK, SchedulerOK
<1>4. Enters(pipe[t])
  BY <1>1, <1>3 DEF ThreadOK, CallerOK
<1> QED BY <1>2, <1>3, <1>4 DEF Inv, FreshInv, Piped

(* A command changes nothing about the other jobs. *)
LEMMA ExecOthers ==
  ASSUME Inv, NEW t \in Threads, Exec(t), NEW j \in Jobs, j # Id(pipe[t])
  PROVE  /\ data'[j] = data[j] /\ (j \in pending' <=> j \in pending) /\ (j \in scheduled' <=> j \in scheduled)
         /\ (j \in dropped' <=> j \in dropped)
         /\ \A u \in Threads : /\ Mem(u, j)' <=> Mem(u, j)
                               /\ Pip(u, j)' <=> Pip(u, j)
                               /\ Piped(u, j)' <=> Piped(u, j)
                               /\ Copied(u, j)' <=> Copied(u, j)
                               /\ Knows(u, j)' <=> Knows(u, j)
                               /\ todo'[u] = todo[u]
<1>1. PICK s, x : s = pipe[t] /\ x = Id(s)
  OBVIOUS
<1>2. /\ s # <<>> /\ Shape(s) /\ x \in Jobs /\ s[1].cmd \in {"hset", "del", "zadd", "zrem"}
      /\ Writes(s) => /\ data' = [data EXCEPT ![x] = s[1].data]
                      /\ pending' = pending /\ scheduled' = scheduled
      /\ ~Writes(s) => data' = data
      /\ s[1].cmd = "zadd" => \/ s[1].set = "pending" /\ pending' = pending \cup {x} /\ scheduled' = scheduled
                              \/ s[1].set = "scheduled" /\ pending' = pending /\ scheduled' = scheduled \cup {x}
      /\ s[1].cmd = "zrem" => /\ pending' \subseteq pending /\ pending \ {x} \subseteq pending'
                              /\ scheduled' \subseteq scheduled /\ scheduled \ {x} \subseteq scheduled'
      /\ dropped' = IF s[1].cmd = "del" THEN dropped \cup {x} ELSE dropped
  BY <1>1, ExecServer
<1>3. j # x
  BY <1>1
<1>4. data'[j] = data[j]
  BY <1>2, <1>3 DEF Inv, TypeInv
<1>5. (j \in pending' <=> j \in pending) /\ (j \in scheduled' <=> j \in scheduled) /\ (j \in dropped' <=> j \in dropped)
  BY <1>2, <1>3 DEF Writes
<1>6. ASSUME NEW u \in Threads
      PROVE  /\ Mem(u, j)' <=> Mem(u, j)
             /\ Pip(u, j)' <=> Pip(u, j)
             /\ Piped(u, j)' <=> Piped(u, j)
             /\ Copied(u, j)' <=> Copied(u, j)
             /\ Knows(u, j)' <=> Knows(u, j)
             /\ todo'[u] = todo[u]
  <2>0. /\ at' = at /\ copy' = copy /\ todo' = todo /\ pipe'[t] = Tail(s) /\ \A v \in Threads : v # t => Same(v)
    BY <1>1, ExecThreads
  <2>1. CASE u # t
    BY <2>0, <2>1, SameView
  <2>2. CASE u = t
    <3>1. (Mem(t, j)' <=> Mem(t, j)) /\ (Copied(t, j)' <=> Copied(t, j))
      BY <2>0 DEF Mem, Copied
    <3>2. ~Piped(t, j)' /\ ~Piped(t, j)
      <4>1. Tail(s) # <<>> => Id(Tail(s)) = x
        BY <1>1, <1>2, TailFacts
      <4> QED BY <1>1, <1>3, <2>0, <4>1 DEF Piped
    <3>3. (Pip(t, j)' <=> Pip(t, j)) /\ (Knows(t, j)' <=> Knows(t, j))
      BY <2>0, <3>1, <3>2 DEF Pip, Knows
    <3> QED BY <2>0, <2>2, <3>1, <3>2, <3>3
  <2> QED BY <2>1, <2>2
<1> QED BY <1>4, <1>5, <1>6

(* A command of a pipeline keeps the types. *)
LEMMA ExecType ==
  ASSUME Inv, NEW t \in Threads, Exec(t)
  PROVE  TypeInv'
<1>1. PICK s, x : s = pipe[t] /\ x = Id(s)
  OBVIOUS
<1>2. /\ s # <<>> /\ Shape(s) /\ x \in Jobs /\ s[1].cmd \in {"hset", "del", "zadd", "zrem"}
      /\ Writes(s) => data' = [data EXCEPT ![x] = s[1].data]
      /\ ~Writes(s) => data' = data
  BY <1>1, ExecServer
<1>3. \A j \in Jobs : j # x => (j \in pending' <=> j \in pending) /\ (j \in scheduled' <=> j \in scheduled)
  BY <1>1, ExecOthers
<1>4. pending' \subseteq Jobs /\ scheduled' \subseteq Jobs
  <2>1. pending' \subseteq pending \cup {x} /\ scheduled' \subseteq scheduled \cup {x}
    <3>1. /\ Writes(s) => pending' = pending /\ scheduled' = scheduled
          /\ s[1].cmd = "zadd" => \/ pending' = pending \cup {x} /\ scheduled' = scheduled
                                  \/ pending' = pending /\ scheduled' = scheduled \cup {x}
          /\ s[1].cmd = "zrem" => pending' \subseteq pending /\ scheduled' \subseteq scheduled
      BY <1>1, ExecServer
    <3> QED BY <1>2, <3>1 DEF Writes
  <2> QED BY <1>2, <2>1 DEF Inv, TypeInv
<1>5. data' \in [Jobs -> JobRecords \cup {NoJob}] /\ \A j \in Jobs : data'[j] # NoJob => data'[j].id = j
  <2>1. CASE ~Writes(s)
    BY <1>2, <2>1 DEF Inv, TypeInv
  <2>2. CASE Writes(s)
    <3>1. s[1].data \in JobRecords \cup {NoJob} /\ (s[1].data # NoJob => s[1].data.id = x)
      BY <1>1, <1>2, <2>2, ShapeFacts DEF Writes, Sets
    <3> QED BY <1>2, <2>2, <3>1 DEF Inv, TypeInv
  <2> QED BY <2>1, <2>2
<1>6. at' = at /\ copy' = copy /\ todo' = todo /\ accepted' = accepted /\ pipe' \in [Threads -> Seq(Commands)]
  BY ExecThreads
<1> QED BY <1>4, <1>5, <1>6 DEF Inv, TypeInv

(* A command of a pipeline leaves every thread in order. *)
LEMMA ExecThreadInv ==
  ASSUME Inv, NEW t \in Threads, Exec(t)
  PROVE  ThreadInv'
<1>1. PICK s, x : s = pipe[t] /\ x = Id(s)
  OBVIOUS
<1>2. /\ s # <<>> /\ Shape(s) /\ x \in Jobs
      /\ Writes(s) => data' = [data EXCEPT ![x] = s[1].data]
      /\ ~Writes(s) => data' = data
      /\ dropped' = IF s[1].cmd = "del" THEN dropped \cup {x} ELSE dropped
  BY <1>1, ExecServer
<1>3. /\ at' = at /\ copy' = copy /\ todo' = todo /\ pipe'[t] = Tail(s) /\ \A v \in Threads : v # t => Same(v)
      /\ twice' = twice
  BY <1>1, ExecThreads
<1>4. data'[x] = IF Writes(s) THEN s[1].data ELSE data[x]
  BY <1>2 DEF Inv, TypeInv
<1>5. /\ Sets(s) => Writes(s) /\ s[1].data \in JobRecords /\ s[1].data # NoJob
      /\ Writes(s) /\ ~Sets(s) => s[1].cmd = "del" /\ s[1].data = NoJob
  BY <1>2, ShapeFacts, RedisAssumption DEF Writes, Sets
<1>6. dropped \subseteq dropped'
  BY <1>2
<1> SUFFICES ASSUME NEW u \in Threads PROVE ThreadOK(u)'
  BY DEF ThreadInv
<1>7. CASE u # t
  <2>1. Same(u) /\ ThreadOK(u) /\ Shape(pipe[u])
    BY <1>3, <1>7, PipeFacts
  <2>2. CASE u \notin Workers
    BY <2>1, <2>2, ThreadFacts, <1>6 DEF ThreadOK, RetryOK, SchedulerOK, CallerOK, Same
  <2>3. CASE u \in Workers
    <3>1. WorkerOK(u)
      BY <2>1, <2>3 DEF ThreadOK
    <3>2. PICK y : y = Id(pipe[u])
      OBVIOUS
    <3>3. pipe[u] # <<>> => y \in Jobs /\ (y # x => data'[y] = data[y])
      BY <1>1, <2>1, <3>2, ShapeFacts, ExecOthers
    (* Nobody else writes the data of a job that a worker has finished.    *)
    <3>4. ASSUME pipe[u] # <<>>, ~Writes(pipe[u]), at[u] = "idle"
          PROVE  Terminal(y)' \/ y \in dropped' \cup twice'
      <4>1. Terminal(y) \/ y \in dropped \cup twice
        BY <3>1, <3>2, <3>4 DEF WorkerOK
      <4>2. CASE y # x \/ ~Writes(s)
        <5>1. data'[y] = data[y]
          BY <1>2, <3>3, <3>4, <4>2
        <5> QED BY <1>3, <1>6, <4>1, <5>1 DEF Terminal
      <4>3. CASE y = x /\ Writes(s) /\ ~Sets(s)
        BY <1>2, <1>5, <4>3
      <4>4. CASE y = x /\ Sets(s) /\ y \notin twice
        <5>1. Has("pipe", u, x)
          BY <2>3, <3>2, <3>4, <4>4 DEF Has, Pip, Piped
        <5>2. PICK k \in Kinds : Has(k, t, x)
          BY <1>1, <1>2, <4>4, WriterHas
        <5>3. One(x) /\ "pipe" \in Kinds
          BY <1>2, <4>4 DEF Inv, TokenInv, TokenOK, Kinds
        <5> QED BY <1>7, <5>1, <5>2, <5>3 DEF One
      <4>5. CASE y = x /\ y \in twice
        BY <1>3, <4>5
      <4> QED BY <4>2, <4>3, <4>4, <4>5
    <3>5. ASSUME pipe[u] # <<>>, ~Writes(pipe[u]), at[u] = "park"
          PROVE  NotScheduled(y)'
      <4>1. NotScheduled(y) /\ Mem(u, y)
        BY <2>3, <3>1, <3>2, <3>5 DEF WorkerOK, Mem
      <4>2. CASE y # x \/ ~Writes(s)
        <5>1. data'[y] = data[y]
          BY <1>2, <3>3, <3>5, <4>2
        <5> QED BY <4>1, <5>1 DEF NotScheduled
      <4>3. CASE y = x /\ Writes(s) /\ ~Sets(s)
        BY <1>4, <1>5, <4>3 DEF NotScheduled
      <4>4. CASE y = x /\ Sets(s)
        <5>1. s[1].data.status # "scheduled"
          BY <1>1, <1>2, <4>1, <4>4, WritesScheduled DEF Nowhere, Knows
        <5> QED BY <1>4, <1>5, <4>4, <5>1 DEF NotScheduled
      <4> QED BY <4>2, <4>3, <4>4
    <3>6. pipe'[u] = pipe[u] /\ at'[u] = at[u] /\ copy'[u] = copy[u] /\ todo'[u] = todo[u]
      BY <2>1 DEF Same
    <3>7. WorkerOK(u)'
      <4>1. pipe'[u] # <<>> /\ ~Writes(pipe'[u]) /\ at'[u] = "idle" =>
              Terminal(Id(pipe[u]))' \/ Id(pipe'[u]) \in dropped' \cup twice'
        BY <3>2, <3>4, <3>6 DEF Terminal
      <4>2. pipe'[u] # <<>> /\ ~Writes(pipe'[u]) /\ at'[u] = "park" => NotScheduled(Id(pipe[u]))'
        BY <3>2, <3>5, <3>6 DEF NotScheduled
      <4> QED BY <3>1, <3>6, <4>1, <4>2 DEF WorkerOK
    <3> QED BY <2>3, <3>7, ThreadFacts DEF ThreadOK
  <2> QED BY <2>2, <2>3
<1>8. CASE u = t
  <2>1. PICK r : r = Tail(s)
    OBVIOUS
  <2>2. /\ Shape(r) /\ pipe'[t] = r
        /\ r # <<>> => Id(r) = x /\ ~Writes(r) /\ ~Sets(r) /\ (Adds(r) <=> Adds(s)) /\ To(r) = To(s)
    BY <1>1, <1>2, <1>3, <2>1, TailFacts
  <2>3. ThreadOK(t)
    BY PipeFacts
  <2>4. CASE t \in Workers
    <3>1. WorkerOK(t)
      BY <2>3, <2>4 DEF ThreadOK
    <3>2. r # <<>> /\ at[t] = "idle" => Terminal(x)' \/ x \in dropped' \cup twice'
      <4>1. CASE Writes(s)
        BY <1>1, <1>2, <1>4, <1>5, <3>1, <4>1 DEF WorkerOK, Terminal
      <4>2. CASE ~Writes(s)
        BY <1>1, <1>2, <1>3, <1>6, <3>1, <4>2 DEF WorkerOK, Terminal
      <4> QED BY <4>1, <4>2
    <3>3. r # <<>> /\ at[t] = "park" => NotScheduled(x)'
      <4>1. CASE Writes(s)
        BY <1>1, <1>2, <1>4, <1>5, <3>1, <4>1 DEF WorkerOK, NotScheduled
      <4>2. CASE ~Writes(s)
        BY <1>1, <1>2, <1>3, <3>1, <4>2 DEF WorkerOK, NotScheduled
      <4> QED BY <4>1, <4>2
    <3>4. r # <<>> => Terminal(Id(pipe[t]))' = Terminal(x)' /\ NotScheduled(Id(pipe[t]))' = NotScheduled(x)'
      BY <2>2 DEF Terminal, NotScheduled
    <3>5. WorkerOK(t)'
      BY <1>1, <1>2, <1>3, <2>2, <3>1, <3>2, <3>3, <3>4 DEF WorkerOK
    <3> QED BY <1>8, <2>4, <3>5, ThreadFacts DEF ThreadOK
  <2>5. CASE t \in Retries
    <3>1. RetryOK(t)'
      BY <1>1, <1>2, <1>3, <2>2, <2>3, <2>5 DEF ThreadOK, RetryOK
    <3> QED BY <1>8, <2>5, <3>1, ThreadFacts DEF ThreadOK
  <2>6. CASE t \in Schedulers
    <3>1. SchedulerOK(t)'
      BY <1>1, <1>2, <1>3, <2>2, <2>3, <2>6 DEF ThreadOK, SchedulerOK
    <3> QED BY <1>8, <2>6, <3>1, ThreadFacts DEF ThreadOK
  <2>7. CASE t = Caller
    <3>1. CallerOK(t)
      BY <2>3, <2>7 DEF ThreadOK
    <3>2. r # <<>> /\ ~Adds(r) => x \in dropped'
      BY <1>1, <1>2, <2>2, <3>1 DEF CallerOK
    <3>3. CallerOK(t)'
      BY <2>2, <3>2 DEF CallerOK
    <3> QED BY <1>8, <2>7, <3>3, ThreadFacts DEF ThreadOK
  <2> QED BY <2>4, <2>5, <2>6, <2>7, ThreadFacts
<1> QED BY <1>7, <1>8

(* The right to run a job goes with the command that adds it to "pending". *)
LEMMA ExecTokenInv ==
  ASSUME Inv, NEW t \in Threads, Exec(t)
  PROVE  TokenInv'
<1>1. PICK s, x : s = pipe[t] /\ x = Id(s)
  OBVIOUS
<1>2. /\ s # <<>> /\ Shape(s) /\ x \in Jobs /\ s[1].cmd \in {"hset", "del", "zadd", "zrem"}
      /\ Writes(s) => /\ data' = [data EXCEPT ![x] = s[1].data]
                      /\ pending' = pending /\ scheduled' = scheduled
      /\ ~Writes(s) => data' = data
      /\ s[1].cmd = "zadd" => \/ s[1].set = "pending" /\ pending' = pending \cup {x} /\ scheduled' = scheduled
                              \/ s[1].set = "scheduled" /\ pending' = pending /\ scheduled' = scheduled \cup {x}
      /\ s[1].cmd = "zrem" => /\ pending' \subseteq pending /\ pending \ {x} \subseteq pending'
                              /\ scheduled' \subseteq scheduled /\ scheduled \ {x} \subseteq scheduled'
  BY <1>1, ExecServer
<1>3. /\ at' = at /\ copy' = copy /\ todo' = todo /\ pipe'[t] = Tail(s) /\ \A v \in Threads : v # t => Same(v)
      /\ twice' = twice /\ released' = released
  BY <1>1, ExecThreads
<1>4. PICK r : r = Tail(s)
  OBVIOUS
<1>5. /\ r # <<>> => Id(r) = x /\ (Adds(r) <=> Adds(s))
      /\ r = <<>> => ~Writes(s) /\ (Adds(s) <=> s[1].cmd = "zadd") /\ To(s) = s[1].set
      /\ s[1].cmd = "zadd" => r = <<>>
  BY <1>1, <1>2, <1>4, TailFacts
<1>6. ThreadOK(t) /\ Piped(t, x)
  BY <1>1, <1>2, PipeFacts DEF Piped
<1> SUFFICES ASSUME NEW j \in Jobs \ twice PROVE TokenOK(j)'
  BY <1>3 DEF TokenInv
<1>7. TokenOK(j) /\ One(j)
  BY DEF Inv, TokenInv, TokenOK
<1>8. CASE j # x
  <2>1. /\ data'[j] = data[j] /\ (j \in pending' <=> j \in pending) /\ (j \in scheduled' <=> j \in scheduled)
        /\ \A u \in Threads : /\ Mem(u, j)' <=> Mem(u, j)
                              /\ Pip(u, j)' <=> Pip(u, j)
                              /\ Copied(u, j)' <=> Copied(u, j)
    BY <1>1, <1>8, ExecOthers
  <2>2. \A k \in Kinds, u \in Threads : Has(k, u, j)' => Has(k, u, j)
    BY <2>1 DEF Has
  <2>3. Waits(j)' => Waits(j)
    <3>1. NotScheduled(j)' <=> NotScheduled(j)
      BY <2>1 DEF NotScheduled
    <3>2. Listed(j)' <=> Listed(j)
      BY <1>3, <2>1 DEF Listed
    <3>3. \A u \in Schedulers : Copied(u, j)' <=> Copied(u, j)
      BY <2>1, ThreadFacts
    <3> QED BY <3>1, <3>2, <3>3 DEF Waits
  <2>4. One(j)' /\ (NoToken(j) => NoToken(j)')
    BY <1>7, <2>2, TokenKept
  <2> QED BY <1>3, <1>7, <2>3, <2>4 DEF TokenOK
<1>9. CASE j = x
  <2>1. ASSUME NEW k \in Kinds, NEW u \in Threads, Has(k, u, x)', k # "pending"
        PROVE  Has(k, u, x) /\ (k = "pipe" /\ u = t => r # <<>>)
    <3>1. CASE u # t
      BY <1>3, <2>1, <3>1, SameView DEF Has
    <3>2. CASE u = t /\ k = "memory"
      BY <1>3, <2>1, <3>2 DEF Has, Mem
    <3>3. CASE u = t /\ k = "pipe"
      <4>1. Pip(t, x)'
        BY <2>1, <3>3 DEF Has
      <4>2. r # <<>>
        BY <1>3, <1>4, <4>1 DEF Pip, Piped
      <4>3. Pip(t, x)
        BY <1>1, <1>3, <1>4, <1>5, <1>6, <4>1, <4>2 DEF Pip
      <4> QED BY <3>3, <4>2, <4>3 DEF Has
    <3> QED BY <2>1, <3>1, <3>2, <3>3 DEF Kinds
  <2>2. \A u \in Schedulers : Copied(u, x)' <=> Copied(u, x)
    BY <1>3 DEF Copied
  <2>3. Listed(x)' => Listed(x) \/ x \in scheduled'
    BY <1>3 DEF Listed
  <2>4. t \notin Workers /\ s[1].cmd = "zadd" => Has("pipe", t, x) /\ "pipe" \in Kinds /\ ~Has("pipe", t, x)'
    <3>1. t \notin Workers /\ s[1].cmd = "zadd" => Pip(t, x)
      BY <1>1, <1>5, <1>6 DEF Pip
    <3>2. "pipe" \in Kinds
      BY DEF Kinds
    <3> QED BY <1>5, <2>1, <3>1, <3>2 DEF Has
  <2>5. CASE s[1].cmd = "zadd" /\ s[1].set = "pending"
    <3>1. t \notin Workers
      BY <1>1, <1>2, <1>5, <1>6, <2>5 DEF ThreadOK, WorkerOK
    <3>2. Has("pipe", t, x) /\ "pipe" \in Kinds /\ ~Has("pipe", t, x)'
      BY <2>4, <2>5, <3>1
    <3>3. ASSUME NEW k \in Kinds, NEW u \in Threads, Has(k, u, x)'
          PROVE  (k = "pending" /\ u = Caller) \/ (Has(k, u, x) /\ ~(k = "pipe" /\ u = t))
      <4>1. CASE k = "pending"
        BY <3>3, <4>1 DEF Has
      <4>2. CASE k # "pending"
        BY <2>1, <3>2, <3>3, <4>2
      <4> QED BY <4>1, <4>2
    <3>4. "pending" \in Kinds /\ Caller \in Threads
      BY ThreadFacts DEF Kinds
    <3>5. One(x)'
      BY <1>7, <1>9, <3>2, <3>3, <3>4, TokenPassed
    <3>6. Waits(x)' => Waits(x)
      <4>1. NotScheduled(x)' <=> NotScheduled(x)
        BY <1>2, <2>5 DEF NotScheduled, Writes
      <4>2. Listed(x)' => Listed(x)
        BY <1>2, <2>3, <2>5 DEF Listed
      <4> QED BY <2>2, <4>1, <4>2 DEF Waits
    <3>7. ~NoToken(x)
      BY <3>2 DEF NoToken
    <3> QED BY <1>3, <1>7, <1>9, <3>5, <3>6, <3>7 DEF TokenOK
  <2>6. CASE ~(s[1].cmd = "zadd" /\ s[1].set = "pending")
    <3>1. x \in pending' => x \in pending
      BY <1>2, <2>6 DEF Writes
    <3>2. \A k \in Kinds, u \in Threads : Has(k, u, x)' => Has(k, u, x)
      BY <2>1, <3>1 DEF Has
    <3>3. One(x)' /\ (NoToken(x) => NoToken(x)')
      BY <1>7, <1>9, <3>2, TokenKept
    <3>4. CASE s[1].cmd = "zadd" /\ t \notin Workers
      <4>1. Has("pipe", t, x) /\ "pipe" \in Kinds /\ ~Has("pipe", t, x)'
        BY <2>4, <3>4
      <4>2. NoToken(x)'
        BY <1>7, <1>9, <3>2, <4>1 DEF NoToken, One
      <4> QED BY <1>9, <3>3, <4>2 DEF TokenOK
    <3>5. CASE s[1].cmd = "zadd" /\ t \in Workers
      <4>1. NotScheduled(x) /\ ~Writes(s)
        BY <1>1, <1>2, <1>5, <1>6, <3>5 DEF ThreadOK, WorkerOK
      <4>2. NotScheduled(x)'
        BY <1>2, <4>1 DEF NotScheduled
      <4>3. Waits(x)' => Waits(x)
        BY <2>2, <4>2 DEF Waits
      <4> QED BY <1>3, <1>7, <1>9, <3>3, <4>3 DEF TokenOK
    <3>6. CASE s[1].cmd = "zrem"
      <4>1. NotScheduled(x)' <=> NotScheduled(x)
        BY <1>2, <3>6 DEF NotScheduled, Writes
      <4>2. Listed(x)' => Listed(x)
        BY <1>2, <2>3, <3>6 DEF Listed
      <4>3. Waits(x)' => Waits(x)
        BY <2>2, <4>1, <4>2 DEF Waits
      <4> QED BY <1>3, <1>7, <1>9, <3>3, <4>3 DEF TokenOK
    <3>7. CASE Writes(s)
      <4>1. data'[x] = s[1].data /\ scheduled' = scheduled
        BY <1>2, <3>7 DEF Inv, TypeInv
      <4>2. CASE Sets(s) /\ s[1].data.status = "scheduled"
        <5>1. Nowhere(x)
          BY <1>1, <1>2, <4>2, WritesScheduled
        <5>2. \A u \in Schedulers : ~Copied(u, x)
          BY <5>1, ThreadFacts DEF Nowhere, Knows
        <5>3. ~Listed(x)
          <6>1. \A u \in Schedulers \cup {Caller} : u \in Threads
            BY ThreadFacts
          <6> QED BY <5>1, <6>1 DEF Nowhere, Knows, Listed
        <5>4. ~Waits(x)'
          BY <2>2, <2>3, <4>1, <5>1, <5>2, <5>3 DEF Waits, Nowhere
        <5> QED BY <1>9, <3>3, <5>4 DEF TokenOK
      <4>3. CASE ~(Sets(s) /\ s[1].data.status = "scheduled")
        <5>1. ~Sets(s) => s[1].data = NoJob
          BY <1>2, <3>7, ShapeFacts DEF Writes, Sets
        <5>2. NotScheduled(x)'
          BY <4>1, <4>3, <5>1 DEF NotScheduled
        <5>3. Waits(x)' => Waits(x)
          BY <2>2, <5>2 DEF Waits
        <5> QED BY <1>3, <1>7, <1>9, <3>3, <5>3 DEF TokenOK
      <4> QED BY <4>2, <4>3
    <3> QED BY <1>2, <3>4, <3>5, <3>6, <3>7 DEF Writes
  <2> QED BY <2>5, <2>6
<1> QED BY <1>8, <1>9

(* No pipeline makes a job that is not accepted known. *)
LEMMA ExecFreshInv ==
  ASSUME Inv, NEW t \in Threads, Exec(t)
  PROVE  FreshInv'
<1>1. PICK s, x : s = pipe[t] /\ x = Id(s)
  OBVIOUS
<1>2. s # <<>> /\ Shape(s) /\ x \in Jobs /\ Piped(t, x)
  BY <1>1, ExecServer DEF Piped
<1>3. /\ pipe'[t] = Tail(s) /\ \A v \in Threads : v # t => Same(v)
      /\ accepted' = accepted
  BY <1>1, ExecThreads
<1>4. ASSUME NEW j \in Jobs, j # x
      PROVE  /\ Nowhere(j) => Nowhere(j)'
             /\ data'[j] = data[j] /\ (Piped(Caller, j)' <=> Piped(Caller, j))
  BY <1>1, <1>4, ExecOthers, ThreadFacts DEF Nowhere
<1>5. t # Caller => ~Nowhere(x)
  BY <1>2 DEF Nowhere, Knows
<1>6. x \in accepted
  BY <1>2, <1>5 DEF Inv, FreshInv
<1>7. \A j \in Jobs \ accepted' : Nowhere(j)' /\ data'[j] = NoJob /\ ~Piped(Caller, j)'
  BY <1>3, <1>4, <1>6 DEF Inv, FreshInv
<1>8. ASSUME NEW j \in Jobs, Piped(Caller, j)', Enters(pipe'[Caller])
      PROVE  Nowhere(j)'
  <2>1. t # Caller
    BY <1>2, <1>3, <1>8, TailFacts DEF Piped
  <2>2. Same(Caller)
    BY <1>3, <2>1, ThreadFacts
  <2>3. Piped(Caller, j) /\ Enters(pipe[Caller])
    BY <1>8, <2>2, SameView DEF Same
  <2>4. Nowhere(j)
    BY <2>3 DEF Inv, FreshInv
  <2> QED BY <1>4, <1>5, <2>1, <2>4
<1> QED BY <1>7, <1>8 DEF FreshInv

(* An accepted job has its data until it is deleted, whatever pipelines run. *)
LEMMA ExecStoredInv ==
  ASSUME Inv, NEW t \in Threads, Exec(t)
  PROVE  StoredInv'
<1>1. PICK s, x : s = pipe[t] /\ x = Id(s)
  OBVIOUS
<1>2. /\ s # <<>> /\ Shape(s) /\ x \in Jobs /\ Piped(t, x)
      /\ Writes(s) => data' = [data EXCEPT ![x] = s[1].data]
      /\ ~Writes(s) => data' = data
      /\ dropped' = IF s[1].cmd = "del" THEN dropped \cup {x} ELSE dropped
  BY <1>1, ExecServer DEF Piped
<1>3. accepted' = accepted /\ \A v \in Threads : v # t => Same(v)
  BY ExecThreads
<1> SUFFICES ASSUME NEW j \in accepted' \ dropped', data'[j] = NoJob
             PROVE  Piped(Caller, j)' /\ Enters(pipe'[Caller])
  BY DEF StoredInv
<1>4. j \in Jobs /\ j \in accepted \ dropped
  BY <1>2, <1>3 DEF Inv, TypeInv
<1>5. CASE j # x
  <2>1. data[j] = NoJob
    BY <1>1, <1>4, <1>5, ExecOthers
  <2>2. Piped(Caller, j) /\ Enters(pipe[Caller])
    BY <1>4, <2>1 DEF Inv, StoredInv
  <2>3. t # Caller
    BY <1>1, <1>5, <2>2 DEF Piped
  <2>4. Same(Caller)
    BY <1>3, <2>3, ThreadFacts
  <2> QED BY <2>2, <2>4, SameView DEF Same
<1>6. CASE j = x
  <2>1. ~Writes(s)
    <3>1. SUFFICES ASSUME Writes(s) PROVE FALSE
      OBVIOUS
    <3>2. s[1].data = NoJob /\ s[1].cmd # "del"
      BY <1>2, <1>6, <3>1 DEF Inv, TypeInv
    <3>3. Sets(s)
      BY <3>1, <3>2 DEF Writes, Sets
    <3> QED BY <1>2, <3>2, <3>3, ShapeFacts, RedisAssumption
  <2>2. Piped(Caller, x) /\ Enters(pipe[Caller])
    BY <1>2, <1>4, <1>6, <2>1 DEF Inv, StoredInv
  <2>3. Nowhere(x)
    BY <1>2, <2>2 DEF Inv, FreshInv
  <2>4. t = Caller
    BY <1>2, <2>3 DEF Nowhere, Knows
  <2> QED BY <1>1, <2>1, <2>2, <2>4 DEF Enters, Sets, Writes
<1> QED BY <1>5, <1>6

(* A job that a pipeline takes from a set is still in the rest of a pipeline. *)
LEMMA ExecKeptInv ==
  ASSUME Inv, NEW t \in Threads, Exec(t)
  PROVE  KeptInv'
<1>1. PICK s, x : s = pipe[t] /\ x = Id(s)
  OBVIOUS
<1>2. /\ s # <<>> /\ Shape(s) /\ x \in Jobs /\ s[1].cmd \in {"hset", "del", "zadd", "zrem"}
      /\ ~Writes(s) => data' = data
      /\ s[1].cmd = "zadd" => x \in pending' \/ x \in scheduled'
      /\ dropped \subseteq dropped'
  BY <1>1, ExecServer
<1>3. at' = at /\ copy' = copy /\ todo' = todo /\ accepted' = accepted /\ twice' = twice /\ pipe'[t] = Tail(s)
  BY <1>1, ExecThreads
<1> SUFFICES ASSUME NEW j \in accepted \ (dropped' \cup twice) PROVE Kept(j)'
  BY <1>3 DEF KeptInv
<1>4. j \in Jobs /\ j \notin dropped /\ j \notin twice /\ Kept(j)
  BY <1>2 DEF Inv, TypeInv, KeptInv
<1>5. CASE j # x
  <2>1. /\ data'[j] = data[j] /\ (j \in pending' <=> j \in pending) /\ (j \in scheduled' <=> j \in scheduled)
        /\ \A u \in Threads : (Mem(u, j)' <=> Mem(u, j)) /\ (Piped(u, j)' <=> Piped(u, j))
    BY <1>1, <1>4, <1>5, ExecOthers
  <2> QED BY <1>4, <2>1 DEF Kept, Terminal
<1>6. CASE j = x
  <2>1. CASE Tail(s) # <<>>
    <3>1. Id(Tail(s)) = x
      BY <1>2, <1>1, <2>1, TailFacts
    <3>2. Piped(t, x)'
      BY <1>3, <2>1, <3>1 DEF Piped
    <3> QED BY <1>6, <3>2 DEF Kept
  <2>2. CASE Tail(s) = <<>>
    <3>1. ~Writes(s) /\ (Adds(s) <=> s[1].cmd = "zadd")
      BY <1>2, <2>2, TailFacts
    <3>2. CASE Adds(s)
      BY <1>2, <1>6, <3>1, <3>2 DEF Kept
    <3>3. CASE ~Adds(s)
      <4>1. ThreadOK(t) /\ s[1].cmd # "del"
        BY <3>1, PipeFacts DEF Writes
      <4>2. t \in Workers
        BY <1>1, <1>2, <1>4, <1>6, <3>3, <4>1, ThreadFacts DEF ThreadOK, RetryOK, SchedulerOK, CallerOK
      <4>3. WorkerOK(t)
        BY <4>1, <4>2 DEF ThreadOK
      <4>4. CASE at[t] = "idle"
        <5>1. Terminal(x)
          BY <1>1, <1>2, <1>4, <1>6, <3>1, <4>3, <4>4 DEF WorkerOK
        <5> QED BY <1>2, <1>6, <3>1, <5>1 DEF Kept, Terminal
      <4>5. CASE at[t] \in {"handler", "park"}
        <5>1. Mem(t, x)'
          BY <1>1, <1>2, <1>3, <4>2, <4>3, <4>5 DEF WorkerOK, Mem
        <5> QED BY <1>6, <5>1 DEF Kept
      <4> QED BY <1>1, <1>2, <4>3, <4>4, <4>5 DEF WorkerOK
    <3> QED BY <3>2, <3>3
  <2> QED BY <2>1, <2>2
<1> QED BY <1>5, <1>6

(* A command of a pipeline (redis.go:67-72) keeps the invariant. *)
LEMMA ExecInv ==
  ASSUME Inv, NEW t \in Threads, Exec(t)
  PROVE  Inv'
<1>1. ParkInv'
  <2>1. at' = at
    BY DEF Exec
  <2> QED BY <2>1 DEF Inv, ParkInv, Worker, Retry
<1> QED BY <1>1, ExecType, ExecThreadInv, ExecTokenInv, ExecFreshInv, ExecStoredInv, ExecKeptInv DEF Inv

(* A call that fails half-way (redis.go:67-70, 184-187) takes no right to  *)
(* run a job, and loses its job only if it was to add it to a set or to    *)
(* record that it is finished.                                             *)
LEMMA PipeFailsInv ==
  ASSUME Inv, NEW t \in Threads, PipeFails(t)
  PROVE  Inv'
<1>1. PICK s, x : s = pipe[t] /\ x = Id(s)
  OBVIOUS
<1>2. s # <<>> /\ Shape(s) /\ x \in Jobs /\ ThreadOK(t)
  BY <1>1, PipeFacts, ShapeFacts DEF PipeFails
<1>3. /\ data' = data /\ scheduled' = scheduled /\ pending' = pending
      /\ at' = at /\ copy' = copy /\ todo' = todo
      /\ accepted' = accepted /\ released' = released /\ twice' = twice
  BY DEF PipeFails, serverVars
<1>4. pipe' = [pipe EXCEPT ![t] = <<>>] /\ dropped \subseteq dropped'
  BY DEF PipeFails
<1>5. pipe'[t] = <<>> /\ \A u \in Threads : u # t => Same(u)
  BY <1>3, <1>4 DEF Inv, TypeInv, Same
<1>6. /\ ~(t \in Workers /\ at[t] # "idle") /\ (Writes(s) \/ Adds(s)) => x \in dropped'
  <2>1. CASE ~(t \in Workers /\ at[t] # "idle") /\ (Writes(s) \/ Adds(s))
    <3>1. ~(t[2] = "worker" /\ at[t] # "idle")
      BY <2>1 DEF Threads, Caller, Workers
    <3>2. dropped' = dropped \cup {s[i].id : i \in {n \in DOMAIN s : s[n].cmd # "zrem"}}
      BY <1>1, <3>1 DEF PipeFails
    <3>3. s \in Seq(Commands) /\ Len(s) \in Nat /\ Len(s) >= 1 /\ DOMAIN s = 1..Len(s)
      BY <1>2 DEF Shape
    <3>4. PICK i \in DOMAIN s : s[i].cmd # "zrem"
      <4>1. 1 \in DOMAIN s /\ Len(s) \in DOMAIN s
        BY <3>3
      <4> QED BY <2>1, <4>1 DEF Writes, Adds
    <3>5. s[i].id = x
      BY <1>1, <1>2, <3>3, <3>4 DEF Shape, Id
    <3> QED BY <3>2, <3>4, <3>5
  <2> QED BY <2>1
<1>7. TypeInv' /\ ParkInv'
  <2>1. pipe' \in [Threads -> Seq(Commands)]
    <3>1. <<>> \in Seq(Commands)
      OBVIOUS
    <3> QED BY <1>4, <3>1 DEF Inv, TypeInv
  <2>2. TypeInv'
    BY <1>3, <2>1 DEF Inv, TypeInv
  <2> QED BY <1>3, <2>2 DEF Inv, ParkInv, Worker, Retry
<1>8. ThreadInv'
  <2> SUFFICES ASSUME NEW u \in Threads PROVE ThreadOK(u)'
    BY DEF ThreadInv
  <2>1. CASE u # t
    BY <1>3, <1>4, <1>5, <2>1, SameOK DEF Inv, ThreadInv
  <2>2. CASE u = t
    <3>1. t \in Workers => WorkerOK(t)'
      BY <1>2, <1>3, <1>5, EmptyShape DEF ThreadOK, WorkerOK
    <3>2. t \in Retries => RetryOK(t)'
      BY <1>2, <1>3, <1>5, EmptyShape DEF ThreadOK, RetryOK
    <3>3. t \in Schedulers => SchedulerOK(t)'
      BY <1>2, <1>3, <1>5, EmptyShape DEF ThreadOK, SchedulerOK
    <3>4. t = Caller => CallerOK(t)'
      BY <1>5, EmptyShape DEF CallerOK
    <3> QED BY <2>2, <3>1, <3>2, <3>3, <3>4 DEF ThreadOK
  <2> QED BY <2>1, <2>2
<1>9. ASSUME NEW u \in Threads, NEW j
      PROVE  /\ (Mem(u, j)' <=> Mem(u, j)) /\ (Copied(u, j)' <=> Copied(u, j))
             /\ (Piped(u, j)' <=> Piped(u, j) /\ u # t)
             /\ (Pip(u, j)' => Pip(u, j)) /\ (Knows(u, j)' => Knows(u, j))
  <2>1. (Mem(u, j)' <=> Mem(u, j)) /\ (Copied(u, j)' <=> Copied(u, j))
    BY <1>3 DEF Mem, Copied
  <2>2. CASE u # t
    BY <1>5, <2>1, <2>2, SameView
  <2>3. CASE u = t
    <3>1. ~Piped(u, j)'
      BY <1>5, <2>3 DEF Piped
    <3> QED BY <1>3, <2>1, <2>3, <3>1 DEF Pip, Knows
  <2> QED BY <2>2, <2>3
<1>10. ASSUME NEW j
       PROVE  (Waits(j)' => Waits(j)) /\ (Nowhere(j) => Nowhere(j)')
  <2>1. (NotScheduled(j)' <=> NotScheduled(j)) /\ (Listed(j)' <=> Listed(j))
    BY <1>3 DEF NotScheduled, Listed
  <2>2. Waits(j)' => Waits(j)
    BY <1>9, <2>1, ThreadFacts DEF Waits
  <2> QED BY <1>3, <1>9, <2>2 DEF Nowhere
<1>11. TokenInv'
  <2> SUFFICES ASSUME NEW j \in Jobs \ twice PROVE TokenOK(j)'
    BY <1>3 DEF TokenInv
  <2>1. TokenOK(j)
    BY DEF Inv, TokenInv
  <2>2. \A k \in Kinds, u \in Threads : Has(k, u, j)' => Has(k, u, j)
    BY <1>3, <1>9 DEF Has
  <2>3. One(j)' /\ (NoToken(j) => NoToken(j)')
    BY <2>1, <2>2, TokenKept DEF TokenOK
  <2> QED BY <1>3, <1>10, <2>1, <2>3 DEF TokenOK
<1>12. \A j : Piped(Caller, j)' => Piped(Caller, j) /\ t # Caller /\ Same(Caller)
  BY <1>5, <1>9, ThreadFacts
<1>13. FreshInv'
  BY <1>3, <1>10, <1>12 DEF Inv, FreshInv, Same
<1>14. StoredInv'
  <2> SUFFICES ASSUME NEW j \in accepted \ dropped', data[j] = NoJob
               PROVE  Piped(Caller, j)' /\ Enters(pipe'[Caller])
    BY <1>3 DEF StoredInv
  <2>1. Piped(Caller, j) /\ Enters(pipe[Caller])
    BY <1>4 DEF Inv, StoredInv
  <2>2. t # Caller
    <3> SUFFICES ASSUME t = Caller PROVE FALSE
      OBVIOUS
    <3>1. x = j /\ Writes(s)
      BY <1>1, <2>1 DEF Piped, Enters, Sets, Writes
    <3> QED BY <1>6, <3>1, ThreadFacts
  <2>3. Same(Caller)
    BY <1>5, <2>2, ThreadFacts
  <2> QED BY <2>1, <2>3, SameView DEF Same
<1>15. KeptInv'
  <2> SUFFICES ASSUME NEW j \in accepted \ (dropped' \cup twice) PROVE Kept(j)'
    BY <1>3 DEF KeptInv
  <2>1. Kept(j) /\ j \in Jobs /\ j \notin dropped
    BY <1>4 DEF Inv, KeptInv, TypeInv
  <2>2. CASE Piped(t, j)
    <3>1. j = x
      BY <1>1, <2>2 DEF Piped
    <3>2. CASE t \in Workers /\ at[t] # "idle"
      <4>1. WorkerOK(t)
        BY <1>2, <3>2 DEF ThreadOK
      <4>2. Mem(t, j)
        BY <1>1, <1>2, <3>1, <3>2, <4>1 DEF WorkerOK, Mem
      <4> QED BY <1>9, <4>2 DEF Kept
    <3>3. CASE ~(t \in Workers /\ at[t] # "idle")
      <4>1. ~Writes(s) /\ ~Adds(s)
        BY <1>6, <3>1, <3>3
      <4>2. s[1].cmd # "del"
        BY <4>1 DEF Writes
      <4>3. t \in Workers
        BY <1>1, <1>2, <2>1, <3>1, <4>1, <4>2, ThreadFacts DEF ThreadOK, RetryOK, SchedulerOK, CallerOK
      <4>4. WorkerOK(t) /\ at[t] = "idle"
        BY <1>2, <3>3, <4>3 DEF ThreadOK
      <4>5. Terminal(j)
        BY <1>1, <1>2, <2>1, <3>1, <4>1, <4>4 DEF WorkerOK
      <4> QED BY <1>3, <4>5 DEF Kept, Terminal
    <3> QED BY <3>2, <3>3
  <2>3. CASE ~Piped(t, j)
    <3>1. \A u \in Threads : Piped(u, j) => Piped(u, j)'
      BY <1>9, <2>3
    <3> QED BY <1>3, <1>9, <2>1, <3>1 DEF Kept, Terminal
  <2> QED BY <2>2, <2>3
<1> QED BY <1>7, <1>8, <1>11, <1>13, <1>14, <1>15 DEF Inv

-----------------------------------------------------------------------------
(* The theorems *)

(* A step that leaves server, threads and history alone keeps the invariant. *)
LEMMA QuietInv ==
  ASSUME Inv, UNCHANGED <<serverVars, threadVars, historyVars>>
  PROVE  Inv'
<1>1. /\ data' = data /\ scheduled' = scheduled /\ pending' = pending
      /\ at' = at /\ copy' = copy /\ todo' = todo /\ pipe' = pipe
      /\ accepted' = accepted /\ dropped' = dropped /\ released' = released /\ twice' = twice
  BY DEF serverVars, threadVars, historyVars
<1>2. \A u \in Threads : Same(u)
  BY <1>1 DEF Same
<1>3. TypeInv' /\ ParkInv'
  BY <1>1 DEF Inv, TypeInv, ParkInv, Worker, Retry
<1>4. ThreadInv'
  BY <1>1, <1>2, SameOK DEF Inv, ThreadInv
<1>5. ASSUME NEW j
      PROVE  /\ \A k \in Kinds, u \in Threads : Has(k, u, j)' => Has(k, u, j)
             /\ (Waits(j)' => Waits(j)) /\ (Nowhere(j) => Nowhere(j)') /\ (Kept(j) => Kept(j)')
             /\ (Piped(Caller, j)' <=> Piped(Caller, j))
  <2>1. \A u \in Threads : /\ Mem(u, j)' <=> Mem(u, j)
                           /\ Pip(u, j)' <=> Pip(u, j)
                           /\ Piped(u, j)' <=> Piped(u, j)
                           /\ Copied(u, j)' <=> Copied(u, j)
                           /\ Knows(u, j)' <=> Knows(u, j)
    BY <1>2, SameView
  <2>2. \A k \in Kinds, u \in Threads : Has(k, u, j)' => Has(k, u, j)
    BY <1>1, <2>1 DEF Has
  <2>3. (NotScheduled(j)' <=> NotScheduled(j)) /\ (Listed(j)' <=> Listed(j)) /\ (Terminal(j)' <=> Terminal(j))
    BY <1>1 DEF NotScheduled, Listed, Terminal
  <2>4. Waits(j)' => Waits(j)
    BY <2>1, <2>3, ThreadFacts DEF Waits
  <2>5. (Nowhere(j) => Nowhere(j)') /\ (Kept(j) => Kept(j)')
    BY <1>1, <2>1, <2>3 DEF Nowhere, Kept
  <2> QED BY <2>1, <2>2, <2>4, <2>5, ThreadFacts
<1>6. TokenInv'
  <2> SUFFICES ASSUME NEW j \in Jobs \ twice PROVE TokenOK(j)'
    BY <1>1 DEF TokenInv
  <2>1. TokenOK(j)
    BY DEF Inv, TokenInv
  <2>2. One(j)' /\ (NoToken(j) => NoToken(j)')
    BY <1>5, <2>1, TokenKept DEF TokenOK
  <2> QED BY <1>1, <1>5, <2>1, <2>2 DEF TokenOK
<1>7. FreshInv' /\ StoredInv' /\ KeptInv'
  BY <1>1, <1>5 DEF Inv, FreshInv, StoredInv, KeptInv
<1> QED BY <1>3, <1>4, <1>6, <1>7 DEF Inv

(* NewRedisQueue (redis.go:28-37) starts with no job. *)
LEMMA InitInv == Init => Inv
<1> SUFFICES ASSUME Init PROVE Inv
  OBVIOUS
<1>1. \A t \in Threads : at[t] = "idle" /\ copy[t] = NoJob /\ todo[t] = {} /\ pipe[t] = <<>>
  BY DEF Init
<1>2. TypeInv
  <2>1. <<>> \in Seq(Commands)
    OBVIOUS
  <2> QED BY <2>1 DEF Init, TypeInv, Places
<1>3. ThreadInv
  BY <1>1, EmptyShape DEF ThreadInv, ThreadOK, WorkerOK, RetryOK, SchedulerOK, CallerOK
<1>4. ParkInv
  BY <1>1, HostFacts, ThreadFacts DEF ParkInv
<1>5. ASSUME NEW j \in Jobs
      PROVE  Nowhere(j) /\ NoToken(j) /\ One(j) /\ ~Piped(Caller, j)
  <2>1. \A t \in Threads : ~Mem(t, j) /\ ~Piped(t, j) /\ ~Copied(t, j) /\ j \notin todo[t]
    BY <1>1 DEF Mem, Piped, Copied
  <2>2. Nowhere(j) /\ NoToken(j)
    BY <2>1 DEF Init, Nowhere, Knows, NoToken, Has, Pip
  <2> QED BY <2>1, <2>2, ThreadFacts DEF NoToken, One
<1>6. TokenInv
  BY <1>5 DEF TokenInv, TokenOK
<1>7. FreshInv /\ StoredInv /\ KeptInv
  BY <1>5 DEF Init, FreshInv, StoredInv, KeptInv
<1> QED BY <1>2, <1>3, <1>4, <1>6, <1>7 DEF Inv

(* Every step of the programs and the server keeps the invariant. *)
LEMMA NextInv == Inv /\ [Next]_vars => Inv'
<1> SUFFICES ASSUME Inv, [Next]_vars PROVE Inv'
  OBVIOUS
<1>1. CASE UNCHANGED vars
  BY <1>1, QuietInv DEF vars
<1>2. ASSUME NEW h \in Hosts, HostStep(h) PROVE Inv'
  BY <1>2, ExecInv, PipeFailsInv, PopInv, ReadInv, ReadFailsInv, HandlerEndsInv, HandlerRetriesInv,
     RetryStartsInv, RetryWakesInv, ScanIdsInv, ScanJobInv, ScanEnqueueInv DEF HostStep
<1>3. ASSUME NEW h \in Hosts, Crash(h) PROVE Inv'
  BY <1>3, CrashInv
<1>4. ASSUME NEW j \in Jobs, Enqueue(j) \/ Schedule(j) \/ DeleteJob(j) PROVE Inv'
  BY <1>4, EnqueueInv, ScheduleInv, DeleteJobInv
<1>5. ASSUME NEW j \in Jobs, TimePasses(j) PROVE Inv'
  BY <1>5, QuietInv DEF TimePasses
<1>6. CASE Exec(Caller) \/ PipeFails(Caller)
  BY <1>6, ExecInv, PipeFailsInv, ThreadFacts
<1>7. CASE MoveList \/ MoveOne
  BY <1>7, MoveListInv, MoveOneInv
<1> QED BY <1>1, <1>2, <1>3, <1>4, <1>5, <1>6, <1>7 DEF Next

(* The invariant holds at all times. *)
LEMMA Invariance == Spec => []Inv
BY InitInv, NextInv, PTL DEF Spec

(* At any time at most one place has the right to run a job that was not   *)
(* released twice: the set "pending", the memory of one worker or of one   *)
(* retry, or one pipeline (redis.go:81, 168-169; queue.go:505-512), and    *)
(* while the job waits for its time no place has.                          *)
THEOREM OneOwner == Spec => []TokenInv
<1>1. Inv => TokenInv
  BY DEF Inv
<1> QED BY <1>1, Invariance, PTL

(* So a job runs on one worker at a time, whatever the number of programs  *)
(* that share the server, their crashes, failing calls and retries.        *)
THEOREM RunsOnOneWorker == Spec => []OneRunAtATime
<1>1. ASSUME Inv PROVE OneRunAtATime
  <2> SUFFICES ASSUME NEW j \in Jobs \ twice, NEW g \in Hosts, NEW h \in Hosts, Running(g, j), Running(h, j)
               PROVE  g = h
    BY DEF OneRunAtATime
  <2>1. /\ Worker(g) \in Workers /\ Worker(h) \in Workers
        /\ Worker(g) \in Threads /\ Worker(h) \in Threads /\ (Worker(g) = Worker(h) => g = h)
    BY HostFacts, ThreadFacts
  <2>2. Has("memory", Worker(g), j) /\ Has("memory", Worker(h), j) /\ "memory" \in Kinds
    BY <2>1 DEF Running, Ready, Has, Mem, Kinds
  <2>3. One(j)
    BY <1>1 DEF Inv, TokenInv, TokenOK
  <2> QED BY <2>1, <2>2, <2>3 DEF One
<1> QED BY <1>1, Invariance, PTL

(* An accepted job is finished, in one of the two sets or in the hands of  *)
(* a live thread, though pipelines are not transactions and may fail       *)
(* half-way: it is lost only by a crash of its holder, by DeleteJob, by a  *)
(* second release of its schedule, by a failing HGet, or by the error of a *)
(* call that was to put it into a set or to record its end                 *)
(* (redis.go:67-70, 81, 93-96, 157-187, 396-405).                          *)
THEOREM AcceptedJobsAreKept == Spec => []NoJobLost
<1>1. ASSUME Inv PROVE NoJobLost
  <2> SUFFICES ASSUME NEW j \in accepted \ (dropped \cup twice)
               PROVE  \/ Terminal(j) \/ j \in pending \cup scheduled \/ InPipe(Caller, j)
                      \/ \E h \in Hosts : j \in InHand(h)
    BY DEF NoJobLost
  <2>1. j \in Jobs /\ Kept(j)
    BY <1>1 DEF Inv, TypeInv, KeptInv
  <2>2. ASSUME NEW u \in Threads, Mem(u, j) \/ Piped(u, j)
        PROVE  InPipe(Caller, j) \/ \E h \in Hosts : j \in InHand(h)
    <3>1. CASE u = Caller
      <4>1. Piped(Caller, j)
        BY <2>2, <3>1, ThreadFacts DEF Mem
      <4>2. Shape(pipe[Caller]) /\ pipe[Caller] # <<>> /\ Id(pipe[Caller]) = j
        BY <1>1, <4>1, PipeFacts, ThreadFacts DEF Piped
      <4> QED BY <2>1, <4>2, ShapeFacts DEF InPipe
    <3>2. CASE u # Caller
      <4>1. u[1] \in Hosts
        BY <3>2, HostFacts, ThreadFacts
      <4> QED BY <1>1, <2>1, <2>2, <4>1, InHandFacts
    <3> QED BY <3>1, <3>2
  <2> QED BY <2>1, <2>2 DEF Kept
<1> QED BY <1>1, Invariance, PTL
=============================================================================
