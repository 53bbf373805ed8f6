-------------------------- MODULE MailManagerProofs --------------------------
(***************************************************************************)
(* Proofs about MailManager and MailServer, for any messages, sessions,    *)
(* handlers, workers, retries and calls of Start and Stop.                 *)
(***************************************************************************)
EXTENDS MailManager, FiniteSetTheorems, TLAPS

-----------------------------------------------------------------------------
(* The tasks *)

SessionPlaces == {"closed", "open", "addressed", "notify", "wait", "ended"}
SessionStates == [pc : SessionPlaces, auth : BOOLEAN, next : Nat \ {0}, last : Nat]
WorkerStates == [pc : {"select", "exited"}] \cup [pc : {"busy"}, task : Tasks]

\* The tasks a session makes are for handlers that were added.
TaskTypeInv ==
    /\ handlers \in Nat /\ 1..handlers \subseteq Handlers
    /\ queue \in Seq(Tasks)
    /\ worker \in [Workers -> WorkerStates]
    /\ session \in [Sessions -> SessionStates]
    /\ \A c \in Sessions : session[c].last <= handlers
    /\ fate \in [Tasks -> {"none", "queued", "ran", "dropped"}]

InQueue(t) == \E i \in DOMAIN queue : queue[i] = t
Handled(t) == \E w \in Workers : worker[w].pc = "busy" /\ worker[w].task = t

\* A task that was queued is in the queue, or a worker has it, until it has run.
TasksKept == \A t \in Tasks : fate[t] = "queued" => InQueue(t) \/ Handled(t)

\* Stop returns without an error only after all workers have gone.
WorkersGone == stopper = "clean" => \A w \in Workers : worker[w].pc = "exited"

TaskInv == TaskTypeInv /\ TasksKept /\ WorkersGone

-----------------------------------------------------------------------------
(* The mails *)

CallStates == {"idle", "sync", "enqueued", "counted", "refused"}
JobStates == [status : {"none", "pending", "scheduled", "running", "ended"},
              at : {"none", "future", "past"}]
SyncPlaces == {"send", "failed", "sent", "ended"}
RunPlaces == SyncPlaces \cup {"none", "taken", "uncount", "finish"}
RunStates == [mail : Messages \cup {0}, pc : RunPlaces, attempt : Nat]

\* A call of the sender is for a mail of Send or for one the queue accepted.
RunOK(r) ==
    \/ run[r].pc = "none" /\ run[r].mail = 0
    \/ /\ run[r].pc \in SyncPlaces /\ run[r].mail \in Messages
       /\ call[run[r].mail] = "sync"
    \/ run[r].pc # "none" /\ run[r].mail \in Accepted

\* The queue has accepted mails only, and mq.jobs has one of them from the first on.
QueueInv ==
    /\ pending \in [Messages -> Nat] /\ job \in [Messages -> JobStates]
    /\ \A m \in Messages : pending[m] > 0 => m \in Accepted
    /\ jobs \in Accepted \cup {0} /\ scan \in Accepted \cup {0}
    /\ jobs = 0 => Accepted = {}

SendInv ==
    /\ call \in [Messages -> CallStates]
    /\ run \in [Runs -> RunStates] /\ \A r \in Runs : RunOK(r)
    /\ QueueInv
    /\ stats \in [sent : Nat, failed : Nat, queued : Nat]
    /\ off \subseteq Accepted /\ repeats \in Nat

CountInv == IsFiniteSet(Accepted) /\ QueuedCoversBacklog

\* An accepted mail that is not in the heap and was not taken is still Scheduled.
Kept(m) ==
    \/ pending[m] > 0
    \/ \E r \in Runs : run[r].mail = m
    \/ m \in later /\ job[m].status = "scheduled"
KeptInv == \A m \in Accepted : Kept(m)

-----------------------------------------------------------------------------
(* Steps that leave the tasks alone *)

\* Nothing but the workers, the sessions and Stop touches the tasks.
LEMMA TasksUntouched ==
    ASSUME TaskInv, UNCHANGED taskVars, stopper' = stopper \/ stopper' # "clean"
    PROVE  TaskInv'
BY DEF TaskInv, TaskTypeInv, TasksKept, WorkersGone, InQueue, Handled, taskVars

\* AddHandler, and what a session does before notifyHandlers (server.go).
LEMMA SessionsAlone ==
    ASSUME TaskInv, UNCHANGED <<queue, worker, fate, stopper>>,
           handlers' \in Nat, 1..handlers' \subseteq Handlers, handlers <= handlers',
           session' \in [Sessions -> SessionStates],
           \A c \in Sessions : session'[c].last <= handlers'
    PROVE  TaskInv'
BY DEF TaskInv, TaskTypeInv, TasksKept, WorkersGone, InQueue, Handled

-----------------------------------------------------------------------------
(* Sessions *)

\* A session that moves, and puts nothing into the queue: NewSession,
\* AuthPlain, Mail, Rcpt, Reset and Data (server.go:376-474), and a full queue
\* or the end of notifyHandlers (server.go:317, 325-342).
LEMMA SessionMoves ==
    ASSUME TaskInv, NEW c \in Sessions,
           \/ NewSession(c) \/ AuthPlain(c) \/ MailFromTo(c) \/ Reset(c) \/ Data(c)
           \/ QueueFull(c) \/ NotifyReturns(c)
    PROVE  TaskInv'
<1>1. UNCHANGED <<handlers, queue, worker, fate, stopper>>
  BY DEF NewSession, AuthPlain, MailFromTo, Reset, Data, QueueFull, NotifyReturns, serverVars
<1>2. session[c] \in SessionStates /\ handlers \in Nat /\ session \in [Sessions -> SessionStates]
  BY DEF TaskInv, TaskTypeInv
<1>3. PICK s \in SessionStates : session' = [session EXCEPT ![c] = s] /\ s.last \in {session[c].last, handlers}
  <2>1. CASE Data(c)
    <3> DEFINE s == [session[c] EXCEPT !.pc = "notify", !.last = handlers]
    <3>1. s \in SessionStates /\ s.last = handlers
      BY <1>2 DEF SessionStates, SessionPlaces
    <3>2. session' = [session EXCEPT ![c] = s]
      BY <2>1, <1>2 DEF Data, SessionStates
    <3> QED BY <3>1, <3>2
  <2>2. CASE AuthPlain(c)
    <3> DEFINE s == [session[c] EXCEPT !.auth = TRUE]
    <3>1. s \in SessionStates /\ s.last = session[c].last
      BY <1>2 DEF SessionStates, SessionPlaces
    <3>2. session' = [session EXCEPT ![c] = s]
      BY <2>2, <1>2 DEF AuthPlain
    <3> QED BY <3>1, <3>2
  <2>3. CASE ~Data(c) /\ ~AuthPlain(c)
    <3>1. PICK p \in SessionPlaces : SetSession(c, p)
      BY <2>3 DEF NewSession, MailFromTo, Reset, QueueFull, NotifyReturns, SessionPlaces
    <3> DEFINE s == [session[c] EXCEPT !.pc = p]
    <3>2. s \in SessionStates /\ s.last = session[c].last
      BY <1>2 DEF SessionStates
    <3>3. session' = [session EXCEPT ![c] = s]
      BY <3>1, <1>2 DEF SetSession
    <3> QED BY <3>2, <3>3
  <2> QED BY <2>1, <2>2, <2>3
<1>4. \A d \in Sessions : session'[d].last <= handlers
  BY <1>2, <1>3 DEF TaskInv, TaskTypeInv
<1>5. session' \in [Sessions -> SessionStates] /\ 1..handlers \subseteq Handlers /\ handlers <= handlers
  BY <1>2, <1>3 DEF TaskInv, TaskTypeInv
<1> QED BY <1>1, <1>2, <1>4, <1>5, SessionsAlone

\* A session goes to the next handler.
LEMMA NextHandler ==
    ASSUME TaskInv, NEW c \in Sessions, session' = [session EXCEPT ![c].pc = "notify", ![c].next = @ + 1]
    PROVE  /\ session' \in [Sessions -> SessionStates]
           /\ \A d \in Sessions : session'[d].last <= handlers
<1>1. session[c] \in SessionStates /\ session \in [Sessions -> SessionStates]
  BY DEF TaskInv, TaskTypeInv
<1> DEFINE s == [session[c] EXCEPT !.pc = "notify", !.next = session[c].next + 1]
<1>2. s \in SessionStates /\ s.last = session[c].last
  BY <1>1 DEF SessionStates, SessionPlaces
<1>3. session' = [session EXCEPT ![c] = s]
  BY <1>1
<1> HIDE DEF s
<1> QED BY <1>1, <1>2, <1>3 DEF TaskInv, TaskTypeInv

\* notifyHandlers queues a task (server.go:313-316) for a handler that exists.
LEMMA QueueTaskInv ==
    ASSUME TaskInv, NEW c \in Sessions, QueueTask(c)
    PROVE  TaskInv'
<1>1. PICK u : u = Task(c)
  OBVIOUS
<1>2. u \in Tasks
  <2>1. session[c] \in SessionStates /\ session[c].last <= handlers /\ handlers \in Nat /\ 1..handlers \subseteq Handlers
    BY DEF TaskInv, TaskTypeInv
  <2>2. session[c].next \in 1..handlers
    BY <2>1 DEF QueueTask, Notifying, SessionStates
  <2> QED BY <1>1, <2>1, <2>2 DEF Task, Tasks
<1>3. /\ queue' = Append(queue, u) /\ fate' = [fate EXCEPT ![u] = "queued"]
      /\ UNCHANGED <<handlers, worker, stopper>>
      /\ session' = [session EXCEPT ![c].pc = "notify", ![c].next = @ + 1]
  BY <1>1 DEF QueueTask, serverVars
<1>4. TaskTypeInv'
  <2>1. queue' \in Seq(Tasks) /\ fate' \in [Tasks -> {"none", "queued", "ran", "dropped"}]
    BY <1>2, <1>3 DEF TaskInv, TaskTypeInv
  <2>2. session' \in [Sessions -> SessionStates] /\ \A d \in Sessions : session'[d].last <= handlers
    BY <1>3, NextHandler
  <2> QED BY <1>3, <2>1, <2>2 DEF TaskInv, TaskTypeInv
<1>5. TasksKept'
  <2> SUFFICES ASSUME NEW t \in Tasks, fate'[t] = "queued" PROVE InQueue(t)' \/ Handled(t)'
    BY DEF TasksKept
  <2>1. queue \in Seq(Tasks)
    BY DEF TaskInv, TaskTypeInv
  <2>2. CASE t = u
    <3>1. Len(queue) + 1 \in DOMAIN queue' /\ queue'[Len(queue) + 1] = u
      BY <1>2, <1>3, <2>1
    <3> QED BY <2>2, <3>1 DEF InQueue
  <2>3. CASE t # u
    <3>1. InQueue(t) \/ Handled(t)
      BY <1>3, <2>3 DEF TaskInv, TaskTypeInv, TasksKept
    <3>2. \A i \in DOMAIN queue : i \in DOMAIN queue' /\ queue'[i] = queue[i]
      BY <1>2, <1>3, <2>1
    <3> QED BY <1>3, <3>1, <3>2 DEF InQueue, Handled
  <2> QED BY <2>2, <2>3
<1>6. WorkersGone'
  BY <1>3 DEF TaskInv, WorkersGone
<1> QED BY <1>4, <1>5, <1>6 DEF TaskInv

\* notifyHandlers gives a task up (server.go:317-324) that was not queued yet.
LEMMA DropTaskInv ==
    ASSUME TaskInv, NEW c \in Sessions, DropTask(c)
    PROVE  TaskInv'
<1>1. PICK u : u = Task(c)
  OBVIOUS
<1>2. /\ fate' = [fate EXCEPT ![u] = "dropped"]
      /\ UNCHANGED <<handlers, queue, worker, stopper>>
      /\ session' = [session EXCEPT ![c].pc = "notify", ![c].next = @ + 1]
  BY <1>1 DEF DropTask, serverVars
<1>3. fate' \in [Tasks -> {"none", "queued", "ran", "dropped"}] /\ \A t \in Tasks : fate'[t] \in {fate[t], "dropped"}
  BY <1>2 DEF TaskInv, TaskTypeInv
<1>4. session' \in [Sessions -> SessionStates] /\ \A d \in Sessions : session'[d].last <= handlers
  BY <1>2, NextHandler
<1>5. TaskTypeInv'
  BY <1>2, <1>3, <1>4 DEF TaskInv, TaskTypeInv
<1>6. TasksKept' /\ WorkersGone'
  BY <1>2, <1>3 DEF TaskInv, TasksKept, WorkersGone, InQueue, Handled
<1> QED BY <1>5, <1>6 DEF TaskInv

-----------------------------------------------------------------------------
(* Workers *)

\* A worker that takes a task (server.go:352-355) has it.
LEMMA WorkerTakesInv ==
    ASSUME TaskInv, NEW w \in Workers, WorkerTakes(w)
    PROVE  TaskInv'
<1>1. queue \in Seq(Tasks) /\ queue # <<>>
  BY DEF TaskInv, TaskTypeInv, WorkerTakes
<1>2. PICK u : u = Head(queue)
  OBVIOUS
<1>3. /\ u \in Tasks /\ u = queue[1] /\ Tail(queue) \in Seq(Tasks)
      /\ \A i \in DOMAIN queue : i = 1 \/ (i - 1 \in DOMAIN Tail(queue) /\ Tail(queue)[i - 1] = queue[i])
  BY <1>1, <1>2
<1>4. PICK s : s = [pc |-> "busy", task |-> u]
  OBVIOUS
<1>5. s \in WorkerStates /\ s.pc = "busy" /\ s.task = u
  BY <1>3, <1>4 DEF WorkerStates
<1>6. /\ worker[w].pc = "select" /\ worker' = [worker EXCEPT ![w] = s] /\ queue' = Tail(queue)
      /\ UNCHANGED <<handlers, session, fate, stopper>>
  BY <1>2, <1>4 DEF WorkerTakes, serverVars
<1>7. TaskTypeInv' /\ worker'[w] = s /\ \A v \in Workers : v # w => worker'[v] = worker[v]
  BY <1>3, <1>5, <1>6 DEF TaskInv, TaskTypeInv
<1>8. TasksKept'
  <2> SUFFICES ASSUME NEW t \in Tasks, fate[t] = "queued" PROVE InQueue(t)' \/ Handled(t)'
    BY <1>6 DEF TasksKept
  <2>1. CASE InQueue(t)
    <3>1. PICK i \in DOMAIN queue : queue[i] = t
      BY <2>1 DEF InQueue
    <3>2. CASE i = 1
      BY <1>3, <1>5, <1>7, <3>1, <3>2 DEF Handled
    <3>3. CASE i # 1
      BY <1>3, <1>6, <3>1, <3>3 DEF InQueue
    <3> QED BY <3>2, <3>3
  <2>2. CASE Handled(t)
    <3>1. PICK v \in Workers : worker[v].pc = "busy" /\ worker[v].task = t
      BY <2>2 DEF Handled
    <3> QED BY <1>6, <1>7, <3>1 DEF Handled
  <2> QED BY <2>1, <2>2 DEF TaskInv, TasksKept
<1>9. WorkersGone'
  BY <1>6 DEF TaskInv, WorkersGone
<1> QED BY <1>7, <1>8, <1>9 DEF TaskInv

\* A handler that returns (server.go:355-363) has run its task.
LEMMA WorkerHandlesInv ==
    ASSUME TaskInv, NEW w \in Workers, WorkerHandles(w)
    PROVE  TaskInv'
<1>1. PICK u : u = worker[w].task
  OBVIOUS
<1>2. PICK s : s = [pc |-> "select"]
  OBVIOUS
<1>3. s \in WorkerStates /\ s.pc = "select"
  BY <1>2 DEF WorkerStates
<1>4. /\ worker[w].pc = "busy" /\ worker' = [worker EXCEPT ![w] = s]
      /\ fate' = [fate EXCEPT ![u] = "ran"]
      /\ UNCHANGED <<handlers, queue, session, stopper>>
  BY <1>1, <1>2 DEF WorkerHandles, serverVars
<1>5. /\ TaskTypeInv' /\ \A v \in Workers : v # w => worker'[v] = worker[v]
      /\ \A t \in Tasks : fate'[t] = IF t = u THEN "ran" ELSE fate[t]
  BY <1>3, <1>4 DEF TaskInv, TaskTypeInv
<1>6. TasksKept'
  <2> SUFFICES ASSUME NEW t \in Tasks, fate'[t] = "queued" PROVE InQueue(t)' \/ Handled(t)'
    BY DEF TasksKept
  <2>1. t # u /\ (InQueue(t) \/ Handled(t))
    BY <1>5 DEF TaskInv, TasksKept
  <2> QED BY <1>1, <1>4, <1>5, <2>1 DEF InQueue, Handled
<1>7. WorkersGone'
  BY <1>4 DEF TaskInv, WorkersGone
<1> QED BY <1>5, <1>6, <1>7 DEF TaskInv

\* A worker that ends (server.go:364-369) has no task.
LEMMA WorkerExitsInv ==
    ASSUME TaskInv, NEW w \in Workers, WorkerExits(w)
    PROVE  TaskInv'
<1>1. PICK s : s = [pc |-> "exited"]
  OBVIOUS
<1>2. s \in WorkerStates /\ s.pc = "exited"
  BY <1>1 DEF WorkerStates
<1>3. /\ worker[w].pc = "select" /\ worker' = [worker EXCEPT ![w] = s]
      /\ UNCHANGED <<handlers, queue, session, fate, stopper>>
  BY <1>1 DEF WorkerExits, serverVars
<1>4. TaskTypeInv' /\ worker'[w] = s /\ \A v \in Workers : v # w => worker'[v] = worker[v]
  BY <1>2, <1>3 DEF TaskInv, TaskTypeInv
<1>5. TasksKept'
  BY <1>3, <1>4 DEF TaskInv, TasksKept, InQueue, Handled
<1>6. WorkersGone'
  BY <1>2, <1>3, <1>4 DEF TaskInv, WorkersGone
<1> QED BY <1>4, <1>5, <1>6 DEF TaskInv

-----------------------------------------------------------------------------
(* All steps of the server and the manager *)

\* NewSMTPServer (server.go:52-72) starts with idle workers and no task.
LEMMA TaskInit == Init => TaskInv
<1> SUFFICES ASSUME Init PROVE TaskInv
  OBVIOUS
<1>1. [pc |-> "select"] \in WorkerStates /\ <<>> \in Seq(Tasks) /\ 1..0 = {}
  BY DEF WorkerStates
<1>2. [pc |-> "closed", auth |-> FALSE, next |-> 1, last |-> 0] \in SessionStates
  BY DEF SessionStates, SessionPlaces
<1>3. worker \in [Workers -> WorkerStates] /\ session \in [Sessions -> SessionStates]
  BY <1>1, <1>2 DEF Init, MSInit
<1>4. TaskTypeInv
  BY <1>1, <1>3 DEF Init, MSInit, TaskTypeInv
<1>5. TasksKept /\ WorkersGone
  BY DEF Init, MSInit, TasksKept, WorkersGone
<1> QED BY <1>4, <1>5 DEF TaskInv

\* What arrives from outside and what the server's goroutines do.
LEMMA ReceiveInv ==
    ASSUME TaskInv, Receive
    PROVE  TaskInv'
<1>1. CASE Event("handler") /\ AddHandler
  <2>1. /\ UNCHANGED <<queue, worker, fate, stopper, session>> /\ handlers' = handlers + 1
        /\ handlers + 1 \in Handlers
    BY <1>1 DEF AddHandler, serverVars
  <2>2. handlers \in Nat /\ 1..handlers \subseteq Handlers /\ session \in [Sessions -> SessionStates]
    BY DEF TaskInv, TaskTypeInv
  <2>3. handlers' \in Nat /\ 1..handlers' \subseteq Handlers /\ handlers <= handlers'
    BY <2>1, <2>2
  <2>4. \A c \in Sessions : session'[c].last <= handlers'
    BY <2>1, <2>2 DEF TaskInv, TaskTypeInv, SessionStates
  <2> QED BY <2>1, <2>2, <2>3, <2>4, SessionsAlone
<1>2. ASSUME NEW c \in Sessions,
             (Event("session") /\ NewSession(c)) \/ AuthPlain(c) \/ MailFromTo(c) \/ Reset(c) \/ Data(c) \/ SessionStep(c)
      PROVE  TaskInv'
  BY <1>2, SessionMoves, QueueTaskInv, DropTaskInv DEF SessionStep
<1>3. ASSUME NEW w \in Workers, WorkerStep(w) PROVE TaskInv'
  BY <1>3, WorkerTakesInv, WorkerHandlesInv, WorkerExitsInv DEF WorkerStep
<1>4. ASSUME NEW n \in Starts, StartStep(n) PROVE TaskInv'
  BY <1>4, TasksUntouched DEF StartStep, StartClaims, StartCreates, StartListens, ListenReturns
<1> QED BY <1>1, <1>2, <1>3, <1>4 DEF Receive

\* smtpServer.Stop (server.go:161-189) says that it is done when the workers are.
LEMMA StopServerInv ==
    ASSUME TaskInv, StopServer
    PROVE  TaskInv'
<1>1. CASE StopBegins
  BY <1>1, TasksUntouched DEF StopBegins
<1>a. CASE StopCloses
  BY <1>a, TasksUntouched DEF StopCloses
<1>2. CASE StopReturns
  <2>1. UNCHANGED taskVars /\ (stopper' = "clean" => \A w \in Workers : worker[w].pc = "exited")
    BY <1>2 DEF StopReturns
  <2> QED BY <2>1 DEF TaskInv, TaskTypeInv, TasksKept, WorkersGone, InQueue, Handled, taskVars
<1>3. CASE UNCHANGED msVars
  BY <1>3, TasksUntouched DEF msVars, serverVars
<1> QED BY <1>1, <1>2, <1>3, <1>a DEF StopServer

\* Every step keeps the tasks.
LEMMA TaskNext == TaskInv /\ [Next]_vars => TaskInv'
<1> SUFFICES ASSUME TaskInv, [Next]_vars PROVE TaskInv'
  OBVIOUS
<1>1. ASSUME NEW n \in Starts, Start(n) PROVE TaskInv'
  BY <1>1, TasksUntouched DEF Start
<1>2. CASE StopLooks
  BY <1>2, TasksUntouched DEF StopLooks, msVars, serverVars
<1>3. CASE (\E m \in Messages : MailStep(m)) \/ ScanGets \/ ScanEnqueues \/ (\E r \in Runs : RunStep(r))
  <2>1. UNCHANGED msVars
    BY <1>3 DEF MailStep, CallSend, CallSendAsync, CountQueued, TimePasses, Redeliver, Dequeue, ScanGets,
         ScanEnqueues, RunStep, TakeJob, Send, CountFailed, CountSent, Uncount, Finish
  <2> QED BY <2>1, TasksUntouched DEF msVars, serverVars
<1>4. CASE UNCHANGED vars
  BY <1>4, TasksUntouched DEF vars, msVars, serverVars
<1> QED BY <1>1, <1>2, <1>3, <1>4, ReceiveInv, StopServerInv DEF Next

\* No task is forgotten: what notifyHandlers (server.go:313-316) has queued is in
\* the queue or in the hands of a worker until its handler has run, through
\* every stop and restart.
THEOREM TasksAreKept == Spec => []TasksKept
<1>1. TaskInv => TasksKept
  BY DEF TaskInv
<1> QED BY <1>1, TaskInit, TaskNext, PTL DEF Spec

\* After a Stop without an error (server.go:175-189) no handler is running and
\* none will be called: every task that has not run is in the queue.
THEOREM StopIsQuiet == Spec => []StoppedIsQuiet
<1>1. TaskInv => StoppedIsQuiet
  BY DEF TaskInv, TasksKept, WorkersGone, InQueue, Handled, StoppedIsQuiet
<1> QED BY <1>1, TaskInit, TaskNext, PTL DEF Spec

-----------------------------------------------------------------------------
(* The mails: types *)

\* NewManager (mail.go:130-149) starts with nothing sent.
LEMMA SendInit == Init => SendInv /\ CountInv /\ KeptInv
<1> SUFFICES ASSUME Init PROVE SendInv /\ CountInv /\ KeptInv
  OBVIOUS
<1>1. Accepted = {} /\ Uncounted = {}
  BY DEF Init, Accepted, Uncounted
<1>2. [mail |-> 0, pc |-> "none", attempt |-> 0] \in RunStates
  BY DEF RunStates, RunPlaces
<1>3. [status |-> "none", at |-> "none"] \in JobStates
  BY DEF JobStates
<1>4. run \in [Runs -> RunStates] /\ \A r \in Runs : RunOK(r)
  BY <1>2 DEF Init, RunOK
<1>5. QueueInv
  BY <1>1, <1>3 DEF Init, QueueInv
<1>6. SendInv
  BY <1>1, <1>4, <1>5 DEF Init, SendInv, CallStates
<1>7. stats.queued = 0 /\ repeats = 0 /\ Cardinality(Uncounted) = 0 /\ Cardinality(Accepted \ off) = 0
  BY <1>1, FS_EmptySet DEF Init
<1> QED BY <1>1, <1>6, <1>7, FS_EmptySet DEF CountInv, KeptInv, QueuedCoversBacklog

\* The mails are accepted by SendAsync only.
LEMMA SameCalls ==
    ASSUME call' = call
    PROVE  Accepted' = Accepted /\ Uncounted' = Uncounted
BY DEF Accepted, Uncounted

\* A run goes on with its mail.
LEMMA RunMoves ==
    ASSUME SendInv, NEW r \in Runs, call' = call, run' \in [Runs -> RunStates], run[r].pc # "none",
           run'[r].mail = run[r].mail, run'[r].pc \in RunPlaces \ {"none"},
           call[run[r].mail] = "sync" => run'[r].pc \in SyncPlaces,
           \A q \in Runs : q # r => run'[q] = run[q]
    PROVE  (\A q \in Runs : RunOK(q)') /\ \A q \in Runs : run'[q].mail = run[q].mail
<1>1. Accepted' = Accepted
  BY SameCalls
<1>2. ASSUME NEW q \in Runs PROVE RunOK(q)'
  <2>1. RunOK(q)
    BY DEF SendInv
  <2>2. CASE q = r
    BY <1>1, <2>1, <2>2 DEF RunOK
  <2>3. CASE q # r
    BY <1>1, <2>1, <2>3 DEF RunOK
  <2> QED BY <2>2, <2>3
<1> QED BY <1>2

\* SetRun is such a step.
LEMMA SetRunFacts ==
    ASSUME SendInv, NEW r \in Runs, NEW pc \in RunPlaces, SetRun(r, pc)
    PROVE  /\ run' \in [Runs -> RunStates] /\ run'[r].mail = run[r].mail /\ run'[r].pc = pc
           /\ \A q \in Runs : q # r => run'[q] = run[q]
BY DEF SendInv, SetRun, RunStates

\* A new run is for a mail of Send, or for one that was accepted.
LEMMA BeginRunFacts ==
    ASSUME SendInv, NEW r \in Runs, NEW m \in Messages, NEW pc \in RunPlaces \ {"none"}, BeginRun(r, m, pc),
           Accepted' = Accepted,
           \A q \in Runs : run[q].mail = m \/ call'[run[q].mail] = call[run[q].mail],
           (call'[m] = "sync" /\ pc \in SyncPlaces /\ (\A q \in Runs : run[q].mail # m)) \/ (m \in Accepted /\ call' = call)
    PROVE  /\ run' \in [Runs -> RunStates] /\ \A q \in Runs : RunOK(q)'
           /\ run'[r].mail = m /\ \A q \in Runs : run[q].mail # 0 => run'[q].mail = run[q].mail
<1>1. PICK x : x = [mail |-> m, pc |-> pc, attempt |-> 0]
  OBVIOUS
<1>2. x \in RunStates /\ x.mail = m /\ x.pc = pc
  BY <1>1 DEF RunStates
<1>3. run[r].pc = "none" /\ run' = [run EXCEPT ![r] = x]
  BY <1>1 DEF BeginRun
<1>4. run' \in [Runs -> RunStates] /\ run'[r] = x /\ \A q \in Runs : q # r => run'[q] = run[q]
  BY <1>2, <1>3 DEF SendInv
<1>5. ASSUME NEW q \in Runs PROVE RunOK(q)'
  <2>1. CASE q = r
    BY <1>2, <1>4, <2>1 DEF RunOK
  <2>2. CASE q # r
    <3>1. RunOK(q) /\ run'[q] = run[q]
      BY <1>4, <2>2 DEF SendInv
    <3> QED BY <3>1 DEF RunOK
  <2> QED BY <2>1, <2>2
<1>6. run[r].mail = 0 \/ run[r].mail \notin Messages
  BY <1>3 DEF SendInv, RunOK, SyncPlaces
<1>7. ASSUME NEW q \in Runs, run[q].mail # 0 PROVE run'[q].mail = run[q].mail
  BY <1>3, <1>4, <1>7 DEF SendInv, RunOK, SyncPlaces
<1> QED BY <1>2, <1>4, <1>5, <1>7

\* SendAsync (mail.go:239-294): the mail is accepted or refused.
LEMMA CallSendAsyncFacts ==
    ASSUME SendInv, NEW m \in Messages, CallSendAsync(m)
    PROVE  /\ call[m] = "idle" /\ UNCHANGED <<run, stats, off, repeats, scan>>
           /\ \/ Accepted' = Accepted /\ Uncounted' = Uncounted /\ UNCHANGED <<jobs, pending, job, later>>
              \/ /\ Accepted' = Accepted \cup {m} /\ Uncounted' = Uncounted \cup {m}
                 /\ m \notin Accepted /\ m \notin Uncounted /\ jobs' = m
                 /\ pending' \in [Messages -> Nat] /\ job' \in [Messages -> JobStates]
                 /\ \A l \in Messages : l # m => pending'[l] = pending[l] /\ job'[l] = job[l]
                 /\ pending'[m] > 0 \/ (m \in later' /\ job'[m].status = "scheduled")
                 /\ later \subseteq later'
           /\ call' \in [Messages -> CallStates]
           /\ \A l \in Messages : l # m => call'[l] = call[l]
<1>1. call[m] = "idle" /\ UNCHANGED <<run, stats, off, repeats, scan>>
  BY DEF CallSendAsync, Calls
<1>2. CASE call' = [call EXCEPT ![m] = "refused"] /\ UNCHANGED <<jobs, pending, job, later>>
  <2>1. call' \in [Messages -> CallStates] /\ \A l \in Messages : call'[l] = IF l = m THEN "refused" ELSE call[l]
    BY <1>2 DEF SendInv, CallStates
  <2>2. Accepted' = Accepted /\ Uncounted' = Uncounted
    BY <1>1, <2>1 DEF Accepted, Uncounted
  <2> QED BY <1>1, <1>2, <2>1, <2>2
<1>3. ASSUME NEW at \in {"none", "future", "past"}, call' = [call EXCEPT ![m] = "enqueued"],
             job' = [job EXCEPT ![m] = [status |-> IF at = "none" THEN "pending" ELSE "scheduled", at |-> at]],
             Enqueue(m, at), later' = IF at = "future" THEN later \cup {m} ELSE later
      PROVE  /\ Accepted' = Accepted \cup {m} /\ Uncounted' = Uncounted \cup {m}
             /\ m \notin Accepted /\ m \notin Uncounted /\ jobs' = m
             /\ pending' \in [Messages -> Nat] /\ job' \in [Messages -> JobStates]
             /\ \A l \in Messages : l # m => pending'[l] = pending[l] /\ job'[l] = job[l]
             /\ pending'[m] > 0 \/ (m \in later' /\ job'[m].status = "scheduled")
             /\ later \subseteq later'
             /\ call' \in [Messages -> CallStates]
             /\ \A l \in Messages : l # m => call'[l] = call[l]
  <2>1. call' \in [Messages -> CallStates] /\ \A l \in Messages : call'[l] = IF l = m THEN "enqueued" ELSE call[l]
    BY <1>3 DEF SendInv, CallStates
  <2>2. /\ Accepted' = Accepted \cup {m} /\ m \notin Accepted
        /\ Uncounted' = Uncounted \cup {m} /\ m \notin Uncounted
    BY <1>1, <2>1 DEF Accepted, Uncounted
  <2>3. PICK j : j = [status |-> IF at = "none" THEN "pending" ELSE "scheduled", at |-> at]
    OBVIOUS
  <2>4. j \in JobStates /\ (at # "none" => j.status = "scheduled")
    BY <2>3 DEF JobStates
  <2>5. job' = [job EXCEPT ![m] = j]
    BY <1>3, <2>3
  <2>6. job' \in [Messages -> JobStates] /\ job'[m] = j /\ \A l \in Messages : l # m => job'[l] = job[l]
    BY <2>4, <2>5 DEF SendInv, QueueInv
  <2>7. /\ jobs' = m /\ pending' \in [Messages -> Nat] /\ \A l \in Messages : l # m => pending'[l] = pending[l]
        /\ at # "future" => pending'[m] > 0
    BY <1>3 DEF Enqueue, SendInv, QueueInv
  <2> QED BY <1>3, <2>1, <2>2, <2>4, <2>6, <2>7
<1> QED BY <1>1, <1>2, <1>3 DEF CallSendAsync

\* So SendAsync keeps the types.
LEMMA CallSendAsyncType ==
    ASSUME SendInv, NEW m \in Messages, CallSendAsync(m)
    PROVE  SendInv'
<1>1. /\ call' \in [Messages -> CallStates] /\ call[m] = "idle"
      /\ \A l \in Messages : l # m => call'[l] = call[l]
      /\ run' = run /\ stats' = stats /\ off' = off /\ repeats' = repeats /\ scan' = scan
      /\ Accepted \subseteq Accepted'
  BY CallSendAsyncFacts
<1>2. QueueInv'
  <2>1. CASE Accepted' = Accepted /\ UNCHANGED <<jobs, pending, job, later>>
    BY <1>1, <2>1 DEF SendInv, QueueInv
  <2>2. CASE /\ Accepted' = Accepted \cup {m} /\ jobs' = m
             /\ pending' \in [Messages -> Nat] /\ job' \in [Messages -> JobStates]
             /\ \A l \in Messages : l # m => pending'[l] = pending[l] /\ job'[l] = job[l]
    <3>1. \A l \in Messages : pending'[l] > 0 => l \in Accepted'
      BY <2>2 DEF SendInv, QueueInv
    <3>2. jobs' \in Accepted' /\ jobs' # 0
      BY <2>2, MailAssumption
    <3> QED BY <1>1, <2>2, <3>1, <3>2 DEF SendInv, QueueInv
  <2> QED BY <2>1, <2>2, CallSendAsyncFacts
<1>3. ASSUME NEW r \in Runs PROVE RunOK(r)'
  <2>1. RunOK(r)
    BY DEF SendInv
  <2>2. CASE run[r].pc = "none" /\ run[r].mail = 0
    BY <1>1, <2>2 DEF RunOK
  <2>3. CASE run[r].pc \in SyncPlaces /\ run[r].mail \in Messages /\ call[run[r].mail] = "sync"
    <3>1. call'[run[r].mail] = "sync"
      BY <1>1, <2>3
    <3> QED BY <1>1, <2>3, <3>1 DEF RunOK
  <2>4. CASE run[r].pc # "none" /\ run[r].mail \in Accepted
    BY <1>1, <2>4 DEF RunOK
  <2> QED BY <2>1, <2>2, <2>3, <2>4 DEF RunOK
<1> QED BY <1>1, <1>2, <1>3 DEF SendInv

\* Send (mail.go:203-219) begins a run for its mail.
LEMMA CallSendType ==
    ASSUME SendInv, NEW m \in Messages, CallSend(m)
    PROVE  /\ SendInv' /\ Accepted' = Accepted /\ Uncounted' = Uncounted
           /\ UNCHANGED <<pending, job, later, stats, off, repeats>>
           /\ \A q \in Runs : run[q].mail # 0 => run'[q].mail = run[q].mail
<1>1. /\ call[m] = "idle" /\ call' = [call EXCEPT ![m] = "sync"]
      /\ jobs' = jobs /\ pending' = pending /\ job' = job /\ scan' = scan /\ later' = later
      /\ stats' = stats /\ off' = off /\ repeats' = repeats
  BY DEF CallSend, Calls, queueVars
<1>2. PICK r \in Runs : BeginRun(r, m, "send")
  BY DEF CallSend
<1>3. call' \in [Messages -> CallStates] /\ \A l \in Messages : call'[l] = IF l = m THEN "sync" ELSE call[l]
  BY <1>1 DEF SendInv, CallStates
<1>4. Accepted' = Accepted /\ Uncounted' = Uncounted /\ m \notin Accepted
  BY <1>1, <1>3 DEF Accepted, Uncounted
<1>5. \A q \in Runs : run[q].mail # m /\ (run[q].pc # "none" => run[q].mail \in Messages)
  <2> SUFFICES ASSUME NEW q \in Runs PROVE run[q].mail # m /\ (run[q].pc # "none" => run[q].mail \in Messages)
    OBVIOUS
  <2>1. RunOK(q) /\ 0 # m
    BY MailAssumption DEF SendInv
  <2> QED BY <1>1, <1>4, <2>1 DEF RunOK, Accepted
<1>6. PICK x : x = [mail |-> m, pc |-> "send", attempt |-> 0]
  OBVIOUS
<1>7. x \in RunStates /\ x.mail = m /\ x.pc = "send"
  BY <1>6 DEF RunStates, RunPlaces, SyncPlaces
<1>8. run[r].pc = "none" /\ run' = [run EXCEPT ![r] = x]
  BY <1>2, <1>6 DEF BeginRun
<1>9. run' \in [Runs -> RunStates] /\ run'[r] = x /\ \A q \in Runs : q # r => run'[q] = run[q]
  BY <1>7, <1>8 DEF SendInv
<1>10. ASSUME NEW q \in Runs PROVE RunOK(q)' /\ (run[q].mail # 0 => run'[q].mail = run[q].mail)
  <2>1. RunOK(q)
    BY DEF SendInv
  <2>2. CASE q = r
    <3>1. RunOK(q)'
      BY <1>3, <1>7, <1>9, <2>2 DEF RunOK, SyncPlaces
    <3>2. run[q].mail = 0
      BY <1>8, <2>1, <2>2 DEF RunOK, SyncPlaces
    <3> QED BY <3>1, <3>2
  <2>3. CASE q # r
    <3>1. run'[q] = run[q]
      BY <1>9, <2>3
    <3>2. RunOK(q)'
      BY <1>3, <1>4, <1>5, <2>1, <3>1 DEF RunOK
    <3> QED BY <3>1, <3>2
  <2> QED BY <2>2, <2>3
<1>11. QueueInv'
  BY <1>1, <1>4 DEF SendInv, QueueInv
<1>12. SendInv'
  BY <1>1, <1>3, <1>4, <1>9, <1>10, <1>11 DEF SendInv
<1> QED BY <1>1, <1>4, <1>10, <1>12

\* A step that changes nothing but the queue, where only accepted mails get in.
LEMMA QueueMoves ==
    ASSUME SendInv, call' = call, QueueInv', run' \in [Runs -> RunStates], \A r \in Runs : RunOK(r)',
           UNCHANGED <<stats, off, repeats>>
    PROVE  SendInv'
<1>1. Accepted' = Accepted
  BY SameCalls
<1> QED BY <1>1 DEF SendInv

\* The runs are as they were.
LEMMA SameRuns ==
    ASSUME SendInv, call' = call, run' = run
    PROVE  run' \in [Runs -> RunStates] /\ \A r \in Runs : RunOK(r)'
<1>1. Accepted' = Accepted
  BY SameCalls
<1> QED BY <1>1 DEF SendInv, RunOK

-----------------------------------------------------------------------------
(* The queue's steps *)

\* What the steps of the queue and of its workers do: no mail leaves the queue
\* but to a worker or to the heap.
Moved == /\ SendInv' /\ call' = call /\ later' = later
         /\ \A m \in Accepted : Kept(m) => Kept(m)'

\* The scan (queue.go:564-580) takes nothing away and puts a mail into the heap.
LEMMA ScanMoves ==
    ASSUME SendInv, ScanGets \/ ScanEnqueues
    PROVE  Moved /\ UNCHANGED <<stats, off, repeats>>
<1>1. UNCHANGED <<call, later, run, stats, off, repeats>> /\ Accepted' = Accepted
  BY SameCalls DEF ScanGets, ScanEnqueues
<1>2. CASE jobs' = jobs /\ pending' = pending /\ job' = job /\ scan' \in {jobs, 0}
  <2>1. QueueInv'
    BY <1>1, <1>2 DEF SendInv, QueueInv
  <2>2. SendInv'
    BY <1>1, <2>1, SameRuns, QueueMoves
  <2> QED BY <1>1, <1>2, <2>2 DEF Moved, Kept
<1>3. CASE /\ scan # 0 /\ job' = [job EXCEPT ![scan] = [status |-> "pending", at |-> "none"]]
           /\ Enqueue(scan, "none") /\ scan' = 0
  <2>1. scan \in Accepted /\ scan \in Messages
    BY <1>3 DEF SendInv, QueueInv, Accepted
  <2>2. /\ jobs' = scan /\ pending' \in [Messages -> Nat] /\ pending'[scan] > 0
        /\ \A l \in Messages : l # scan => pending'[l] = pending[l]
    BY <1>3, <2>1 DEF Enqueue, SendInv, QueueInv
  <2>3. [status |-> "pending", at |-> "none"] \in JobStates
    BY DEF JobStates
  <2>4. job' \in [Messages -> JobStates] /\ \A l \in Messages : l # scan => job'[l] = job[l]
    BY <1>3, <2>1, <2>3 DEF SendInv, QueueInv
  <2>5. QueueInv'
    BY <1>1, <1>3, <2>1, <2>2, <2>4 DEF SendInv, QueueInv
  <2>6. SendInv'
    BY <1>1, <2>5, SameRuns, QueueMoves
  <2>7. ASSUME NEW m \in Accepted, Kept(m) PROVE Kept(m)'
    <3>1. CASE m = scan
      BY <2>2, <3>1 DEF Kept
    <3>2. CASE m # scan
      BY <1>1, <2>2, <2>4, <2>7, <3>2 DEF Kept, Accepted
    <3> QED BY <3>1, <3>2
  <2> QED BY <1>1, <2>6, <2>7 DEF Moved
<1> QED BY <1>2, <1>3 DEF ScanGets, ScanEnqueues

\* The clock and a broker that delivers again take nothing away.
LEMMA TimeMoves ==
    ASSUME SendInv, NEW m \in Messages, TimePasses(m) \/ Redeliver(m)
    PROVE  Moved /\ UNCHANGED <<stats, off, repeats>>
<1>1. UNCHANGED <<call, jobs, scan, later, run, stats, off, repeats>> /\ Accepted' = Accepted
  BY SameCalls DEF TimePasses, Redeliver
<1>2. CASE TimePasses(m)
  <2>1. pending' = pending /\ job' = [job EXCEPT ![m].at = "past"]
    BY <1>2 DEF TimePasses
  <2>2. job' \in [Messages -> JobStates] /\ \A l \in Messages : job'[l].status = job[l].status
    BY <2>1 DEF SendInv, QueueInv, JobStates
  <2>3. QueueInv'
    BY <1>1, <2>1, <2>2 DEF SendInv, QueueInv
  <2>4. SendInv'
    BY <1>1, <2>3, SameRuns, QueueMoves
  <2> QED BY <1>1, <2>1, <2>2, <2>4 DEF Moved, Kept, Accepted
<1>3. CASE Redeliver(m)
  <2>1. /\ job' = job /\ pending' = [pending EXCEPT ![m] = @ + 1] /\ call[m] # "sync"
        /\ Cardinality({r \in Runs : run[r].mail = m}) = 1
    BY <1>3 DEF Redeliver
  <2>2. PICK r \in Runs : run[r].mail = m
    <3> DEFINE Taken == {q \in Runs : run[q].mail = m}
    <3>1. Cardinality(Taken) = 1
      BY <2>1
    <3> HIDE DEF Taken
    <3>2. Taken # {}
      BY <3>1, FS_EmptySet
    <3> QED BY <3>2 DEF Taken
  <2>3. m \in Accepted
    <3>1. RunOK(r) /\ m # 0
      BY MailAssumption DEF SendInv
    <3> QED BY <2>1, <2>2, <3>1 DEF RunOK
  <2>4. pending' \in [Messages -> Nat] /\ \A l \in Messages : pending'[l] >= pending[l] /\ (l # m => pending'[l] = pending[l])
    BY <2>1 DEF SendInv, QueueInv
  <2>5. QueueInv'
    BY <1>1, <2>1, <2>3, <2>4 DEF SendInv, QueueInv
  <2>6. SendInv'
    BY <1>1, <2>5, SameRuns, QueueMoves
  <2>7. ASSUME NEW l \in Accepted, Kept(l) PROVE Kept(l)'
    <3>1. pending[l] > 0 => pending'[l] > 0
      BY <2>4 DEF SendInv, QueueInv, Accepted
    <3> QED BY <1>1, <2>1, <2>7, <3>1 DEF Kept
  <2> QED BY <1>1, <2>6, <2>7 DEF Moved
<1> QED BY <1>2, <1>3

\* A worker of the queue (queue.go:441-450) takes a mail from the heap.
LEMMA DequeueMoves ==
    ASSUME SendInv, NEW m \in Messages, NEW r \in Runs, Dequeue(m, r)
    PROVE  Moved /\ UNCHANGED <<stats, off, repeats>>
<1>1. /\ UNCHANGED <<call, jobs, job, scan, later, stats, off, repeats>> /\ Accepted' = Accepted
      /\ pending[m] > 0 /\ pending' = [pending EXCEPT ![m] = @ - 1] /\ BeginRun(r, m, "taken")
  BY SameCalls DEF Dequeue
<1>2. m \in Accepted
  BY <1>1 DEF SendInv, QueueInv
<1>3. pending' \in [Messages -> Nat] /\ \A l \in Messages : (pending'[l] > 0 => pending[l] > 0) /\ (l # m => pending'[l] = pending[l])
  BY <1>1 DEF SendInv, QueueInv
<1>4. QueueInv'
  BY <1>1, <1>3 DEF SendInv, QueueInv
<1>5. "taken" \in RunPlaces \ {"none"}
  BY DEF RunPlaces
<1>6. /\ run' \in [Runs -> RunStates] /\ \A q \in Runs : RunOK(q)'
      /\ run'[r].mail = m /\ \A q \in Runs : run[q].mail # 0 => run'[q].mail = run[q].mail
  BY <1>1, <1>2, <1>5, BeginRunFacts
<1>7. SendInv'
  BY <1>1, <1>4, <1>6, QueueMoves
<1>8. ASSUME NEW l \in Accepted, Kept(l) PROVE Kept(l)'
  <2>1. l # 0 /\ l \in Messages
    BY MailAssumption DEF Accepted
  <2>2. CASE l = m
    BY <1>6, <2>2 DEF Kept
  <2>3. CASE l # m
    BY <1>1, <1>3, <1>6, <1>8, <2>1, <2>3 DEF Kept
  <2> QED BY <2>2, <2>3
<1> QED BY <1>1, <1>7, <1>8 DEF Moved

\* processJob (queue.go:464-467, 516-541) writes the job of its mail, which a
\* worker has.
LEMMA UpdateMoves ==
    ASSUME SendInv, NEW r \in Runs, NEW s \in {"running", "ended"}, UpdateJob(r, s), run[r].mail \in Accepted,
           NEW pc \in RunPlaces \ {"none"}, SetRun(r, pc), run[r].pc # "none", UNCHANGED <<call, stats, off, repeats>>
    PROVE  Moved
<1>1. PICK m \in Accepted : m = run[r].mail
  OBVIOUS
<1>2. m \in Messages /\ m # 0 /\ call[m] # "sync" /\ Accepted' = Accepted
  BY MailAssumption, SameCalls DEF Accepted
<1>3. /\ job' = [job EXCEPT ![m].status = s] /\ jobs' = m
      /\ pending' = pending /\ scan' = scan /\ later' = later
  BY <1>1 DEF UpdateJob
<1>4. job' \in [Messages -> JobStates] /\ \A l \in Messages : l # m => job'[l] = job[l]
  BY <1>3 DEF SendInv, QueueInv, JobStates
<1>5. QueueInv'
  BY <1>2, <1>3, <1>4 DEF SendInv, QueueInv
<1>6. /\ run' \in [Runs -> RunStates] /\ run'[r].mail = run[r].mail /\ run'[r].pc = pc
      /\ \A q \in Runs : q # r => run'[q] = run[q]
  BY SetRunFacts
<1>7. (\A q \in Runs : RunOK(q)') /\ \A q \in Runs : run'[q].mail = run[q].mail
  BY <1>1, <1>2, <1>6, RunMoves
<1>8. SendInv'
  BY <1>5, <1>6, <1>7, QueueMoves
<1>9. ASSUME NEW l \in Accepted, Kept(l) PROVE Kept(l)'
  <2>1. CASE l = m
    BY <1>1, <1>7, <2>1 DEF Kept
  <2>2. CASE l # m
    BY <1>3, <1>4, <1>7, <1>9, <2>2 DEF Kept, Accepted
  <2> QED BY <2>1, <2>2
<1> QED BY <1>3, <1>8, <1>9 DEF Moved

\* A run that goes on and leaves the queue alone.
LEMMA RunOnly ==
    ASSUME SendInv, NEW r \in Runs, run' \in [Runs -> RunStates], run[r].pc # "none",
           run'[r].mail = run[r].mail, run'[r].pc \in RunPlaces \ {"none"},
           call[run[r].mail] = "sync" => run'[r].pc \in SyncPlaces,
           \A q \in Runs : q # r => run'[q] = run[q], UNCHANGED <<call, queueVars>>,
           stats' \in [sent : Nat, failed : Nat, queued : Nat], off' \subseteq Accepted, repeats' \in Nat
    PROVE  Moved
<1>1. Accepted' = Accepted /\ call' = call
  BY SameCalls
<1>2. (\A q \in Runs : RunOK(q)') /\ \A q \in Runs : run'[q].mail = run[q].mail
  BY RunMoves
<1>3. UNCHANGED <<jobs, pending, job, scan, later>>
  BY DEF queueVars
<1>4. QueueInv'
  BY <1>1, <1>3 DEF SendInv, QueueInv
<1>5. SendInv'
  BY <1>1, <1>2, <1>4 DEF SendInv
<1> QED BY <1>1, <1>2, <1>3, <1>5 DEF Moved, Kept

\* processJob, handleMailJob and the sender (queue.go:464-541, mail.go:362-394,
\* sender.go:32-82), but for the decrement.
LEMMA RunStepMoves ==
    ASSUME SendInv, NEW r \in Runs,
           TakeJob(r) \/ Send(r) \/ CountFailed(r) \/ CountSent(r) \/ Finish(r)
    PROVE  Moved /\ stats'.queued = stats.queued /\ UNCHANGED <<off, repeats>>
<1>1. run[r].pc # "none" /\ RunOK(r) /\ call' = call /\ off' = off /\ repeats' = repeats
  BY DEF SendInv, TakeJob, Send, CountFailed, CountSent, Finish
<1>2. (run[r].pc \in {"taken", "finish", "uncount"}) => run[r].mail \in Accepted
  BY <1>1 DEF RunOK, SyncPlaces
<1>3. CASE TakeJob(r)
  <2>1. PICK pc \in {"send", "finish"} : SetRun(r, pc)
    BY <1>3 DEF TakeJob
  <2>2. pc \in RunPlaces \ {"none"} /\ UpdateJob(r, "running") /\ run[r].mail \in Accepted /\ stats' = stats
    BY <1>2, <1>3 DEF TakeJob, RunPlaces, SyncPlaces
  <2> QED BY <1>1, <2>1, <2>2, UpdateMoves
<1>4. CASE Finish(r)
  <2>1. "ended" \in RunPlaces \ {"none"} /\ UpdateJob(r, "ended") /\ run[r].mail \in Accepted /\ stats' = stats
    BY <1>2, <1>4 DEF Finish, RunPlaces, SyncPlaces
  <2> QED BY <1>1, <1>4, <2>1, UpdateMoves DEF Finish
<1>5. stats \in [sent : Nat, failed : Nat, queued : Nat] /\ off \subseteq Accepted /\ repeats \in Nat
  BY DEF SendInv
<1>6. CASE Send(r)
  <2>1. run[r] \in RunStates /\ run \in [Runs -> RunStates] /\ UNCHANGED queueVars /\ stats' = stats
    BY <1>6 DEF SendInv, Send
  <2>2. PICK pc \in {"send", "sent", "failed"}, a \in Nat :
          run' \in [Runs -> RunStates] /\ run'[r].mail = run[r].mail /\ run'[r].pc = pc
          /\ \A q \in Runs : q # r => run'[q] = run[q]
    <3>1. ASSUME NEW p \in {"sent", "failed"}, run' = [run EXCEPT ![r].pc = p, ![r].attempt = 0]
          PROVE  /\ run' \in [Runs -> RunStates] /\ run'[r].mail = run[r].mail /\ run'[r].pc = p
                 /\ \A q \in Runs : q # r => run'[q] = run[q]
      BY <2>1, <3>1 DEF RunStates, RunPlaces, SyncPlaces
    <3>2. ASSUME run' = [run EXCEPT ![r].attempt = @ + 1]
          PROVE  /\ run' \in [Runs -> RunStates] /\ run'[r].mail = run[r].mail /\ run'[r].pc = run[r].pc
                 /\ \A q \in Runs : q # r => run'[q] = run[q]
      BY <2>1, <3>2 DEF RunStates
    <3> QED BY <1>6, <3>1, <3>2 DEF Send
  <2>3. pc \in SyncPlaces /\ pc \in RunPlaces \ {"none"}
    BY DEF SyncPlaces, RunPlaces
  <2> QED BY <1>1, <1>5, <2>1, <2>2, <2>3, RunOnly
<1>7. CASE CountFailed(r) \/ CountSent(r)
  <2>1. PICK pc \in {"ended", "finish", "uncount"} : SetRun(r, pc) /\ (call[run[r].mail] = "sync" => pc = "ended")
    BY <1>7 DEF CountFailed, CountSent, Sync
  <2>2. pc \in RunPlaces \ {"none"} /\ (pc = "ended" => pc \in SyncPlaces)
    BY DEF SyncPlaces, RunPlaces
  <2>3. /\ run' \in [Runs -> RunStates] /\ run'[r].mail = run[r].mail /\ run'[r].pc = pc
        /\ \A q \in Runs : q # r => run'[q] = run[q]
    BY <2>1, <2>2, SetRunFacts
  <2>4. UNCHANGED queueVars
    BY <1>7 DEF CountFailed, CountSent
  <2>5. stats' \in [sent : Nat, failed : Nat, queued : Nat] /\ stats'.queued = stats.queued
    BY <1>5, <1>7 DEF CountFailed, CountSent
  <2> QED BY <1>1, <1>5, <2>1, <2>2, <2>3, <2>4, <2>5, RunOnly
<1> QED BY <1>3, <1>4, <1>6, <1>7

\* The decrement (mail.go:423-430).
LEMMA UncountMoves ==
    ASSUME SendInv, NEW r \in Runs, Uncount(r)
    PROVE  Moved /\ run[r].mail \in Accepted
<1>1. /\ run[r].pc = "uncount" /\ SetRun(r, "finish") /\ call' = call /\ UNCHANGED queueVars
      /\ stats' = [stats EXCEPT !.queued = IF @ > 0 THEN @ - 1 ELSE @]
      /\ off' = off \cup {run[r].mail}
      /\ repeats' = IF run[r].mail \in off THEN repeats + 1 ELSE repeats
  BY DEF Uncount
<1>2. run[r].mail \in Accepted /\ call[run[r].mail] # "sync"
  <2>1. RunOK(r)
    BY DEF SendInv
  <2> QED BY <1>1, <2>1 DEF RunOK, SyncPlaces, Accepted
<1>3. stats' \in [sent : Nat, failed : Nat, queued : Nat] /\ off' \subseteq Accepted /\ repeats' \in Nat
  BY <1>1, <1>2 DEF SendInv
<1>4. "finish" \in RunPlaces \ {"none"}
  BY DEF RunPlaces, SyncPlaces
<1>5. /\ run' \in [Runs -> RunStates] /\ run'[r].mail = run[r].mail /\ run'[r].pc = "finish"
      /\ \A q \in Runs : q # r => run'[q] = run[q]
  BY <1>1, <1>4, SetRunFacts
<1> QED BY <1>1, <1>2, <1>3, <1>4, <1>5, RunOnly

-----------------------------------------------------------------------------
(* All steps of the mails *)

\* A step that takes nothing off the count and accepts no mail.
LEMMA CountKept ==
    ASSUME CountInv, Uncounted' = Uncounted, Accepted' = Accepted, off' = off, repeats' = repeats,
           stats'.queued = stats.queued
    PROVE  CountInv'
BY DEF CountInv, QueuedCoversBacklog

\* SendAsync (mail.go:239-294): the mail waits, and is not counted yet.
LEMMA CallSendAsyncCount ==
    ASSUME SendInv, CountInv, NEW m \in Messages, CallSendAsync(m)
    PROVE  CountInv'
<1>1. stats' = stats /\ off' = off /\ repeats' = repeats
  BY CallSendAsyncFacts
<1>2. CASE Accepted' = Accepted /\ Uncounted' = Uncounted
  BY <1>1, <1>2, CountKept
<1>3. CASE Accepted' = Accepted \cup {m} /\ Uncounted' = Uncounted \cup {m} /\ m \notin Accepted /\ m \notin Uncounted
  <2>1. IsFiniteSet(Accepted) /\ Uncounted \subseteq Accepted /\ (Accepted \ off) \subseteq Accepted
    BY DEF CountInv, Uncounted, Accepted
  <2>2. IsFiniteSet(Uncounted) /\ IsFiniteSet(Accepted \ off)
    BY <2>1, FS_Subset
  <2>3. Accepted' \ off' = (Accepted \ off) \cup {m} /\ m \notin Accepted \ off
    BY <1>1, <1>3 DEF SendInv
  <2>4. /\ IsFiniteSet(Accepted') /\ Cardinality(Uncounted') = Cardinality(Uncounted) + 1
        /\ Cardinality(Accepted' \ off') = Cardinality(Accepted \ off) + 1
    BY <1>3, <2>1, <2>2, <2>3, FS_AddElement
  <2>5. Cardinality(Uncounted) \in Nat /\ Cardinality(Accepted \ off) \in Nat
    BY <2>2, FS_CardinalityType
  <2>6. /\ stats.queued \in Nat /\ repeats \in Nat
        /\ stats.queued + Cardinality(Uncounted) + repeats >= Cardinality(Accepted \ off)
    BY DEF SendInv, CountInv, QueuedCoversBacklog
  <2>7. stats'.queued + Cardinality(Uncounted') + repeats' >= Cardinality(Accepted' \ off')
    BY <1>1, <2>4, <2>5, <2>6
  <2> QED BY <2>4, <2>7 DEF CountInv, QueuedCoversBacklog
<1> QED BY <1>2, <1>3, CallSendAsyncFacts

\* The increment of SendAsync (mail.go:296-305), which may come late.
LEMMA CountQueuedMoves ==
    ASSUME SendInv, CountInv, NEW m \in Messages, CountQueued(m)
    PROVE  SendInv' /\ CountInv' /\ Accepted' = Accepted /\ UNCHANGED <<queueVars, run>>
<1>1. /\ call[m] = "enqueued" /\ call' = [call EXCEPT ![m] = "counted"]
      /\ stats' = [stats EXCEPT !.queued = @ + 1]
      /\ UNCHANGED <<jobs, pending, job, scan, later, run, off, repeats>>
  BY DEF CountQueued, queueVars
<1>2. stats.queued \in Nat /\ stats'.queued = stats.queued + 1 /\ stats' \in [sent : Nat, failed : Nat, queued : Nat]
  BY <1>1 DEF SendInv
<1>3. call' \in [Messages -> CallStates] /\ \A l \in Messages : call'[l] = IF l = m THEN "counted" ELSE call[l]
  BY <1>1 DEF SendInv, CallStates
<1>4. Accepted' = Accepted /\ Uncounted' = Uncounted \ {m} /\ m \in Uncounted
  BY <1>1, <1>3 DEF Accepted, Uncounted
<1>5. \A r \in Runs : RunOK(r)'
  BY <1>1, <1>3, <1>4 DEF SendInv, RunOK
<1>6. QueueInv'
  BY <1>1, <1>4 DEF SendInv, QueueInv
<1>7. SendInv'
  BY <1>1, <1>2, <1>3, <1>4, <1>5, <1>6 DEF SendInv
<1>8. IsFiniteSet(Accepted) /\ IsFiniteSet(Uncounted) /\ IsFiniteSet(Accepted \ off)
  <2>1. Uncounted \subseteq Accepted /\ (Accepted \ off) \subseteq Accepted
    BY DEF Uncounted, Accepted
  <2> QED BY <2>1, FS_Subset DEF CountInv
<1>9. /\ Cardinality(Uncounted') = Cardinality(Uncounted) - 1
      /\ Cardinality(Uncounted) \in Nat /\ Cardinality(Accepted \ off) \in Nat
  BY <1>4, <1>8, FS_RemoveElement, FS_CardinalityType
<1>10. repeats \in Nat /\ stats.queued + Cardinality(Uncounted) + repeats >= Cardinality(Accepted \ off)
  BY DEF SendInv, CountInv, QueuedCoversBacklog
<1>11. stats'.queued + Cardinality(Uncounted') + repeats' >= Cardinality(Accepted' \ off')
  BY <1>1, <1>2, <1>4, <1>9, <1>10
<1> QED BY <1>1, <1>4, <1>7, <1>8, <1>11 DEF CountInv, QueuedCoversBacklog, queueVars

\* The decrement (mail.go:423-430), which stops at zero, is for an accepted mail:
\* the first one takes it off, and the others are repeats.
LEMMA UncountCount ==
    ASSUME SendInv, CountInv, NEW r \in Runs, Uncount(r)
    PROVE  CountInv'
<1>1. PICK m \in Accepted : m = run[r].mail
  BY UncountMoves
<1>2. /\ off' = off \cup {m} /\ repeats' = IF m \in off THEN repeats + 1 ELSE repeats
      /\ stats' = [stats EXCEPT !.queued = IF @ > 0 THEN @ - 1 ELSE @] /\ call' = call
  BY <1>1 DEF Uncount
<1>3. stats.queued \in Nat /\ repeats \in Nat /\ stats'.queued = IF stats.queued > 0 THEN stats.queued - 1 ELSE stats.queued
  BY <1>2 DEF SendInv
<1>4. Accepted' = Accepted /\ Uncounted' = Uncounted
  BY <1>2, SameCalls
<1>5. IsFiniteSet(Accepted) /\ IsFiniteSet(Uncounted) /\ IsFiniteSet(Accepted \ off)
  <2>1. Uncounted \subseteq Accepted /\ (Accepted \ off) \subseteq Accepted
    BY DEF Uncounted, Accepted
  <2> QED BY <2>1, FS_Subset DEF CountInv
<1>6. Cardinality(Uncounted) \in Nat /\ Cardinality(Accepted \ off) \in Nat
  BY <1>5, FS_CardinalityType
<1>7. stats.queued + Cardinality(Uncounted) + repeats >= Cardinality(Accepted \ off)
  BY DEF CountInv, QueuedCoversBacklog
<1>8. CASE m \in off
  <2>1. Accepted' \ off' = Accepted \ off /\ repeats' = repeats + 1
    BY <1>2, <1>4, <1>8
  <2>2. PICK q \in Nat, u \in Nat, p \in Nat, a \in Nat :
            /\ q = stats.queued /\ u = Cardinality(Uncounted)
            /\ p = repeats /\ a = Cardinality(Accepted \ off)
    BY <1>3, <1>6
  <2>3. q + u + p >= a
    BY <1>7, <2>2
  <2>4. stats'.queued \in Nat /\ stats'.queued >= q - 1
    BY <1>3, <2>2
  <2>5. Cardinality(Uncounted') = u /\ repeats' = p + 1 /\ Cardinality(Accepted' \ off') = a
    BY <1>4, <2>1, <2>2
  <2>6. stats'.queued + Cardinality(Uncounted') + repeats' >= Cardinality(Accepted' \ off')
    BY <2>3, <2>4, <2>5
  <2> QED BY <1>4, <1>5, <2>6 DEF CountInv, QueuedCoversBacklog
<1>9. CASE m \notin off
  <2>1. Accepted' \ off' = (Accepted \ off) \ {m} /\ m \in Accepted \ off /\ repeats' = repeats
    BY <1>2, <1>4, <1>9
  <2>2. Cardinality(Accepted' \ off') = Cardinality(Accepted \ off) - 1
    BY <1>5, <2>1, FS_RemoveElement
  <2>3. stats'.queued + Cardinality(Uncounted') + repeats' >= Cardinality(Accepted' \ off')
    BY <1>3, <1>4, <1>6, <1>7, <2>1, <2>2
  <2> QED BY <1>4, <1>5, <2>3 DEF CountInv, QueuedCoversBacklog
<1> QED BY <1>8, <1>9

MailInv == SendInv /\ CountInv /\ KeptInv

\* What the queue and its workers do keeps the mails.
LEMMA MovedInv ==
    ASSUME MailInv, Moved
    PROVE  SendInv' /\ KeptInv' /\ Accepted' = Accepted /\ Uncounted' = Uncounted
BY SameCalls DEF MailInv, KeptInv, Moved

\* SendAsync keeps them.
LEMMA CallSendAsyncInv ==
    ASSUME MailInv, NEW m \in Messages, CallSendAsync(m)
    PROVE  MailInv'
<1>1. SendInv' /\ CountInv'
  BY CallSendAsyncType, CallSendAsyncCount DEF MailInv
<1>2. run' = run
  BY CallSendAsyncFacts DEF MailInv
<1>3. ASSUME NEW l \in Accepted' PROVE Kept(l)'
  <2>1. CASE Accepted' = Accepted /\ UNCHANGED <<jobs, pending, job, later>>
    BY <1>2, <1>3, <2>1 DEF MailInv, KeptInv, Kept
  <2>2. CASE /\ Accepted' = Accepted \cup {m}
             /\ \A k \in Messages : k # m => pending'[k] = pending[k] /\ job'[k] = job[k]
             /\ pending'[m] > 0 \/ (m \in later' /\ job'[m].status = "scheduled")
             /\ later \subseteq later'
    <3>1. CASE l = m
      BY <2>2, <3>1 DEF Kept
    <3>2. CASE l # m
      <4>1. l \in Accepted /\ l \in Messages
        BY <1>3, <2>2, <3>2 DEF Accepted
      <4>2. Kept(l) /\ pending'[l] = pending[l] /\ job'[l] = job[l]
        BY <2>2, <3>2, <4>1 DEF MailInv, KeptInv
      <4> QED BY <1>2, <2>2, <4>2 DEF Kept
    <3> QED BY <3>1, <3>2
  <2> QED BY <2>1, <2>2, CallSendAsyncFacts DEF MailInv
<1> QED BY <1>1, <1>3 DEF MailInv, KeptInv

\* Every step keeps the mails and the count.
LEMMA MailNext == MailInv /\ [Next]_vars => MailInv'
<1> SUFFICES ASSUME MailInv, [Next]_vars PROVE MailInv'
  OBVIOUS
<1>0. SendInv /\ CountInv /\ KeptInv
  BY DEF MailInv
<1>1. CASE UNCHANGED sendVars
  <2>1. UNCHANGED <<call, jobs, pending, job, scan, later, run, stats, off, repeats>>
    BY <1>1 DEF sendVars, queueVars
  <2>2. Accepted' = Accepted /\ Uncounted' = Uncounted
    BY <2>1, SameCalls
  <2>3. QueueInv'
    BY <1>0, <2>1, <2>2 DEF SendInv, QueueInv
  <2>4. SendInv'
    BY <1>0, <2>1, <2>3, SameRuns, QueueMoves
  <2>5. CountInv'
    BY <1>0, <2>1, <2>2, CountKept
  <2>6. KeptInv'
    BY <1>0, <2>1, <2>2 DEF KeptInv, Kept
  <2> QED BY <2>4, <2>5, <2>6 DEF MailInv
<1>2. ASSUME NEW m \in Messages, CallSend(m) PROVE MailInv'
  <2>1. /\ SendInv' /\ Accepted' = Accepted /\ Uncounted' = Uncounted
        /\ UNCHANGED <<pending, job, later, stats, off, repeats>>
        /\ \A q \in Runs : run[q].mail # 0 => run'[q].mail = run[q].mail
    BY <1>0, <1>2, CallSendType
  <2>2. CountInv'
    BY <1>0, <2>1, CountKept
  <2>3. ASSUME NEW l \in Accepted PROVE Kept(l)'
    <3>1. l # 0 /\ Kept(l)
      BY <1>0, MailAssumption DEF KeptInv, Accepted
    <3> QED BY <2>1, <3>1 DEF Kept
  <2> QED BY <2>1, <2>2, <2>3 DEF MailInv, KeptInv
<1>3. ASSUME NEW m \in Messages, CallSendAsync(m) PROVE MailInv'
  BY <1>3, CallSendAsyncInv
<1>4. ASSUME NEW m \in Messages, CountQueued(m) PROVE MailInv'
  <2>1. SendInv' /\ CountInv' /\ Accepted' = Accepted /\ UNCHANGED <<pending, job, later, run>>
    BY <1>0, <1>4, CountQueuedMoves DEF queueVars
  <2>2. KeptInv'
    BY <1>0, <2>1 DEF KeptInv, Kept
  <2> QED BY <2>1, <2>2 DEF MailInv
<1>5. ASSUME Moved, stats'.queued = stats.queued, off' = off, repeats' = repeats PROVE MailInv'
  <2>1. SendInv' /\ KeptInv' /\ Accepted' = Accepted /\ Uncounted' = Uncounted
    BY <1>5, MovedInv
  <2>2. CountInv'
    BY <1>0, <1>5, <2>1, CountKept
  <2> QED BY <2>1, <2>2 DEF MailInv
<1>6. ASSUME NEW m \in Messages, TimePasses(m) \/ Redeliver(m) \/ (\E r \in Runs : Dequeue(m, r)) PROVE MailInv'
  <2>1. Moved /\ stats' = stats /\ off' = off /\ repeats' = repeats
    BY <1>0, <1>6, TimeMoves, DequeueMoves
  <2> QED BY <1>5, <2>1
<1>7. CASE ScanGets \/ ScanEnqueues
  <2>1. Moved /\ stats' = stats /\ off' = off /\ repeats' = repeats
    BY <1>0, <1>7, ScanMoves
  <2> QED BY <1>5, <2>1
<1>8. ASSUME NEW r \in Runs, TakeJob(r) \/ Send(r) \/ CountFailed(r) \/ CountSent(r) \/ Finish(r) PROVE MailInv'
  <2>1. Moved /\ stats'.queued = stats.queued /\ off' = off /\ repeats' = repeats
    BY <1>0, <1>8, RunStepMoves
  <2> QED BY <1>5, <2>1
<1>9. ASSUME NEW r \in Runs, Uncount(r) PROVE MailInv'
  <2>1. SendInv' /\ KeptInv'
    BY <1>0, <1>9, UncountMoves, MovedInv
  <2>2. CountInv'
    BY <1>0, <1>9, UncountCount
  <2> QED BY <2>1, <2>2 DEF MailInv
<1>10. ASSUME NEW m \in Messages, MailStep(m) PROVE MailInv'
  BY <1>2, <1>3, <1>4, <1>6, <1>10 DEF MailStep
<1>11. ASSUME NEW r \in Runs, RunStep(r) PROVE MailInv'
  BY <1>8, <1>9, <1>11 DEF RunStep
<1>12. (\E n \in Starts : Start(n)) \/ StopLooks \/ StopServer \/ (Receive /\ UNCHANGED <<manVars, sendVars>>)
        \/ UNCHANGED vars => UNCHANGED sendVars
  BY DEF Start, StopLooks, StopServer, vars
<1> QED BY <1>1, <1>7, <1>10, <1>11, <1>12 DEF Next

\* The queued count (mail.go:296-305, 423-430) never falls below the mails that
\* were counted and not taken off, by more than the queue has run mails again, in
\* whatever order the increments of SendAsync and the decrements of handleMailJob
\* come.
THEOREM CountCoversBacklog == Spec => []QueuedCoversBacklog
<1>1. MailInv => QueuedCoversBacklog
  BY DEF MailInv, CountInv
<1>2. Init => MailInv
  BY SendInit DEF MailInv
<1> QED BY <1>1, <1>2, MailNext, PTL DEF Spec

\* A mail that SendAsync hands over for now (or for a time that has passed) is
\* never lost to the mails that replace it under the empty ID (mail.go:280,
\* memory.go:48); one for a later time is not lost as long as it is the only one.
THEOREM MailsForNowAreKept == Spec => []OnlyLaterMailsAreLost
<1>1. ASSUME MailInv PROVE OnlyLaterMailsAreLost
  <2> SUFFICES ASSUME NEW m \in Accepted, ~(pending[m] > 0), \A r \in Runs : run[r].mail # m
               PROVE  m \in later /\ (Accepted = {m} => jobs = m /\ job[m].status = "scheduled")
    BY DEF OnlyLaterMailsAreLost
  <2>1. m \in later /\ job[m].status = "scheduled"
    BY <1>1 DEF MailInv, KeptInv, Kept
  <2>2. Accepted = {m} => jobs = m
    BY <1>1 DEF MailInv, SendInv, QueueInv
  <2> QED BY <2>1, <2>2
<1>2. Init => MailInv
  BY SendInit DEF MailInv
<1> QED BY <1>1, <1>2, MailNext, PTL DEF Spec
=============================================================================
