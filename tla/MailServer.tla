----------------------------- MODULE MailServer -----------------------------
(***************************************************************************)
(* The SMTP server of the mail package: sessions that receive mails, the   *)
(* bounded queue of handler tasks between them and the worker pool, and    *)
(* the server's own Start and Stop.                                        *)
(*                                                                         *)
(* The context and the worker pool are made once, by NewSMTPServer; every  *)
(* Start makes a new go-smtp server, which is external: it listens until   *)
(* closed, does not listen once closed, needs the port for itself, and     *)
(* calls the session's methods in the order of the protocol.               *)
(***************************************************************************)
EXTENDS Naturals, Sequences, FiniteSets

CONSTANTS Sessions,   \* SMTP sessions, 1..n, each delivers one mail
          Handlers,   \* the handlers AddHandler is called with, 1..n in this order
          Workers,    \* MaxConcurrentHandlers workers
          Auth,       \* ServerConfig.Auth
          Starts      \* the calls of Start, 1..n

VARIABLES handlers,   \* the handlers added: 1..handlers
          queue,      \* handlerQueue, of pairs of a session and a handler
          worker,     \* what each worker does, and the task it handles
          session,
          received,   \* Stats.ReceivedCount of the manager
          fate,       \* history: what became of a task
          cancelled,  \* the server's context is done
          running,    \* smtpServer.running
          server,     \* smtpServer.server: a go-smtp server or 0
          smtp,       \* the state of every go-smtp server
          starter,    \* the calls of Start
          stopper     \* the call of Stop: "idle", "close", "wait", "clean" or "error"

taskVars == <<handlers, queue, worker, session, received, fate>>
serverVars == <<cancelled, running, server, smtp, starter, stopper>>
msVars == <<taskVars, serverVars>>

Tasks == Sessions \X Handlers

\* Queue size = 2x semaphore size.
QueueCapacity == 2 * Cardinality(Workers)

MSTypeOK ==
    /\ handlers \in 0..Cardinality(Handlers)
    /\ queue \in Seq(Tasks) /\ Len(queue) <= QueueCapacity
    /\ worker \in [Workers -> [pc : {"select", "exited"}]
                                \cup [pc : {"busy"}, task : Tasks]]
    /\ fate \in [Tasks -> {"none", "queued", "ran", "dropped"}]
    /\ smtp \in [Starts -> {"none", "new", "listening", "closed"}]
    /\ received \in 0..Cardinality(Sessions)
    /\ stopper \in {"idle", "close", "wait", "clean", "error"}

MSInit ==
    /\ handlers = 0 /\ queue = <<>>
    /\ worker = [w \in Workers |-> [pc |-> "select"]]
    /\ session = [c \in Sessions |-> [pc |-> "closed", auth |-> FALSE, next |-> 1, last |-> 0]]
    /\ received = 0
    /\ fate = [t \in Tasks |-> "none"]
    /\ cancelled = FALSE /\ running = FALSE
    /\ server = 0
    /\ smtp = [n \in Starts |-> "none"]
    /\ starter = [n \in Starts |-> [pc |-> "idle", on |-> 0]]
    /\ stopper = "idle"

-----------------------------------------------------------------------------
(***************************************************************************)
(* Sessions and workers.                                                   *)
(***************************************************************************)
AddHandler ==
    /\ handlers + 1 \in Handlers
    /\ handlers' = handlers + 1
    /\ UNCHANGED <<queue, worker, session, fate, received, serverVars>>

SetSession(c, pc) == session' = [session EXCEPT ![c].pc = pc]

NewSession(c) ==
    /\ session[c].pc = "closed" /\ \A d \in 1..(c - 1) : session[d].pc # "closed"
    /\ \E n \in Starts : smtp[n] = "listening"
    /\ SetSession(c, "open")
    /\ UNCHANGED <<handlers, queue, worker, fate, received, serverVars>>

\* AuthPlain with the right name and password; with others nothing changes.
AuthPlain(c) ==
    /\ session[c].pc = "open" /\ Auth
    /\ session' = [session EXCEPT ![c].auth = TRUE]
    /\ UNCHANGED <<handlers, queue, worker, fate, received, serverVars>>

\* Mail and Rcpt, which look at the same flag.
MailFromTo(c) ==
    /\ session[c].pc = "open"
    /\ Auth => session[c].auth
    /\ SetSession(c, "addressed")
    /\ UNCHANGED <<handlers, queue, worker, fate, received, serverVars>>

Reset(c) ==
    /\ session[c].pc = "addressed"
    /\ SetSession(c, "open")
    /\ UNCHANGED <<handlers, queue, worker, fate, received, serverVars>>

\* Data counts the mail and notifyHandlers copies the handlers.
Data(c) ==
    /\ session[c].pc = "addressed"
    /\ Auth => session[c].auth
    /\ session' = [session EXCEPT ![c].pc = "notify", ![c].last = handlers]
    /\ received' = received + 1
    /\ UNCHANGED <<handlers, queue, worker, fate, serverVars>>

\* The select of notifyHandlers, once per handler: the task is queued, or the
\* session waits for room, at most 100 ms.
Notifying(c) == session[c].next <= session[c].last
Task(c) == <<c, session[c].next>>

QueueTask(c) ==
    /\ session[c].pc \in {"notify", "wait"} /\ Notifying(c)
    /\ Len(queue) < QueueCapacity
    /\ queue' = Append(queue, Task(c))
    /\ fate' = [fate EXCEPT ![Task(c)] = "queued"]
    /\ session' = [session EXCEPT ![c].pc = "notify", ![c].next = @ + 1]
    /\ UNCHANGED <<handlers, worker, received, serverVars>>

QueueFull(c) ==
    /\ session[c].pc = "notify" /\ Notifying(c)
    /\ Len(queue) = QueueCapacity
    /\ SetSession(c, "wait")
    /\ UNCHANGED <<handlers, queue, worker, fate, received, serverVars>>

DropTask(c) ==
    /\ session[c].pc = "wait"
    /\ fate' = [fate EXCEPT ![Task(c)] = "dropped"]
    /\ session' = [session EXCEPT ![c].pc = "notify", ![c].next = @ + 1]
    /\ UNCHANGED <<handlers, queue, worker, received, serverVars>>

\* All handlers are served, or the server's context is done.
NotifyReturns(c) ==
    /\ session[c].pc \in {"notify", "wait"}
    /\ ~Notifying(c) \/ cancelled
    /\ SetSession(c, "ended")
    /\ UNCHANGED <<handlers, queue, worker, fate, received, serverVars>>

SessionStep(c) == \/ QueueTask(c) \/ QueueFull(c) \/ DropTask(c) \/ NotifyReturns(c)

WorkerTakesAndForgets(w) ==
    /\ worker[w].pc = "select" /\ queue # <<>>
    /\ worker' = [worker EXCEPT ![w] = [pc |-> "busy", task |-> Head(queue)]]
    /\ queue' = <<>>
    /\ UNCHANGED <<handlers, session, fate, received, serverVars>>

\* The select of a worker: it may take a task although the context is done.
WorkerTakes(w) ==
    /\ worker[w].pc = "select" /\ queue # <<>>
    /\ worker' = [worker EXCEPT ![w] = [pc |-> "busy", task |-> Head(queue)]]
    /\ queue' = Tail(queue)
    /\ UNCHANGED <<handlers, session, fate, received, serverVars>>

WorkerHandles(w) ==
    /\ worker[w].pc = "busy"
    /\ fate' = [fate EXCEPT ![worker[w].task] = "ran"]
    /\ worker' = [worker EXCEPT ![w] = [pc |-> "select"]]
    /\ UNCHANGED <<handlers, queue, session, received, serverVars>>

WorkerExits(w) ==
    /\ worker[w].pc = "select" /\ cancelled
    /\ worker' = [worker EXCEPT ![w] = [pc |-> "exited"]]
    /\ UNCHANGED <<handlers, queue, session, fate, received, serverVars>>

WorkerStep(w) == WorkerTakes(w) \/ WorkerHandles(w) \/ WorkerExits(w)

-----------------------------------------------------------------------------
(***************************************************************************)
(* Start, and the goroutine that listens.                                  *)
(***************************************************************************)
SetStarter(n, pc) == starter' = [starter EXCEPT ![n].pc = pc]

\* The server is claimed before it is made.
StartClaims(n) ==
    /\ starter[n].pc = "begin"
    /\ IF running THEN SetStarter(n, "done") /\ UNCHANGED running
                  ELSE SetStarter(n, "create") /\ running' = TRUE
    /\ UNCHANGED <<taskVars, cancelled, server, smtp, stopper>>

\* The new server stays in the field also when the TLS configuration cannot be
\* loaded and Start gives up.
StartCreates(n) ==
    /\ starter[n].pc = "create"
    /\ server' = n
    /\ smtp' = [smtp EXCEPT ![n] = "new"]
    /\ \/ SetStarter(n, "listen") /\ UNCHANGED running
       \/ SetStarter(n, "done") /\ running' = FALSE
    /\ UNCHANGED <<taskVars, cancelled, stopper>>

\* ListenAndServe of the server the field names.  (Start itself returns when its
\* probe has connected or given up; nothing here waits for that.)
StartListens(n) ==
    /\ starter[n].pc = "listen"
    /\ IF smtp[server] = "new" /\ \A m \in Starts : smtp[m] # "listening"
         THEN /\ smtp' = [smtp EXCEPT ![server] = "listening"]
              /\ starter' = [starter EXCEPT ![n] = [pc |-> "serving", on |-> server]]
              /\ UNCHANGED running
         ELSE /\ running' = FALSE
              /\ SetStarter(n, "done") /\ UNCHANGED smtp
    /\ UNCHANGED <<taskVars, cancelled, server, stopper>>

\* The listening goroutine ends and says that nothing is running, whatever has
\* been started since.
ListenReturns(n) ==
    /\ starter[n].pc = "serving" /\ smtp[starter[n].on] = "closed"
    /\ running' = FALSE
    /\ SetStarter(n, "done")
    /\ UNCHANGED <<taskVars, cancelled, server, smtp, stopper>>

StartStep(n) == \/ StartClaims(n) \/ StartCreates(n) \/ StartListens(n)
                \/ ListenReturns(n)

-----------------------------------------------------------------------------
(***************************************************************************)
(* Stop: the server may not have been made yet, then there is nothing to   *)
(* close; or the field may name the one of an earlier Start, closed long   *)
(* since, and Stop gives up with the error of closing it again.            *)
(***************************************************************************)
StopBegins ==
    /\ running /\ stopper = "idle"
    /\ running' = FALSE /\ cancelled' = TRUE
    /\ stopper' = "close"
    /\ UNCHANGED <<taskVars, server, smtp, starter>>

\* A Start may have claimed the server meanwhile and put another into the field.
StopCloses ==
    /\ stopper = "close"
    /\ smtp' = IF server = 0 THEN smtp ELSE [smtp EXCEPT ![server] = "closed"]
    /\ stopper' = IF server # 0 /\ smtp[server] = "closed" THEN "error" ELSE "wait"
    /\ UNCHANGED <<taskVars, cancelled, running, server, starter>>

StopReturnsWhenEmpty ==
    /\ stopper = "wait"
    /\ \/ queue = <<>> /\ stopper' = "clean"
       \/ stopper' = "error"
    /\ UNCHANGED <<taskVars, cancelled, running, server, smtp, starter>>

\* The workers are gone, or the caller's context is done.
StopReturns ==
    /\ stopper = "wait"
    /\ \/ (\A w \in Workers : worker[w].pc = "exited") /\ stopper' = "clean"
       \/ stopper' = "error"
    /\ UNCHANGED <<taskVars, cancelled, running, server, smtp, starter>>
=============================================================================
