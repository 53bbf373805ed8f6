---------------------------- MODULE TaskScheduler ----------------------------
(***************************************************************************)
(* The task scheduler of queue/task.go: the loop that looks for due tasks, *)
(* the goroutines that run them with retries and a timeout, and the calls  *)
(* that register, enable, disable and remove tasks.                        *)
(*                                                                         *)
(* A task is due when now is after its NextRun.  Run r is one runTask      *)
(* goroutine, pc[r] its place:                                             *)
(*   "spawned"   before it takes tasksMutex to set IsRunning               *)
(*   "check"     at the top of the attempt loop                            *)
(*   "function"  in task.Function                                          *)
(*   "delay"     in the select between two attempts                        *)
(*   "free"      not started, or returned                                  *)
(***************************************************************************)
EXTENDS Naturals, FiniteSets

CONSTANTS
  Tasks,      \* the *Task values registered over time
  Name,       \* Name[t], task.Name
  Runs,       \* bound: the runTask goroutines alive at one time
  MaxRetries, \* MaxRetries[t], task.MaxRetries
  Exhausted,  \* cron tasks whose specification may run out of next runs
  MaxStarts,  \* bound: how often Start succeeds
  NoTask,
  TimeOuts    \* may the timeout of a run expire?

ASSUME SchedulerAssumption ==
  /\ IsFiniteSet(Runs)
  /\ MaxRetries \in [Tasks -> Nat]
  /\ Exhausted \subseteq Tasks
  /\ MaxStarts \in Nat
  /\ NoTask \notin Tasks
  /\ TimeOuts \in BOOLEAN

VARIABLES
  tasks,      \* the values of s.tasks
  used,       \* the tasks that were ever registered
  enabled,    \* task.Enabled
  isRunning,  \* task.IsRunning
  isDue,      \* now is after task.NextRun
  abandoned,  \* history: tasks with a run that timed out or was cancelled
  loop,       \* schedulerLoop: "off", "select" or "spawn"
  toRun,      \* tasksToRun, what is left of it
  pc, task, attempt,  \* the runs: place, task, attempt
  gaps,       \* history: ticks that found a run of the task before its flag
  wg,         \* the counter of s.workerWg
  running,    \* s.running
  starts,     \* how often Start has succeeded
  cancelled,  \* the context of the loop is done
  shutdown,   \* s.shutdownChan is closed
  stop        \* the progress of Stop

taskVars == <<tasks, used, enabled, isRunning, isDue, abandoned>>
loopVars == <<loop, toRun>>
runVars  == <<pc, task, attempt, gaps>>
lifeVars == <<running, starts, cancelled, shutdown, stop>>
vars     == <<taskVars, loopVars, runVars, wg, lifeVars>>

Init ==
  /\ tasks = {} /\ used = {}
  /\ enabled = [t \in Tasks |-> FALSE]
  /\ isRunning = [t \in Tasks |-> FALSE]
  /\ isDue = [t \in Tasks |-> FALSE]
  /\ abandoned = {}
  /\ loop = "off" /\ toRun = {}
  /\ gaps = [t \in Tasks |-> 0]
  /\ pc = [r \in Runs |-> "free"]
  /\ task = [r \in Runs |-> NoTask]
  /\ attempt = [r \in Runs |-> 0]
  /\ wg = 0
  /\ running = FALSE /\ starts = 0
  /\ cancelled = FALSE /\ shutdown = FALSE /\ stop = "none"

-----------------------------------------------------------------------------
(* The task table *)

(* A new task runs at once (interval) or at the next match (cron): in both *)
(* cases after the present instant.                                        *)
Register(t, e) ==
  /\ t \notin used
  /\ \A u \in tasks : Name[u] # Name[t]
  /\ tasks' = tasks \cup {t}
  /\ used' = used \cup {t}
  /\ enabled' = [enabled EXCEPT ![t] = e]
  /\ UNCHANGED <<isRunning, isDue, abandoned, loopVars, runVars, wg, lifeVars>>

EnableTask(t) ==
  /\ t \in tasks
  /\ enabled' = [enabled EXCEPT ![t] = TRUE]
  /\ UNCHANGED <<tasks, used, isRunning, isDue, abandoned, loopVars, runVars, wg, lifeVars>>

DisableTask(t) ==
  /\ t \in tasks
  /\ enabled' = [enabled EXCEPT ![t] = FALSE]
  /\ UNCHANGED <<tasks, used, isRunning, isDue, abandoned, loopVars, runVars, wg, lifeVars>>

RemoveTask(t) ==
  /\ t \in tasks
  /\ ~isRunning[t]
  /\ tasks' = tasks \ {t}
  /\ UNCHANGED <<used, enabled, isRunning, isDue, abandoned, loopVars, runVars, wg, lifeVars>>

(* The clock passes task.NextRun. *)
TimePasses(t) ==
  /\ t \in tasks /\ ~isDue[t]
  /\ isDue' = [isDue EXCEPT ![t] = TRUE]
  /\ UNCHANGED <<tasks, used, enabled, isRunning, abandoned, loopVars, runVars, wg, lifeVars>>

-----------------------------------------------------------------------------
(* Start and Stop *)

(* A restart waits for the Stop before it to return. *)
Start ==
  /\ ~running
  /\ starts < MaxStarts
  /\ stop # "waiting"
  /\ running' = TRUE
  /\ starts' = starts + 1
  /\ cancelled' = FALSE
  /\ wg' = wg + 1
  /\ loop' = "select"
  /\ stop' = "none"
  /\ UNCHANGED <<taskVars, toRun, runVars, shutdown>>

(* The compare-and-swap, s.cancel() and close(s.shutdownChan).  The Stop   *)
(* after a restart closes the closed channel: the program ends there.      *)
Stop ==
  /\ running
  /\ ~shutdown
  /\ running' = FALSE
  /\ cancelled' = TRUE
  /\ shutdown' = TRUE
  /\ stop' = "waiting"
  /\ UNCHANGED <<taskVars, loopVars, runVars, wg, starts>>

StopReturns ==
  /\ stop = "waiting"
  /\ wg = 0
  /\ stop' = "returned"
  /\ UNCHANGED <<taskVars, loopVars, runVars, wg, running, starts, cancelled, shutdown>>

(* The context given to Start ends. *)
Cancel ==
  /\ starts > 0 /\ ~cancelled
  /\ cancelled' = TRUE
  /\ UNCHANGED <<taskVars, loopVars, runVars, wg, running, starts, shutdown, stop>>

-----------------------------------------------------------------------------
(* schedulerLoop and checkAndRunTasks *)

(* Mutant of LoopExit: the deferred Done is missing. *)
LoopExitUncounted ==
  /\ loop = "select"
  /\ shutdown \/ cancelled
  /\ loop' = "off"
  /\ UNCHANGED <<taskVars, toRun, runVars, wg, lifeVars>>

LoopExit ==
  /\ loop = "select"
  /\ shutdown \/ cancelled
  /\ loop' = "off"
  /\ wg' = wg - 1
  /\ UNCHANGED <<taskVars, toRun, runVars, lifeVars>>

RunsOf(t) == {r \in Runs : task[r] = t}

(* A run of t exists that has still to set IsRunning. *)
Unflagged(t) == \E r \in RunsOf(t) : pc[r] = "spawned"

(* The tasks to run are collected under the read lock.  A task whose       *)
(* earlier run has not set its flag yet is collected again; gaps counts    *)
(* these until the task has no run left, as far as the number of runs can  *)
(* tell.                                                                   *)
Tick ==
  /\ loop = "select"
  /\ toRun' = {t \in tasks : enabled[t] /\ ~isRunning[t] /\ isDue[t]}
  /\ gaps' = [t \in Tasks |-> IF t \in toRun' /\ Unflagged(t) /\ gaps[t] < Cardinality(Runs)
                                THEN gaps[t] + 1 ELSE gaps[t]]
  /\ loop' = "spawn"
  /\ UNCHANGED <<taskVars, pc, task, attempt, wg, lifeVars>>

(* Mutant of Spawn: the goroutine is not counted. *)
SpawnUncounted(r, t) ==
  /\ loop = "spawn" /\ t \in toRun
  /\ pc[r] = "free"
  /\ toRun' = toRun \ {t}
  /\ pc' = [pc EXCEPT ![r] = "spawned"]
  /\ task' = [task EXCEPT ![r] = t]
  /\ UNCHANGED <<taskVars, loop, attempt, gaps, wg, lifeVars>>

Spawn(r, t) ==
  /\ loop = "spawn" /\ t \in toRun
  /\ pc[r] = "free"
  /\ toRun' = toRun \ {t}
  /\ wg' = wg + 1
  /\ pc' = [pc EXCEPT ![r] = "spawned"]
  /\ task' = [task EXCEPT ![r] = t]
  /\ UNCHANGED <<taskVars, loop, attempt, gaps, lifeVars>>

TickEnds ==
  /\ loop = "spawn" /\ toRun = {}
  /\ loop' = "select"
  /\ UNCHANGED <<taskVars, toRun, runVars, wg, lifeVars>>

-----------------------------------------------------------------------------
(* runTask *)

(* Mutant of RunBegins: the flag is forgotten. *)
RunBeginsSilently(r) ==
  /\ pc[r] = "spawned"
  /\ pc' = [pc EXCEPT ![r] = "check"]
  /\ UNCHANGED <<taskVars, loopVars, task, attempt, gaps, wg, lifeVars>>

RunBegins(r) ==
  /\ pc[r] = "spawned"
  /\ isRunning' = [isRunning EXCEPT ![task[r]] = TRUE]
  /\ pc' = [pc EXCEPT ![r] = "check"]
  /\ UNCHANGED <<tasks, used, enabled, isDue, abandoned, loopVars, task, attempt, gaps, wg, lifeVars>>

(* Mutant of Return: Done is called and deferred. *)
ReturnDoneTwice(r) ==
  /\ pc' = [pc EXCEPT ![r] = "free"]
  /\ task' = [task EXCEPT ![r] = NoTask]
  /\ attempt' = [attempt EXCEPT ![r] = 0]
  /\ gaps' = [gaps EXCEPT ![task[r]] = IF RunsOf(task[r]) = {r} THEN 0 ELSE @]
  /\ wg' = wg - 2

Return(r) ==
  /\ pc' = [pc EXCEPT ![r] = "free"]
  /\ task' = [task EXCEPT ![r] = NoTask]
  /\ attempt' = [attempt EXCEPT ![r] = 0]
  /\ gaps' = [gaps EXCEPT ![task[r]] = IF RunsOf(task[r]) = {r} THEN 0 ELSE @]
  /\ wg' = wg - 1

(* ctx.Done() or taskCtx.Done(): the run returns, IsRunning stays set. *)
Abandon(r) ==
  /\ Return(r)
  /\ abandoned' = abandoned \cup {task[r]}
  /\ UNCHANGED <<tasks, used, enabled, isRunning, isDue, loopVars, lifeVars>>

(* NextRun moves into the future; or no time is found and it stays. *)
UpdateNextRun(t) ==
  \/ isDue' = [isDue EXCEPT ![t] = FALSE]
  \/ t \in Exhausted /\ isDue' = isDue

(* Mutant of Finish: IsRunning stays set. *)
FinishFlagged(r) ==
  /\ Return(r)
  /\ UpdateNextRun(task[r])
  /\ UNCHANGED <<tasks, used, enabled, isRunning, abandoned, loopVars, lifeVars>>

(* The flag is cleared and the next run computed. *)
Finish(r) ==
  /\ Return(r)
  /\ isRunning' = [isRunning EXCEPT ![task[r]] = FALSE]
  /\ UpdateNextRun(task[r])
  /\ UNCHANGED <<tasks, used, enabled, abandoned, loopVars, lifeVars>>

RunCancelled(r) ==
  /\ pc[r] = "check"
  /\ cancelled
  /\ Abandon(r)

RunCalls(r) ==
  /\ pc[r] = "check"
  /\ ~cancelled
  /\ pc' = [pc EXCEPT ![r] = "function"]
  /\ UNCHANGED <<taskVars, loopVars, task, attempt, gaps, wg, lifeVars>>

FunctionSucceeds(r) ==
  /\ pc[r] = "function"
  /\ Finish(r)

FunctionFails(r) ==
  /\ pc[r] = "function"
  /\ IF attempt[r] < MaxRetries[task[r]]
       THEN /\ pc' = [pc EXCEPT ![r] = "delay"]
            /\ UNCHANGED <<taskVars, loopVars, task, attempt, gaps, wg, lifeVars>>
       ELSE Finish(r)

DelayOver(r) ==
  /\ pc[r] = "delay"
  /\ pc' = [pc EXCEPT ![r] = "check"]
  /\ attempt' = [attempt EXCEPT ![r] = @ + 1]
  /\ UNCHANGED <<taskVars, loopVars, task, gaps, wg, lifeVars>>

DelayInterrupted(r) ==
  /\ pc[r] = "delay"
  /\ TimeOuts \/ cancelled
  /\ Abandon(r)

-----------------------------------------------------------------------------
LoopStep == LoopExit \/ Tick \/ TickEnds \/ \E r \in Runs, t \in Tasks : Spawn(r, t)

RunStep(r) ==
  \/ RunBegins(r) \/ RunCancelled(r) \/ RunCalls(r) \/ FunctionSucceeds(r)
  \/ FunctionFails(r) \/ DelayOver(r) \/ DelayInterrupted(r)

Next ==
  \/ Start \/ Stop \/ StopReturns \/ Cancel
  \/ LoopStep
  \/ \E r \in Runs : RunStep(r)
  \/ \E t \in Tasks :
       \/ EnableTask(t) \/ DisableTask(t) \/ RemoveTask(t) \/ TimePasses(t)
       \/ \E e \in BOOLEAN : Register(t, e)

Spec == Init /\ [][Next]_vars

(* The loop and the runs are goroutines that keep running, task functions  *)
(* return, and the clock advances.  A select chooses among its ready cases *)
(* at random, so the loop does not prefer its ticker to a closed channel   *)
(* for ever.                                                               *)
Fairness ==
  /\ SF_vars(LoopExit)
  /\ WF_vars(LoopStep)
  /\ \A r \in Runs : WF_vars(RunStep(r))
  /\ \A t \in Tasks : WF_vars(TimePasses(t))
  /\ WF_vars(StopReturns)

FairSpec == Spec /\ Fairness

-----------------------------------------------------------------------------
Executing(r, t) == task[r] = t /\ pc[r] \in {"check", "function", "delay"}

TypeOK ==
  /\ tasks \subseteq used /\ used \subseteq Tasks /\ toRun \subseteq Tasks /\ abandoned \subseteq Tasks
  /\ enabled \in [Tasks -> BOOLEAN]
  /\ isRunning \in [Tasks -> BOOLEAN]
  /\ isDue \in [Tasks -> BOOLEAN]
  /\ loop \in {"off", "select", "spawn"}
  /\ gaps \in [Tasks -> 0 .. Cardinality(Runs)]
  /\ pc \in [Runs -> {"free", "spawned", "check", "function", "delay"}]
  /\ task \in [Runs -> Tasks \cup {NoTask}]
  /\ attempt \in [Runs -> Nat]
  /\ wg \in Nat
  /\ running \in BOOLEAN /\ cancelled \in BOOLEAN /\ shutdown \in BOOLEAN
  /\ starts \in 0 .. MaxStarts
  /\ stop \in {"none", "waiting", "returned"}

(* checkAndRunTasks (task.go:331) skips a task while IsRunning is set, but *)
(* the flag is set by the run itself (task.go:348), under another lock.    *)
(* A tick in that gap is the only way for runs of a task to overlap, and   *)
(* it costs one run more: a task has never more runs at a time than one,   *)
(* and one for each such tick since it last had none, although the first   *)
(* run to finish clears the flag (task.go:373) of the others.              *)
OneRunPerGap == \A t \in Tasks : Cardinality(RunsOf(t)) <= 1 + gaps[t]

(* When Stop returns (task.go:300) the loop is gone and no task function   *)
(* runs, also for tasks spawned while Stop was under way.                  *)
StopWaitsForAll == stop = "returned" => loop = "off" /\ \A r \in Runs : pc[r] = "free"

(* Once Stop closed the channel (task.go:299), its Wait returns: the loop  *)
(* and every run, whatever they are doing, come to their Done.             *)
StopReturnsEventually == stop = "waiting" ~> stop = "returned"

(* An enabled task runs again and again, whether its runs succeed or fail  *)
(* (task.go:325-341, 373-448), until somebody disables or removes it, the  *)
(* scheduler ends, or one of its runs times out between two attempts.      *)
TaskRunsAgain ==
  \A t \in Tasks :
    (t \in tasks /\ enabled[t] /\ running)
      ~> \/ \E r \in Runs : task[r] = t /\ pc[r] = "function"
         \/ ~enabled[t] \/ t \notin tasks \/ cancelled \/ t \in abandoned

(* IsRunning is set only while a run of the task exists, so that           *)
(* RemoveTask refuses running tasks and no others (task.go:528-529:        *)
(* "cannot remove running task").                                          *)
FlagMeansRunning ==
  \A t \in Tasks : isRunning[t] /\ ~cancelled => \E r \in Runs : Executing(r, t)

(* A removed task does not run: RemoveTask refuses a task that runs        *)
(* (task.go:528-529: "cannot remove running task").                        *)
RemovedDoNotRun ==
  \A t \in used \ tasks : \A r \in Runs : ~(task[r] = t /\ pc[r] = "function")
=============================================================================
