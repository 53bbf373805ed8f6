------------------------ MODULE TaskSchedulerProofs ------------------------
(***************************************************************************)
(* Proofs about the task scheduler and about the search for the next run   *)
(* of its cron tasks.  TaskScheduler: type correctness, that runs of a     *)
(* task overlap only by ticks that come before a run has set its flag, and *)
(* that Stop waits for the loop and for every run.  CronNext: for every    *)
(* specification, calendar and limit, the search of calculateNextCronRun   *)
(* passes no matching time, and what it returns matches.                   *)
(***************************************************************************)
EXTENDS TaskScheduler, CronNext, FiniteSetTheorems, TLAPS

Alive == {r \in Runs : pc[r] # "free"}

Places == {"free", "spawned", "check", "function", "delay"}

(* What workerWg counts: the runs that have not returned, and the loop. *)
WgInv == wg = Cardinality(Alive) + (IF loop = "off" THEN 0 ELSE 1)

(* TypeOK without the counter, which only WgInv shows to be a natural. *)
PartTypeOK ==
  /\ tasks \subseteq used /\ used \subseteq Tasks /\ toRun \subseteq Tasks /\ abandoned \subseteq Tasks
  /\ enabled \in [Tasks -> BOOLEAN]
  /\ isRunning \in [Tasks -> BOOLEAN]
  /\ isDue \in [Tasks -> BOOLEAN]
  /\ loop \in {"off", "select", "spawn"}
  /\ pc \in [Runs -> Places]
  /\ task \in [Runs -> Tasks \cup {NoTask}]
  /\ attempt \in [Runs -> Nat]
  /\ gaps \in [Tasks -> 0 .. Cardinality(Runs)]
  /\ running \in BOOLEAN /\ cancelled \in BOOLEAN /\ shutdown \in BOOLEAN
  /\ starts \in 0 .. MaxStarts
  /\ stop \in {"none", "waiting", "returned"}

(* A run has a task exactly from its spawning to its return. *)
TaskInv == \A r \in Runs : pc[r] = "free" <=> task[r] = NoTask

(* The loop of a scheduler that is not started, or was stopped, is gone. *)
LoopInv == ~running /\ stop # "waiting" => loop = "off"

StopInv == /\ PartTypeOK
           /\ TaskInv
           /\ WgInv
           /\ LoopInv
           /\ StopWaitsForAll

(* The runs of a task, with the one the loop is about to spawn, are at     *)
(* most one more than the ticks counted for it; and not one more when the  *)
(* loop would take the task for idle.                                      *)
Loaded(k)  == Cardinality(RunsOf(k)) + (IF k \in toRun THEN 1 ELSE 0) <= 1 + gaps[k]
Idle(k)    == ~isRunning[k] /\ k \notin toRun /\ ~Unflagged(k) => Cardinality(RunsOf(k)) <= gaps[k]
SpawnInv   == loop # "spawn" => toRun = {}
OverlapInv == SpawnInv /\ \A k \in Tasks : Loaded(k) /\ Idle(k)

-----------------------------------------------------------------------------
(* The number of runs is a natural number. *)
LEMMA RunsCount == Cardinality(Runs) \in Nat
  BY SchedulerAssumption, FS_CardinalityType

(* Cardinality(Alive) is a natural number. *)
LEMMA AliveType == IsFiniteSet(Alive) /\ Cardinality(Alive) \in Nat
  <1>1. IsFiniteSet(Alive)
    BY SchedulerAssumption, FS_Subset DEF Alive
  <1> QED
    BY <1>1, FS_CardinalityType

(* A run that is spawned is one more to wait for. *)
LEMMA AliveSpawn ==
  ASSUME NEW r \in Runs, pc \in [Runs -> Places], pc[r] = "free",
         pc' = [pc EXCEPT ![r] = "spawned"]
  PROVE  Cardinality(Alive') = Cardinality(Alive) + 1
  <1>1. Alive' = Alive \cup {r} /\ r \notin Alive
    BY DEF Alive
  <1> QED
    BY <1>1, AliveType, FS_AddElement

(* A run that returns is one less. *)
LEMMA AliveReturn ==
  ASSUME NEW r \in Runs, pc \in [Runs -> Places], pc[r] # "free",
         pc' = [pc EXCEPT ![r] = "free"]
  PROVE  Cardinality(Alive') = Cardinality(Alive) - 1
  <1>1. Alive' = Alive \ {r} /\ r \in Alive
    BY DEF Alive
  <1> QED
    BY <1>1, AliveType, FS_RemoveElement

(* A run that moves on stays one to wait for. *)
LEMMA AliveMove ==
  ASSUME NEW r \in Runs, NEW p \in Places \ {"free"}, pc \in [Runs -> Places], pc[r] # "free",
         pc' = [pc EXCEPT ![r] = p]
  PROVE  Alive' = Alive
  BY DEF Alive

(* The initial state satisfies the invariant of Stop. *)
LEMMA StopInvInit == Init => StopInv
  <1> SUFFICES ASSUME Init PROVE StopInv
    OBVIOUS
  <1>1. PartTypeOK
    <2>1. /\ enabled \in [Tasks -> BOOLEAN]
          /\ isRunning \in [Tasks -> BOOLEAN]
          /\ isDue \in [Tasks -> BOOLEAN]
      BY DEF Init
    <2>2. starts \in 0 .. MaxStarts /\ attempt \in [Runs -> Nat]
      BY SchedulerAssumption DEF Init
    <2>3. pc \in [Runs -> Places] /\ task \in [Runs -> Tasks \cup {NoTask}]
      BY DEF Init, Places
    <2>5. gaps \in [Tasks -> 0 .. Cardinality(Runs)]
      BY RunsCount DEF Init
    <2>4. running \in BOOLEAN /\ cancelled \in BOOLEAN /\ shutdown \in BOOLEAN
      BY DEF Init
    <2> QED
      BY <2>1, <2>2, <2>3, <2>4, <2>5 DEF Init, PartTypeOK
  <1>2. TaskInv /\ LoopInv /\ StopWaitsForAll
    BY DEF Init, TaskInv, LoopInv, StopWaitsForAll
  <1>3. Alive = {}
    BY DEF Init, Alive
  <1>4. WgInv
    BY <1>3, FS_EmptySet DEF Init, WgInv
  <1> QED
    BY <1>1, <1>2, <1>4 DEF StopInv

(* The return of a run keeps the invariant of Stop, whether it clears the  *)
(* flag or leaves it.                                                      *)
LEMMA ReturnKeepsStopInv ==
  ASSUME StopInv, NEW r \in Runs, pc[r] # "free", Return(r),
         isRunning' \in [Tasks -> BOOLEAN], isDue' \in [Tasks -> BOOLEAN],
         abandoned' \subseteq Tasks,
         UNCHANGED <<tasks, used, enabled, loopVars, lifeVars>>
  PROVE  StopInv'
  <1> USE DEF StopInv
  <1>1. PartTypeOK'
    <2>1. gaps' \in [Tasks -> 0 .. Cardinality(Runs)]
      <3>1. /\ gaps' = [gaps EXCEPT ![task[r]] = IF RunsOf(task[r]) = {r} THEN 0 ELSE gaps[task[r]]]
            /\ gaps \in [Tasks -> 0 .. Cardinality(Runs)]
        BY DEF Return, PartTypeOK
      <3>2. 0 \in 0 .. Cardinality(Runs) /\ task[r] \in Tasks
        BY RunsCount DEF PartTypeOK, TaskInv
      <3> QED
        BY <3>1, <3>2
    <2> QED
      BY <2>1 DEF PartTypeOK, Places, Return, loopVars, lifeVars
  <1>2. TaskInv' /\ LoopInv' /\ StopWaitsForAll'
    BY DEF PartTypeOK, TaskInv, LoopInv, StopWaitsForAll, Return, loopVars, lifeVars
  <1>3. WgInv'
    <2>1. Cardinality(Alive') = Cardinality(Alive) - 1
      BY AliveReturn DEF PartTypeOK, Return
    <2>2. wg' = wg - 1 /\ loop' = loop
      BY DEF Return, loopVars
    <2> QED
      BY <2>1, <2>2, AliveType DEF WgInv
  <1> QED
    BY <1>1, <1>2, <1>3

(* Every step keeps the invariant of Stop. *)
LEMMA StopInvNext == StopInv /\ [Next]_vars => StopInv'
  <1> SUFFICES ASSUME StopInv, [Next]_vars PROVE StopInv'
    OBVIOUS
  <1> USE SchedulerAssumption DEF StopInv
  <1>1. CASE UNCHANGED vars
    BY <1>1 DEF vars, taskVars, loopVars, runVars, lifeVars, PartTypeOK, TaskInv, WgInv,
                LoopInv, StopWaitsForAll, Alive
  <1>2. ASSUME NEW k \in Tasks, NEW e \in BOOLEAN,
               Register(k, e) \/ EnableTask(k) \/ DisableTask(k) \/ RemoveTask(k) \/ TimePasses(k)
        PROVE  StopInv'
    <2>1. UNCHANGED <<abandoned, loopVars, runVars, wg, lifeVars>>
      BY <1>2 DEF Register, EnableTask, DisableTask, RemoveTask, TimePasses
    <2>2. PartTypeOK'
      <3>1. enabled' \in [Tasks -> BOOLEAN]
        <4>1. \/ enabled' = enabled
              \/ \E b \in BOOLEAN : enabled' = [enabled EXCEPT ![k] = b]
          BY <1>2 DEF Register, EnableTask, DisableTask, RemoveTask, TimePasses
        <4> QED
          BY <4>1 DEF PartTypeOK
      <3>2. isRunning' \in [Tasks -> BOOLEAN]
        BY <1>2 DEF Register, EnableTask, DisableTask, RemoveTask, TimePasses, PartTypeOK
      <3>3. isDue' \in [Tasks -> BOOLEAN]
        <4>1. isDue' = isDue \/ isDue' = [isDue EXCEPT ![k] = TRUE]
          BY <1>2 DEF Register, EnableTask, DisableTask, RemoveTask, TimePasses
        <4> QED
          BY <4>1 DEF PartTypeOK
      <3>4. tasks' \subseteq used' /\ used' \subseteq Tasks
        BY <1>2 DEF Register, EnableTask, DisableTask, RemoveTask, TimePasses, PartTypeOK
      <3> QED
        BY <2>1, <3>1, <3>2, <3>3, <3>4 DEF PartTypeOK, loopVars, runVars, lifeVars
    <2> QED
      BY <2>1, <2>2 DEF TaskInv, WgInv, LoopInv, StopWaitsForAll, Alive, loopVars, runVars, lifeVars
  <1>3. CASE Start
    <2>1. loop = "off"
      BY <1>3 DEF Start, LoopInv
    <2>2. PartTypeOK' /\ TaskInv' /\ LoopInv' /\ StopWaitsForAll'
      <3>1. starts' \in 0 .. MaxStarts
        BY <1>3 DEF Start, PartTypeOK
      <3>2. PartTypeOK'
        BY <1>3, <3>1 DEF Start, PartTypeOK, taskVars, runVars
      <3>3. TaskInv' /\ LoopInv' /\ StopWaitsForAll'
        BY <1>3 DEF Start, TaskInv, LoopInv, StopWaitsForAll, runVars
      <3> QED
        BY <3>2, <3>3
    <2>3. WgInv'
      BY <1>3, <2>1, AliveType DEF Start, WgInv, Alive, runVars
    <2> QED
      BY <2>2, <2>3
  <1>4. CASE Stop
    BY <1>4 DEF Stop, PartTypeOK, TaskInv, WgInv, LoopInv, StopWaitsForAll, Alive,
                taskVars, loopVars, runVars
  <1>5. CASE StopReturns
    <2>1. loop = "off" /\ Cardinality(Alive) = 0
      BY <1>5, AliveType DEF StopReturns, WgInv
    <2>2. Alive = {}
      BY <2>1, AliveType, FS_EmptySet
    <2>3. \A r \in Runs : pc[r] = "free"
      BY <2>2 DEF Alive
    <2> QED
      BY <1>5, <2>1, <2>3 DEF StopReturns, PartTypeOK, TaskInv, WgInv, LoopInv, StopWaitsForAll,
                              Alive, taskVars, loopVars, runVars
  <1>6. CASE Cancel
    BY <1>6 DEF Cancel, PartTypeOK, TaskInv, WgInv, LoopInv, StopWaitsForAll, Alive,
                taskVars, loopVars, runVars
  <1>7. CASE LoopExit
    <2>1. PartTypeOK' /\ TaskInv' /\ LoopInv' /\ StopWaitsForAll'
      BY <1>7 DEF LoopExit, PartTypeOK, TaskInv, LoopInv, StopWaitsForAll, taskVars, runVars, lifeVars
    <2>2. WgInv'
      BY <1>7, AliveType DEF LoopExit, WgInv, Alive, runVars
    <2> QED
      BY <2>1, <2>2
  <1>8. CASE Tick \/ TickEnds
    <2>1. gaps' \in [Tasks -> 0 .. Cardinality(Runs)]
      BY <1>8, RunsCount DEF Tick, TickEnds, PartTypeOK, runVars
    <2> QED
      BY <1>8, <2>1 DEF Tick, TickEnds, PartTypeOK, TaskInv, WgInv, LoopInv, StopWaitsForAll, Alive,
                        taskVars, runVars, lifeVars
  <1>9. ASSUME NEW r \in Runs, NEW k \in Tasks, Spawn(r, k)
        PROVE  StopInv'
    <2>1. PartTypeOK' /\ TaskInv' /\ LoopInv' /\ StopWaitsForAll'
      <3>1. PartTypeOK'
        BY <1>9 DEF Spawn, PartTypeOK, Places, taskVars, lifeVars
      <3>2. TaskInv' /\ LoopInv' /\ StopWaitsForAll'
        BY <1>9 DEF Spawn, PartTypeOK, TaskInv, LoopInv, StopWaitsForAll, lifeVars
      <3> QED
        BY <3>1, <3>2
    <2>2. WgInv'
      <3>1. Cardinality(Alive') = Cardinality(Alive) + 1
        BY <1>9, AliveSpawn DEF Spawn, PartTypeOK
      <3>2. wg' = wg + 1 /\ loop' = loop
        BY <1>9 DEF Spawn
      <3> QED
        BY <3>1, <3>2, AliveType DEF WgInv
    <2> QED
      BY <2>1, <2>2
  <1>10. ASSUME NEW r \in Runs, RunBegins(r) \/ RunCalls(r) \/ DelayOver(r)
         PROVE  StopInv'
    <2>1. PartTypeOK' /\ TaskInv' /\ LoopInv' /\ StopWaitsForAll'
      <3>1. UNCHANGED <<tasks, used, enabled, isDue, abandoned, loopVars, task, lifeVars>>
        BY <1>10 DEF RunBegins, RunCalls, DelayOver, taskVars
      <3>2. isRunning' \in [Tasks -> BOOLEAN] /\ gaps' = gaps
        BY <1>10 DEF RunBegins, RunCalls, DelayOver, taskVars, PartTypeOK
      <3>3. pc' \in [Runs -> Places] /\ attempt' \in [Runs -> Nat]
        BY <1>10 DEF RunBegins, RunCalls, DelayOver, PartTypeOK, Places
      <3>4. PartTypeOK'
        BY <3>1, <3>2, <3>3 DEF PartTypeOK, loopVars, lifeVars
      <3>5. \A q \in Runs : pc'[q] = "free" <=> pc[q] = "free"
        BY <1>10 DEF RunBegins, RunCalls, DelayOver, PartTypeOK
      <3>6. TaskInv' /\ LoopInv' /\ StopWaitsForAll'
        BY <3>1, <3>5 DEF TaskInv, LoopInv, StopWaitsForAll, loopVars, lifeVars
      <3> QED
        BY <3>4, <3>6
    <2>2. Alive' = Alive
      BY <1>10 DEF RunBegins, RunCalls, DelayOver, PartTypeOK, Alive
    <2> QED
      BY <1>10, <2>1, <2>2 DEF RunBegins, RunCalls, DelayOver, WgInv, loopVars
  <1>11. ASSUME NEW r \in Runs,
                RunCancelled(r) \/ DelayInterrupted(r) \/ FunctionSucceeds(r) \/ FunctionFails(r)
         PROVE  StopInv'
    <2>1. pc[r] # "free" /\ task[r] \in Tasks
      BY <1>11 DEF RunCancelled, DelayInterrupted, FunctionSucceeds, FunctionFails,
                   TaskInv, PartTypeOK
    <2>2. CASE Abandon(r)
      <3>1. abandoned' \subseteq Tasks
        BY <2>1, <2>2 DEF Abandon, PartTypeOK
      <3> QED
        BY <2>1, <2>2, <3>1, ReturnKeepsStopInv DEF Abandon, PartTypeOK
    <2>3. CASE Finish(r)
      <3>1. isRunning' \in [Tasks -> BOOLEAN] /\ isDue' \in [Tasks -> BOOLEAN]
        BY <2>1, <2>3 DEF Finish, UpdateNextRun, PartTypeOK
      <3>2. /\ Return(r) /\ abandoned' \subseteq Tasks
            /\ UNCHANGED <<tasks, used, enabled, loopVars, lifeVars>>
        BY <2>3 DEF Finish, PartTypeOK
      <3> QED
        BY <2>1, <3>1, <3>2, ReturnKeepsStopInv
    <2>4. CASE /\ pc' = [pc EXCEPT ![r] = "delay"]
               /\ UNCHANGED <<taskVars, loopVars, task, attempt, gaps, wg, lifeVars>>
      <3>1. PartTypeOK' /\ TaskInv' /\ LoopInv' /\ StopWaitsForAll'
        BY <2>1, <2>4 DEF PartTypeOK, Places, TaskInv, LoopInv, StopWaitsForAll,
                          taskVars, loopVars, lifeVars
      <3>2. Alive' = Alive
        BY <2>1, <2>4 DEF PartTypeOK, Alive
      <3> QED
        BY <2>4, <3>1, <3>2 DEF WgInv, loopVars
    <2> QED
      BY <1>11, <2>2, <2>3, <2>4 DEF RunCancelled, DelayInterrupted, FunctionSucceeds, FunctionFails
  <1> QED
    BY <1>1, <1>2, <1>3, <1>4, <1>5, <1>6, <1>7, <1>8, <1>9, <1>10, <1>11
       DEF Next, LoopStep, RunStep

(* The invariant of Stop holds in every reachable state. *)
THEOREM StopInvariance == Spec => []StopInv
  BY StopInvInit, StopInvNext, PTL DEF Spec

(* Every variable keeps its type; in particular the counter of workerWg    *)
(* never falls below zero, where Done (task.go:307, task.go:345) panics.   *)
THEOREM SchedulerTypeCorrect == Spec => []TypeOK
  <1>1. StopInv => TypeOK
    BY AliveType DEF StopInv, WgInv, PartTypeOK, Places, TypeOK
  <1> QED
    BY <1>1, StopInvariance, PTL

(* When Stop returns, the loop and all runs are gone, for any number of    *)
(* tasks and runs.                                                         *)
THEOREM StopWaits == Spec => []StopWaitsForAll
  <1>1. StopInv => StopWaitsForAll
    BY DEF StopInv
  <1> QED
    BY <1>1, StopInvariance, PTL

-----------------------------------------------------------------------------
(* The runs of a task are finitely many. *)
LEMMA RunsOfType ==
  ASSUME NEW k
  PROVE  /\ IsFiniteSet(RunsOf(k)) /\ Cardinality(RunsOf(k)) \in Nat
         /\ Cardinality(RunsOf(k)) <= Cardinality(Runs)
  BY SchedulerAssumption, FS_Subset, FS_CardinalityType DEF RunsOf

(* The initial state satisfies the overlap invariant. *)
LEMMA OverlapInit == Init => OverlapInv
  <1> SUFFICES ASSUME Init, NEW k \in Tasks PROVE Loaded(k) /\ Idle(k)
    BY DEF Init, OverlapInv, SpawnInv
  <1>1. RunsOf(k) = {}
    BY SchedulerAssumption DEF Init, RunsOf
  <1> QED
    BY <1>1, FS_EmptySet DEF Init, Loaded, Idle

(* A step that leaves flag, places and counts of the runs of k alone keeps *)
(* what the invariant says of k.                                           *)
LEMMA FrameOverlap ==
  ASSUME NEW k \in Tasks, Loaded(k), Idle(k), RunsOf(k)' = RunsOf(k),
         isRunning'[k] = isRunning[k], gaps'[k] = gaps[k], k \in toRun' <=> k \in toRun,
         \A r \in RunsOf(k) : pc[r] = "spawned" => pc'[r] = "spawned"
  PROVE  Loaded(k)' /\ Idle(k)'
  <1>1. Unflagged(k) => Unflagged(k)'
    BY DEF Unflagged
  <1> QED
    BY <1>1 DEF Loaded, Idle

(* A run that returns leaves its task with one run less. *)
LEMMA ReturnKeepsOverlap ==
  ASSUME StopInv, OverlapInv, NEW r \in Runs, pc[r] # "free", Return(r),
         \/ UNCHANGED isRunning
         \/ isRunning' = [isRunning EXCEPT ![task[r]] = FALSE],
         UNCHANGED <<loop, toRun>>
  PROVE  OverlapInv'
  <1>1. /\ task[r] \in Tasks /\ task'[r] = NoTask /\ \A q \in Runs \ {r} : task'[q] = task[q]
        /\ \A q \in Runs \ {r} : pc'[q] = pc[q]
    BY DEF StopInv, PartTypeOK, TaskInv, Return
  <1>2. SpawnInv'
    BY DEF OverlapInv, SpawnInv
  <1>3. ASSUME NEW k \in Tasks, k # task[r] PROVE Loaded(k)' /\ Idle(k)'
    <2>1. RunsOf(k)' = RunsOf(k) /\ r \notin RunsOf(k)
      BY <1>1, <1>3, SchedulerAssumption DEF RunsOf
    <2>2. isRunning'[k] = isRunning[k] /\ gaps'[k] = gaps[k]
      BY <1>1, <1>3 DEF Return, StopInv, PartTypeOK
    <2>3. \A q \in RunsOf(k) : pc[q] = "spawned" => pc'[q] = "spawned"
      BY <1>1, <2>1 DEF RunsOf
    <2> QED
      BY <2>1, <2>2, <2>3, FrameOverlap DEF OverlapInv
  <1>4. ASSUME NEW k \in Tasks, k = task[r] PROVE Loaded(k)' /\ Idle(k)'
    <2>1. RunsOf(k)' = RunsOf(k) \ {r} /\ r \in RunsOf(k)
      BY <1>1, <1>4, SchedulerAssumption DEF RunsOf
    <2>2. Cardinality(RunsOf(k)') = Cardinality(RunsOf(k)) - 1
      BY <2>1, RunsOfType, FS_RemoveElement
    <2>3. PICK n \in Nat : n = Cardinality(RunsOf(k))
      BY RunsOfType
    <2>4. gaps[k] \in Nat /\ n + (IF k \in toRun THEN 1 ELSE 0) <= 1 + gaps[k]
      BY <2>3, RunsCount DEF OverlapInv, Loaded, StopInv, PartTypeOK
    <2>5. CASE RunsOf(k) = {r}
      <3>1. Cardinality(RunsOf(k)') = 0 /\ gaps'[k] = 0
        BY <1>4, <2>1, <2>5, FS_EmptySet DEF Return, StopInv, PartTypeOK
      <3> QED
        BY <3>1 DEF Loaded, Idle
    <2>6. CASE RunsOf(k) # {r}
      <3>1. gaps'[k] = gaps[k]
        BY <1>4, <2>6 DEF Return, StopInv, PartTypeOK
      <3> QED
        BY <2>2, <2>3, <2>4, <3>1 DEF Loaded, Idle
    <2> QED
      BY <2>5, <2>6
  <1> QED
    BY <1>2, <1>3, <1>4 DEF OverlapInv

(* Every step keeps the overlap invariant. *)
LEMMA OverlapNext == StopInv /\ OverlapInv /\ [Next]_vars => OverlapInv'
  <1> SUFFICES ASSUME StopInv, OverlapInv, [Next]_vars PROVE OverlapInv'
    OBVIOUS
  <1> USE SchedulerAssumption
  <1>1. ASSUME UNCHANGED <<isRunning, toRun, pc, task, gaps>>, loop' = "spawn" => loop = "spawn",
               loop = "spawn" /\ loop' # "spawn" => toRun = {}
        PROVE  OverlapInv'
    BY <1>1 DEF OverlapInv, SpawnInv, Loaded, Idle, Unflagged, RunsOf
  <1>2. CASE UNCHANGED vars
    BY <1>1, <1>2 DEF vars, taskVars, loopVars, runVars
  <1>3. CASE Start \/ Stop \/ StopReturns \/ Cancel \/ LoopExit \/ TickEnds
    BY <1>1, <1>3 DEF Start, Stop, StopReturns, Cancel, LoopExit, TickEnds, StopInv, LoopInv,
                      taskVars, loopVars, runVars
  <1>4. ASSUME NEW k \in Tasks, NEW e \in BOOLEAN,
               Register(k, e) \/ EnableTask(k) \/ DisableTask(k) \/ RemoveTask(k) \/ TimePasses(k)
        PROVE  OverlapInv'
    BY <1>1, <1>4 DEF Register, EnableTask, DisableTask, RemoveTask, TimePasses, loopVars, runVars
  <1>5. CASE Tick
    <2>1. /\ loop' = "spawn" /\ toRun = {} /\ toRun' \subseteq {k \in tasks : ~isRunning[k]}
          /\ UNCHANGED <<isRunning, pc, task>>
      BY <1>5 DEF Tick, OverlapInv, SpawnInv, taskVars
    <2> SUFFICES ASSUME NEW k \in Tasks PROVE Loaded(k)' /\ Idle(k)'
      BY <2>1 DEF OverlapInv, SpawnInv
    <2>2. RunsOf(k)' = RunsOf(k) /\ (Unflagged(k)' <=> Unflagged(k))
      BY <2>1 DEF RunsOf, Unflagged
    <2>3. gaps'[k] = IF k \in toRun' /\ Unflagged(k) /\ gaps[k] < Cardinality(Runs)
                       THEN gaps[k] + 1 ELSE gaps[k]
      BY <1>5 DEF Tick
    <2>4. PICK n \in Nat : n = Cardinality(RunsOf(k)) /\ n <= Cardinality(Runs)
      BY RunsOfType
    <2>5. PICK m \in Nat : m = Cardinality(Runs)
      BY RunsCount
    <2>6. gaps[k] \in Nat /\ n <= 1 + gaps[k]
      BY <2>1, <2>4, <2>5 DEF OverlapInv, Loaded, StopInv, PartTypeOK
    <2>7. k \notin toRun' => Loaded(k)' /\ Idle(k)'
      <3> SUFFICES ASSUME k \notin toRun' PROVE Loaded(k)' /\ Idle(k)'
        OBVIOUS
      <3> QED
        BY <2>1, <2>2, <2>3 DEF OverlapInv, Loaded, Idle
    <2>8. ASSUME k \in toRun' PROVE Loaded(k)' /\ Idle(k)'
      <3>1. Idle(k)'
        BY <2>8 DEF Idle
      <3>2. n + 1 <= 1 + gaps'[k]
        <4>1. CASE Unflagged(k)
          BY <2>3, <2>4, <2>5, <2>6, <2>8, <4>1
        <4>2. CASE ~Unflagged(k)
          BY <2>1, <2>3, <2>4, <2>6, <2>8, <4>2 DEF OverlapInv, Idle
        <4> QED
          BY <4>1, <4>2
      <3> QED
        BY <2>2, <2>4, <2>8, <3>1, <3>2 DEF Loaded
    <2> QED
      BY <2>7, <2>8
  <1>6. ASSUME NEW r \in Runs, NEW k \in Tasks, Spawn(r, k)
        PROVE  OverlapInv'
    <2>1. /\ loop = "spawn" /\ k \in toRun /\ toRun' = toRun \ {k} /\ UNCHANGED <<isRunning, gaps, loop>>
          /\ pc[r] = "free" /\ pc' = [pc EXCEPT ![r] = "spawned"]
          /\ task' = [task EXCEPT ![r] = k]
      BY <1>6 DEF Spawn, taskVars
    <2>2. /\ pc \in [Runs -> Places] /\ task \in [Runs -> Tasks \cup {NoTask}]
          /\ task[r] = NoTask
      BY <2>1 DEF StopInv, PartTypeOK, TaskInv
    <2> SUFFICES ASSUME NEW j \in Tasks PROVE Loaded(j)' /\ Idle(j)'
      BY <2>1 DEF OverlapInv, SpawnInv
    <2>3. CASE j # k
      <3>1. RunsOf(j)' = RunsOf(j) /\ \A q \in RunsOf(j) : pc'[q] = pc[q]
        BY <2>1, <2>2, <2>3 DEF RunsOf
      <3> QED
        BY <2>1, <2>3, <3>1, FrameOverlap DEF OverlapInv
    <2>4. CASE j = k
      <3>1. RunsOf(k)' = RunsOf(k) \cup {r} /\ r \notin RunsOf(k)
        BY <2>1, <2>2 DEF RunsOf
      <3>2. Cardinality(RunsOf(k)') = Cardinality(RunsOf(k)) + 1
        BY <3>1, RunsOfType, FS_AddElement
      <3>3. Unflagged(k)'
        BY <2>1, <2>2, <3>1 DEF Unflagged
      <3>4. PICK n \in Nat : n = Cardinality(RunsOf(k))
        BY RunsOfType
      <3>5. n + 1 <= 1 + gaps[k]
        BY <2>1, <3>4 DEF OverlapInv, Loaded
      <3>6. Loaded(k)'
        BY <2>1, <3>2, <3>4, <3>5 DEF Loaded
      <3> QED
        BY <2>4, <3>3, <3>6 DEF Idle
    <2> QED
      BY <2>3, <2>4
  <1>7. ASSUME NEW r \in Runs, RunBegins(r)
        PROVE  OverlapInv'
    <2>1. /\ isRunning' = [isRunning EXCEPT ![task[r]] = TRUE]
          /\ pc' = [pc EXCEPT ![r] = "check"] /\ pc[r] = "spawned"
          /\ UNCHANGED <<loop, toRun, task, gaps>>
      BY <1>7 DEF RunBegins, loopVars
    <2>2. /\ pc \in [Runs -> Places] /\ isRunning \in [Tasks -> BOOLEAN] /\ task[r] \in Tasks
      BY <2>1 DEF StopInv, PartTypeOK, TaskInv
    <2> SUFFICES ASSUME NEW j \in Tasks PROVE Loaded(j)' /\ Idle(j)'
      BY <2>1 DEF OverlapInv, SpawnInv
    <2>3. RunsOf(j)' = RunsOf(j)
      BY <2>1 DEF RunsOf
    <2>4. CASE j = task[r]
      <3>1. isRunning'[j]
        BY <2>1, <2>2, <2>4
      <3> QED
        BY <2>1, <2>3, <3>1 DEF OverlapInv, Loaded, Idle
    <2>5. CASE j # task[r]
      <3>1. isRunning'[j] = isRunning[j] /\ \A q \in RunsOf(j) : pc'[q] = pc[q]
        BY <2>1, <2>2, <2>5 DEF RunsOf
      <3> QED
        BY <2>1, <2>3, <3>1, FrameOverlap DEF OverlapInv
    <2> QED
      BY <2>4, <2>5
  <1>8. ASSUME NEW r \in Runs, pc[r] # "spawned", NEW p \in Places, pc' = [pc EXCEPT ![r] = p],
               UNCHANGED <<isRunning, loop, toRun, task, gaps>>
        PROVE  OverlapInv'
    <2> SUFFICES ASSUME NEW j \in Tasks PROVE Loaded(j)' /\ Idle(j)'
      BY <1>8 DEF OverlapInv, SpawnInv
    <2>1. RunsOf(j)' = RunsOf(j) /\ \A q \in RunsOf(j) : pc[q] = "spawned" => pc'[q] = "spawned"
      BY <1>8 DEF RunsOf, StopInv, PartTypeOK
    <2> QED
      BY <1>8, <2>1, FrameOverlap DEF OverlapInv
  <1>9. ASSUME NEW r \in Runs, RunCalls(r) \/ DelayOver(r)
        PROVE  OverlapInv'
    BY <1>8, <1>9 DEF RunCalls, DelayOver, taskVars, loopVars, Places
  <1>10. ASSUME NEW r \in Runs,
               RunCancelled(r) \/ DelayInterrupted(r) \/ FunctionSucceeds(r) \/ FunctionFails(r)
        PROVE  OverlapInv'
    <2>1. pc[r] \in {"check", "function", "delay"}
      BY <1>10 DEF RunCancelled, DelayInterrupted, FunctionSucceeds, FunctionFails
    <2>2. CASE Abandon(r)
      BY <2>1, <2>2, ReturnKeepsOverlap DEF Abandon, loopVars
    <2>3. CASE Finish(r)
      BY <2>1, <2>3, ReturnKeepsOverlap DEF Finish, loopVars
    <2>4. CASE /\ pc' = [pc EXCEPT ![r] = "delay"]
               /\ UNCHANGED <<taskVars, loopVars, task, attempt, gaps, wg, lifeVars>>
      BY <1>8, <2>1, <2>4 DEF Places, taskVars, loopVars
    <2> QED
      BY <1>10, <2>2, <2>3, <2>4 DEF RunCancelled, DelayInterrupted, FunctionSucceeds, FunctionFails
  <1> QED
    BY <1>2, <1>3, <1>4, <1>5, <1>6, <1>7, <1>9, <1>10 DEF Next, LoopStep, RunStep

(* Runs of a task overlap only by ticks that come between the check of     *)
(* task.go:331 and the flag of task.go:348, one run more for each, however *)
(* many tasks, runs and ticks there are.                                   *)
THEOREM OverlapsNeedGaps == Spec => []OneRunPerGap
  <1>1. StopInv /\ OverlapInv => OneRunPerGap
    <2> SUFFICES ASSUME StopInv, OverlapInv, NEW k \in Tasks
                 PROVE  Cardinality(RunsOf(k)) <= 1 + gaps[k]
      BY DEF OneRunPerGap
    <2>1. PICK n \in Nat : n = Cardinality(RunsOf(k))
      BY RunsOfType
    <2>2. gaps[k] \in Nat
      BY RunsCount DEF StopInv, PartTypeOK
    <2> QED
      BY <2>1, <2>2 DEF OverlapInv, Loaded
  <1> QED
    BY <1>1, OverlapInit, OverlapNext, StopInvariance, PTL DEF Spec

-----------------------------------------------------------------------------
(* The search for the next run, queue/cron.go *)

TypeInv ==
  /\ input \in Inputs
  /\ cur \in [Units -> Int]
  /\ fields \in [1 .. 5 -> SUBSET Int]
  /\ at \in {"parse", "enter", "advance", "found", "none", "rejected"}
  /\ unit \in Units
  /\ at = "parse" => unit = 1 /\ cur = t
  /\ at = "enter" => unit \in 1 .. last
  /\ at = "advance" => unit <= last

-----------------------------------------------------------------------------
(* The parser yields numbers. *)

(* Wrapped sums, as in the loop of parseRangeField (cron.go:279), are numbers. *)
LEMMA WrapInt == ASSUME NEW x \in Int PROVE Wrap(x) \in Int
BY IntMaxAssumption DEF Wrap

(* The values of a range (cron.go:279-281) are numbers, its last wrap included. *)
LEMMA ValuesInt ==
  ASSUME NEW start \in Int, NEW end, NEW step \in Int
  PROVE  Values(start, end, step) \subseteq Int
<1>1. ASSUME NEW k \in 0 .. 2 * IntMax + 1 PROVE Wrap(start + k * step) \in Int
  <2>1. start + k * step \in Int
    OBVIOUS
  <2> QED BY <2>1, WrapInt
<1> QED BY <1>1 DEF Values

IsField(f) == f.low \in Int /\ f.high \in Int

(* A parsed field (cron.go:140-195) holds numbers only. *)
LEMMA ParseInt ==
  ASSUME NEW f, IsField(f), NEW text
  PROVE  parseCronField(f, text) \subseteq Int
<1>1. ASSUME NEW parts, NEW step \in Int PROVE parseRangeField(f, parts, step) \subseteq Int
  <2>1. CASE Len(parts) = 2 /\ InField(f, parts[1]) /\ InField(f, parts[2]) /\ parts[1][1].n <= parts[2][1].n
    <3>1. parts[1][1].n \in Int
      BY <2>1 DEF InField
    <3>2. Values(parts[1][1].n, parts[2][1].n, step) \subseteq Int
      BY <3>1, ValuesInt
    <3> QED BY <2>1, <3>2 DEF parseRangeField
  <2> QED BY <2>1 DEF parseRangeField
<1>2. ASSUME NEW part PROVE parseListField(f, part) \subseteq Int
  <2>1. ASSUME NEW a, InField(f, <<a>>) PROVE a.n \in Int
    <3>1. <<a>>[1] = a
      OBVIOUS
    <3> QED BY <2>1, <3>1 DEF InField
  <2> QED BY <2>1 DEF parseListField
<1>3. parseStepField(f, text) \subseteq Int
  <2>1. CASE Len(text) # 2 \/ Len(text[2]) # 1 \/ ~IsInt(f, text[2][1]) \/ text[2][1][1].n = 0
    BY <2>1 DEF parseStepField
  <2>2. CASE ~(Len(text) # 2 \/ Len(text[2]) # 1 \/ ~IsInt(f, text[2][1]) \/ text[2][1][1].n = 0)
    <3> DEFINE step == text[2][1][1].n
               parts == text[1]
    <3>1. step \in Int
      BY <2>2 DEF IsInt
    <3>2. parseStepField(f, text) =
            IF Len(parts) > 1 THEN parseRangeField(f, parts, step)
            ELSE IF IsStar(parts[1]) THEN Values(f.low, f.high, step)
            ELSE IF InField(f, parts[1]) THEN Values(parts[1][1].n, f.high, step) ELSE {}
      BY <2>2 DEF parseStepField
    <3> HIDE DEF step, parts
    <3>3. parseRangeField(f, parts, step) \subseteq Int
      BY <3>1, <1>1
    <3>4. Values(f.low, f.high, step) \subseteq Int
      BY <3>1, ValuesInt DEF IsField
    <3>5. InField(f, parts[1]) => Values(parts[1][1].n, f.high, step) \subseteq Int
      BY <3>1, ValuesInt DEF InField
    <3> QED BY <3>2, <3>3, <3>4, <3>5
  <2> QED BY <2>1, <2>2
<1>4. Values(f.low, f.high, 1) \subseteq Int
  BY ValuesInt DEF IsField
<1>5. parseRangeField(f, text[1], 1) \subseteq Int
  BY <1>1
<1>6. parseListField(f, text[1][1]) \subseteq Int
  BY <1>2
<1> QED BY <1>3, <1>4, <1>5, <1>6 DEF parseCronField

-----------------------------------------------------------------------------
(* The order of times, as far as a unit. *)

(* A time that is at or ahead of another is so as far as every greater unit. *)
LEMMA PrefixAhead ==
  ASSUME NEW a \in [Units -> Int], NEW b \in [Units -> Int], NEW u \in Units, NEW l \in Units,
         u <= l, AtOrAhead(a, b, l)
  PROVE  AtOrAhead(a, b, u)
<1>1. CASE Same(a, b, l)
  BY <1>1 DEF Same, AtOrAhead, Units
<1>2. CASE Ahead(a, b, l)
  <2>1. PICK k \in 0 .. l : a[k] > b[k] /\ \A i \in 0 .. k - 1 : a[i] = b[i]
    BY <1>2 DEF Ahead
  <2>2. CASE k <= u
    BY <2>1, <2>2 DEF Ahead, AtOrAhead, Units
  <2>3. CASE k > u
    BY <2>1, <2>3 DEF Same, AtOrAhead, Units
  <2> QED BY <2>1, <2>2, <2>3 DEF Units
<1> QED BY <1>1, <1>2 DEF AtOrAhead

(* A step below unit u does not undo a lead in the units above. *)
LEMMA KeepAhead ==
  ASSUME NEW a \in [Units -> Int], NEW b \in [Units -> Int], NEW u \in 1 .. 5, NEW w \in Int,
         Ahead(a, b, u - 1)
  PROVE  Ahead(a, [b EXCEPT ![u] = w], u)
<1>1. PICK k \in 0 .. u - 1 : a[k] > b[k] /\ \A i \in 0 .. k - 1 : a[i] = b[i]
  BY DEF Ahead
<1>2. \A i \in 0 .. u - 1 : [b EXCEPT ![u] = w][i] = b[i]
  BY DEF Units
<1>3. k \in 0 .. u /\ \A i \in 0 .. k - 1 : i \in 0 .. u - 1
  OBVIOUS
<1> QED BY <1>1, <1>2, <1>3 DEF Ahead

(* The same prefix, and a value in unit u that is at least w. *)
LEMMA TakeAhead ==
  ASSUME NEW a \in [Units -> Int], NEW b \in [Units -> Int], NEW u \in 1 .. 5, NEW w \in Int,
         Same(a, b, u - 1), w <= a[u], NEW c, c = [b EXCEPT ![u] = w]
  PROVE  AtOrAhead(a, c, u)
<1>1. c[u] = w /\ \A i \in 0 .. u - 1 : c[i] = b[i] /\ a[i] = c[i]
  BY DEF Units, Same
<1>2. CASE w = a[u]
  <2>1. \A i \in 0 .. u : a[i] = c[i]
    BY <1>1, <1>2
  <2> QED BY <2>1 DEF Same, AtOrAhead
<1>3. CASE w < a[u]
  <2>1. u \in 0 .. u /\ a[u] > c[u] /\ \A i \in 0 .. u - 1 : a[i] = c[i]
    BY <1>1, <1>3
  <2> QED BY <2>1 DEF Ahead, AtOrAhead
<1>4. a[u] \in Int
  BY DEF Units
<1> QED BY <1>2, <1>3, <1>4

(* A time is ahead as far as a unit by a greater unit or by that one. *)
LEMMA SplitAhead ==
  ASSUME NEW a \in [Units -> Int], NEW b \in [Units -> Int], NEW u \in 1 .. 5, Ahead(a, b, u)
  PROVE  Ahead(a, b, u - 1) \/ (Same(a, b, u - 1) /\ a[u] > b[u])
<1>1. PICK k \in 0 .. u : a[k] > b[k] /\ \A i \in 0 .. k - 1 : a[i] = b[i]
  BY DEF Ahead
<1>2. CASE k = u
  BY <1>1, <1>2 DEF Same
<1>3. CASE k < u
  <2>1. k \in 0 .. u - 1
    BY <1>3
  <2> QED BY <1>1, <2>1 DEF Ahead
<1> QED BY <1>2, <1>3

-----------------------------------------------------------------------------
(* The number of units (cron.go:87-94), the start and the limit of the search. *)
LEMMA InputType ==
  ASSUME TypeInv
  PROVE  last \in 4 .. 5 /\ t \in [Units -> Int] /\ Limit \in Int
BY CronAssumption DEF TypeInv, last, t

(* calculateNextCronRun starts with values of their types (cron.go:319-335). *)
LEMMA InitType == CronInit => TypeInv
BY CronAssumption DEF CronInit, TypeInv, Units, t, last

(* A loop that takes a value of its field (cron.go:386-401) keeps the types. *)
LEMMA ChooseType ==
  ASSUME TypeInv, NEW u \in 1 .. last, NEW w \in fields[u], Choose(u, w)
  PROVE  TypeInv'
<1>1. last \in 4 .. 5 /\ u \in Units /\ w \in Int
  BY InputType DEF TypeInv, Units
<1>2. input' = input /\ fields' = fields /\ cur' \in [Units -> Int] /\ last' = last /\ t' = t
  BY <1>1 DEF Choose, Take, TypeInv, last, t
<1>3. \/ at' = "advance" /\ unit' = u
      \/ at' = "found" /\ unit' = u
      \/ at' = "enter" /\ unit' = u + 1 /\ u # last
  BY DEF Choose, Take, Goes
<1> QED BY <1>1, <1>2, <1>3 DEF TypeInv, Units

(* Every step of the search (cron.go:337-525) keeps the types. *)
LEMMA NextType == TypeInv /\ [CronStep]_cronVars => TypeInv'
<1> SUFFICES ASSUME TypeInv, [CronStep]_cronVars PROVE TypeInv'
  OBVIOUS
<1>0. last \in 4 .. 5 /\ t \in [Units -> Int]
  BY InputType
<1>1. CASE ParseCronSpec
  <2>1. ASSUME NEW u \in 1 .. 5 PROVE parseCronField(UnitField[u], input.text[u]) \subseteq Int
    <3>1. IsField(UnitField[u])
      BY CronAssumption DEF IsField
    <3> QED BY <3>1, ParseInt
  <2>2. fields' \in [1 .. 5 -> SUBSET Int]
    BY <1>1, <2>1 DEF ParseCronSpec
  <2> QED BY <1>0, <1>1, <2>2 DEF ParseCronSpec, TypeInv, last, t
<1>2. ASSUME NEW u \in 1 .. last, BackTo(u - 1) PROVE TypeInv'
  BY <1>0, <1>2 DEF BackTo, Goes, TypeInv, Units, last, t
<1>3. CASE Enter
  <2>1. unit \in 1 .. last
    BY <1>3 DEF Enter, TypeInv
  <2> QED BY <1>2, <1>3, <2>1, ChooseType DEF Enter
<1>4. CASE Advance
  <2>1. unit \in 1 .. last
    BY <1>0, <1>4 DEF Advance, TypeInv, Units
  <2> QED BY <1>2, <1>4, <2>1, ChooseType DEF Advance
<1>5. CASE NextYear
  BY <1>0, <1>5 DEF NextYear, Goes, TypeInv, Units, last, t
<1>6. CASE UNCHANGED cronVars
  BY <1>6 DEF cronVars, TypeInv, last, t
<1> QED BY <1>1, <1>3, <1>4, <1>5, <1>6 DEF CronStep

(* What ParseCronSpec and the search keep in their variables: the fields   *)
(* hold numbers, and the search never leaves the units of a specification. *)
THEOREM CronTypeCorrect == CronSpec => []TypeInv
<1> QED BY InitType, NextType, PTL DEF CronSpec

-----------------------------------------------------------------------------
(* The steps of the search leave no match behind. *)

(* A match has a value of each field and is at or past the start in each unit. *)
LEMMA MatchType ==
  ASSUME TypeInv, NEW m \in Times, Matches(m)
  PROVE  /\ m \in [Units -> Int]
         /\ \A u \in 1 .. last : m[u] \in fields[u] /\ AtOrAhead(m, t, u)
<1>1. m \in [Units -> Int]
  BY CronAssumption
<1>2. ASSUME NEW u \in 1 .. last PROVE AtOrAhead(m, t, u)
  BY <1>1, InputType, PrefixAhead DEF Matches, Units
<1> QED BY <1>1, <1>2 DEF Matches

(* The times sought do not depend on how far the search (cron.go:337-525) is. *)
LEMMA KeepMatches ==
  ASSUME UNCHANGED <<input, fields, dow>>, NEW m
  PROVE  Matches(m)' = Matches(m)
BY DEF Matches, AtOrAhead, Ahead, Same, last, t

(* Choosing w is sound if every match is at or past it. *)
LEMMA ChooseSkips ==
  ASSUME TypeInv, NEW u \in 1 .. last, NEW w \in fields[u], Choose(u, w),
         \A m \in Times : Matches(m) => AtOrAhead(m, [cur EXCEPT ![u] = w], u)
  PROVE  NothingSkipped'
<1> SUFFICES ASSUME NEW m \in Times, Matches(m)' PROVE Reaches(m)'
  BY DEF NothingSkipped
<1>1. last \in 4 .. 5 /\ u \in Units /\ u \in 1 .. 5 /\ w \in Int
  BY InputType DEF TypeInv, Units
<1>2. UNCHANGED <<input, fields, dow>> /\ cur' = [cur EXCEPT ![u] = w] /\ last' = last
  BY DEF Choose, Take, last
<1>3. Matches(m) /\ AtOrAhead(m, cur', u)
  BY <1>2, KeepMatches
<1>4. m \in [Units -> Int] /\ cur' \in [Units -> Int]
  BY <1>1, <1>2, <1>3, MatchType DEF TypeInv
<1>5. CASE WrongWeekday(u, w)
  <2>1. at' = "advance" /\ unit' = u /\ u = 2
    BY <1>5 DEF Choose, Goes, WrongWeekday
  <2>2. ~Same(m, cur', u)
    <3>1. ASSUME Same(m, cur', 2) PROVE FALSE
      <4>1. m[0] = cur[0] /\ m[1] = cur[1] /\ m[2] = w
        BY <1>2, <2>1, <3>1 DEF Same, TypeInv, Units
      <4> QED BY <1>3, <1>5, <4>1 DEF Matches, WrongWeekday
    <3> QED BY <2>1, <3>1
  <2>3. Ahead(m, cur', u)
    BY <1>3, <2>2 DEF AtOrAhead
  <2> QED BY <2>1, <2>3 DEF Reaches, Ahead
<1>6. CASE ~WrongWeekday(u, w) /\ u = last
  <2>1. at' = "found"
    BY <1>6 DEF Choose, Take, Goes
  <2> QED BY <1>2, <1>3, <1>6, <2>1 DEF Reaches, AtOrAhead, Ahead, Same
<1>7. CASE ~WrongWeekday(u, w) /\ u # last
  <2>1. at' = "enter" /\ unit' = u + 1 /\ unit' - 1 = u
    BY <1>1, <1>7 DEF Choose, Take, Goes
  <2> QED BY <1>3, <2>1 DEF Reaches, AtOrAhead, Ahead, Same
<1> QED BY <1>5, <1>6, <1>7

(* Going back is sound if every match is past the units above. *)
LEMMA BackSkips ==
  ASSUME TypeInv, NEW u \in 1 .. last, BackTo(u - 1),
         \A m \in Times : Matches(m) => Ahead(m, cur, u - 1)
  PROVE  NothingSkipped'
<1> SUFFICES ASSUME NEW m \in Times, Matches(m)' PROVE Reaches(m)'
  BY DEF NothingSkipped
<1>1. Matches(m) /\ at' = "advance" /\ unit' = u - 1 /\ cur' = cur
  BY KeepMatches DEF BackTo, Goes
<1> QED BY <1>1 DEF Reaches, Ahead

(* Where there is no value from v on, a match below the units above would  *)
(* have to be before v.                                                    *)
LEMMA ExhaustedBelow ==
  ASSUME TypeInv, NEW u \in 1 .. last, NEW v \in Int, NoneLeft(u, v),
         NEW m \in Times, Matches(m), Same(m, cur, u - 1), v <= m[u]
  PROVE  FALSE
<1>0. last \in 4 .. 5 /\ m \in [Units -> Int] /\ m[u] \in fields[u] /\ fields[u] \subseteq Int
  BY InputType, MatchType DEF TypeInv
<1>1. m[u] \in Int
  BY <1>0
<1>2. ~NoNext(u, v)
  BY <1>0, <1>1 DEF NoNext
<1>3. PICK w \in fields[u] : IsNext(u, v, w) /\ ~DayExists(u, w)
  BY <1>2 DEF NoneLeft
<1>4. w <= m[u] /\ w \in Int
  BY <1>0, <1>3 DEF IsNext
<1>5. u = 2 /\ ~(w <= DaysIn(cur[0], cur[1]))
  BY <1>3 DEF DayExists
<1>6. m[0] = cur[0] /\ m[1] = cur[1]
  BY <1>5 DEF Same
<1>7. m[2] <= DaysIn(cur[0], cur[1])
  BY <1>6 DEF Matches
<1>8. DaysIn(cur[0], cur[1]) \in Int
  <2>1. PICK n \in Nat \ {0} : n = Len(MonthDays)
    BY CronAssumption
  <2>2. cur[1] \in Int
    BY DEF TypeInv, Units
  <2>3. PICK i \in Nat : i = (cur[1] - 1) % n /\ i < n
    BY <2>1, <2>2
  <2>4. MonthDays[1 + i] \in Nat
    BY <2>1, <2>3, CronAssumption
  <2> QED BY <2>1, <2>3, <2>4 DEF DaysIn
<1> QED BY <1>1, <1>4, <1>5, <1>7, <1>8

(* No step of the search (cron.go:337-525) passes a match. *)
LEMMA NextSkips == TypeInv /\ NothingSkipped /\ [CronStep]_cronVars => NothingSkipped'
<1> SUFFICES ASSUME TypeInv, NothingSkipped, [CronStep]_cronVars PROVE NothingSkipped'
  OBVIOUS
<1>0. last \in 4 .. 5 /\ t \in [Units -> Int] /\ cur \in [Units -> Int] /\ Limit \in Int
  BY InputType DEF TypeInv
<1>1. CASE ParseCronSpec
  <2> SUFFICES ASSUME NEW m \in Times, Matches(m)' PROVE Reaches(m)'
    BY DEF NothingSkipped
  <2>1. cur' = cur /\ unit' = unit /\ cur = t /\ unit = 1 /\ t' = t /\ last' = last
    BY <1>1 DEF ParseCronSpec, TypeInv, t, last
  <2>2. m \in [Units -> Int] /\ AtOrAhead(m, t, last)
    BY <2>1, CronAssumption DEF Matches, AtOrAhead, Ahead, Same
  <2>3. AtOrAhead(m, t, 0)
    BY <1>0, <2>2, PrefixAhead DEF Units
  <2>4. AtOrAhead(m, cur', unit' - 1)
    <3>1. cur' = t /\ unit' - 1 = 0
      BY <2>1
    <3> QED BY <2>3, <3>1
  <2>5. at' \in {"enter", "rejected"}
    BY <1>1 DEF ParseCronSpec
  <2> QED BY <2>4, <2>5 DEF Reaches, AtOrAhead, Ahead, Same
<1>2. CASE Enter
  <2>1. unit \in 1 .. last /\ unit \in 1 .. 5
    BY <1>0, <1>2 DEF Enter, TypeInv
  <2>2. PICK v \in fields[unit] \cup {t[unit]} :
          /\ StartsAt(unit, v)
          /\ \/ \E w \in fields[unit] : IsNext(unit, v, w) /\ Choose(unit, w)
             \/ NoneLeft(unit, v) /\ BackTo(unit - 1)
    BY <1>2 DEF Enter
  <2>3. v \in Int
    BY <1>0, <2>1, <2>2 DEF TypeInv, Units
  <2>4. ASSUME NEW m \in Times, Matches(m) PROVE Ahead(m, cur, unit - 1) \/ (Same(m, cur, unit - 1) /\ v <= m[unit])
    <3>1. AtOrAhead(m, cur, unit - 1)
      BY <1>2, <2>4 DEF NothingSkipped, Reaches, Enter
    <3>2. m \in [Units -> Int] /\ m[unit] \in fields[unit] /\ AtOrAhead(m, t, unit)
      BY <2>1, <2>4, MatchType
    <3>3. CASE Same(m, cur, unit - 1) /\ SameSoFar(unit)
      <4>1. v = t[unit] /\ Same(m, t, unit - 1)
        BY <2>1, <2>2, <3>3 DEF StartsAt, SameSoFar, Same
      <4>2. t[unit] <= m[unit]
        <5>1. CASE Same(m, t, unit)
          BY <1>0, <2>1, <3>2, <5>1 DEF Same, Units
        <5>2. CASE Ahead(m, t, unit)
          <6>1. PICK k \in 0 .. unit : m[k] > t[k] /\ \A i \in 0 .. k - 1 : m[i] = t[i]
            BY <5>2 DEF Ahead
          <6>2. k = unit
            BY <1>0, <2>1, <3>2, <4>1, <6>1 DEF Same, Units
          <6> QED BY <1>0, <2>1, <3>2, <6>1, <6>2 DEF Units
        <5> QED BY <3>2, <5>1, <5>2 DEF AtOrAhead
      <4> QED BY <3>3, <4>1, <4>2
    <3>4. CASE Same(m, cur, unit - 1) /\ ~SameSoFar(unit)
      BY <2>2, <3>2, <3>4 DEF StartsAt, IsFirst
    <3> QED BY <3>1, <3>3, <3>4 DEF AtOrAhead
  <2>5. CASE NoneLeft(unit, v) /\ BackTo(unit - 1)
    <3>1. \A m \in Times : Matches(m) => Ahead(m, cur, unit - 1)
      BY <2>1, <2>3, <2>4, <2>5, ExhaustedBelow
    <3> QED BY <2>1, <2>5, <3>1, BackSkips
  <2>6. ASSUME NEW w \in fields[unit], IsNext(unit, v, w), Choose(unit, w) PROVE NothingSkipped'
    <3>1. ASSUME NEW m \in Times, Matches(m) PROVE AtOrAhead(m, [cur EXCEPT ![unit] = w], unit)
      <4>1. m \in [Units -> Int] /\ m[unit] \in fields[unit] /\ w \in Int
        BY <2>1, <3>1, MatchType DEF TypeInv
      <4>2. CASE Ahead(m, cur, unit - 1)
        BY <1>0, <2>1, <4>1, <4>2, KeepAhead DEF AtOrAhead
      <4>3. CASE Same(m, cur, unit - 1) /\ v <= m[unit]
        <5>1. w <= m[unit]
          BY <2>3, <2>6, <4>1, <4>3 DEF IsNext, TypeInv
        <5> QED BY <1>0, <2>1, <4>1, <4>3, <5>1, TakeAhead
      <4> QED BY <2>4, <3>1, <4>2, <4>3
    <3> QED BY <2>1, <2>6, <3>1, ChooseSkips
  <2> QED BY <2>2, <2>5, <2>6
<1>3. CASE Advance
  <2>1. unit \in 1 .. last /\ unit \in 1 .. 5 /\ After(unit) = cur[unit] + 1 /\ cur[unit] \in Int
    BY <1>0, <1>3 DEF Advance, TypeInv, Units, After
  <2>2. ASSUME NEW m \in Times, Matches(m) PROVE Ahead(m, cur, unit - 1) \/ (Same(m, cur, unit - 1) /\ After(unit) <= m[unit])
    <3>1. Ahead(m, cur, unit)
      BY <1>3, <2>2 DEF NothingSkipped, Reaches, Advance
    <3>2. m \in [Units -> Int] /\ m[unit] \in Int
      BY <2>1, <2>2, MatchType DEF TypeInv
    <3> QED BY <1>0, <2>1, <3>1, <3>2, SplitAhead
  <2>3. CASE NoneLeft(unit, After(unit)) /\ BackTo(unit - 1)
    <3>1. \A m \in Times : Matches(m) => Ahead(m, cur, unit - 1)
      BY <2>1, <2>2, <2>3, ExhaustedBelow
    <3> QED BY <2>1, <2>3, <3>1, BackSkips
  <2>4. ASSUME NEW w \in fields[unit], IsNext(unit, After(unit), w), Choose(unit, w) PROVE NothingSkipped'
    <3>1. ASSUME NEW m \in Times, Matches(m) PROVE AtOrAhead(m, [cur EXCEPT ![unit] = w], unit)
      <4>1. m \in [Units -> Int] /\ m[unit] \in fields[unit] /\ w \in Int
        BY <2>1, <3>1, MatchType DEF TypeInv
      <4>2. CASE Ahead(m, cur, unit - 1)
        BY <1>0, <2>1, <4>1, <4>2, KeepAhead DEF AtOrAhead
      <4>3. CASE Same(m, cur, unit - 1) /\ After(unit) <= m[unit]
        <5>1. w <= m[unit]
          BY <2>1, <2>4, <4>1, <4>3 DEF IsNext, TypeInv
        <5> QED BY <1>0, <2>1, <4>1, <4>3, <5>1, TakeAhead
      <4> QED BY <2>2, <3>1, <4>2, <4>3
    <3> QED BY <2>1, <2>4, <3>1, ChooseSkips
  <2> QED BY <1>3, <2>3, <2>4 DEF Advance
<1>4. CASE NextYear
  <2> SUFFICES ASSUME NEW m \in Times, Matches(m)' PROVE Reaches(m)'
    BY DEF NothingSkipped
  <2>1. Matches(m) /\ m \in [Units -> Int]
    BY <1>4, KeepMatches, CronAssumption DEF NextYear
  <2>2. Ahead(m, cur, 0)
    BY <1>4, <2>1 DEF NothingSkipped, Reaches, NextYear
  <2>3. m[0] > cur[0] /\ m[0] \in Int /\ cur[0] \in Int /\ t[0] \in Int
    BY <1>0, <2>1, <2>2 DEF Ahead, Units
  <2>4. CASE cur[0] < t[0] + Limit
    <3>1. cur' = [cur EXCEPT ![0] = @ + 1] /\ at' = "enter" /\ unit' = 1 /\ unit' - 1 = 0
      BY <1>4, <2>4 DEF NextYear, Goes
    <3>2. cur'[0] = cur[0] + 1
      BY <1>0, <3>1 DEF Units
    <3>3. m[0] > cur'[0] \/ m[0] = cur'[0]
      BY <2>3, <3>2
    <3>4. AtOrAhead(m, cur', 0)
      BY <3>3 DEF AtOrAhead, Ahead, Same
    <3> QED BY <3>1, <3>4 DEF Reaches, AtOrAhead, Ahead, Same
  <2>5. CASE ~(cur[0] < t[0] + Limit)
    <3>1. at' = "none" /\ t' = t
      BY <1>4, <2>5 DEF NextYear, Goes, t
    <3>2. m[0] > t[0] + Limit
      BY <1>0, <2>3, <2>5
    <3> QED BY <3>1, <3>2 DEF Reaches
  <2> QED BY <2>4, <2>5
<1>5. CASE UNCHANGED cronVars
  <2> SUFFICES ASSUME NEW m \in Times, Matches(m)' PROVE Reaches(m)'
    BY DEF NothingSkipped
  <2>1. Matches(m) /\ Reaches(m)
    BY <1>5, KeepMatches DEF cronVars, NothingSkipped
  <2> QED BY <1>5, <2>1 DEF cronVars, Reaches, AtOrAhead, Ahead, Same, t, last
<1> QED BY <1>1, <1>2, <1>3, <1>4, <1>5 DEF CronStep

(* calculateNextCronRun passes no time that the specification names, for   *)
(* every specification, calendar and limit of years: what it returns is    *)
(* the first such time, and it fails only if there is none within the      *)
(* limit.                                                                  *)
THEOREM NoMatchSkipped == CronSpec => []NothingSkipped
<1>1. CronInit => NothingSkipped
  BY DEF CronInit, NothingSkipped, Reaches
<1> QED BY <1>1, InitType, NextType, NextSkips, PTL DEF CronSpec

-----------------------------------------------------------------------------
(* What the search has chosen fits: the inductive invariant behind         *)
(* FoundMatches.  An advance may leave a day of the wrong weekday.         *)

Fits(k) == (\A u \in 1 .. k : cur[u] \in fields[u]) /\ AtOrAhead(cur, t, k)

DayFits == cur[2] <= DaysIn(cur[0], cur[1]) /\ Weekday(cur[0], cur[1], cur[2]) \in dow

ChosenFits ==
  /\ at = "enter" => Fits(unit - 1) /\ (unit > 2 => DayFits)
  /\ at = "advance" => Fits(unit) /\ (unit > 2 => DayFits)
  /\ at = "found" => Fits(last) /\ DayFits

(* A value that a loop takes (cron.go:386-401) fits its field. *)
LEMMA ChooseFits ==
  ASSUME TypeInv, NEW u \in 1 .. last, NEW w \in fields[u], Choose(u, w),
         \A k \in 1 .. u - 1 : cur[k] \in fields[k], u > 2 => DayFits,
         AtOrAhead([cur EXCEPT ![u] = w], t, u)
  PROVE  ChosenFits'
<1>1. last \in 4 .. 5 /\ u \in 1 .. 5 /\ w \in Int /\ cur \in [Units -> Int]
  BY InputType DEF TypeInv
<1>2. /\ UNCHANGED <<input, fields, dow>> /\ cur' = [cur EXCEPT ![u] = w] /\ last' = last /\ t' = t
      /\ DayExists(u, w)
  BY DEF Choose, Take, last, t
<1>3. \A k \in 1 .. u : cur'[k] \in fields'[k]
  <2>1. cur'[u] = w /\ \A k \in 1 .. u - 1 : cur'[k] = cur[k]
    BY <1>1, <1>2 DEF Units
  <2>2. \A k \in 1 .. u : k = u \/ k \in 1 .. u - 1
    BY <1>1
  <2> QED BY <1>2, <2>1, <2>2
<1>4. AtOrAhead(cur', t', u)
  BY <1>2
<1>5. CASE WrongWeekday(u, w)
  <2>1. at' = "advance" /\ unit' = u /\ u = 2
    BY <1>5 DEF Choose, Goes, WrongWeekday
  <2> QED BY <1>3, <1>4, <2>1 DEF ChosenFits, Fits, AtOrAhead, Ahead, Same
<1>6. CASE ~WrongWeekday(u, w)
  <2>1. u >= 2 => DayFits'
    <3>1. CASE u = 2
      <4>1. cur'[0] = cur[0] /\ cur'[1] = cur[1] /\ cur'[2] = w
        BY <1>1, <1>2, <3>1 DEF Units
      <4> QED BY <1>2, <1>6, <3>1, <4>1 DEF DayFits, DaysIn, DayExists, WrongWeekday
    <3>2. CASE u > 2
      <4>1. cur'[0] = cur[0] /\ cur'[1] = cur[1] /\ cur'[2] = cur[2]
        BY <1>1, <1>2, <3>2 DEF Units
      <4> QED BY <1>2, <3>2, <4>1 DEF DayFits, DaysIn
    <3> QED BY <1>1, <3>1, <3>2
  <2>2. CASE u = last
    <3>1. at' = "found" /\ last' = u
      BY <1>2, <1>6, <2>2 DEF Choose, Take, Goes
    <3> QED BY <1>1, <1>3, <1>4, <2>1, <2>2, <3>1 DEF ChosenFits, Fits, AtOrAhead, Ahead, Same
  <2>3. CASE u # last
    <3>1. at' = "enter" /\ unit' = u + 1 /\ unit' - 1 = u
      BY <1>1, <1>6, <2>3 DEF Choose, Take, Goes
    <3> QED BY <1>1, <1>3, <1>4, <2>1, <3>1 DEF ChosenFits, Fits, AtOrAhead, Ahead, Same
  <2> QED BY <2>2, <2>3
<1> QED BY <1>5, <1>6

(* A chosen value that is not below that of t keeps the order. *)
LEMMA KeepOrder ==
  ASSUME NEW a \in [Units -> Int], NEW b \in [Units -> Int], NEW u \in 1 .. 5, NEW w \in Int,
         Ahead(a, b, u - 1) \/ (Same(a, b, u - 1) /\ b[u] <= w), NEW c, c = [a EXCEPT ![u] = w]
  PROVE  AtOrAhead(c, b, u)
<1>1. c[u] = w /\ (\A i \in 0 .. u - 1 : c[i] = a[i]) /\ b[u] \in Int
  BY DEF Units
<1>2. CASE Ahead(a, b, u - 1)
  <2>1. PICK k \in 0 .. u - 1 : a[k] > b[k] /\ \A i \in 0 .. k - 1 : a[i] = b[i]
    BY <1>2 DEF Ahead
  <2>2. k \in 0 .. u /\ c[k] > b[k] /\ \A i \in 0 .. k - 1 : c[i] = b[i]
    BY <1>1, <2>1
  <2> QED BY <2>2 DEF Ahead, AtOrAhead
<1>3. CASE Same(a, b, u - 1) /\ b[u] = w
  <2>1. \A i \in 0 .. u : c[i] = b[i]
    BY <1>1, <1>3 DEF Same
  <2> QED BY <2>1 DEF Same, AtOrAhead
<1>4. CASE Same(a, b, u - 1) /\ b[u] < w
  <2>1. u \in 0 .. u /\ c[u] > b[u] /\ \A i \in 0 .. u - 1 : c[i] = b[i]
    BY <1>1, <1>4 DEF Same
  <2> QED BY <2>1 DEF Ahead, AtOrAhead
<1> QED BY <1>1, <1>2, <1>3, <1>4

(* Every step of the search (cron.go:337-525) keeps the chosen values fitting. *)
LEMMA NextFits == TypeInv /\ ChosenFits /\ [CronStep]_cronVars => ChosenFits'
<1> SUFFICES ASSUME TypeInv, ChosenFits, [CronStep]_cronVars PROVE ChosenFits'
  OBVIOUS
<1>0. last \in 4 .. 5 /\ t \in [Units -> Int] /\ cur \in [Units -> Int]
  BY InputType DEF TypeInv
<1>1. CASE ParseCronSpec
  <2>1. cur' = t /\ t' = t /\ unit' = 1 /\ unit' - 1 = 0 /\ at' \in {"enter", "rejected"}
    BY <1>1 DEF ParseCronSpec, TypeInv, t
  <2>2. Fits(0)'
    BY <2>1 DEF Fits, AtOrAhead, Same
  <2> QED BY <2>1, <2>2 DEF ChosenFits, Fits, AtOrAhead, Ahead, Same
<1>2. ASSUME NEW u \in 1 .. last, BackTo(u - 1), Fits(u - 1), u - 1 > 2 => DayFits PROVE ChosenFits'
  BY <1>2 DEF BackTo, Goes, ChosenFits, Fits, DayFits, DaysIn, AtOrAhead, Ahead, Same, t
<1>3. CASE Enter
  <2>1. unit \in 1 .. last /\ unit \in 1 .. 5 /\ Fits(unit - 1) /\ (unit > 2 => DayFits)
    BY <1>0, <1>3 DEF Enter, TypeInv, ChosenFits
  <2>2. PICK v \in fields[unit] \cup {t[unit]} :
          /\ StartsAt(unit, v)
          /\ \/ \E w \in fields[unit] : IsNext(unit, v, w) /\ Choose(unit, w)
             \/ NoneLeft(unit, v) /\ BackTo(unit - 1)
    BY <1>3 DEF Enter
  <2>3. CASE BackTo(unit - 1)
    BY <1>0, <1>2, <2>1, <2>3
  <2>4. ASSUME NEW w \in fields[unit], IsNext(unit, v, w), Choose(unit, w) PROVE ChosenFits'
    <3>1. w \in Int /\ w >= v /\ t[unit] \in Int
      BY <1>0, <2>1, <2>4 DEF IsNext, TypeInv, Units
    <3>2. Ahead(cur, t, unit - 1) \/ (Same(cur, t, unit - 1) /\ t[unit] <= w)
      <4>1. CASE SameSoFar(unit)
        BY <2>2, <3>1, <4>1 DEF StartsAt, SameSoFar, Same
      <4>2. CASE ~SameSoFar(unit)
        BY <2>1, <4>2 DEF SameSoFar, Same, Fits, AtOrAhead
      <4> QED BY <4>1, <4>2
    <3>3. AtOrAhead([cur EXCEPT ![unit] = w], t, unit)
      BY <1>0, <2>1, <3>1, <3>2, KeepOrder
    <3> QED BY <2>1, <2>4, <3>3, ChooseFits DEF Fits
  <2> QED BY <2>2, <2>3, <2>4
<1>4. CASE Advance
  <2>1. unit \in 1 .. last /\ unit \in 1 .. 5 /\ Fits(unit) /\ (unit > 2 => DayFits)
    BY <1>0, <1>4 DEF Advance, TypeInv, ChosenFits, Units
  <2>2. CASE BackTo(unit - 1)
    <3>1. AtOrAhead(cur, t, unit - 1)
      BY <1>0, <2>1, PrefixAhead DEF Fits, Units
    <3>2. Fits(unit - 1)
      BY <1>0, <2>1, <3>1 DEF Fits
    <3> QED BY <1>0, <1>2, <2>1, <2>2, <3>2
  <2>3. ASSUME NEW w \in fields[unit], IsNext(unit, After(unit), w), Choose(unit, w) PROVE ChosenFits'
    <3>1. w \in Int /\ w > cur[unit] /\ t[unit] \in Int /\ cur[unit] \in Int
      BY <1>0, <2>1, <2>3 DEF IsNext, After, TypeInv, Units
    <3>2. Ahead(cur, t, unit - 1) \/ (Same(cur, t, unit - 1) /\ t[unit] <= w)
      <4>1. CASE Same(cur, t, unit)
        BY <2>1, <3>1, <4>1 DEF Same
      <4>2. CASE Ahead(cur, t, unit)
        BY <1>0, <2>1, <3>1, <4>2, SplitAhead
      <4> QED BY <2>1, <4>1, <4>2 DEF Fits, AtOrAhead
    <3>3. AtOrAhead([cur EXCEPT ![unit] = w], t, unit)
      BY <1>0, <2>1, <3>1, <3>2, KeepOrder
    <3>4. \A k \in 1 .. unit - 1 : cur[k] \in fields[k]
      BY <2>1 DEF Fits
    <3> QED BY <2>1, <2>3, <3>3, <3>4, ChooseFits
  <2> QED BY <1>4, <2>2, <2>3 DEF Advance
<1>5. CASE NextYear
  <2>1. cur[0] >= t[0] /\ cur[0] \in Int /\ t[0] \in Int
    BY <1>0, <1>5 DEF NextYear, ChosenFits, Fits, AtOrAhead, Ahead, Same, Units
  <2>2. CASE at' = "enter"
    <3>1. cur'[0] > t[0] /\ t' = t /\ unit' = 1 /\ unit' - 1 = 0
      BY <1>0, <1>5, <2>1, <2>2 DEF NextYear, Goes, Units, t
    <3>2. Fits(0)'
      BY <3>1 DEF Fits, AtOrAhead, Ahead
    <3> QED BY <2>2, <3>1, <3>2 DEF ChosenFits, Fits, AtOrAhead, Ahead, Same
  <2>3. CASE at' = "none"
    BY <2>3 DEF ChosenFits
  <2> QED BY <1>5, <2>2, <2>3 DEF NextYear, Goes
<1>6. CASE UNCHANGED cronVars
  BY <1>6 DEF cronVars, ChosenFits, Fits, DayFits, DaysIn, AtOrAhead, Ahead, Same, t, last
<1> QED BY <1>1, <1>3, <1>4, <1>5, <1>6 DEF CronStep

(* What calculateNextCronRun returns is a time that the specification      *)
(* names, and not before the time it was asked from.                       *)
THEOREM FoundIsMatch == CronSpec => []FoundMatches
<1>1. CronInit => ChosenFits
  BY DEF CronInit, ChosenFits
<1>2. TypeInv /\ ChosenFits => FoundMatches
  BY DEF ChosenFits, Fits, DayFits, FoundMatches, Matches
<1> QED BY <1>1, <1>2, InitType, NextType, NextFits, PTL DEF CronSpec

-----------------------------------------------------------------------------
(* The fields: what parseCronField makes of a text. *)

(* A quotient and its remainder. *)
LEMMA Division ==
  ASSUME NEW a \in Nat, NEW b \in Nat \ {0}
  PROVE  /\ a \div b \in Nat /\ a % b \in 0 .. b - 1
         /\ a = (a \div b) * b + (a % b)
<1>1. a \div b \in Int /\ a \div b >= 0
  OBVIOUS
<1>2. a % b \in 0 .. b - 1
  OBVIOUS
<1>3. a = (a \div b) * b + (a % b)
  OBVIOUS
<1> QED BY <1>1, <1>2, <1>3

(* A product grows with its first factor. *)
LEMMA ProductGrows ==
  ASSUME NEW i \in Nat, NEW k \in Nat, NEW s \in Nat, i <= k
  PROVE  i * s <= k * s
<1>1. (k - i) * s >= 0
  OBVIOUS
<1>2. (k - i) * s = k * s - i * s
  OBVIOUS
<1> QED BY <1>1, <1>2

(* A quotient without a remainder is the other factor. *)
LEMMA Multiple ==
  ASSUME NEW k \in Nat, NEW s \in Nat \ {0}
  PROVE  (k * s) % s = 0
<1> DEFINE a == k * s
           q == a \div s
           r == a % s
<1>1. a \in Nat
  OBVIOUS
<1>2. q \in Nat /\ r \in 0 .. s - 1 /\ a = q * s + r
  BY <1>1, Division
<1>3. r = (k - q) * s
  BY <1>2
<1> HIDE DEF q, r, a
<1>4. CASE k <= q
  BY <1>2, <1>3, <1>4
<1>5. CASE k > q
  <2>1. (k - q) * s >= s
    BY <1>2, <1>5
  <2> QED BY <1>2, <1>3, <2>1
<1> QED BY <1>2, <1>4, <1>5 DEF a, r

(* A number that fits an int is not wrapped. *)
LEMMA WrapFits ==
  ASSUME NEW x \in 0 .. IntMax
  PROVE  Wrap(x) = x
<1> DEFINE b == 2 * IntMax + 2
           a == x + IntMax + 1
<1>1. a \in Nat /\ b \in Nat \ {0} /\ a < b
  BY IntMaxAssumption
<1>2. a \div b \in Nat /\ a % b \in 0 .. b - 1 /\ a = (a \div b) * b + (a % b)
  BY <1>1, Division
<1>3. a \div b = 0
  <2>1. PICK q \in Nat : q = a \div b
    BY <1>2
  <2>2. CASE q >= 1
    <3>1. q * b >= b
      BY <1>1, <2>2
    <3> QED BY <1>1, <1>2, <2>1, <3>1
  <2> QED BY <2>1, <2>2
<1>4. a % b = a
  BY <1>1, <1>2, <1>3
<1> QED BY <1>4, IntMaxAssumption DEF Wrap

(* The loop over a range (cron.go:279-281) appends its first value. *)
LEMMA ValuesStart ==
  ASSUME NEW start \in Nat, NEW end \in start .. IntMax, NEW step \in Nat
  PROVE  start \in Values(start, end, step)
<1>1. start + 0 * step = start /\ start \in 0 .. IntMax /\ start <= end
  BY IntMaxAssumption
<1>2. Wrap(start + 0 * step) = start
  BY <1>1, WrapFits
<1>3. 0 \in 0 .. 2 * IntMax + 1 /\ \A m \in 0 .. 0 : m = 0
  BY IntMaxAssumption
<1> QED BY <1>1, <1>2, <1>3 DEF Values

(* When its counter cannot overflow, the loop appends the numbers from     *)
(* start to end that are a multiple of step away from start.               *)
LEMMA ValuesMeaning ==
  ASSUME NEW start \in Nat, NEW end \in start .. IntMax, NEW step \in Nat \ {0}, step <= IntMax - end
  PROVE  Values(start, end, step) = {v \in start .. end : (v - start) % step = 0}
<1> DEFINE i(k) == Wrap(start + k * step)
           q == (end - start) \div step
<1>1. IntMax \in Nat /\ end \in Nat /\ end - start \in Nat
  BY IntMaxAssumption
<1>2. q \in Nat /\ q * step <= end - start /\ end - start < q * step + step
  <2>1. PICK d \in Nat : d = end - start
    BY <1>1
  <2>2. d \div step \in Nat /\ d % step \in 0 .. step - 1 /\ d = (d \div step) * step + (d % step)
    BY Division
  <2>3. PICK r \in 0 .. step - 1 : r = d % step
    BY <2>2
  <2>4. PICK p \in Nat : p = d \div step
    BY <2>2
  <2>5. d = p * step + r /\ p * step \in Nat
    BY <2>2, <2>3, <2>4
  <2>6. p * step <= d /\ d < p * step + step
    BY <2>3, <2>5
  <2> QED BY <2>1, <2>4, <2>6
<1> HIDE DEF q
<1>3. ASSUME NEW k \in Nat, k <= q
      PROVE  i(k) = start + k * step /\ i(k) \in start .. end
  <2>1. k * step <= q * step /\ k * step \in Nat
    BY <1>2, <1>3, ProductGrows
  <2>2. start + k * step \in 0 .. IntMax /\ start + k * step <= end
    BY <1>1, <1>2, <2>1
  <2> QED BY <2>1, <2>2, WrapFits
<1>4. i(q + 1) > end
  <2>1. (q + 1) * step = q * step + step /\ q * step \in Nat
    BY <1>2
  <2>2. start + (q + 1) * step \in 0 .. IntMax /\ start + (q + 1) * step > end
    BY <1>1, <1>2, <2>1
  <2> QED BY <2>2, WrapFits
<1> DEFINE Rounds == {n \in 0 .. 2 * IntMax + 1 : \A m \in 0 .. n : i(m) <= end}
<1>5. ASSUME NEW k \in Rounds
      PROVE  i(k) \in start .. end /\ (i(k) - start) % step = 0
  <2>1. k \in Nat /\ ~(q + 1 \in 0 .. k)
    <3>1. q + 1 \in 0 .. k => i(q + 1) <= end
      BY <1>5
    <3>2. i(q + 1) \in Int
      BY <1>2, WrapInt
    <3> QED BY <1>1, <1>4, <1>5, <3>1, <3>2
  <2>2. k <= q
    BY <1>2, <2>1
  <2>3. i(k) = start + k * step /\ i(k) \in start .. end
    BY <1>3, <2>1, <2>2
  <2>4. i(k) - start = k * step /\ (k * step) % step = 0
    BY <2>1, <2>3, Multiple
  <2> QED BY <2>3, <2>4
<1>6. ASSUME NEW v \in start .. end, (v - start) % step = 0
      PROVE  \E k \in Rounds : i(k) = v
  <2>1. PICK k \in Nat : v - start = k * step
    <3>1. v - start \in Nat
      BY <1>1
    <3>2. PICK d \in Nat : d = v - start
      BY <3>1
    <3>3. d \div step \in Nat /\ d = (d \div step) * step + (d % step) /\ d % step = 0
      BY <1>6, <3>2, Division
    <3>4. PICK p \in Nat : p = d \div step
      BY <3>3
    <3>5. d = p * step
      BY <3>3, <3>4
    <3> QED BY <3>2, <3>5
  <2>2. k <= q
    <3>1. CASE k >= q + 1
      <4>1. (q + 1) * step <= k * step /\ (q + 1) * step = q * step + step
        BY <1>2, <3>1, ProductGrows
      <4> QED BY <1>1, <1>2, <2>1, <4>1
    <3> QED BY <1>2, <3>1
  <2>3. i(k) = v
    BY <1>1, <1>3, <2>1, <2>2
  <2>4. \A m \in 0 .. k : i(m) <= end
    BY <1>1, <1>2, <1>3, <2>2
  <2>5. k <= k * step
    <3>1. step - 1 \in Nat /\ k * (step - 1) \in Nat
      OBVIOUS
    <3> QED BY <3>1
  <2>6. k \in 0 .. 2 * IntMax + 1
    BY <1>1, <2>1, <2>5
  <2> QED BY <2>3, <2>4, <2>6
<1>7. Values(start, end, step) = {i(k) : k \in Rounds}
  BY DEF Values
<1> HIDE DEF i, Rounds
<1> QED BY <1>5, <1>6, <1>7

IsBounds(f) == f.high \in 0 .. IntMax /\ f.low \in 0 .. f.high

(* The numbers of a range, by step. *)
Steps(f, from, to, step) == {v \in f.low .. f.high : v \in from .. to /\ (v - from) % step = 0}

(* A loop over a part of a field. *)
LEMMA LoopMeaning ==
  ASSUME NEW f, IsBounds(f), NEW from \in f.low .. f.high, NEW to \in from .. f.high, NEW step \in Nat \ {0}
  PROVE  /\ Values(from, to, step) # {}
         /\ step <= IntMax - f.high => Values(from, to, step) = Steps(f, from, to, step)
<1>1. /\ from \in Nat /\ to \in from .. IntMax /\ step \in Nat /\ f.low \in Nat /\ f.high \in Nat
      /\ IntMax \in Nat /\ f.low <= from /\ to <= f.high
  BY IntMaxAssumption DEF IsBounds
<1>2. from \in Values(from, to, step)
  BY <1>1, ValuesStart
<1>3. ASSUME step <= IntMax - f.high PROVE Values(from, to, step) = Steps(f, from, to, step)
  <2>1. step <= IntMax - to
    BY <1>1, <1>3
  <2>2. Values(from, to, step) = {v \in from .. to : (v - from) % step = 0}
    BY <1>1, <2>1, ValuesMeaning
  <2>3. \A v \in from .. to : v \in f.low .. f.high
    BY <1>1
  <2> QED BY <2>2, <2>3 DEF Steps
<1> QED BY <1>2, <1>3

(* What a range of the field is. *)
IsRange(f, parts) ==
  Len(parts) = 2 /\ (\A i \in {1, 2} : InField(f, parts[i])) /\ parts[1][1].n <= parts[2][1].n

(* parseRangeField (cron.go:263-283) accepts the ranges of the field. *)
LEMMA RangeMeaning ==
  ASSUME NEW f, IsBounds(f), NEW parts, NEW step \in Nat \ {0}
  PROVE  /\ IsRange(f, parts) <=> parseRangeField(f, parts, step) # {}
         /\ IsRange(f, parts) /\ step <= IntMax - f.high =>
              parseRangeField(f, parts, step) = Steps(f, parts[1][1].n, parts[2][1].n, step)
<1>1. CASE ~IsRange(f, parts)
  BY <1>1 DEF IsRange, parseRangeField
<1>2. CASE IsRange(f, parts)
  <2>1. parseRangeField(f, parts, step) = Values(parts[1][1].n, parts[2][1].n, step)
    BY <1>2 DEF IsRange, parseRangeField
  <2>2. parts[1][1].n \in f.low .. f.high /\ parts[2][1].n \in f.low .. f.high /\ parts[1][1].n <= parts[2][1].n
    BY <1>2 DEF IsRange, InField
  <2>3. PICK a \in f.low .. f.high : a = parts[1][1].n
    BY <2>2
  <2>4. PICK b \in a .. f.high : b = parts[2][1].n
    BY <2>2, <2>3 DEF IsBounds
  <2>5. /\ Values(a, b, step) # {}
        /\ step <= IntMax - f.high => Values(a, b, step) = Steps(f, a, b, step)
    BY LoopMeaning
  <2> QED BY <1>2, <2>1, <2>3, <2>4, <2>5
<1> QED BY <1>1, <1>2

(* A star stands for all values of the field (cron.go:144). *)
LEMMA StarMeaning ==
  ASSUME NEW f, IsBounds(f), NEW text, text = Single(Star) \/ (f.question /\ text = Single(Question))
  PROVE  /\ WellFormed(f, text) /\ parseCronField(f, text) # {}
         /\ StepOf(text) <= IntMax - f.high => parseCronField(f, text) = Meaning(f, text)
<1>1. parseCronField(f, text) = Values(f.low, f.high, 1) /\ WellFormed(f, text)
  BY DEF parseCronField, WellFormed
<1>2. f.low \in f.low .. f.high /\ f.high \in f.low .. f.high /\ 1 \in Nat \ {0}
  BY IntMaxAssumption DEF IsBounds
<1>3. /\ Values(f.low, f.high, 1) # {}
      /\ 1 <= IntMax - f.high => Values(f.low, f.high, 1) = Steps(f, f.low, f.high, 1)
  BY <1>2, LoopMeaning
<1>4. PICK a : text = << << <<a>> >> >> /\ a.is \in {"*", "?"}
  BY DEF Single, Star, Question
<1>5. Len(text) = 1 /\ Len(text[1]) = 1 /\ text[1][1] = <<a>>
  BY <1>4
<1>6. StepOf(text) = 1
  BY <1>5 DEF StepOf
<1>7. Meaning(f, text) = f.low .. f.high
  <2>1. \E i \in DOMAIN <<a>> : <<a>>[i].is \in {"*", "?"}
    <3>1. 1 \in DOMAIN <<a>> /\ <<a>>[1] = a
      OBVIOUS
    <3> QED BY <1>4, <3>1
  <2> QED BY <1>5, <2>1 DEF Meaning
<1>8. Steps(f, f.low, f.high, 1) = f.low .. f.high
  BY DEF Steps, IsBounds
<1> QED BY <1>1, <1>3, <1>6, <1>7, <1>8

(* The first parts of a text are there. *)
LEMMA TextParts ==
  ASSUME NEW text, IsText(text)
  PROVE  /\ Len(text) \in Nat /\ Len(text) >= 1
         /\ Len(text[1]) \in Nat /\ Len(text[1]) >= 1
         /\ Len(text[1][1]) \in Nat /\ 1 \in DOMAIN text[1][1]
<1> DEFINE A == [is : {"number", "name", "*", "?", "junk"}, n : Int]
<1>1. text \in Seq(Seq(Seq(A))) /\ text # <<>>
  BY DEF IsText
<1>2. Len(text) \in Nat /\ Len(text) >= 1 /\ 1 \in DOMAIN text
  BY <1>1
<1>3. text[1] \in Seq(Seq(A)) /\ text[1] # <<>>
  BY <1>1, <1>2 DEF IsText
<1>4. Len(text[1]) \in Nat /\ Len(text[1]) >= 1 /\ 1 \in DOMAIN text[1]
  BY <1>3
<1>5. text[1][1] \in Seq(A) /\ text[1][1] # <<>>
  BY <1>2, <1>3, <1>4 DEF IsText
<1> QED BY <1>2, <1>4, <1>5

(* A list of values (cron.go:286-306). *)
LEMMA ListMeaning ==
  ASSUME NEW f, IsBounds(f), NEW text, IsText(text), Len(text) = 1, Len(text[1]) = 1,
         text # Single(Star), ~(f.question /\ text = Single(Question))
  PROVE  /\ WellFormed(f, text) <=> parseCronField(f, text) # {}
         /\ WellFormed(f, text) => parseCronField(f, text) = Meaning(f, text)
<1> DEFINE part == text[1][1]
           Good == \A i \in DOMAIN part : InField(f, <<part[i]>>)
<1>1. WellFormed(f, text) <=> Good
  BY DEF WellFormed
<1>2. parseCronField(f, text) = IF Good THEN {part[i].n : i \in DOMAIN part} ELSE {}
  BY DEF parseCronField, parseListField
<1>3. 1 \in DOMAIN part
  BY TextParts
<1>4. Meaning(f, text) = {v \in f.low .. f.high : \E i \in DOMAIN part : part[i].is \in {"*", "?"} \/ part[i].n = v}
  BY DEF Meaning
<1> HIDE DEF part
<1>5. ASSUME Good, NEW i \in DOMAIN part
      PROVE  part[i].n \in f.low .. f.high /\ part[i].is \notin {"*", "?"}
  <2>1. InField(f, <<part[i]>>) /\ <<part[i]>>[1] = part[i]
    BY <1>5
  <2> QED BY <2>1 DEF InField, IsInt
<1>6. Good => parseCronField(f, text) # {}
  BY <1>2, <1>3
<1>7. ASSUME Good PROVE {part[i].n : i \in DOMAIN part} = Meaning(f, text)
  BY <1>4, <1>5, <1>7
<1> QED BY <1>1, <1>2, <1>6, <1>7

(* A step over a range, a value or a star (cron.go:211-260). *)
LEMMA StepMeaning ==
  ASSUME NEW f, IsBounds(f), NEW text, IsText(text), Len(text) > 1
  PROVE  /\ WellFormed(f, text) <=> parseStepField(f, text) # {}
         /\ WellFormed(f, text) /\ StepOf(text) <= IntMax - f.high => parseStepField(f, text) = Meaning(f, text)
<1> DEFINE step == text[2][1][1].n
           parts == text[1]
           Good == Len(text) = 2 /\ Len(text[2]) = 1 /\ IsInt(f, text[2][1]) /\ step > 0
           From == IF IsStar(parts[1]) THEN f.low ELSE parts[1][1].n
           To == IF Len(parts) = 2 THEN parts[2][1].n ELSE f.high
<1>0. Len(text) # 1
  <2>1. PICK k \in Nat : k = Len(text)
    BY TextParts
  <2>2. k > 1 => k # 1
    OBVIOUS
  <2> QED BY <2>1, <2>2
<1>1. text # Single(Star) /\ text # Single(Question)
  <2>1. Len(Single(Star)) = 1 /\ Len(Single(Question)) = 1
    BY DEF Single
  <2> QED BY <1>0, <2>1
<1>2. IsInt(f, text[2][1]) => step \in Nat
  BY IntMaxAssumption DEF IsInt
<1>3. Len(parts) \in Nat /\ Len(parts) >= 1
  BY TextParts
<1>4. WellFormed(f, text) <=>
        Good /\ (IsRange(f, parts) \/ (Len(parts) = 1 /\ (IsStar(parts[1]) \/ InField(f, parts[1]))))
  BY <1>0, <1>1 DEF WellFormed, IsRange
<1>5. ~Good => parseStepField(f, text) = {}
  BY <1>2 DEF parseStepField
<1>6. Good => parseStepField(f, text) =
          IF Len(parts) > 1 THEN parseRangeField(f, parts, step)
          ELSE IF IsStar(parts[1]) THEN Values(f.low, f.high, step)
          ELSE IF InField(f, parts[1]) THEN Values(parts[1][1].n, f.high, step) ELSE {}
  <2>1. step > 0 => step # 0
    OBVIOUS
  <2> QED BY <2>1 DEF parseStepField
<1>7. Good => StepOf(text) = step /\ Meaning(f, text) = Steps(f, From, To, step)
  <2>1. Good => StepOf(text) = step /\ Len(text) # 1
    BY DEF StepOf
  <2> QED BY <2>1 DEF Meaning, Steps
<1> HIDE DEF step, parts
<1>8. ASSUME Good PROVE step \in Nat \ {0}
  BY <1>2, <1>8
<1>9. CASE Good /\ Len(parts) > 1
  <2>1. /\ IsRange(f, parts) <=> parseRangeField(f, parts, step) # {}
        /\ IsRange(f, parts) /\ step <= IntMax - f.high =>
             parseRangeField(f, parts, step) = Steps(f, parts[1][1].n, parts[2][1].n, step)
    BY <1>8, <1>9, RangeMeaning
  <2>2. IsRange(f, parts) => Len(parts) = 2 /\ ~IsStar(parts[1])
    BY DEF IsRange, InField, IsInt, IsStar, Star
  <2> QED BY <1>3, <1>4, <1>6, <1>7, <1>9, <2>1, <2>2
<1>10. CASE Good /\ Len(parts) = 1
  <2>1. ~IsRange(f, parts) /\ To = f.high
    BY <1>10 DEF IsRange
  <2>2. ASSUME IsStar(parts[1]) \/ InField(f, parts[1])
        PROVE  From \in f.low .. f.high /\ f.high \in From .. f.high
    BY <2>2 DEF InField, IsBounds
  <2>3. ASSUME IsStar(parts[1]) \/ InField(f, parts[1])
        PROVE  /\ parseStepField(f, text) = Values(From, f.high, step)
               /\ Values(From, f.high, step) # {}
               /\ step <= IntMax - f.high => Values(From, f.high, step) = Steps(f, From, f.high, step)
    <3>1. parseStepField(f, text) = Values(From, f.high, step)
      BY <1>6, <1>10, <2>3
    <3> HIDE DEF From
    <3>2. /\ Values(From, f.high, step) # {}
          /\ step <= IntMax - f.high => Values(From, f.high, step) = Steps(f, From, f.high, step)
      BY <1>8, <1>10, <2>2, <2>3, LoopMeaning
    <3> QED BY <3>1, <3>2
  <2>4. ~(IsStar(parts[1]) \/ InField(f, parts[1])) => parseStepField(f, text) = {}
    BY <1>6, <1>10
  <2> HIDE DEF From, To
  <2> QED BY <1>4, <1>7, <1>10, <2>1, <2>3, <2>4
<1>11. Len(parts) > 1 \/ Len(parts) = 1
  BY <1>3
<1> HIDE DEF Good
<1> QED BY <1>4, <1>5, <1>9, <1>10, <1>11

(* parseCronField (cron.go:140-195) accepts the well-formed texts, and     *)
(* makes of them the values they stand for.                                *)
LEMMA ParseMeaning ==
  ASSUME NEW f, IsBounds(f), NEW text, IsText(text)
  PROVE  /\ WellFormed(f, text) <=> parseCronField(f, text) # {}
         /\ WellFormed(f, text) /\ StepOf(text) <= IntMax - f.high => parseCronField(f, text) = Meaning(f, text)
<1> DEFINE IsAll == text = Single(Star) \/ (f.question /\ text = Single(Question))
<1>1. Len(text) \in Nat /\ Len(text) >= 1 /\ Len(text[1]) \in Nat /\ Len(text[1]) >= 1
  BY TextParts
<1>2. CASE IsAll
  BY <1>2, StarMeaning
<1>3. CASE ~IsAll /\ Len(text) > 1
  <2>1. parseCronField(f, text) = parseStepField(f, text)
    BY <1>3 DEF parseCronField
  <2> QED BY <1>3, <2>1, StepMeaning
<1>4. CASE ~IsAll /\ Len(text) = 1 /\ Len(text[1]) > 1
  <2>1. parseCronField(f, text) = parseRangeField(f, text[1], 1)
    BY <1>4 DEF parseCronField
  <2>2. WellFormed(f, text) <=> IsRange(f, text[1])
    BY <1>4 DEF WellFormed, IsRange
  <2>3. StepOf(text) = 1
    BY <1>4 DEF StepOf
  <2>4. IsRange(f, text[1]) => Meaning(f, text) = Steps(f, text[1][1][1].n, text[1][2][1].n, 1)
    <3>1. IsRange(f, text[1]) => Len(text[1]) = 2 /\ ~IsStar(text[1][1])
      BY DEF IsRange, InField, IsInt, IsStar, Star
    <3>2. Len(text[1]) = 2 => ~(Len(text) = 1 /\ Len(text[1]) = 1)
      OBVIOUS
    <3>3. Meaning(f, text) =
            {v \in f.low .. f.high :
               IF Len(text) = 1 /\ Len(text[1]) = 1
                 THEN \E i \in DOMAIN text[1][1] : text[1][1][i].is \in {"*", "?"} \/ text[1][1][i].n = v
                 ELSE /\ v \in (IF IsStar(text[1][1]) THEN f.low ELSE text[1][1][1].n)
                                 .. (IF Len(text[1]) = 2 THEN text[1][2][1].n ELSE f.high)
                      /\ (v - (IF IsStar(text[1][1]) THEN f.low ELSE text[1][1][1].n)) % 1 = 0}
      BY <2>3 DEF Meaning
    <3> QED BY <3>1, <3>2, <3>3 DEF Steps
  <2>5. /\ IsRange(f, text[1]) <=> parseRangeField(f, text[1], 1) # {}
        /\ IsRange(f, text[1]) /\ 1 <= IntMax - f.high =>
             parseRangeField(f, text[1], 1) = Steps(f, text[1][1][1].n, text[1][2][1].n, 1)
    BY RangeMeaning
  <2> QED BY <2>1, <2>2, <2>3, <2>4, <2>5
<1>5. CASE ~IsAll /\ Len(text) = 1 /\ Len(text[1]) = 1
  BY <1>5, ListMeaning
<1>6. (Len(text) > 1 \/ Len(text) = 1) /\ (Len(text[1]) > 1 \/ Len(text[1]) = 1)
  <2>1. \A k \in Nat : k >= 1 => k > 1 \/ k = 1
    OBVIOUS
  <2> QED BY <1>1, <2>1
<1> QED BY <1>2, <1>3, <1>4, <1>5, <1>6

(* The fields and texts of a specification are what the lemmas above are about. *)
LEMMA GivenFields ==
  ASSUME TypeInv, NEW u \in GivenTexts
  PROVE  IsBounds(FieldOf(u)) /\ IsText(TextOf(u))
<1>1. last \in 4 .. 5 /\ (u = 6 \/ u \in 1 .. 5) /\ input \in Inputs
  BY InputType DEF GivenTexts, TypeInv
<1>2. IsBounds(FieldOf(u))
  <2>1. FieldOf(u) \in {UnitField[k] : k \in 1 .. 5} \cup {DowField}
    BY <1>1 DEF FieldOf
  <2> QED BY <2>1, CronAssumption DEF IsBounds
<1>3. IsText(TextOf(u))
  BY <1>1, CronAssumption DEF GivenTexts, TextOf, last
<1> QED BY <1>2, <1>3

(* Only ParseCronSpec sets the fields. *)
LEMMA NextKeepsFields ==
  ASSUME TypeInv, FieldsMeanTexts, [CronStep]_cronVars
  PROVE  FieldsMeanTexts'
<1>1. CASE ParseCronSpec
  <2>1. /\ input' = input /\ GivenTexts' = GivenTexts
        /\ \A u \in GivenTexts : TextOf(u)' = TextOf(u) /\ FieldOf(u)' = FieldOf(u)
    BY <1>1 DEF ParseCronSpec, GivenTexts, last, TextOf, FieldOf
  <2>2. ASSUME NEW u \in GivenTexts PROVE Parsed(u)' = parseCronField(FieldOf(u), TextOf(u))
    <3>1. last \in 4 .. 5
      BY InputType
    <3>2. CASE u = 6
      BY <1>1, <3>2 DEF ParseCronSpec, Parsed, FieldOf, TextOf
    <3>3. CASE u # 6
      <4>1. u \in 1 .. 5 /\ u <= last
        BY <3>1, <3>3 DEF GivenTexts
      <4>2. fields'[u] = parseCronField(UnitField[u], input.text[u])
        BY <1>1, <4>1 DEF ParseCronSpec
      <4> QED BY <3>3, <4>2 DEF Parsed, FieldOf, TextOf
    <3> QED BY <3>2, <3>3
  <2>3. ASSUME NEW u \in GivenTexts
        PROVE  /\ WellFormed(FieldOf(u), TextOf(u)) <=> Parsed(u)' # {}
               /\ WellFormed(FieldOf(u), TextOf(u)) /\ StepOf(TextOf(u)) <= IntMax - FieldOf(u).high =>
                    Parsed(u)' = Meaning(FieldOf(u), TextOf(u))
    BY <2>2, GivenFields, ParseMeaning
  <2>4. (\E u \in GivenTexts : Parsed(u)' = {}) <=> at' = "rejected"
    <3>1. 6 \in GivenTexts /\ Parsed(6)' = dow'
      BY DEF GivenTexts, Parsed
    <3>2. \A u \in 1 .. last : u \in GivenTexts /\ Parsed(u)' = fields'[u]
      BY InputType DEF GivenTexts, Parsed
    <3>3. \A u \in GivenTexts : u = 6 \/ u \in 1 .. last
      BY DEF GivenTexts
    <3>4. at' = "rejected" <=> dow' = {} \/ \E u \in 1 .. last : fields'[u] = {}
      BY <1>1 DEF ParseCronSpec
    <3> QED BY <3>1, <3>2, <3>3, <3>4
  <2>5. at' = "rejected" => \E u \in GivenTexts : ~WellFormed(FieldOf(u), TextOf(u))
    BY <2>3, <2>4
  <2>6. ASSUME at' # "rejected", NEW u \in GivenTexts
        PROVE  /\ WellFormed(FieldOf(u), TextOf(u))
               /\ StepOf(TextOf(u)) <= IntMax - FieldOf(u).high => Parsed(u)' = Meaning(FieldOf(u), TextOf(u))
    BY <2>3, <2>4, <2>6
  <2> QED BY <2>1, <2>5, <2>6 DEF FieldsMeanTexts
<1>2. CASE ~ParseCronSpec
  <2>1. UNCHANGED <<input, fields, dow>> /\ (at' = at \/ (at \notin {"parse", "rejected"} /\ at' # "rejected"))
    BY <1>2 DEF CronStep, cronVars, Enter, Advance, NextYear, Choose, Take, Goes, BackTo
  <2>2. /\ GivenTexts' = GivenTexts
        /\ \A u \in GivenTexts : TextOf(u)' = TextOf(u) /\ FieldOf(u)' = FieldOf(u) /\ Parsed(u)' = Parsed(u)
    BY <2>1 DEF GivenTexts, last, TextOf, FieldOf, Parsed
  <2> QED BY <2>1, <2>2 DEF FieldsMeanTexts
<1> QED BY <1>1, <1>2

(* ParseCronSpec (cron.go:71-137) rejects a specification only for a       *)
(* malformed field, and the fields it makes hold the values their texts    *)
(* stand for, whatever the bounds of the fields and the texts, when no     *)
(* loop counter overflows.                                                 *)
THEOREM TextsAreUnderstood == CronSpec => []FieldsMeanTexts
<1>1. CronInit => FieldsMeanTexts
  BY DEF CronInit, FieldsMeanTexts
<1>2. TypeInv /\ FieldsMeanTexts /\ [CronStep]_cronVars => FieldsMeanTexts'
  BY NextKeepsFields
<1> QED BY <1>1, <1>2, InitType, NextType, PTL DEF CronSpec
=============================================================================
