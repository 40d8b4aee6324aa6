---------------------------- MODULE TaskExecutor ----------------------------
(***************************************************************************)
(* The task executor: the agent in a pod that runs the tasks which the     *)
(* BatchSandbox controller sends it.  Three parts share the state below:   *)
(* the task manager (internal/task-executor/manager), the file store       *)
(* (storage) and the process executor (runtime).                           *)
(*                                                                         *)
(* Every operation of the manager holds m.mu from its first to its last    *)
(* step, so pc = "idle" says that the mutex is free.  The steps inside an  *)
(* operation are those between which a process can exit or the executor    *)
(* can be killed.  The goroutines that stop a task take the mutex only     *)
(* when they end.                                                          *)
(*                                                                         *)
(* A process is the shim script of buildShimScript and the command it runs *)
(* in the background (its child).  A pid is the index of a process.        *)
(***************************************************************************)
EXTENDS Integers, Sequences, FiniteSets

CONSTANTS
  Tasks,        \* task names
  NoName,       \* no task
  MaxStarts,    \* bound: processes started in a behaviour
  MaxRestarts,  \* bound: restarts of the executor in a behaviour
  Env           \* what the environment may do, a subset of EnvBehaviours

EnvBehaviours == {"storeFail", "startFail", "timeout"}

ASSUME ExecutorAssumption ==
  /\ NoName \notin Tasks
  /\ MaxStarts \in Nat /\ MaxRestarts \in Nat
  /\ Env \subseteq EnvBehaviours

maxConcurrentTasks == 1

VARIABLES
  mem,          \* m.tasks: the records the manager holds
  disk,         \* the task directories and their task.json
  pidFile,      \* the pid file of each task directory, 0 when there is none
  exitFile,     \* the exit code file of each task directory
  proc,         \* the processes, in the order they were started
  stopping,     \* m.stopping
  stops,        \* the goroutines that stop a task
  pc, cur,      \* the step of the operation that holds m.mu, and its task
  want,         \* tasks an operation still has to create
  todo, doomed, \* tasks a tick still has to inspect; tasksToDelete
  restarts      \* how often the executor was started again

vars == <<mem, disk, pidFile, exitFile, proc, stopping, stops, pc, cur, want,
          todo, doomed, restarts>>
manager == <<pc, cur, want, todo, doomed, restarts>>
files   == <<disk, pidFile, exitFile>>

States == {"Pending", "Running", "Succeeded", "Failed", "Timeout"}

Task == [state : States \cup {"absent"}, deleted : BOOLEAN]
NoTask == [state |-> "absent", deleted |-> FALSE]

\* A directory without task.json is what MkdirAll alone leaves behind.
Directory == [state |-> "dir", deleted |-> FALSE]

\* The code of a process is what `wait' returned to its shim, "none" before.
Process == [task : Tasks, shim : BOOLEAN, child : BOOLEAN, term : BOOLEAN,
            expired : BOOLEAN, code : {"none", "zero", "nonzero"}]
Pids == 1 .. Len(proc)

\* What is left of a process once its shim is gone.
Orphan(process, child) ==
  [task |-> process.task, shim |-> FALSE, child |-> child, term |-> FALSE,
   expired |-> FALSE, code |-> "none"]

\* The field for tells the goroutines of successive processes apart.
Stopper == [task : Tasks, for : 0 .. MaxStarts, pid : 0 .. MaxStarts,
            phase : {"spawned", "waiting", "done"}]

Present == {t \in Tasks : mem[t] # NoTask}

isTaskActive(t) == ~mem[t].deleted /\ mem[t].state \in {"Pending", "Running"}

countActiveTasks == Cardinality({t \in Tasks : isTaskActive(t)})

\* Defective variant: a task past its timeout counts as terminated.
MutantTimeoutTerminal(state) == state \in {"Succeeded", "Failed", "Timeout"}

isTerminalState(state) == state \in {"Succeeded", "Failed"}

\* Whether a write or removal in the data directory is carried out.
Stored == IF "storeFail" \in Env THEN BOOLEAN ELSE {TRUE}

-----------------------------------------------------------------------------
Init ==
  /\ mem = [t \in Tasks |-> NoTask]
  /\ disk = [t \in Tasks |-> NoTask]
  /\ pidFile = [t \in Tasks |-> 0]
  /\ exitFile = [t \in Tasks |-> "none"]
  /\ proc = <<>>
  /\ stopping = {} /\ stops = {}
  /\ pc = "idle" /\ cur = NoName /\ want = {} /\ todo = {} /\ doomed = {}
  /\ restarts = 0

-----------------------------------------------------------------------------
(* Requests.  Sync is what the controller's client calls, with one task or *)
(* none; Create and Delete are the other two endpoints.                    *)

\* Defective variant: the mark is kept in memory only.
MutantMarkNotPersisted(S, saved) ==
  /\ mem' = [t \in Tasks |-> IF t \in S THEN [mem[t] EXCEPT !.deleted = TRUE]
                                        ELSE mem[t]]
  /\ disk' = disk

\* Mark the tasks of S, and persist the marks of those in saved.
softDeleteLocked(S, saved) ==
  LET marked == {t \in S : ~mem[t].deleted} IN
  /\ mem' = [t \in Tasks |-> IF t \in marked THEN [mem[t] EXCEPT !.deleted = TRUE]
                                             ELSE mem[t]]
  /\ disk' = [t \in Tasks |-> IF t \in marked \cap saved THEN mem'[t] ELSE disk[t]]

CreateAll(S) ==
  /\ Len(proc) + Cardinality(S) <= MaxStarts
  /\ want' = S
  /\ pc' = IF S = {} THEN "idle" ELSE "creating"

Sync(desired) ==
  /\ pc = "idle"
  /\ \E saved \in (IF "storeFail" \in Env THEN SUBSET Tasks ELSE {Tasks}) :
       softDeleteLocked(Present \ desired, saved)
  /\ CreateAll(desired \ Present)
  /\ UNCHANGED <<pidFile, exitFile, proc, stopping, stops, cur, todo, doomed, restarts>>

Create(t) ==
  /\ pc = "idle"
  /\ t \notin Present
  /\ CreateAll({t})
  /\ UNCHANGED <<mem, files, proc, stopping, stops, cur, todo, doomed, restarts>>

Delete(t) ==
  /\ pc = "idle"
  /\ t \in Present
  /\ \E stored \in Stored : softDeleteLocked({t}, IF stored THEN {t} ELSE {})
  /\ UNCHANGED <<pidFile, exitFile, proc, stopping, stops, manager>>

-----------------------------------------------------------------------------
(* createTaskLocked, one step for each effect outside the manager          *)

NextWanted(t) ==
  /\ want' = want \ {t}
  /\ pc' = IF want = {t} THEN "idle" ELSE "creating"

\* Defective variant: the concurrency limit is not checked.
MutantNoLimit(t) == disk[t] # NoTask

\* The concurrency limit is reached, or store.Create finds the directory.
Refused(t) == countActiveTasks >= maxConcurrentTasks \/ disk[t] # NoTask

CreateRefused(t) ==
  /\ pc = "creating" /\ t \in want
  /\ Refused(t) \/ "storeFail" \in Env
  /\ NextWanted(t)
  /\ UNCHANGED <<mem, files, proc, stopping, stops, cur, todo, doomed, restarts>>

MakeTaskDir(t) ==
  /\ pc = "creating" /\ t \in want
  /\ ~Refused(t)
  /\ disk' = [disk EXCEPT ![t] = Directory]
  /\ cur' = t
  /\ pc' = "dir"
  /\ UNCHANGED <<mem, pidFile, exitFile, proc, stopping, stops, want, todo, doomed, restarts>>

\* store.Delete: the directory and every file in it.
RemoveTaskDirs(S) ==
  /\ disk' = [t \in Tasks |-> IF t \in S THEN NoTask ELSE disk[t]]
  /\ pidFile' = [t \in Tasks |-> IF t \in S THEN 0 ELSE pidFile[t]]
  /\ exitFile' = [t \in Tasks |-> IF t \in S THEN "none" ELSE exitFile[t]]

\* The creation is given up and rolled back.
RollBack ==
  /\ \E stored \in Stored : RemoveTaskDirs(IF stored THEN {cur} ELSE {})
  /\ NextWanted(cur)
  /\ cur' = NoName
  /\ UNCHANGED <<mem, stopping, stops, todo, doomed, restarts>>

WriteTaskFile ==
  /\ pc = "dir"
  /\ disk' = [disk EXCEPT ![cur] = [state |-> "Pending", deleted |-> FALSE]]
  /\ pc' = "written"
  /\ UNCHANGED <<mem, pidFile, exitFile, proc, stopping, stops, cur, want, todo, doomed, restarts>>

WriteTaskFileFails ==
  /\ pc = "dir" /\ "storeFail" \in Env
  /\ RollBack
  /\ UNCHANGED proc

StartProcess ==
  /\ pc = "written"
  /\ proc' = Append(proc, [task |-> cur, shim |-> TRUE, child |-> TRUE,
                           term |-> FALSE, expired |-> FALSE, code |-> "none"])
  /\ pc' = "started"
  /\ UNCHANGED <<mem, files, stopping, stops, cur, want, todo, doomed, restarts>>

StartFails ==
  /\ pc = "written" /\ "startFail" \in Env
  /\ RollBack
  /\ UNCHANGED proc

WritePidFile ==
  /\ pc = "started"
  /\ pidFile' = [pidFile EXCEPT ![cur] = Len(proc)]
  /\ pc' = "exit?"
  /\ UNCHANGED <<mem, disk, exitFile, proc, stopping, stops, cur, want, todo, doomed, restarts>>

\* cmd.Process.Kill ends the shim, which does not trap that signal.
WritePidFileFails ==
  /\ pc = "started" /\ "startFail" \in Env
  /\ proc' = [proc EXCEPT ![Len(proc)] = Orphan(@, @.child)]
  /\ RollBack

-----------------------------------------------------------------------------
(* Inspect reads the exit file and then, if there is none, the pid file    *)
(* and the process.  It runs at the end of a creation and in every tick.   *)

\* The error of Atoi is ignored: a file that is still empty reads as 0.
ExitState(t) == IF exitFile[t] = "nonzero" THEN "Failed" ELSE "Succeeded"

\* Defective variant: without a pid file, State keeps the value it starts with.
MutantPendingUnset(t) ==
  IF pidFile[t] = 0 THEN "Unknown"
  ELSE IF ~proc[pidFile[t]].shim THEN "Failed"
  ELSE "Running"

PidState(t) ==
  IF pidFile[t] = 0 THEN "Pending"
  ELSE IF ~proc[pidFile[t]].shim THEN "Failed"
  ELSE IF proc[pidFile[t]].expired THEN "Timeout"
  ELSE "Running"

\* Set the status of task t, and persist its record where it changed.
SetStatus(t, state) ==
  /\ mem' = [mem EXCEPT ![t].state = state]
  /\ IF mem' = mem THEN disk' = disk
     ELSE \E stored \in Stored : disk' = IF stored THEN [disk EXCEPT ![t] = mem'[t]]
                                                   ELSE disk

\* The end of createTaskLocked: the task enters m.tasks.
Created(state) ==
  /\ SetStatus(cur, state)
  /\ NextWanted(cur)
  /\ cur' = NoName
  /\ UNCHANGED <<stopping, stops, todo, doomed, restarts>>

\* Defective variant: only a task past its timeout is stopped.
MutantStopsTimeoutOnly(t, state) ==
  /\ t \notin stopping
  /\ ~mem[t].deleted /\ state = "Timeout"

shouldStop(t, state) ==
  /\ t \notin stopping
  /\ IF mem[t].deleted THEN ~isTerminalState(state) ELSE state = "Timeout"

\* The body of the loop in reconcileTasks once Inspect has returned.
Examined(state) ==
  /\ IF shouldStop(cur, state)
     THEN /\ stopping' = stopping \cup {cur}
          /\ stops' = stops \cup {[task |-> cur, for |-> pidFile[cur], pid |-> 0,
                                   phase |-> "spawned"]}
     ELSE UNCHANGED <<stopping, stops>>
  /\ doomed' = IF mem[cur].deleted /\ isTerminalState(state)
               THEN doomed \cup {cur} ELSE doomed
  /\ IF cur \in stopping' THEN UNCHANGED <<mem, disk>> ELSE SetStatus(cur, state)
  /\ pc' = "tick" /\ cur' = NoName
  /\ UNCHANGED <<want, todo, restarts>>

Inspected(state) ==
  /\ IF cur \in Present THEN Examined(state) ELSE Created(state)
  /\ UNCHANGED <<pidFile, exitFile, proc>>

ReadExitFile ==
  /\ pc = "exit?"
  /\ exitFile[cur] # "none"
  /\ Inspected(ExitState(cur))

NoExitFile ==
  /\ pc = "exit?"
  /\ exitFile[cur] = "none"
  /\ pc' = "pid?"
  /\ UNCHANGED <<mem, files, proc, stopping, stops, cur, want, todo, doomed, restarts>>

ReadPidFile ==
  /\ pc = "pid?"
  /\ Inspected(PidState(cur))

\* Defective variant: the status of a terminated task is not read again.
MutantTrustsTerminal ==
  /\ pc = "idle"
  /\ pc' = "tick" /\ doomed' = {}
  /\ todo' = {t \in Present : mem[t].deleted \/ ~isTerminalState(mem[t].state)}
  /\ UNCHANGED <<mem, files, proc, stopping, stops, cur, want, restarts>>

reconcileTasks ==
  /\ pc = "idle"
  /\ pc' = "tick" /\ todo' = Present /\ doomed' = {}
  /\ UNCHANGED <<mem, files, proc, stopping, stops, cur, want, restarts>>

InspectNext(t) ==
  /\ pc = "tick" /\ t \in todo
  /\ todo' = todo \ {t}
  /\ cur' = t
  /\ pc' = "exit?"
  /\ UNCHANGED <<mem, files, proc, stopping, stops, want, doomed, restarts>>

\* The end of reconcileTasks: the terminated tasks are removed.
FinalizeDeletions ==
  /\ pc = "tick" /\ todo = {}
  /\ \E S \in (IF "storeFail" \in Env THEN SUBSET doomed ELSE {doomed}) :
       /\ RemoveTaskDirs(S)
       /\ mem' = [t \in Tasks |-> IF t \in S THEN NoTask ELSE mem[t]]
       /\ stopping' = stopping \ S
  /\ pc' = "idle" /\ doomed' = {}
  /\ UNCHANGED <<proc, stops, cur, want, todo, restarts>>

-----------------------------------------------------------------------------
(* The goroutine that runs executor.Stop                                   *)

Advance(s, phase, pid) ==
  stops' = (stops \ {s}) \cup {[s EXCEPT !.phase = phase, !.pid = pid]}

\* Stop finds no pid file.
StopNothing(s) ==
  /\ s.phase = "spawned" /\ pidFile[s.task] = 0
  /\ Advance(s, "done", 0)
  /\ UNCHANGED <<mem, files, proc, stopping, manager>>

\* SIGTERM to the shim, or to its process group once the shim is gone.
StopTerm(s) ==
  /\ s.phase = "spawned" /\ pidFile[s.task] # 0
  /\ proc' = [proc EXCEPT ![pidFile[s.task]].term = proc[pidFile[s.task]].shim]
  /\ Advance(s, "waiting", pidFile[s.task])
  /\ UNCHANGED <<mem, files, stopping, manager>>

StopObserved(s) ==
  /\ s.phase = "waiting" /\ ~proc[s.pid].shim
  /\ Advance(s, "done", s.pid)
  /\ UNCHANGED <<mem, files, proc, stopping, manager>>

\* Ten seconds have passed: SIGKILL to the shim and to the process group.
StopKill(s) ==
  /\ s.phase = "waiting" /\ proc[s.pid].shim
  /\ proc' = [proc EXCEPT ![s.pid] = Orphan(@, FALSE)]
  /\ Advance(s, "done", s.pid)
  /\ UNCHANGED <<mem, files, stopping, manager>>

\* The deferred function.
StopReturns(s) ==
  /\ s.phase = "done" /\ pc = "idle"
  /\ stops' = stops \ {s}
  /\ stopping' = stopping \ {s.task}
  /\ UNCHANGED <<mem, files, proc, manager>>

-----------------------------------------------------------------------------
(* Processes                                                               *)

\* `wait' has returned: the redirection creates the exit file, which is empty,
\* if the directory is still there.
OpenExitFile(p, code, child) ==
  /\ exitFile' = [exitFile EXCEPT ![proc[p].task] =
                    IF disk[proc[p].task] = NoTask THEN "none" ELSE "empty"]
  /\ proc' = [proc EXCEPT ![p].code = code, ![p].child = child]
  /\ UNCHANGED <<mem, disk, pidFile, stopping, stops, manager>>

\* The command ends by itself, and `wait' returns its exit code.
CommandEnds(p) ==
  /\ proc[p].shim /\ proc[p].child /\ proc[p].code = "none"
  /\ \E code \in {"zero", "nonzero"} : OpenExitFile(p, code, FALSE)

\* A trapped SIGTERM is forwarded, and interrupts `wait': the shim goes on
\* to write an exit code above 128 whether or not the command has ended.
ShimTerminated(p) ==
  /\ proc[p].shim /\ proc[p].term /\ proc[p].code = "none"
  /\ OpenExitFile(p, "nonzero", proc[p].child)

\* The file that shim p has opened is still the exit file of its task: its
\* directory was not removed (and made again for a later process) since.
FileInPlace(p) ==
  /\ exitFile[proc[p].task] = "empty"
  /\ \A q \in Pids : proc[q].task = proc[p].task => q <= p

\* printf writes the exit code, which may fail, and the shim exits.
ShimExits(p) ==
  /\ proc[p].shim /\ proc[p].code # "none"
  /\ \E stored \in Stored :
       exitFile' = IF stored /\ FileInPlace(p)
                   THEN [exitFile EXCEPT ![proc[p].task] = proc[p].code] ELSE exitFile
  /\ proc' = [proc EXCEPT ![p] = Orphan(@, @.child)]
  /\ UNCHANGED <<mem, disk, pidFile, stopping, stops, manager>>

\* A command for which no shim waits any more ends.
OrphanEnds(p) ==
  /\ ~proc[p].shim \/ proc[p].code # "none"
  /\ proc[p].child
  /\ proc' = [proc EXCEPT ![p].child = FALSE]
  /\ UNCHANGED <<mem, files, stopping, stops, manager>>

TimeoutElapses(p) ==
  /\ "timeout" \in Env
  /\ proc[p].shim /\ ~proc[p].expired /\ proc[p].code = "none"
  /\ proc' = [proc EXCEPT ![p].expired = TRUE]
  /\ UNCHANGED <<mem, files, stopping, stops, manager>>

-----------------------------------------------------------------------------
(* The executor is killed and started again, alone or with its processes;  *)
(* Start loads the tasks whose task.json can be read.                      *)

recoverTasks ==
  mem' = [t \in Tasks |->
    IF disk[t] \in {NoTask, Directory} THEN NoTask
    ELSE [disk[t] EXCEPT !.state =
            IF exitFile[t] # "none" THEN ExitState(t)
            ELSE IF pidFile[t] # 0 /\ ~proc'[pidFile[t]].shim THEN "Failed"
            ELSE PidState(t)]]

Restart ==
  /\ restarts < MaxRestarts
  /\ restarts' = restarts + 1
  /\ \E survive \in BOOLEAN :
       proc' = [p \in Pids |-> IF survive THEN proc[p] ELSE Orphan(proc[p], FALSE)]
  /\ recoverTasks
  /\ stopping' = {} /\ stops' = {}
  /\ pc' = "idle" /\ cur' = NoName /\ want' = {} /\ todo' = {} /\ doomed' = {}
  /\ UNCHANGED files

-----------------------------------------------------------------------------
Request == \/ \E desired \in {{}} \cup {{t} : t \in Tasks} : Sync(desired)
           \/ \E t \in Tasks : Create(t) \/ Delete(t)

Creation == \/ \E t \in Tasks : CreateRefused(t) \/ MakeTaskDir(t)
            \/ WriteTaskFile \/ WriteTaskFileFails
            \/ StartProcess \/ StartFails
            \/ WritePidFile \/ WritePidFileFails

Inspection == ReadExitFile \/ NoExitFile \/ ReadPidFile

Tick == reconcileTasks \/ (\E t \in Tasks : InspectNext(t)) \/ FinalizeDeletions

Stop == \E s \in stops : StopNothing(s) \/ StopTerm(s) \/ StopObserved(s)
                         \/ StopKill(s) \/ StopReturns(s)

Processes == \E p \in Pids : CommandEnds(p) \/ ShimTerminated(p) \/ ShimExits(p)
                             \/ OrphanEnds(p) \/ TimeoutElapses(p)

Next == Request \/ Creation \/ Inspection \/ Tick \/ Stop \/ Processes \/ Restart

Spec == Init /\ [][Next]_vars

\* The reconcile loop ticks, an operation that holds the mutex goes on to its
\* end, and a goroutine that stops a task runs.  A removal that is tried again
\* and again succeeds.  Nothing is assumed of the commands, of the requests or
\* of restarts.
Fairness == /\ WF_vars(Creation)
            /\ WF_vars(Inspection)
            /\ SF_vars(reconcileTasks)
            /\ WF_vars(\E t \in Tasks : InspectNext(t))
            /\ WF_vars(FinalizeDeletions)
            /\ \A t \in Tasks : SF_vars(FinalizeDeletions /\ t \in doomed /\ mem'[t] = NoTask)
            /\ WF_vars(\E s \in stops : StopNothing(s) \/ StopTerm(s)
                                          \/ StopObserved(s) \/ StopKill(s))
            /\ SF_vars(\E s \in stops : StopReturns(s))

FairSpec == Spec /\ Fairness

(***************************************************************************)
(* Properties                                                              *)
(***************************************************************************)

\* Every variable keeps its type.
TypeOK ==
  /\ mem \in [Tasks -> Task]
  /\ disk \in [Tasks -> Task \cup {Directory}]
  /\ pidFile \in [Tasks -> 0 .. Len(proc)]
  /\ exitFile \in [Tasks -> {"none", "empty", "zero", "nonzero"}]
  /\ proc \in Seq(Process) /\ Len(proc) <= MaxStarts
  /\ stopping \subseteq Tasks
  /\ stops \subseteq Stopper
  /\ pc \in {"idle", "creating", "dir", "written", "started", "exit?", "pid?", "tick"}
  /\ cur \in Tasks \cup {NoName}
  /\ want \subseteq Tasks /\ todo \subseteq Tasks /\ doomed \subseteq Tasks
  /\ restarts \in 0 .. MaxRestarts

\* The limit of countActiveTasks: at most one task that is not being deleted
\* is pending or running, also among the tasks that recoverTasks brings back.
OneActiveTask == countActiveTasks <= maxConcurrentTasks

\* softDeleteLocked: a deletion that was accepted is on disk, so a restart
\* does not bring the task back to life.
DeletionDurable == \A t \in Tasks : mem[t].deleted => disk[t].deleted

\* Inspect and reconcileTasks: once the exit code is in the exit file, the
\* status that is reported comes to agree with it, although an inspection may
\* have found the file empty, or none and the process gone, before.
ExitCodeReported ==
  \A t \in Tasks : exitFile[t] \in {"zero", "nonzero"} ~>
                     (mem[t].state = ExitState(t) \/ t \notin Present)

\* executeCommand and reconcileTasks: a shim that waits for its command is the
\* one that the pid file of its task names, so that it can be stopped.  The
\* exception is a shim whose pid was not written, because that is the next
\* step or because the executor was killed before it.
ShimsTracked ==
  \A p \in Pids : proc[p].shim /\ proc[p].code = "none" =>
    LET t == proc[p].task IN
    \/ pidFile[t] = p
    \/ pidFile[t] = 0 /\ disk[t] # NoTask /\ (pc = "started" \/ restarts > 0)

\* Delete, "removes a task by marking it for deletion": a task with a pid that is
\* marked for deletion is removed, however its command reacts to signals and
\* wherever a restart falls (which forgets a mark that could not be stored).
DeletedTaskRemoved ==
  \A t \in Tasks : (mem[t].deleted /\ pidFile[t] # 0) ~> ~mem[t].deleted
=============================================================================
