---------------------------- MODULE TaskScheduler ---------------------------
(***************************************************************************)
(* Task scheduling for one BatchSandbox: the task part of the BatchSandbox *)
(* controller (internal/controller/batchsandbox_controller.go) and the     *)
(* scheduler it keeps in memory (internal/scheduler), with the task        *)
(* executors of the pods as the far side of an unreliable network.         *)
(*                                                                         *)
(* One reconciliation is GetTaskScheduler, CollectTaskStatus, SetTaskNode  *)
(* or ReleaseTaskNode for each task, in any order (they are goroutines),   *)
(* and ReleasePods.  An executor is seen through its two calls: Get, which *)
(* returns one of its tasks, and Set, which makes the given task its only  *)
(* one.                                                                    *)
(***************************************************************************)
EXTENDS Integers, FiniteSets, Functions

CONSTANTS
  Tasks,            \* the tasks of this BatchSandbox
  Foreign,          \* a task of another BatchSandbox
  Pods,             \* the pods the pool may allocate
  NoPod, NoTask,
  PolicyRelease,    \* TaskResourcePolicyWhenCompleted is Release, not Retain
  MaxRestarts,      \* bound: restarts of the controller in a behaviour
  Env               \* what the environment may do, a subset of EnvBehaviours

EnvBehaviours == {"loss", "late", "patchFail", "podLoss", "reuse"}

ASSUME SchedulerAssumption ==
  /\ Foreign \notin Tasks /\ NoTask \notin Tasks \cup {Foreign}
  /\ NoPod \notin Pods
  /\ IsFiniteSet(Tasks)
  /\ PolicyRelease \in BOOLEAN
  /\ MaxRestarts \in Nat
  /\ Env \subseteq EnvBehaviours

VARIABLES
  sandbox,          \* the BatchSandbox: "live", "deleting" or "gone"
  alloc, release,   \* its allocation and release annotations
  sched, node, pod, \* whether the scheduler exists, its taskNodes, and the
                    \* IP and PodName of each
  allPods,          \* the scheduler's allPods
  pc, todo,         \* the step of the reconciliation; nodes left to schedule
  agent,            \* the task executors, for each pod and task name
  lost,             \* pods that no longer exist
  late,             \* calls of Set that have timed out but may yet arrive
  ran, completed,   \* history: tasks that were started, and that completed
  restarts

kube  == <<sandbox, alloc, release>>
world == <<agent, lost, late, ran, completed>>
vars  == <<kube, sched, node, pod, allPods, pc, todo, world, restarts>>

Names == Tasks \cup {Foreign}

MaxLate == 1    \* bound: late calls under way at a time

\* Status # nil, isTaskCompleted() and DeletionTimestamp # nil of a taskNode.
Node == [seen : BOOLEAN, done : BOOLEAN, deleted : BOOLEAN,
         sState : {"none", "releasing", "released"}]

NewNode == [seen |-> FALSE, done |-> FALSE, deleted |-> FALSE, sState |-> "none"]

-----------------------------------------------------------------------------
(* The executor.  A task that was told to stop (stopping) or that had      *)
(* completed before (removing) is listed, with its status, until it is     *)
(* removed.                                                                *)

\* What Get may return: any entry of the list, the first one in the order of
\* a Go map; nil for an empty list, and no answer when the call fails.
Nil == [name |-> NoTask, done |-> FALSE]

Gets(p) ==
  LET listed == {r \in [name : Names, done : BOOLEAN] :
                   /\ agent[p][r.name] # "absent"
                   /\ r.done <=> agent[p][r.name] \in {"completed", "removing"}}
  IN IF p \in lost \/ listed = {} THEN {Nil}
     ELSE IF "loss" \in Env THEN listed \cup {Nil} ELSE listed

\* The results of Collect for the pods of P.
Collect(P) ==
  {got \in [P -> UNION {Gets(p) : p \in P}] : \A p \in P : got[p] \in Gets(p)}

\* The executor's Sync: desired becomes its only task.
Synced(tasks, desired) ==
  [n \in Names |-> IF n \in desired
                   THEN IF tasks[n] = "absent" THEN "running" ELSE tasks[n]
                   ELSE IF tasks[n] = "running" THEN "stopping"
                   ELSE IF tasks[n] = "completed" THEN "removing"
                   ELSE tasks[n]]

Arrives(p, desired) ==
  /\ p \notin lost
  /\ agent' = [agent EXCEPT ![p] = Synced(@, desired)]
  /\ ran' = ran \cup {n \in desired : agent[p][n] = "absent"}
  /\ UNCHANGED <<lost, completed>>

\* The call arrives, is lost, or arrives after its caller has given up.
setTask(p, desired) ==
  \/ Arrives(p, desired) /\ UNCHANGED late
  \/ (p \in lost \/ "loss" \in Env) /\ UNCHANGED world
  \/ /\ "late" \in Env /\ Cardinality(late) < MaxLate
     /\ late' = late \cup {[pod |-> p, desired |-> desired]}
     /\ UNCHANGED <<agent, lost, ran, completed>>

-----------------------------------------------------------------------------
Init ==
  /\ sandbox = "live" /\ alloc = {} /\ release = {}
  /\ sched = FALSE /\ node = [t \in Tasks |-> NewNode]
  /\ pod = [t \in Tasks |-> NoPod] /\ allPods = {}
  /\ pc = "idle" /\ todo = [t \in Tasks |-> "done"]
  /\ agent = [p \in Pods |-> [n \in Names |-> "absent"]]
  /\ lost = {} /\ late = {} /\ ran = {} /\ completed = {}
  /\ restarts = 0

-----------------------------------------------------------------------------
(* One reconciliation                                                      *)

StopTask(nodes) == [t \in Tasks |-> [nodes[t] EXCEPT !.deleted = TRUE]]

\* recoverTaskNodesStatus: a task that an executor lists is assigned to its
\* pod, the last such pod; the executor's answer never carries a deletion
\* timestamp.
Recovered(got, at) ==
  [t \in Tasks |-> IF at[t] = NoPod THEN NewNode
                   ELSE [NewNode EXCEPT !.seen = TRUE, !.done = got[at[t]].done]]

Recovery(P) ==
  \E got \in Collect(P), at \in [Tasks -> P \cup {NoPod}] :
    /\ \A t \in Tasks :
         IF \E p \in P : got[p].name = t
         THEN at[t] \in P /\ got[at[t]].name = t
         ELSE at[t] = NoPod
    /\ pod' = at
    /\ node' = IF sandbox = "deleting" THEN StopTask(Recovered(got, at))
                                       ELSE Recovered(got, at)

listPods == (alloc \ release) \ lost

GetTaskScheduler ==
  /\ pc = "idle" /\ sandbox # "gone"
  /\ allPods' = listPods
  /\ IF sched THEN /\ node' = IF sandbox = "deleting" THEN StopTask(node) ELSE node
                   /\ UNCHANGED pod
              ELSE Recovery(listPods)
  /\ sched' = TRUE
  /\ pc' = "collect"
  /\ UNCHANGED <<kube, todo, world, restarts>>

\* Defective variant: a task that is gone from its executor is forgotten.
MutantForgetsCompletion(n, answer) ==
  [n EXCEPT !.seen = answer # Nil, !.done = answer.done]

\* The pod's answer is taken for the status of the node's task.
Observed(n, answer) ==
  IF answer = Nil THEN [n EXCEPT !.seen = FALSE]
  ELSE [n EXCEPT !.seen = TRUE, !.done = answer.done]

AssignedPods == {pod[t] : t \in Tasks} \ {NoPod}

\* Defective variant: every pod counts as free.
MutantAllFree == allPods

refreshFreePods == allPods \ AssignedPods

\* As many unassigned nodes as there are free pods get one each.
assignTaskNodes(free) ==
  LET unassigned == {t \in Tasks : pod[t] = NoPod} IN
  \E S \in SUBSET unassigned : \E at \in Injection(S, free) :
    /\ S = unassigned \/ Cardinality(S) = Cardinality(free)
    /\ pod' = [t \in Tasks |-> IF t \in S THEN at[t] ELSE pod[t]]

CollectTaskStatus ==
  /\ pc = "collect"
  /\ \E got \in Collect(AssignedPods) :
       node' = [t \in Tasks |-> IF pod[t] = NoPod THEN node[t]
                                ELSE Observed(node[t], got[pod[t]])]
  /\ assignTaskNodes(refreshFreePods)
  /\ pc' = "nodes"
  /\ todo' = [t \in Tasks |-> "set"]
  /\ UNCHANGED <<kube, sched, allPods, world, restarts>>

\* Defective variant: the pods of completed tasks are always released.
MutantAlwaysRelease(n) == n.deleted \/ n.done

\* Defective variant: only deletion releases a pod.
MutantNeverRelease(n) == n.deleted

needRelease(n) == n.deleted \/ (PolicyRelease /\ n.done)

\* Defective variant: only the tasks that their executor knows are sent.
MutantSendsKnown(t) ==
  IF pod[t] # NoPod /\ ~needRelease(node[t]) /\ ~node[t].done /\ node[t].seen
  THEN setTask(pod[t], {t}) ELSE UNCHANGED world

SendTask(t) ==
  IF pod[t] # NoPod /\ ~needRelease(node[t]) /\ ~node[t].done
  THEN setTask(pod[t], {t}) ELSE UNCHANGED world

\* scheduleSingleTaskNode up to the release of a task.
SetTaskNode(t) ==
  /\ pc = "nodes" /\ todo[t] = "set"
  /\ node' = [node EXCEPT ![t].sState =
                IF pod[t] = NoPod /\ node[t].deleted THEN "released"
                ELSE IF pod[t] # NoPod /\ needRelease(node[t]) THEN "releasing"
                ELSE @]
  /\ SendTask(t)
  /\ todo' = [todo EXCEPT ![t] = "release"]
  /\ UNCHANGED <<kube, sched, pod, allPods, pc, restarts>>

\* Defective variant: the task counts as deleted once its deletion was sent.
MutantReleaseAtOnce(t) ==
  IF node[t].sState = "releasing"
  THEN node' = [node EXCEPT ![t].sState = "released"] /\ setTask(pod[t], {})
  ELSE UNCHANGED <<node, world>>

\* Defective variant: a task still on its executor is not asked to stop.
MutantNoStop(t) ==
  /\ IF node[t].sState = "releasing" /\ ~node[t].seen
     THEN node' = [node EXCEPT ![t].sState = "released"] ELSE UNCHANGED node
  /\ UNCHANGED world

\* isTaskDeleted is Status = nil.
ReleaseTask(t) ==
  IF node[t].sState # "releasing" THEN UNCHANGED <<node, world>>
  ELSE IF node[t].seen THEN setTask(pod[t], {}) /\ UNCHANGED node
  ELSE node' = [node EXCEPT ![t].sState = "released"] /\ UNCHANGED world

ReleaseTaskNode(t) ==
  /\ pc = "nodes" /\ todo[t] = "release"
  /\ ReleaseTask(t)
  /\ todo' = [todo EXCEPT ![t] = "done"]
  /\ UNCHANGED <<kube, sched, pod, allPods, pc, restarts>>

\* Defective variant: nodes without a pod are not skipped.
MutantReleaseUnassigned ==
  {pod[t] : t \in {u \in Tasks : node[u].sState = "released"}}

ToReleasedPods == {pod[t] : t \in {u \in Tasks : node[u].sState = "released"}} \ {NoPod}

\* Defective variant: a node that is releasing counts as finished.
MutantReleasingIsFinished == {t \in Tasks : node[t].sState = "none"}

getTasksCleanupUnfinished == {t \in Tasks : node[t].sState # "released"}

\* The end of the reconciliation: releasePods and, for a sandbox that is being
\* deleted, the removal of the finalizer and of the scheduler.  Reconcile looks
\* at the DeletionTimestamp it read at its start, when it told all nodes to stop:
\* a deletion since then waits for the next reconciliation.
ReleasePods ==
  /\ pc = "nodes" /\ \A t \in Tasks : todo[t] = "done"
  /\ release' = release \cup ToReleasedPods
  /\ IF /\ sandbox = "deleting" /\ \A t \in Tasks : node[t].deleted
        /\ getTasksCleanupUnfinished = {}
     THEN sandbox' = "gone" /\ sched' = FALSE ELSE UNCHANGED <<sandbox, sched>>
  /\ pc' = "idle"
  /\ UNCHANGED <<alloc, node, pod, allPods, todo, world, restarts>>

\* The patch of the annotation fails, or that of the finalizer.
ReleaseFails ==
  /\ "patchFail" \in Env
  /\ pc = "nodes" /\ \A t \in Tasks : todo[t] = "done"
  /\ release' \in {release, release \cup ToReleasedPods}
  /\ pc' = "idle"
  /\ UNCHANGED <<sandbox, alloc, sched, node, pod, allPods, todo, world, restarts>>

\* The controller is started again; the schedulers were in memory.
Restart ==
  /\ restarts < MaxRestarts
  /\ restarts' = restarts + 1
  /\ sched' = FALSE /\ pc' = "idle"
  /\ node' = [t \in Tasks |-> NewNode]
  /\ pod' = [t \in Tasks |-> NoPod] /\ allPods' = {}
  /\ todo' = [t \in Tasks |-> "done"]
  /\ UNCHANGED <<kube, world>>

-----------------------------------------------------------------------------
(* The environment: the pool, the user, the executors and the network      *)

PoolAllocates(p) ==
  /\ sandbox = "live" /\ p \notin alloc \cup lost
  /\ alloc' = alloc \cup {p}
  /\ UNCHANGED <<sandbox, release, sched, node, pod, allPods, pc, todo, world, restarts>>

DeleteSandbox ==
  /\ sandbox = "live"
  /\ sandbox' = "deleting"
  /\ UNCHANGED <<alloc, release, sched, node, pod, allPods, pc, todo, world, restarts>>

controller == <<kube, sched, node, pod, allPods, pc, todo, restarts>>

TaskCompletes(p, n) ==
  /\ agent[p][n] = "running"
  /\ agent' = [agent EXCEPT ![p][n] = "completed"]
  /\ completed' = completed \cup {n}
  /\ UNCHANGED <<controller, lost, late, ran>>

TaskStops(p, n) ==
  /\ agent[p][n] \in {"stopping", "removing"}
  /\ agent' = [agent EXCEPT ![p][n] = "absent"]
  /\ UNCHANGED <<controller, lost, late, ran, completed>>

\* The pool gives a released pod to another sandbox, which runs its task there.
ForeignTask(p) ==
  /\ "reuse" \in Env
  /\ p \in release \/ (sandbox = "gone" /\ p \in alloc)
  /\ agent[p][Foreign] = "absent"
  /\ Arrives(p, {Foreign})
  /\ UNCHANGED <<controller, late>>

LateCall(c) ==
  /\ late' = late \ {c}
  /\ Arrives(c.pod, c.desired)
  /\ UNCHANGED controller

PodLost(p) ==
  /\ "podLoss" \in Env /\ p \notin lost
  /\ lost' = lost \cup {p}
  /\ agent' = [agent EXCEPT ![p] = [n \in Names |-> "absent"]]
  /\ UNCHANGED <<controller, late, ran, completed>>

-----------------------------------------------------------------------------
Reconcile == \/ GetTaskScheduler \/ CollectTaskStatus
             \/ \E t \in Tasks : SetTaskNode(t) \/ ReleaseTaskNode(t)
             \/ ReleasePods \/ ReleaseFails

Executors == \E p \in Pods : \/ \E n \in Names : TaskCompletes(p, n) \/ TaskStops(p, n)
                             \/ ForeignTask(p) \/ PodLost(p)

Next == \/ Reconcile \/ Restart
        \/ \E p \in Pods : PoolAllocates(p)
        \/ DeleteSandbox
        \/ Executors
        \/ \E c \in late : LateCall(c)

Spec == Init /\ [][Next]_vars

\* The sandbox is reconciled every three seconds, an executor stops a task it
\* was told to stop, the pool serves the sandbox, and a call that is made
\* again and again arrives.  Tasks need not complete.
Fairness ==
  /\ WF_vars(Reconcile)
  /\ \A p \in Pods : WF_vars(PoolAllocates(p))
  /\ \A p \in Pods, t \in Tasks : WF_vars(TaskStops(p, t))
  /\ \A t \in Tasks : SF_vars(SetTaskNode(t) /\ ran' # ran)
  /\ SF_vars(ReleasePods)

FairSpec == Spec /\ Fairness

(***************************************************************************)
(* Properties                                                              *)
(***************************************************************************)

\* Every variable keeps its type.
TypeOK ==
  /\ sandbox \in {"live", "deleting", "gone"}
  /\ alloc \subseteq Pods /\ release \subseteq alloc
  /\ sched \in BOOLEAN /\ node \in [Tasks -> Node]
  /\ pod \in [Tasks -> Pods \cup {NoPod}] /\ allPods \subseteq Pods
  /\ pc \in {"idle", "collect", "nodes"}
  /\ todo \in [Tasks -> {"set", "release", "done"}]
  /\ agent \in [Pods -> [Names -> {"absent", "running", "completed", "stopping", "removing"}]]
  /\ lost \subseteq Pods
  /\ late \subseteq [pod : Pods, desired : SUBSET Tasks]
  /\ ran \subseteq Names /\ completed \subseteq Names
  /\ restarts \in 0 .. MaxRestarts

\* refreshFreePods, "each pod is only assigned to one taskNode", whatever the
\* executors answer when a scheduler is recovered.
OnePodPerTaskNode ==
  \A t, u \in Tasks : t # u /\ pod[t] # NoPod => pod[t] # pod[u]

\* releasePods: a pod that is handed back to the pool runs none of the tasks
\* of the sandbox that had it.
ReleasedPodsIdle == \A p \in release, t \in Tasks : agent[p][t] = "absent"

\* README, "the controller will first stop all tasks before deleting the
\* BatchSandbox resource": no executor has a task of a sandbox that is gone.
TasksStoppedFirst ==
  sandbox = "gone" => \A p \in Pods, t \in Tasks : agent[p][t] = "absent"

\* TaskResourcePolicyWhenCompleted: under Retain a live sandbox keeps its pods.
RetainKeepsPods == ~PolicyRelease /\ sandbox = "live" => release = {}

\* scheduleSingleTaskNode: unless the controller is restarted, a task that has
\* completed is not started again, although its executor forgets it.
NoRerun ==
  [][\A p \in Pods, t \in completed \cap Tasks :
       restarts = 0 /\ agent[p][t] = "absent" => agent'[p][t] = "absent"]_vars

\* The finalizer: a sandbox that is being deleted is deleted in the end.
DeletionCompletes == sandbox = "deleting" ~> sandbox = "gone"

\* The Release policy: the pod of a task that has completed is released, unless
\* the scheduler that knew of it is lost.
CompletedReleased ==
  \A t \in Tasks, p \in Pods :
    (PolicyRelease /\ pod[t] = p /\ node[t].done) ~> (p \in release \/ ~sched)

\* A task that was assigned to a pod is started (scheduleSingleTaskNode), as long
\* as its sandbox stays and the scheduler is not lost.
AssignedStarted ==
  \A t \in Tasks :
    (pod[t] # NoPod /\ sandbox = "live") ~> (t \in ran \/ sandbox # "live" \/ ~sched)
=============================================================================
