------------------------- MODULE TaskSchedulerProofs ------------------------
(***************************************************************************)
(* Proof that a pod is never assigned to two tasks, for every number of    *)
(* tasks and pods, every environment and every number of restarts.         *)
(***************************************************************************)
EXTENDS TaskScheduler, TLAPS

\* What the argument needs of the types.
PodsTyped ==
  /\ alloc \subseteq Pods
  /\ allPods \subseteq Pods
  /\ pod \in [Tasks -> Pods \cup {NoPod}]

AssignmentInv == PodsTyped /\ OnePodPerTaskNode

\* A recovered task is on a pod whose executor named it, so two tasks cannot
\* be recovered on one pod.
LEMMA RecoveryInjective ==
  ASSUME SchedulerAssumption, NEW P, P \subseteq Pods, Recovery(P)
  PROVE  pod' \in [Tasks -> Pods \cup {NoPod}] /\ OnePodPerTaskNode'
<1>1. PICK got \in Collect(P), at \in [Tasks -> P \cup {NoPod}] :
        /\ \A t \in Tasks : IF \E p \in P : got[p].name = t
                            THEN at[t] \in P /\ got[at[t]].name = t
                            ELSE at[t] = NoPod
        /\ pod' = at
  BY DEF Recovery
<1>2. pod' \in [Tasks -> Pods \cup {NoPod}]
  BY <1>1
<1>3. ASSUME NEW t \in Tasks, NEW u \in Tasks, t # u, pod'[t] # NoPod
      PROVE  pod'[t] # pod'[u]
  <2>1. at[t] # NoPod /\ got[at[t]].name = t
    BY <1>1, <1>3
  <2>2. at[u] = NoPod \/ got[at[u]].name = u
    BY <1>1
  <2>. QED  BY <2>1, <2>2, <1>1, <1>3
<1>. QED  BY <1>2, <1>3 DEF OnePodPerTaskNode

\* The free pods are those without a task, and the new assignments are
\* injective into them.
LEMMA AssignmentInjective ==
  ASSUME SchedulerAssumption, AssignmentInv, assignTaskNodes(refreshFreePods)
  PROVE  pod' \in [Tasks -> Pods \cup {NoPod}] /\ OnePodPerTaskNode'
<1>. DEFINE free == refreshFreePods
<1>0. PICK S \in SUBSET {t \in Tasks : pod[t] = NoPod} :
        \E at \in Injection(S, free) :
          pod' = [t \in Tasks |-> IF t \in S THEN at[t] ELSE pod[t]]
  BY DEF assignTaskNodes
<1>1. PICK at \in Injection(S, free) :
        pod' = [t \in Tasks |-> IF t \in S THEN at[t] ELSE pod[t]]
  BY <1>0
<1>2. free \subseteq Pods /\ \A t \in Tasks : pod[t] \notin free
  <2>1. free \subseteq Pods
    BY DEF refreshFreePods, AssignmentInv, PodsTyped
  <2>2. NoPod \notin free
    BY <2>1 DEF SchedulerAssumption
  <2>. QED  BY <2>1, <2>2 DEF refreshFreePods, AssignedPods
<1>3. at \in [S -> free] /\ \A a, b \in S : at[a] = at[b] => a = b
  BY DEF Injection, IsInjective
<1>4. pod' \in [Tasks -> Pods \cup {NoPod}]
  BY <1>1, <1>2, <1>3 DEF AssignmentInv, PodsTyped
<1>5. ASSUME NEW t \in Tasks, NEW u \in Tasks, t # u, pod'[t] # NoPod
      PROVE  pod'[t] # pod'[u]
  <2>1. CASE t \in S /\ u \in S
    BY <2>1, <1>1, <1>3, <1>5
  <2>2. CASE t \in S /\ u \notin S
    BY <2>2, <1>1, <1>2, <1>3
  <2>3. CASE t \notin S /\ u \in S
    BY <2>3, <1>1, <1>2, <1>3
  <2>4. CASE t \notin S /\ u \notin S
    BY <2>4, <1>1, <1>5 DEF AssignmentInv, OnePodPerTaskNode
  <2>. QED  BY <2>1, <2>2, <2>3, <2>4
<1>. QED  BY <1>4, <1>5 DEF OnePodPerTaskNode

\* Only three actions change the assignment.
LEMMA NextAssignment ==
  ASSUME SchedulerAssumption, AssignmentInv, [Next]_vars
  PROVE  AssignmentInv'
<1>. DEFINE Kept == UNCHANGED <<alloc, allPods, pod>>
<1>1. Kept => AssignmentInv'
  BY DEF AssignmentInv, PodsTyped, OnePodPerTaskNode
<1>2. CASE UNCHANGED vars
  BY <1>2, <1>1 DEF vars, kube
<1>3. CASE GetTaskScheduler
  <2>1. listPods \subseteq Pods /\ allPods' = listPods /\ alloc' = alloc
    BY <1>3 DEF GetTaskScheduler, listPods, kube, AssignmentInv, PodsTyped
  <2>2. CASE sched
    BY <2>1, <2>2, <1>3 DEF GetTaskScheduler, AssignmentInv, PodsTyped, OnePodPerTaskNode
  <2>3. CASE ~sched
    BY <2>1, <2>3, <1>3, RecoveryInjective
       DEF GetTaskScheduler, AssignmentInv, PodsTyped
  <2>. QED  BY <2>2, <2>3
<1>4. CASE CollectTaskStatus
  BY <1>4, AssignmentInjective DEF CollectTaskStatus, kube, AssignmentInv, PodsTyped
<1>5. CASE \E t \in Tasks : SetTaskNode(t) \/ ReleaseTaskNode(t)
  BY <1>5, <1>1 DEF SetTaskNode, ReleaseTaskNode, kube
<1>6. CASE ReleasePods \/ ReleaseFails
  BY <1>6, <1>1 DEF ReleasePods, ReleaseFails
<1>7. CASE Restart
  BY <1>7 DEF Restart, kube, AssignmentInv, PodsTyped, OnePodPerTaskNode
<1>8. CASE \E p \in Pods : PoolAllocates(p)
  BY <1>8 DEF PoolAllocates, AssignmentInv, PodsTyped, OnePodPerTaskNode
<1>9. CASE DeleteSandbox
  BY <1>9, <1>1 DEF DeleteSandbox
<1>10. CASE Executors
  BY <1>10, <1>1 DEF Executors, TaskCompletes, TaskStops, ForeignTask, PodLost,
                     controller, kube
<1>11. CASE \E c \in late : LateCall(c)
  BY <1>11, <1>1 DEF LateCall, controller, kube
<1>. QED
  BY <1>2, <1>3, <1>4, <1>5, <1>6, <1>7, <1>8, <1>9, <1>10, <1>11
     DEF Next, Reconcile

\* refreshFreePods keeps its promise that "each pod is only assigned to one
\* taskNode", for every set of tasks and pods, with lost and late calls, lost
\* pods, pods reused by other sandboxes and any number of recoveries.
THEOREM AssignmentTheorem == Spec => []OnePodPerTaskNode
<1>1. Init => AssignmentInv
  BY DEF Init, AssignmentInv, PodsTyped, OnePodPerTaskNode
<1>2. AssignmentInv /\ [Next]_vars => AssignmentInv'
  BY NextAssignment, SchedulerAssumption
<1>3. AssignmentInv => OnePodPerTaskNode
  BY DEF AssignmentInv
<1>. QED  BY <1>1, <1>2, <1>3, PTL DEF Spec
=============================================================================
