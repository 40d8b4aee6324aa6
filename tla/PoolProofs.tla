----------------------------- MODULE PoolProofs -----------------------------
(***************************************************************************)
(* What holds of the Pool controller for every pool, every number of pods  *)
(* and sandboxes and every environment.                                    *)
(***************************************************************************)
EXTENDS Pool, FiniteSetTheorems, TLAPS

\* A set of pods is finite, so that its size can be compared with poolMax.
LEMMA PodSetsFinite ==
  ASSUME NEW S \in SUBSET Pods
  PROVE  IsFiniteSet(S) /\ Cardinality(S) \in Nat
BY PoolAssumption, FS_Subset, FS_CardinalityType

\* The supplement of the allocator is a number, whatever it gives away.
LEMMA SupplementIsInt ==
  ASSUME NEW base, NEW give, DOMAIN give \in SUBSET Pods
  PROVE  PodSupplement(base, give) \in Int
PROOF
<1> DEFINE D == {d \in Live \X (1..MaxReplicas) : d[2] <= Need(base, d[1])}
<1>1. IsFiniteSet(Sandboxes) /\ Live \subseteq Sandboxes
  BY PoolAssumption DEF Live
<1>2. IsFiniteSet(Live)
  BY <1>1, FS_Subset
<1>3. IsFiniteSet(1..MaxReplicas)
  BY PoolAssumption, FS_Interval
<1>4. IsFiniteSet(Live \X (1..MaxReplicas))
  BY <1>2, <1>3, FS_Product
<1>5. IsFiniteSet(D)
  BY <1>4, FS_Subset
<1>6. Cardinality(D) \in Nat
  BY <1>5, FS_CardinalityType
<1>7. Cardinality(Taken(give)) \in Nat
  BY PodSetsFinite DEF Taken
<1> QED
  BY <1>6, <1>7 DEF PodSupplement

\* The total that scalePool aims at never exceeds poolMax.
LEMMA DesiredWithinMax ==
  ASSUME NEW total \in Nat, NEW allocated \in Nat, NEW supplyCnt \in Nat
  PROVE  DesiredTotal(total, allocated, supplyCnt) \in Nat /\ DesiredTotal(total, allocated, supplyCnt) <= PoolMax
BY PoolAssumption DEF DesiredTotal

-----------------------------------------------------------------------------
(* Type correctness *)
-----------------------------------------------------------------------------
\* The objects the initial state and the end of a reconciliation use are well typed.
LEMMA ConstantTypes ==
  /\ NoSbx \in SbxRecord
  /\ NewPool \in PoolRecord
  /\ [revision |-> 1, current |-> FALSE] \in [revision : Revisions, current : BOOLEAN]
PROOF
<1>1. 1 \in Revisions /\ 0 \in 0..MaxRevision /\ 0 \in 0..MaxReplicas /\ {} \in SUBSET Pods
  BY PoolAssumption DEF Revisions
<1>2. NoSbx \in SbxRecord
  BY <1>1 DEF NoSbx, SbxRecord, SbxStates
<1>3. [p \in Pods |-> NoSandbox] \in [Pods -> Owners]
  BY DEF Owners
<1>4. [total |-> 0, allocated |-> 0, available |-> 0, revision |-> 0] \in Status
  BY <1>1 DEF Status
<1>5. NewPool \in PoolRecord
  BY <1>1, <1>3, <1>4 DEF NewPool, PoolRecord
<1> QED
  BY <1>1, <1>2, <1>5

\* The initial state is well typed.
LEMMA InitType == Init => TypeOK
PROOF
<1> SUFFICES ASSUME Init PROVE TypeOK
  OBVIOUS
<1>1. /\ sbx \in [Sandboxes -> SbxRecord] /\ sbxCache \in [Sandboxes -> SbxRecord]
      /\ sbxList \in [Sandboxes -> SbxRecord]
  BY ConstantTypes DEF Init
<1>2. pool \in PoolRecord /\ poolCache \in PoolRecord /\ alloc \in [Pods -> Owners]
  BY ConstantTypes DEF Init, PoolRecord
<1>3. /\ rev \in [Pods -> Revisions]
      /\ latest \in [revision : Revisions, current : BOOLEAN]
  BY ConstantTypes, PoolAssumption DEF Init, Revisions
<1>4. pod \in [Pods -> PodPhases] /\ podCache \in [Pods -> PodPhases]
  BY DEF Init, PodPhases
<1>5. /\ queued \in BOOLEAN /\ dirty \in BOOLEAN /\ again \in BOOLEAN
      /\ resExpect \in BOOLEAN
  BY DEF Init
<1>6. /\ poolLag \in 0..2 /\ supply \in Nat
      /\ pc \in {"idle", "listed", "scheduled", "persisted", "scaled"}
      /\ listed \in SUBSET Pods /\ running \in SUBSET Pods /\ scaleExpect \in SUBSET Pods
      /\ unreported \in SUBSET Pods /\ faults \in 0..MaxFaults
  BY PoolAssumption DEF Init
<1> QED
  BY <1>1, <1>2, <1>3, <1>4, <1>5, <1>6 DEF TypeOK

\* A fault stays within the budget.
LEMMA FaultType ==
  ASSUME TypeOK, UNCHANGED faults \/ \E kind : Fault(kind)
  PROVE  faults' \in 0..MaxFaults
BY PoolAssumption DEF TypeOK, Fault

\* The end of a reconciliation resets its local state to well-typed values.
LEMMA FinishType ==
  ASSUME TypeOK, NEW r \in BOOLEAN, Finish(r)
  PROVE  /\ pc' = "idle" /\ listed' \in SUBSET Pods /\ running' \in SUBSET Pods
         /\ sbxList' \in [Sandboxes -> SbxRecord]
         /\ alloc' \in [Pods -> Owners] /\ supply' \in Nat
         /\ dirty' \in BOOLEAN /\ again' \in BOOLEAN
         /\ latest' \in [revision : Revisions, current : BOOLEAN]
         /\ queued' \in BOOLEAN
PROOF
<1>1. sbxList' \in [Sandboxes -> SbxRecord] /\ latest' \in [revision : Revisions, current : BOOLEAN]
  BY ConstantTypes DEF Finish
<1> QED
  BY <1>1 DEF Finish, TypeOK, Owners

\* Giving pods away yields an allocation again.
LEMMA AllocationType ==
  ASSUME NEW base \in [Pods -> Owners], NEW D \in SUBSET Pods, NEW give \in [D -> Owners]
  PROVE  PodAllocation(base, give) \in [Pods -> Owners]
BY DEF PodAllocation, Taken, Owners

\* Writing the allocation to the sandboxes keeps their records well typed.
LEMMA SyncType ==
  ASSUME TypeOK, NEW base \in [Pods -> Owners], NEW D \in SUBSET Pods,
         NEW give \in [D -> Owners], NEW patched, SyncAllocResult(base, give, patched)
  PROVE  sbx' \in [Sandboxes -> SbxRecord] /\ sbxList' \in [Sandboxes -> SbxRecord]
PROOF
<1>1. ASSUME NEW s \in Sandboxes, NEW object \in SbxRecord
      PROVE  SetAllocation(base, give, s, object) \in SbxRecord
  <2>1. Held(base, s) \in SUBSET Pods /\ Given(give, s) \in SUBSET Pods
    BY <1>1 DEF TypeOK, Held, OwnedBy, Given, SbxRecord
  <2>2. Cardinality(Held(base, s) \cap Given(give, s)) \in Nat
    BY <2>1, PodSetsFinite
  <2>3. sbxList[s].repeats \in Nat
    BY <1>1 DEF TypeOK, SbxRecord
  <2> QED
    BY <1>1, <2>1, <2>2, <2>3 DEF SetAllocation, SbxRecord
<1> QED
  BY <1>1 DEF SyncAllocResult, TypeOK

\* scheduleSandbox keeps the state well typed.
LEMMA ScheduleType == TypeOK /\ Schedule => TypeOK'
PROOF
<1> SUFFICES ASSUME TypeOK, Schedule PROVE TypeOK'
  OBVIOUS
<1> DEFINE base == poolCache.alloc
<1>1. PICK give \in [AvailablePods(base) -> Live \cup {NoSandbox}] :
        LET final   == PodAllocation(base, give)
            idle    == {p \in listed : final[p] = NoSandbox}
            missing == PodSupplement(base, give)
        IN
        /\ \E patched : SyncAllocResult(base, give, patched)
        /\ UNCHANGED faults \/ \E kind : Fault(kind)
        /\ alloc' = final
        /\ dirty' = (Taken(give) # {} \/ Released(base) # {} \/ Collected(base) # {})
        /\ again' = (missing > 0 /\ idle # {})
        /\ supply' = IF Cardinality(idle) >= missing THEN 0 ELSE missing - Cardinality(idle)
  BY DEF Schedule
<1>2. base \in [Pods -> Owners] /\ AvailablePods(base) \in SUBSET Pods
  BY DEF TypeOK, PoolRecord, AvailablePods
<1>3. give \in [AvailablePods(base) -> Owners]
  BY <1>1 DEF Live, Owners
<1>4. alloc' \in [Pods -> Owners]
  BY <1>1, <1>2, <1>3, AllocationType
<1>5. sbx' \in [Sandboxes -> SbxRecord] /\ sbxList' \in [Sandboxes -> SbxRecord]
  BY <1>1, <1>2, <1>3, SyncType
<1>6. supply' \in Nat
  <2> DEFINE idle == {p \in listed : PodAllocation(base, give)[p] = NoSandbox}
  <2>1. Cardinality(idle) \in Nat
    BY PodSetsFinite DEF TypeOK
  <2>2. PodSupplement(base, give) \in Int
    BY <1>2, <1>3, SupplementIsInt
  <2> HIDE DEF idle
  <2>3. supply' = IF Cardinality(idle) >= PodSupplement(base, give)
                  THEN 0 ELSE PodSupplement(base, give) - Cardinality(idle)
    BY <1>1 DEF idle
  <2> QED
    BY <2>1, <2>2, <2>3
<1>7. dirty' \in BOOLEAN /\ again' \in BOOLEAN
  BY <1>1
<1>8. latest' \in [revision : Revisions, current : BOOLEAN] /\ resExpect' \in BOOLEAN
  BY DEF Schedule, ObserveVersion, TypeOK, PoolRecord
<1>9. faults' \in 0..MaxFaults
  BY <1>1, FaultType
<1> QED
  BY <1>4, <1>5, <1>6, <1>7, <1>8, <1>9 DEF Schedule, TypeOK, cacheVars

\* What follows scalePool leaves the local state well typed.
LEMMA AfterScaleType ==
  ASSUME TypeOK, NEW failed, AfterScale(failed)
  PROVE  /\ pc' \in {"idle", "scaled"}
         /\ listed' \in SUBSET Pods /\ running' \in SUBSET Pods
         /\ sbxList' \in [Sandboxes -> SbxRecord]
         /\ alloc' \in [Pods -> Owners] /\ supply' \in Nat
         /\ dirty' \in BOOLEAN /\ again' \in BOOLEAN
         /\ latest' \in [revision : Revisions, current : BOOLEAN]
         /\ queued' \in BOOLEAN
PROOF
<1>1. CASE failed
  BY <1>1, FinishType DEF AfterScale
<1>2. CASE ~ failed
  BY <1>2 DEF AfterScale, TypeOK
<1> QED
  BY <1>1, <1>2

\* Every step of the pool controller keeps the state well typed.
LEMMA ControllerType == TypeOK /\ Controller => TypeOK'
PROOF
<1> SUFFICES ASSUME TypeOK, Controller PROVE TypeOK'
  OBVIOUS
<1> USE DEF cacheVars, apiVars, expVars
<1>1. CASE Reconcile
  BY <1>1 DEF Reconcile, TypeOK, PodsIn, ObserveScale
<1>2. CASE Schedule
  BY <1>2, ScheduleType
<1>3. CASE SchedulePanics
  BY <1>3, FinishType DEF SchedulePanics, TypeOK, ObserveVersion
<1>4. CASE PersistPoolAllocation
  <2>1. pool' \in PoolRecord
    BY <1>4 DEF PersistPoolAllocation, TypeOK, PoolRecord
  <2>2. pool.revision \in Revisions /\ latest \in [revision : Revisions, current : BOOLEAN]
    BY DEF TypeOK, PoolRecord
  <2>3. \/ latest' = latest /\ resExpect' = resExpect
        \/ latest' = [revision |-> pool.revision, current |-> TRUE] /\ resExpect' = TRUE
    BY <1>4 DEF PersistPoolAllocation, ExpectVersion
  <2>4. latest' \in [revision : Revisions, current : BOOLEAN]
    <3>1. [revision |-> pool.revision, current |-> TRUE]
            \in [revision : Revisions, current : BOOLEAN]
      BY <2>2
    <3> QED
      BY <2>2, <2>3, <3>1, Zenon
  <2>5. resExpect' \in BOOLEAN
    BY <2>3 DEF TypeOK
  <2>6. /\ pc' = "persisted" /\ poolLag' \in 0..2
        /\ UNCHANGED <<pod, rev, sbx, podCache, sbxCache, poolCache, queued, listed, running,
                       sbxList, alloc, supply, dirty, again, scaleExpect, unreported, faults>>
    BY <1>4 DEF PersistPoolAllocation, TypeOK
  <2> QED
    BY <2>1, <2>4, <2>5, <2>6 DEF TypeOK
<1>5. CASE PersistFails
  <2>1. faults' \in 0..MaxFaults
    BY <1>5, FaultType DEF PersistFails
  <2> QED
    BY <1>5, <2>1, FinishType DEF PersistFails, TypeOK
<1>6. CASE ScaleNotReady
  BY <1>6, FinishType DEF ScaleNotReady, TypeOK
<1>7. CASE ScaleOut
  <2>1. PICK created \in SUBSET Pods, silent \in SUBSET Pods :
          /\ pod' = [p \in Pods |-> IF p \in created THEN "pending" ELSE pod[p]]
          /\ rev' = [p \in Pods |-> IF p \in created THEN latest.revision ELSE rev[p]]
          /\ scaleExpect' = scaleExpect \cup (created \ silent)
          /\ unreported' = unreported \cup silent
          /\ UNCHANGED faults \/ \E kind : Fault(kind)
          /\ \E failed : AfterScale(failed)
    BY <1>7 DEF ScaleOut, ExpectScale, PodsIn
  <2>2. pod' \in [Pods -> PodPhases] /\ rev' \in [Pods -> Revisions]
    BY <2>1 DEF TypeOK, PodPhases, Alive
  <2>3. faults' \in 0..MaxFaults
    BY <2>1, FaultType
  <2> QED
    BY <1>7, <2>1, <2>2, <2>3, AfterScaleType DEF ScaleOut, TypeOK
<1>8. CASE ScaleIn
  <2>1. PICK deleted :
          /\ pod' = [p \in Pods |-> IF p \in deleted THEN "terminating" ELSE pod[p]]
          /\ UNCHANGED faults \/ \E kind : Fault(kind)
          /\ \E failed : AfterScale(failed)
    BY <1>8 DEF ScaleIn
  <2>2. pod' \in [Pods -> PodPhases]
    BY <2>1 DEF TypeOK, PodPhases
  <2>3. faults' \in 0..MaxFaults
    BY <2>1, FaultType
  <2> QED
    BY <1>8, <2>1, <2>2, <2>3, AfterScaleType DEF ScaleIn, TypeOK
<1>9. CASE UpdatePoolStatus
  <2> DEFINE status == [total |-> Total, allocated |-> Allocated,
                        available |-> Cardinality({p \in running : alloc[p] = NoSandbox}),
                        revision |-> latest.revision]
  <2>1. Total \in Nat /\ Allocated \in Nat
    BY PodSetsFinite DEF Total, Allocated, TypeOK
  <2>2. Cardinality({p \in running : alloc[p] = NoSandbox}) \in Nat
    BY PodSetsFinite DEF TypeOK
  <2>3. latest.revision \in 0..MaxRevision
    BY PoolAssumption DEF TypeOK, Revisions
  <2>4. status \in Status
    BY <2>1, <2>2, <2>3 DEF Status
  <2>5. pool' = [alloc |-> pool.alloc, revision |-> pool.revision, status |-> status] /\ poolLag' \in 0..2
    BY <1>9 DEF UpdatePoolStatus, TypeOK
  <2>6. pool' \in PoolRecord
    BY <2>4, <2>5 DEF TypeOK, PoolRecord
  <2> QED
    BY <1>9, <2>5, <2>6, FinishType DEF UpdatePoolStatus, TypeOK
<1>10. CASE StatusConflict
  BY <1>10, FinishType DEF StatusConflict, TypeOK
<1> QED
  BY <1>1, <1>2, <1>3, <1>4, <1>5, <1>6, <1>7, <1>8, <1>9, <1>10 DEF Controller

\* So does every step of the informers, the users, the kubelet and a crash.
LEMMA EnvironmentType == TypeOK /\ (Informers \/ Users \/ Kubelet \/ Crash) => TypeOK'
PROOF
<1> SUFFICES ASSUME TypeOK, Informers \/ Users \/ Kubelet \/ Crash PROVE TypeOK'
  OBVIOUS
<1> USE DEF apiVars, expVars, recVars, cacheVars
<1>1. CASE Informers
  <2>1. queued' \in BOOLEAN
    BY <1>1 DEF Informers, SyncPods, SyncSandboxes, SyncPool
  <2>2. /\ podCache' \in [Pods -> PodPhases] /\ sbxCache' \in [Sandboxes -> SbxRecord]
        /\ poolCache' \in PoolRecord /\ poolLag' \in 0..2
        /\ UNCHANGED <<apiVars, recVars, expVars, faults>>
    BY <1>1 DEF Informers, SyncPods, SyncSandboxes, SyncPool, TypeOK
  <2> QED
    BY <2>1, <2>2 DEF TypeOK
<1>2. CASE Users
  <2>1. ASSUME NEW s \in Sandboxes, NEW state \in SbxStates, NEW n \in 0..MaxReplicas,
               NEW release \in SUBSET Pods, WriteSandbox(s, state, n, release),
               UNCHANGED faults \/ \E kind : Fault(kind)
        PROVE  TypeOK'
    <3>1. sbx' \in [Sandboxes -> SbxRecord]
      BY <2>1 DEF WriteSandbox, TypeOK, SbxRecord
    <3>2. faults' \in 0..MaxFaults
      BY <2>1, FaultType
    <3> QED
      BY <2>1, <3>1, <3>2 DEF WriteSandbox, TypeOK
  <2>2. ASSUME NEW s \in Sandboxes
        PROVE  /\ sbx[s].state \in SbxStates /\ sbx[s].replicas \in 0..MaxReplicas
               /\ sbx[s].release \in SUBSET Pods
    BY <2>2 DEF TypeOK, SbxRecord
  <2>3. ASSUME NEW s \in Sandboxes, NEW n \in 0..MaxReplicas,
               \/ CreateSandbox(s, n) \/ ResizeSandbox(s, n)
               \/ DeleteSandbox(s) \/ RemoveFinalizer(s)
        PROVE  TypeOK'
    BY <2>1, <2>2, <2>3
       DEF CreateSandbox, ResizeSandbox, DeleteSandbox, RemoveFinalizer, SbxStates
  <2>5. ASSUME NEW s \in Sandboxes, NEW p \in Pods, ReleasePod(s, p)
        PROVE  TypeOK'
    BY <2>1, <2>2, <2>5 DEF ReleasePod
  <2>4. CASE UpdateTemplate
    <3>1. pool' \in PoolRecord /\ poolLag' \in 0..2
      BY <2>4, PoolAssumption DEF UpdateTemplate, TypeOK, PoolRecord, Revisions
    <3>2. latest' \in [revision : Revisions, current : BOOLEAN]
      BY <2>4 DEF UpdateTemplate, TypeOK
    <3> QED
      BY <2>4, <3>1, <3>2 DEF UpdateTemplate, TypeOK
  <2> QED
    BY <1>2, <2>3, <2>4, <2>5, PoolAssumption DEF Users
<1>3. CASE Kubelet
  <2>1. PICK p \in Pods, to \in PodPhases, from \in SUBSET PodPhases :
          PodStep(p, from, to) /\ (UNCHANGED faults \/ \E kind : Fault(kind))
    BY <1>3 DEF Kubelet, PodRuns, PodEnds, PodLost, PodPhases, Alive
  <2>2. faults' \in 0..MaxFaults
    BY <2>1, FaultType
  <2> QED
    BY <2>1, <2>2 DEF PodStep, TypeOK
<1>4. CASE Crash
  <2>1. Finish(TRUE)
    BY <1>4 DEF Crash
  <2>2. /\ pod' \in [Pods -> PodPhases] /\ podCache' \in [Pods -> PodPhases]
        /\ rev' \in [Pods -> Revisions]
        /\ sbx' \in [Sandboxes -> SbxRecord] /\ sbxCache' \in [Sandboxes -> SbxRecord]
        /\ pool' \in PoolRecord /\ poolCache' \in PoolRecord /\ poolLag' \in 0..2
        /\ scaleExpect' \in SUBSET Pods /\ unreported' \in SUBSET Pods
    BY <1>4 DEF Crash, TypeOK
  <2>3. resExpect' \in BOOLEAN /\ faults' \in 0..MaxFaults
    BY <1>4, FaultType DEF Crash
  <2> QED
    BY <2>1, <2>2, <2>3, FinishType DEF TypeOK
<1> QED
  BY <1>1, <1>2, <1>3, <1>4

(* Every reachable state of the controller, its caches and the API server  *)
(* is well typed, whatever fails, lags or crashes.                         *)
THEOREM TypeCorrect == Spec => []TypeOK
PROOF
<1>1. TypeOK /\ UNCHANGED vars => TypeOK'
  BY DEF TypeOK, vars, apiVars, cacheVars, recVars, expVars
<1>2. TypeOK /\ [Next]_vars => TypeOK'
  BY <1>1, ControllerType, EnvironmentType DEF Next
<1> QED
  BY InitType, <1>2, PTL DEF Spec

-----------------------------------------------------------------------------
(* The capacity limit.  CapacityRespected is not inductive: scalePool      *)
(* counts the pods it listed, which an old cache may miss.  What makes it  *)
(* inductive is CreationsTracked: a missed pod is an own creation, and is  *)
(* expected, and while one is expected ScaleOut is disabled.               *)
-----------------------------------------------------------------------------
CapacityInv == TypeOK /\ CreationsTracked /\ CapacityRespected

\* A step that adds no living pod of a reported creation respects the capacity.
LEMMA NoNewPods ==
  ASSUME TypeOK, CapacityRespected,
         Reported(Alive)' \subseteq Reported(Alive)
  PROVE  CapacityRespected'
PROOF
<1>1. Reported(Alive) \in SUBSET Pods /\ Reported(Alive)' \in SUBSET Pods
  BY DEF Reported, PodsIn
<1>2. Cardinality(Reported(Alive)') <= Cardinality(Reported(Alive))
  BY <1>1, PodSetsFinite, FS_Subset
<1>3. Cardinality(Reported(Alive)) \in Nat /\ Cardinality(Reported(Alive)') \in Nat
  BY <1>1, PodSetsFinite
<1> QED
  BY <1>2, <1>3, PoolAssumption DEF CapacityRespected

(* A step that leaves the pods, their cache and the expectations alone.    *)
LEMMA PodsUntouched ==
  ASSUME CapacityInv, UNCHANGED <<pod, podCache, scaleExpect, unreported>>,
         pc' = "idle" \/ (pc # "idle" /\ listed' = listed) \/ UNCHANGED <<pc, listed>>
  PROVE  CreationsTracked' /\ CapacityRespected'
PROOF
<1>1. CapacityRespected'
  BY NoNewPods DEF CapacityInv, Reported, PodsIn
<1>2. CreationsTracked'
  BY DEF CapacityInv, CreationsTracked, Reported, PodsIn
<1> QED
  BY <1>1, <1>2

\* The only step that creates pods of the pool respects the capacity and
\* tracks what it creates.
LEMMA ScaleOutCapacity ==
  ASSUME CapacityInv, ScaleOut
  PROVE  CreationsTracked' /\ CapacityRespected'
PROOF
<1>1. PICK created \in SUBSET PodsIn(pod, {"unborn"}), silent \in SUBSET Pods :
        /\ Cardinality(created) <= Desired - Total
        /\ pod' = [p \in Pods |-> IF p \in created THEN "pending" ELSE pod[p]]
        /\ scaleExpect' = scaleExpect \cup (created \ silent)
        /\ unreported' = unreported \cup silent
        /\ \E failed : AfterScale(failed)
  BY DEF ScaleOut, ExpectScale, PodsIn
<1>2. pc = "persisted" /\ scaleExpect = {} /\ podCache' = podCache
  BY DEF ScaleOut, SatisfiedExpectations, cacheVars
<1>3. pc' = "idle" \/ listed' = listed
  BY <1>1 DEF AfterScale, Finish
<1>4. Reported(Alive) \subseteq listed /\ listed \in SUBSET Pods
  BY <1>2 DEF CapacityInv, CreationsTracked, TypeOK
<1>5. Reported(Alive)' \subseteq Reported(Alive) \cup (created \ silent)
  BY <1>1 DEF Reported, PodsIn, Alive, CapacityInv, TypeOK
<1>6. created \in SUBSET Pods /\ Reported(Alive) \in SUBSET Pods
      /\ Reported(Alive)' \in SUBSET Pods
  BY <1>1 DEF Reported, PodsIn
<1>7. CreationsTracked'
  <2>1. \A p \in Pods : pod'[p] = "unborn" => podCache'[p] = "unborn"
    BY <1>1, <1>2 DEF CapacityInv, CreationsTracked
  <2>2. ASSUME NEW p \in Reported(Alive)
        PROVE  podCache'[p] \in Alive /\ p \in listed
    BY <1>2, <1>4, <2>2 DEF CapacityInv, CreationsTracked
  <2>3. ASSUME NEW p \in created \ silent
        PROVE  podCache'[p] = "unborn" /\ p \in scaleExpect'
    BY <1>1, <1>2, <2>3 DEF CapacityInv, CreationsTracked, PodsIn
  <2> QED
    BY <1>3, <1>5, <2>1, <2>2, <2>3 DEF CreationsTracked
<1>8. Cardinality(Reported(Alive)) <= Total /\ Total \in Nat
  BY <1>4, <1>6, PodSetsFinite, FS_Subset DEF Total
<1>9. Desired <= PoolMax /\ Desired \in Nat
  <2>1. Allocated \in Nat /\ Cardinality(DeleteOld) \in Nat /\ supply \in Nat
    BY PodSetsFinite DEF Allocated, DeleteOld, IdlePods, CapacityInv, TypeOK
  <2>2. supply + Cardinality(DeleteOld) \in Nat
    BY <2>1
  <2> QED
    BY <1>8, <2>1, <2>2, DesiredWithinMax DEF Desired
<1>10. Cardinality(Reported(Alive)') <= Cardinality(Reported(Alive)) + Cardinality(created)
  <2>1. /\ Cardinality(Reported(Alive) \cup created) =
             Cardinality(Reported(Alive)) + Cardinality(created)
               - Cardinality(Reported(Alive) \cap created)
    BY <1>6, PodSetsFinite, FS_Union
  <2>2. /\ Cardinality(Reported(Alive)) \in Nat /\ Cardinality(created) \in Nat
        /\ Cardinality(Reported(Alive) \cap created) \in Nat
        /\ Cardinality(Reported(Alive)') \in Nat
    BY <1>6, PodSetsFinite
  <2>3. Reported(Alive) \cup created \in SUBSET Pods
        /\ Reported(Alive)' \subseteq Reported(Alive) \cup created
    BY <1>5, <1>6
  <2>4. Cardinality(Reported(Alive)') <= Cardinality(Reported(Alive) \cup created)
    BY <2>3, PodSetsFinite, FS_Subset
  <2> QED
    BY <2>1, <2>2, <2>4
<1>11. /\ Cardinality(Reported(Alive)) \in Nat /\ Cardinality(created) \in Nat
       /\ Cardinality(Reported(Alive)') \in Nat
  BY <1>6, PodSetsFinite
<1>12. CapacityRespected'
  BY <1>1, <1>8, <1>9, <1>10, <1>11, PoolAssumption DEF CapacityRespected
<1> QED
  BY <1>7, <1>12

\* Every step keeps the two invariants.
LEMMA NextCapacity ==
  ASSUME CapacityInv, [Next]_vars
  PROVE  CreationsTracked' /\ CapacityRespected'
PROOF
<1> USE DEF apiVars, cacheVars, recVars, expVars
<1>1. CASE Reconcile
  <2>1. CapacityRespected'
    BY <1>1, NoNewPods DEF Reconcile, CapacityInv, Reported, PodsIn
  <2>2. CreationsTracked'
    BY <1>1 DEF Reconcile, ObserveScale, CapacityInv, CreationsTracked, Reported, PodsIn, Exists, Alive
  <2> QED
    BY <2>1, <2>2
<1>2. CASE Schedule
  BY <1>2, PodsUntouched DEF Schedule
<1>3. CASE SchedulePanics \/ PersistFails \/ ScaleNotReady \/ StatusConflict \/ UpdatePoolStatus
  BY <1>3, PodsUntouched
     DEF SchedulePanics, PersistFails, ScaleNotReady, StatusConflict, UpdatePoolStatus, Finish
<1>4. CASE PersistPoolAllocation
  BY <1>4, PodsUntouched DEF PersistPoolAllocation
<1>5. CASE ScaleOut
  BY <1>5, ScaleOutCapacity
<1>6. CASE ScaleIn
  <2>1. PICK deleted \in SUBSET PodsIn(pod, Exists) :
          /\ pod' = [p \in Pods |-> IF p \in deleted THEN "terminating" ELSE pod[p]]
          /\ \E failed : AfterScale(failed)
    BY <1>6 DEF ScaleIn
  <2>2. pc = "persisted" /\ (pc' = "idle" \/ listed' = listed)
        /\ UNCHANGED <<podCache, scaleExpect, unreported>>
    BY <1>6, <2>1 DEF ScaleIn, AfterScale, Finish
  <2>3. CapacityRespected'
    BY <2>1, <2>2, NoNewPods DEF CapacityInv, Reported, PodsIn, Alive
  <2>4. CreationsTracked'
    BY <2>1, <2>2 DEF CapacityInv, CreationsTracked, Reported, PodsIn, Alive, Exists
  <2> QED
    BY <2>3, <2>4
<1>7. CASE SyncPods
  <2>1. CapacityRespected'
    BY <1>7, NoNewPods DEF SyncPods, CapacityInv, Reported, PodsIn
  <2>2. CreationsTracked'
    BY <1>7 DEF SyncPods, CapacityInv, CreationsTracked, Reported, PodsIn
  <2> QED
    BY <2>1, <2>2
<1>8. CASE SyncSandboxes \/ SyncPool \/ UpdateTemplate
  BY <1>8, PodsUntouched DEF SyncSandboxes, SyncPool, UpdateTemplate
<1>9. ASSUME NEW s, NEW state, NEW n, NEW release, WriteSandbox(s, state, n, release)
      PROVE  CreationsTracked' /\ CapacityRespected'
  BY <1>9, PodsUntouched DEF WriteSandbox
<1>10. CASE Users
  BY <1>8, <1>9, <1>10
     DEF Users, CreateSandbox, ResizeSandbox, DeleteSandbox, RemoveFinalizer, ReleasePod
<1>11. CASE Kubelet
  <2>1. PICK p \in Pods, from \in SUBSET Exists, to \in PodPhases :
          /\ PodStep(p, from, to) /\ to # "unborn"
          /\ to \in Alive => from \subseteq Alive
    BY <1>11 DEF Kubelet, PodRuns, PodEnds, PodLost, PodPhases, Alive, Exists
  <2>2. CapacityRespected'
    BY <2>1, NoNewPods DEF PodStep, CapacityInv, Reported, PodsIn, TypeOK
  <2>3. Reported(Alive)' \subseteq Reported(Alive)
    BY <2>1 DEF PodStep, CapacityInv, Reported, PodsIn, TypeOK
  <2>4. \A q \in Pods : pod'[q] = "unborn" => pod[q] = "unborn"
    BY <2>1 DEF PodStep, CapacityInv, TypeOK
  <2>5. UNCHANGED <<podCache, pc, listed, scaleExpect>>
    BY <2>1 DEF PodStep
  <2>6. CreationsTracked'
    BY <2>3, <2>4, <2>5 DEF CapacityInv, CreationsTracked
  <2> QED
    BY <2>2, <2>6
<1>12. CASE Crash
  <2>1. CapacityRespected'
    BY <1>12, NoNewPods DEF Crash, CapacityInv, Reported, PodsIn
  <2>2. CreationsTracked'
    BY <1>12 DEF Crash, Finish, CapacityInv, CreationsTracked, Reported, PodsIn
  <2> QED
    BY <2>1, <2>2
<1>13. CASE UNCHANGED vars
  BY <1>13, PodsUntouched DEF vars
<1> QED
  BY <1>1, <1>2, <1>3, <1>4, <1>5, <1>6, <1>7, <1>8, <1>10, <1>11, <1>12, <1>13
     DEF Next, Controller, Informers

\* The initial state, without pods, satisfies the two invariants.
LEMMA InitCapacity == Init => CreationsTracked /\ CapacityRespected
PROOF
<1> SUFFICES ASSUME Init PROVE CreationsTracked /\ CapacityRespected
  OBVIOUS
<1>1. Reported(Alive) = {}
  BY DEF Init, Reported, PodsIn, Alive
<1>2. CreationsTracked
  BY <1>1 DEF Init, CreationsTracked
<1> QED
  BY <1>1, <1>2, FS_EmptySet, PoolAssumption DEF CapacityRespected

(* A pool never holds more pods than PoolMax, and no pod escapes the count *)
(* of scalePool, for every pool and in every environment: with any lag of  *)
(* the caches, any number of failing calls, lost pods and crashes.  Only   *)
(* pods whose Create took effect and returned an error are not counted.    *)
THEOREM CapacityTheorem == Spec => [](CreationsTracked /\ CapacityRespected)
PROOF
<1>1. Init => CapacityInv
  BY InitType, InitCapacity DEF CapacityInv
<1>2. TypeOK /\ UNCHANGED vars => TypeOK'
  BY DEF TypeOK, vars, apiVars, cacheVars, recVars, expVars
<1>3. CapacityInv /\ [Next]_vars => CapacityInv'
  BY <1>2, ControllerType, EnvironmentType, NextCapacity DEF CapacityInv, Next
<1>4. CapacityInv => CreationsTracked /\ CapacityRespected
  BY DEF CapacityInv
<1> QED
  BY <1>1, <1>3, <1>4, PTL DEF Spec
=============================================================================
