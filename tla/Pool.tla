-------------------------------- MODULE Pool --------------------------------
(***************************************************************************)
(* The Pool controller of the Kubernetes operator together with its        *)
(* allocator: it hands the pods of one Pool to the BatchSandboxes that     *)
(* refer to it, persists who owns which pod in an annotation of the Pool,  *)
(* tells each BatchSandbox its pods in an annotation of the BatchSandbox,  *)
(* and creates and deletes idle pods to stay within the capacity limits.   *)
(*                                                                         *)
(* The objects live in the API server (pod, sbx, pool); the controller     *)
(* reads them through informer caches that lag (podCache, sbxCache,        *)
(* poolCache).  One worker runs Reconcile; its API calls are the actions   *)
(* between which caches advance, users and the kubelet act, and the        *)
(* process may crash.                                                      *)
(***************************************************************************)
EXTENDS Integers, FiniteSets

CONSTANTS
  Pods,           \* names the API server can give to created pods (bounds creations)
  Sandboxes,      \* names of BatchSandboxes with a poolRef to this pool
  TaskSandboxes,  \* those with a taskTemplate, hence a finalizer and releases
  NoSandbox,      \* owner of a pod that is not in PodAllocation
  BufferMin, BufferMax, PoolMin, PoolMax,   \* Pool.Spec.CapacitySpec
  MaxReplicas,    \* bound on BatchSandbox.Spec.Replicas
  MaxRevision,    \* bound on template revisions of the pool
  MaxFaults,      \* bound on crashes, failing calls, lost pods and resizes
  Env             \* which behaviours of the environment are explored

EnvBehaviours ==
  {"lagPods", "lagSbx", "lagPool",  \* informer caches may be behind the API server
   "crash",                         \* the controller process may restart
   "persistFail", "patchFail", "podCallFail",   \* API calls may fail
   "createUnknown",                 \* a Create may take effect and yet return an error
   "podLoss",                       \* pods fail or are deleted by others
   "release",                       \* live sandboxes release pods of finished tasks
   "resize"}                        \* users change Spec.Replicas

ASSUME PoolAssumption ==
  /\ IsFiniteSet(Pods) /\ IsFiniteSet(Sandboxes)
  /\ TaskSandboxes \subseteq Sandboxes
  /\ NoSandbox \notin Sandboxes
  /\ BufferMin \in Nat /\ BufferMax \in Nat /\ PoolMin \in Nat /\ PoolMax \in Nat
  /\ PoolMin <= PoolMax
  /\ MaxReplicas \in Nat /\ MaxRevision \in Nat \ {0}
  /\ MaxFaults \in Nat
  /\ Env \subseteq EnvBehaviours

VARIABLES
  pod,          \* phase of every pod, in the API server
  rev,          \* revision label of every pod
  sbx,          \* the BatchSandboxes
  pool,         \* the Pool: PodAllocation annotation, template revision, status
  podCache, sbxCache, poolCache,   \* informer caches
  poolLag,      \* 0: poolCache is current; 1: misses writes made after the last
                \* persisted allocation; 2: misses the last persisted allocation
  queued,       \* the pool's key is in the work queue
  pc,           \* progress of Reconcile
  listed, running,   \* pods listed by this Reconcile, and those in phase Running
  sbxList,      \* sandboxes listed by this Reconcile
  alloc,        \* AllocStatus.PodAllocation computed by Schedule
  supply,       \* pods still missing after Schedule
  dirty, again, \* poolDirty and needReconcile
  latest,       \* latestPool: [revision, current], current: it has the latest resourceVersion
  resExpect,    \* poolResExpectations holds a version
  scaleExpect,  \* PoolScaleExpectations: created pods not yet listed
  unreported,   \* history: pods created by a call that returned an error
  faults        \* the faults and resizes so far

apiVars   == <<pod, rev, sbx, pool>>
cacheVars == <<podCache, sbxCache, poolCache, poolLag>>
recVars   == <<pc, listed, running, sbxList, alloc, supply, dirty, again, latest>>
expVars   == <<resExpect, scaleExpect, unreported>>
vars      == <<apiVars, cacheVars, queued, recVars, expVars, faults>>

Fault(kind) ==
  /\ kind \in Env /\ faults < MaxFaults
  /\ faults' = faults + 1

-----------------------------------------------------------------------------
Alive     == {"pending", "running", "failed"}     \* exists, no DeletionTimestamp
PodPhases == Alive \cup {"unborn", "terminating", "gone"}
Exists    == Alive \cup {"terminating"}
Revisions == 1..MaxRevision
Owners    == Sandboxes \cup {NoSandbox}
Status    == [total : Nat, allocated : Nat, available : Nat, revision : 0..MaxRevision]
SbxStates == {"none", "live", "deleting", "gone"}
(* alloc and release are the pods named in the two annotations; repeats is *)
(* how many entries of the alloc-status list name a pod already named.     *)
SbxRecord == [state : SbxStates, replicas : 0..MaxReplicas,
              alloc : SUBSET Pods, repeats : Nat, release : SUBSET Pods]
PoolRecord == [alloc : [Pods -> Owners], revision : Revisions, status : Status]

NoSbx   == [state |-> "none", replicas |-> 0, alloc |-> {}, repeats |-> 0, release |-> {}]
NewPool == [alloc |-> [p \in Pods |-> NoSandbox], revision |-> 1,
            status |-> [total |-> 0, allocated |-> 0, available |-> 0, revision |-> 0]]

PodsIn(view, phases) == {p \in Pods : view[p] \in phases}

Init ==
  /\ pod = [p \in Pods |-> "unborn"] /\ podCache = pod
  /\ rev = [p \in Pods |-> 1]
  /\ sbx = [s \in Sandboxes |-> NoSbx] /\ sbxCache = sbx
  /\ pool = NewPool /\ poolCache = pool /\ poolLag = 0
  /\ queued = TRUE
  /\ pc = "idle" /\ listed = {} /\ running = {} /\ sbxList = sbx
  /\ alloc = pool.alloc /\ supply = 0 /\ dirty = FALSE /\ again = FALSE
  /\ latest = [revision |-> 1, current |-> FALSE]
  /\ resExpect = FALSE /\ scaleExpect = {} /\ unreported = {} /\ faults = 0

(***************************************************************************)
(* Reconcile ends: the view it built is dropped, and the key is queued     *)
(* again on an error or when it asked for a delayed retry.                 *)
(***************************************************************************)
Finish(requeue) ==
  /\ pc' = "idle" /\ listed' = {} /\ running' = {}
  /\ sbxList' = [s \in Sandboxes |-> NoSbx]
  /\ alloc' = [p \in Pods |-> NoSandbox] /\ supply' = 0
  /\ dirty' = FALSE /\ again' = FALSE
  /\ latest' = [revision |-> 1, current |-> FALSE]
  /\ queued' = (queued \/ requeue)

(* PoolScaleExpectations and poolResExpectations: what this process wrote  *)
(* and the caches may not show yet.                                        *)
MutantExpectsNothing(names) == UNCHANGED scaleExpect
ExpectScale(names)    == scaleExpect' = scaleExpect \cup names
ObserveScale(names)   == scaleExpect' = scaleExpect \ names
MutantAlwaysSatisfied == TRUE
SatisfiedExpectations == scaleExpect = {}

ExpectVersion         == resExpect' = TRUE
ObserveVersion        == resExpect' = (resExpect /\ poolLag = 2)
IsSatisfied           == ~ resExpect

(***************************************************************************)
(* Reconcile lists the pods, which observes the scale expectations, and    *)
(* the sandboxes of the pool.                                              *)
(***************************************************************************)
Reconcile ==
  /\ pc = "idle" /\ queued
  /\ "lagPods" \in Env \/ podCache = pod
  /\ "lagSbx" \in Env \/ sbxCache = sbx
  /\ queued' = FALSE /\ pc' = "listed"
  /\ listed' = PodsIn(podCache, Alive)
  /\ running' = PodsIn(podCache, {"running"})
  /\ sbxList' = sbxCache
  /\ ObserveScale(PodsIn(podCache, Exists))
  /\ UNCHANGED <<apiVars, cacheVars, alloc, supply, dirty, again, latest, resExpect,
                 unreported, faults>>

-----------------------------------------------------------------------------
(* Schedule, over the allocation base of the pool read from the cache.     *)
-----------------------------------------------------------------------------
Live     == {s \in Sandboxes : sbxList[s].state = "live"}
Known    == {s \in Sandboxes : sbxList[s].state \in {"live", "deleting"}}
OwnedBy(base, s) == {p \in Pods : base[p] = s}
Held(base, s)    == sbxList[s].alloc \cup OwnedBy(base, s)
Need(base, s)    ==
  sbxList[s].replicas - (Cardinality(Held(base, s)) + sbxList[s].repeats)
MutantTakesOwnedPods(base) == running
AvailablePods(base) == {p \in running : base[p] = NoSandbox}
Given(give, s)   == {p \in DOMAIN give : give[p] = s}
Taken(give)      == {p \in DOMAIN give : give[p] # NoSandbox}

(* allocate serves the sandboxes one after the other from the available    *)
(* pods: every one gets what it needs, until the pods run out within one.  *)
Greedy(base, give) ==
  /\ \A s \in Live : Cardinality(Given(give, s)) <= Need(base, s)
  /\ \/ \A s \in Live : Cardinality(Given(give, s)) = Need(base, s)
     \/ /\ Taken(give) = DOMAIN give
        /\ \A s, t \in Live :
             /\ Cardinality(Given(give, s)) \in 1..(Need(base, s) - 1)
             /\ Cardinality(Given(give, t)) \in 1..(Need(base, t) - 1)
             => s = t

(* PodSupplement: the missing pods of the live sandboxes.                  *)
PodSupplement(base, give) ==
  Cardinality({d \in Live \X (1..MaxReplicas) : d[2] <= Need(base, d[1])})
    - Cardinality(Taken(give))

MutantFreesDeletingPods(base) ==
  UNION {sbxList[s].alloc : s \in {t \in Known : sbxList[t].state = "deleting"}}
(* doDeallocate frees every pod named in the release annotation of a       *)
(* sandbox that has an entry in sandboxToPods, whoever owns the pod.       *)
Released(base) ==
  UNION {sbxList[s].release : s \in {t \in Known :
            sbxList[t].state = "live" \/ OwnedBy(base, t) # {}}}

MutantNoCollection(base) == {}
(* Pods whose owner is not listed any more are collected.                  *)
Collected(base) == {p \in Pods : base[p] \notin Known \cup {NoSandbox}}

MutantForgetsUnlistedPods(base, give) ==
  [p \in listed |-> IF p \in Taken(give) THEN give[p] ELSE base[p]]
PodAllocation(base, give) ==
  [p \in Pods |->
     IF p \in Released(base) \cup Collected(base) THEN NoSandbox
     ELSE IF p \in Taken(give) THEN give[p]
     ELSE base[p]]

DirtySandboxes(base, give) ==
  {s \in Live : Given(give, s) # {} \/ ~ (OwnedBy(base, s) \subseteq sbxList[s].alloc)}

(* SetAllocation writes the list into the listed object and merge-patches  *)
(* it: the patch replaces the value in the API server, or fails (always    *)
(* when the sandbox is gone), in which case the listed object keeps it.    *)
SetAllocation(base, give, s, object) ==
  [state    |-> object.state,
   replicas |-> object.replicas,
   alloc    |-> Held(base, s) \cup Given(give, s),
   repeats  |-> sbxList[s].repeats + Cardinality(Held(base, s) \cap Given(give, s)),
   release  |-> object.release]

SyncAllocResult(base, give, patched) ==
  /\ sbx' = [s \in Sandboxes |->
               IF s \in patched THEN SetAllocation(base, give, s, sbx[s]) ELSE sbx[s]]
  /\ sbxList' = [s \in Sandboxes |->
                   IF s \in patched THEN sbx'[s]
                   ELSE IF s \in DirtySandboxes(base, give)
                        THEN SetAllocation(base, give, s, sbxList[s])
                   ELSE sbxList[s]]

(* scheduleSandbox: latestPool is read from the cache, the allocation is   *)
(* computed, and the dirty sandboxes are patched, before the pool is.      *)
Schedule ==
  LET base == poolCache.alloc IN
  /\ pc = "listed"
  /\ "lagPool" \in Env \/ poolLag = 0
  /\ ObserveVersion
  /\ \A s \in Live : Need(base, s) >= 0
  /\ \E give \in [AvailablePods(base) -> Live \cup {NoSandbox}] :
       LET final   == PodAllocation(base, give)
           idle    == {p \in listed : final[p] = NoSandbox}
           missing == PodSupplement(base, give)
           present == {s \in DirtySandboxes(base, give) : sbx[s].state \in {"live", "deleting"}}
       IN
       /\ Greedy(base, give)
       /\ \E patched \in SUBSET present :
            /\ IF patched = present THEN UNCHANGED faults ELSE Fault("patchFail")
            /\ SyncAllocResult(base, give, patched)
       /\ alloc' = final
       /\ dirty' = (Taken(give) # {} \/ Released(base) # {} \/ Collected(base) # {})
       /\ again' = (missing > 0 /\ idle # {})
       /\ supply' = IF Cardinality(idle) >= missing THEN 0
                                                     ELSE missing - Cardinality(idle)
  /\ latest' = [revision |-> poolCache.revision, current |-> poolLag = 0]
  /\ pc' = "scheduled"
  /\ UNCHANGED <<pod, rev, pool, cacheVars, queued, listed, running, scaleExpect,
                 unreported>>

(* More pods are held than replicas are asked for: availablePods is sliced *)
(* with a negative bound, doAllocate panics and Reconcile ends in error.   *)
SchedulePanics ==
  /\ pc = "listed"
  /\ "lagPool" \in Env \/ poolLag = 0
  /\ ObserveVersion
  /\ \E s \in Live : Need(poolCache.alloc, s) < 0
  /\ Finish(TRUE)
  /\ UNCHANGED <<apiVars, cacheVars, scaleExpect, unreported, faults>>

-----------------------------------------------------------------------------
(* PersistPoolAllocation writes the annotation when it is dirty, unless    *)
(* latestPool is older than the last version this process wrote.  Patch    *)
(* leaves the object the API server answers with in latestPool.            *)
PersistPoolAllocation ==
  /\ pc = "scheduled"
  /\ IF ~ dirty
     THEN pc' = "persisted" /\ UNCHANGED <<pool, poolLag, latest, resExpect>>
     ELSE /\ IsSatisfied
          /\ pool' = [alloc |-> alloc, revision |-> pool.revision, status |-> pool.status]
          /\ poolLag' = 2
          /\ latest' = [revision |-> pool.revision, current |-> TRUE]
          /\ ExpectVersion
          /\ pc' = "persisted"
  /\ UNCHANGED <<pod, rev, sbx, podCache, sbxCache, poolCache, queued, listed, running,
                 sbxList, alloc, supply, dirty, again, scaleExpect, unreported,
                 faults>>

PersistFails ==
  /\ pc = "scheduled" /\ dirty
  /\ IF IsSatisfied THEN Fault("persistFail") ELSE UNCHANGED faults
  /\ Finish(TRUE)
  /\ UNCHANGED <<apiVars, cacheVars, expVars>>

-----------------------------------------------------------------------------
MutantAllIdle == listed
IdlePods   == {p \in listed : alloc[p] = NoSandbox}
LatestIdle == {p \in IdlePods : rev[p] = latest.revision}
MutantKeepsOld == {}
DeleteOld  == IdlePods \ LatestIdle

MutantIgnoresSupply(total, allocated, supplyCnt) ==
  IF total < PoolMin THEN PoolMin ELSE IF total > PoolMax THEN PoolMax ELSE total
(* The capacity arithmetic of scalePool; Go's integer division truncates,  *)
(* which is \div here because both limits are natural numbers.             *)
DesiredTotal(total, allocated, supplyCnt) ==
  LET buffer  == total - allocated
      desired == allocated + supplyCnt +
                   (IF buffer < BufferMin \/ buffer > BufferMax
                    THEN (BufferMin + BufferMax) \div 2 ELSE buffer)
  IN IF desired < PoolMin THEN PoolMin ELSE IF desired > PoolMax THEN PoolMax ELSE desired

Total     == Cardinality(listed)
Allocated == Cardinality({p \in Pods : alloc[p] # NoSandbox})
Desired   == DesiredTotal(Total, Allocated, supply + Cardinality(DeleteOld))

(* A pod call failed: scalePool reports an error and Reconcile stops.      *)
AfterScale(failed) ==
  IF failed
  THEN Finish(TRUE)
  ELSE /\ pc' = "scaled"
       /\ UNCHANGED <<listed, running, sbxList, alloc, supply, dirty, again, latest, queued>>

ScaleNotReady ==
  /\ pc = "persisted" /\ ~ SatisfiedExpectations
  /\ Finish(TRUE)
  /\ UNCHANGED <<apiVars, cacheVars, expVars, faults>>

(* createPoolPod expects a pod only when Create reported success: a pod    *)
(* whose creation took effect silently, behind an error, is not expected.  *)
ScaleOut ==
  /\ pc = "persisted" /\ SatisfiedExpectations
  /\ Desired > Total
  /\ \E created \in SUBSET PodsIn(pod, {"unborn"}) : \E silent \in SUBSET created :
       LET wanted == Desired - Total IN
       /\ Cardinality(created) <= wanted
       /\ IF silent # {} THEN Fault("createUnknown")
          ELSE IF Cardinality(created) = wanted \/ created = PodsIn(pod, {"unborn"})
               THEN UNCHANGED faults
          ELSE Fault("podCallFail")
       /\ pod' = [p \in Pods |-> IF p \in created THEN "pending" ELSE pod[p]]
       /\ rev' = [p \in Pods |-> IF p \in created THEN latest.revision ELSE rev[p]]
       /\ ExpectScale(created \ silent) /\ unreported' = unreported \cup silent
       /\ AfterScale(Cardinality(created \ silent) < wanted)
  /\ UNCHANGED <<sbx, pool, cacheVars, resExpect>>

(* pickPodsToDelete: every idle pod of an old revision, and idle pods of   *)
(* the latest one down to the desired total (the oldest first, which is    *)
(* any choice here: creation times are not modelled).                      *)
ScaleIn ==
  /\ pc = "persisted" /\ SatisfiedExpectations
  /\ Desired <= Total
  /\ \E victims \in SUBSET LatestIdle :
       LET excess == Total - Desired
           picked == DeleteOld \cup victims
           absent == picked \ PodsIn(pod, Exists)
       IN
       /\ Cardinality(victims) =
            IF excess < Cardinality(LatestIdle) THEN excess ELSE Cardinality(LatestIdle)
       /\ \E deleted \in SUBSET (picked \ absent) :
            /\ IF deleted = picked \ absent THEN UNCHANGED faults ELSE Fault("podCallFail")
            /\ pod' = [p \in Pods |-> IF p \in deleted THEN "terminating" ELSE pod[p]]
            /\ AfterScale(deleted # picked)
  /\ UNCHANGED <<rev, sbx, pool, cacheVars, expVars>>

(* Status().Update succeeds only on the latest resourceVersion.            *)
UpdatePoolStatus ==
  /\ pc = "scaled" /\ latest.current
  /\ LET status == [total |-> Total, allocated |-> Allocated,
                    available |-> Cardinality({p \in running : alloc[p] = NoSandbox}),
                    revision |-> latest.revision]
     IN /\ pool' = [alloc |-> pool.alloc, revision |-> pool.revision, status |-> status]
        /\ poolLag' = IF status # pool.status /\ poolLag = 0 THEN 1 ELSE poolLag
  /\ Finish(again)
  /\ UNCHANGED <<pod, rev, sbx, podCache, sbxCache, poolCache, expVars, faults>>

(* On a conflict RetryOnConflict runs the closure again over the pods and  *)
(* sandboxes listed at the start, or gives up after four attempts.         *)
StatusConflict ==
  /\ pc = "scaled" /\ ~ latest.current
  /\ \/ /\ pc' = "listed"
        /\ UNCHANGED <<listed, running, sbxList, alloc, supply, dirty, again, latest, queued>>
     \/ Finish(TRUE)
  /\ UNCHANGED <<apiVars, cacheVars, expVars, faults>>

-----------------------------------------------------------------------------
(* The environment: informers, users, the BatchSandbox controller, kubelet *)
-----------------------------------------------------------------------------
SyncPods ==
  /\ podCache # pod /\ podCache' = pod /\ queued' = TRUE
  /\ UNCHANGED <<apiVars, sbxCache, poolCache, poolLag, recVars, expVars, faults>>

SyncSandboxes ==
  /\ sbxCache # sbx /\ sbxCache' = sbx /\ queued' = TRUE
  /\ UNCHANGED <<apiVars, podCache, poolCache, poolLag, recVars, expVars, faults>>

(* Only a change of the spec passes GenerationChangedPredicate.            *)
SyncPool ==
  /\ poolLag # 0 /\ poolLag' = 0 /\ poolCache' = pool
  /\ queued' = (queued \/ poolCache.revision # pool.revision)
  /\ UNCHANGED <<apiVars, podCache, sbxCache, recVars, expVars, faults>>

WriteSandbox(s, state, replicas, release) ==
  /\ sbx' = [sbx EXCEPT ![s] =
               [state |-> state, replicas |-> replicas, alloc |-> sbx[s].alloc,
                repeats |-> sbx[s].repeats, release |-> release]]
  /\ UNCHANGED <<pod, rev, pool, cacheVars, queued, recVars, expVars>>

CreateSandbox(s, n) ==
  /\ sbx[s].state = "none"
  /\ WriteSandbox(s, "live", n, sbx[s].release) /\ UNCHANGED faults

ResizeSandbox(s, n) ==
  /\ Fault("resize")
  /\ sbx[s].state = "live" /\ n # sbx[s].replicas
  /\ WriteSandbox(s, "live", n, sbx[s].release)

(* A sandbox with tasks is first marked deleting, once it has a finalizer. *)
DeleteSandbox(s) ==
  /\ sbx[s].state = "live" /\ UNCHANGED faults
  /\ \E next \in {"gone"} \cup (IF s \in TaskSandboxes THEN {"deleting"} ELSE {}) :
       WriteSandbox(s, next, sbx[s].replicas, sbx[s].release)

RemoveFinalizer(s) ==
  /\ sbx[s].state = "deleting"
  /\ WriteSandbox(s, "gone", sbx[s].replicas, sbx[s].release) /\ UNCHANGED faults

(* releasePods of the BatchSandbox controller extends the alloc-release    *)
(* annotation, which nothing ever shrinks.                                 *)
ReleasePod(s, p) ==
  /\ s \in TaskSandboxes
  /\ sbx[s].state = "deleting" \/ (sbx[s].state = "live" /\ "release" \in Env)
  /\ p \in sbx[s].alloc \ sbx[s].release
  /\ WriteSandbox(s, sbx[s].state, sbx[s].replicas, sbx[s].release \cup {p}) /\ UNCHANGED faults

UpdateTemplate ==
  /\ pool.revision < MaxRevision
  /\ pool' = [alloc |-> pool.alloc, revision |-> pool.revision + 1, status |-> pool.status]
  /\ poolLag' = IF poolLag = 0 THEN 1 ELSE poolLag
  /\ latest' = [revision |-> latest.revision, current |-> FALSE]
  /\ UNCHANGED <<pod, rev, sbx, podCache, sbxCache, poolCache, queued, pc, listed, running,
                 sbxList, alloc, supply, dirty, again, expVars, faults>>

PodStep(p, from, to) ==
  /\ pod[p] \in from
  /\ pod' = [pod EXCEPT ![p] = to]
  /\ UNCHANGED <<rev, sbx, pool, cacheVars, queued, recVars, expVars>>

PodRuns(p) == PodStep(p, {"pending"}, "running") /\ UNCHANGED faults
PodEnds(p) == PodStep(p, {"terminating"}, "gone") /\ UNCHANGED faults
PodLost(p) ==
  /\ Fault("podLoss")
  /\ \/ PodStep(p, {"pending", "running"}, "failed")
     \/ PodStep(p, Alive, "terminating")
     \/ PodStep(p, Alive, "gone")

(* The process restarts: memory is lost and the caches are listed afresh.  *)
Crash ==
  /\ Fault("crash")
  /\ podCache' = pod /\ sbxCache' = sbx /\ poolCache' = pool /\ poolLag' = 0
  /\ resExpect' = FALSE /\ scaleExpect' = {}
  /\ Finish(TRUE)
  /\ UNCHANGED <<apiVars, unreported>>

Controller ==
  \/ Reconcile \/ Schedule \/ SchedulePanics
  \/ PersistPoolAllocation \/ PersistFails
  \/ ScaleNotReady \/ ScaleOut \/ ScaleIn
  \/ UpdatePoolStatus \/ StatusConflict

Informers == SyncPods \/ SyncSandboxes \/ SyncPool

Users ==
  \/ \E s \in Sandboxes :
       \/ \E n \in 0..MaxReplicas : CreateSandbox(s, n) \/ ResizeSandbox(s, n)
       \/ DeleteSandbox(s) \/ RemoveFinalizer(s)
       \/ \E p \in Pods : ReleasePod(s, p)
  \/ UpdateTemplate

Kubelet == \E p \in Pods : PodRuns(p) \/ PodEnds(p) \/ PodLost(p)

Next == Controller \/ Informers \/ Users \/ Kubelet \/ Crash

Spec == Init /\ [][Next]_vars

(* The work queue hands every queued key to the worker, watches deliver    *)
(* every change, and the kubelet starts and stops pods; users owe nothing. *)
Fairness ==
  /\ WF_vars(Controller)
  /\ WF_vars(SyncPods) /\ WF_vars(SyncSandboxes) /\ WF_vars(SyncPool)
  /\ \A p \in Pods : WF_vars(PodRuns(p)) /\ WF_vars(PodEnds(p))

FairSpec == Spec /\ Fairness

(***************************************************************************)
(* Properties                                                              *)
(***************************************************************************)
(* Every variable has its type; the persisted and the computed allocation  *)
(* are total over the pods, and no recorded owner is outside Sandboxes.    *)
TypeOK ==
  /\ pod \in [Pods -> PodPhases] /\ podCache \in [Pods -> PodPhases]
  /\ rev \in [Pods -> Revisions]
  /\ sbx \in [Sandboxes -> SbxRecord] /\ sbxCache \in [Sandboxes -> SbxRecord]
  /\ sbxList \in [Sandboxes -> SbxRecord]
  /\ pool \in PoolRecord /\ poolCache \in PoolRecord /\ poolLag \in 0..2
  /\ queued \in BOOLEAN /\ dirty \in BOOLEAN /\ again \in BOOLEAN
  /\ pc \in {"idle", "listed", "scheduled", "persisted", "scaled"}
  /\ listed \in SUBSET Pods /\ running \in SUBSET Pods /\ scaleExpect \in SUBSET Pods
  /\ unreported \in SUBSET Pods /\ faults \in 0..MaxFaults
  /\ alloc \in [Pods -> Owners] /\ supply \in Nat
  /\ latest \in [revision : Revisions, current : BOOLEAN]
  /\ resExpect \in BOOLEAN

(* The pods of the pool, but for those a failing Create left behind.       *)
Reported(phases) == PodsIn(pod, phases) \ unreported

(* scalePool never lets the pool outgrow PoolMax, however stale the pods   *)
(* it lists are: its own creations that a list may miss are expected, and  *)
(* while one is it does not scale.  Terminating pods no longer count, and  *)
(* only a pod whose Create returned an error can come on top.              *)
CapacityRespected == Cardinality(Reported(Alive)) <= PoolMax

(* No pod escapes the count of scalePool but one whose Create returned an  *)
(* error: a pod that exists is in the pods Reconcile listed, or is an own  *)
(* creation that is still expected, so that no scaling happens; a cache    *)
(* never shows a pod that does not exist yet.                              *)
CreationsTracked ==
  /\ \A p \in Pods : pod[p] = "unborn" => podCache[p] = "unborn"
  /\ \A p \in Reported(Alive) :
       /\ podCache[p] \in Alive \/ (podCache[p] = "unborn" /\ p \in scaleExpect)
       /\ pc # "idle" => p \in listed \cup scaleExpect

(* The sandboxes that use pod p: those whose alloc-status names it and     *)
(* whose alloc-release does not (listPods of the BatchSandbox controller). *)
Holders(p) ==
  {s \in Sandboxes : /\ sbx[s].state \in {"live", "deleting"}
                     /\ p \in sbx[s].alloc \ sbx[s].release}

(* No pod is handed to two sandboxes: Schedule takes a pod only when no    *)
(* sandbox that still exists was told to use it.                           *)
ExclusiveAllocation == \A p \in Pods : \A s, t \in Holders(p) : s = t

(* The controller never deletes a pod that a sandbox uses: only idle pods  *)
(* are scaled in or replaced after a template update.                      *)
HeldPodsKept ==
  [][pc' # pc => \A p \in Pods : Holders(p) # {} /\ pod[p] \in Alive => pod'[p] \in Alive]_vars

(* The persisted allocation takes a pod from a sandbox only when that      *)
(* sandbox is gone or released the pod: PersistPoolAllocation refuses an   *)
(* allocation computed from a pool older than the last one this process    *)
(* wrote, so that no update is lost, and GC and doDeallocate free nothing  *)
(* else.                                                                   *)
NoUpdateLost ==
  [][\A p \in Pods : \A s \in Sandboxes :
       /\ pool.alloc[p] = s
       /\ sbx[s].state \in {"live", "deleting"} /\ p \notin sbx[s].release
       => pool'.alloc[p] = s]_vars

Quiescent ==
  /\ pc = "idle" /\ ~ queued
  /\ podCache = pod /\ sbxCache = sbx /\ poolLag = 0

(* When nothing is left to do, the status of the pool is the truth: it     *)
(* counts the pods that exist, those that sandboxes use, and the running   *)
(* ones that nobody uses.                                                  *)
StatusAccurate ==
  Quiescent =>
    /\ pool.status.total = Cardinality(PodsIn(pod, Alive))
    /\ pool.status.allocated = Cardinality({p \in Pods : Holders(p) # {}})
    /\ pool.status.available =
         Cardinality({p \in Pods : pod[p] = "running" /\ Holders(p) = {}})

(* Once users stop resizing, every live sandbox is eventually given the    *)
(* pods it asks for: a missing pod is created, observed, scheduled and     *)
(* announced, and no wake-up for these steps is lost.                      *)
Served(s) == sbx[s].state # "live" \/ Cardinality(sbx[s].alloc) >= sbx[s].replicas
SandboxServed ==
  <>[][\A s \in Sandboxes : sbx'[s].replicas = sbx[s].replicas]_vars
    => \A s \in Sandboxes : []<>Served(s)

(* After the last template update every idle pod is eventually replaced    *)
(* by one of the new revision.                                             *)
TemplateRolledOut ==
  (pool.revision = MaxRevision) ~>
     \A p \in PodsIn(pod, Alive) : Holders(p) # {} \/ rev[p] = MaxRevision
=============================================================================
