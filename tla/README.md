# OpenSandbox in TLA+

OpenSandbox runs sandboxes (containers or pods) for untrusted or automated
workloads. A lifecycle server creates, renews and deletes them on Docker or on
Kubernetes; a Kubernetes operator keeps pools of warm pods, hands them to
`BatchSandbox` resources and runs tasks in them through an agent in each pod.
This directory models the parts of it that are concurrent, that survive restarts
or that live with unreliable calls, checks them with TLC on small instances and
proves some of the results with TLAPS for every instance.

## The system and its parts

| Part | State | Operations | What makes it hard | Here |
|---|---|---|---|---|
| Pool controller and allocator (`kubernetes/internal/controller`) | pod allocation annotation of the Pool, allocation and release annotations of each BatchSandbox, pods, status, two kinds of expectations in memory | Reconcile: schedule, persist, update, scale, status | informer caches that lag, several writes per round, crashes between them | `Pool` |
| Task scheduler and the task part of the BatchSandbox controller (`kubernetes/internal/scheduler`, `batchsandbox_controller.go`) | task nodes in memory, release annotation, finalizer | recover, collect, assign, set, release | HTTP calls that fail or arrive late, restarts without persisted state | `TaskScheduler` |
| Task executor (`kubernetes/internal/task-executor`) | task table, task directories, pid and exit files, processes | Sync, Create, Delete, the reconcile loop, Inspect, Stop | kills at any step, processes that end at any time, goroutines outside the lock | `TaskExecutor` |
| Docker runtime (`server/src/services/docker.py`, `ossfs_mixin.py`) | containers and labels, timers, expirations, pending records, mount references, sidecars | create, expire, delete, renew, pause, resume, get, restore | timer and provisioning threads beside the API, restarts, failing Docker calls | `DockerSandbox` |
| Rest of the BatchSandbox controller | pods, status | scaling without a pool, expiry, two status patches | the second status patch works on the object of the first | planned |
| Kubernetes runtime of the server, its informer and rate limiter | cache, resource version, tokens | list, watch, upsert; create and wait | older objects that overwrite newer ones, resync against upsert | planned |
| execd (sessions in a sandbox) | environment, directory and process of a bash session, Jupyter contexts | run, close, create, delete | concurrent runs of one session, close during a start | planned |
| Egress sidecar | policy of the DNS proxy, nftables sets | replace, patch, DNS answers | two enforcers that change one after the other | planned |
| Ingress | queue of renew intents, throttle table | publish, clean up | a check and an update that are not atomic | planned |
| SDKs, CLI, API schemas, validators, configuration | none | | stateless | not modelled |

A BatchSandbox with a `poolRef` gets its pods from the Pool controller through an
annotation; the BatchSandbox controller assigns tasks to those pods, sends them to
the executors and hands pods back through a second annotation, which the Pool
controller reads. `Pool` therefore contains the releases of the BatchSandbox
controller as actions, and `TaskScheduler` contains the pool (`PoolAllocates`) and
the executors (`agent`) as seen through their calls.

## Modules

Each component module has a parameter `Env`, the set of environment behaviours that
a configuration explores (a lagging cache, a crash, a failing call, and so on), so
that one specification serves all runs. `MC*` modules only add the symmetry sets.
Definitions named `Mutant*` are defective variants of the definition after them;
no specification uses them. They document which mistake each property detects.

### `Pool`

One worker runs `Reconcile`. A round is `Reconcile` (list pods and sandboxes from
the caches), `Schedule` (the allocator, which patches the sandboxes as it goes),
`PersistPoolAllocation`, `ScaleOut` or `ScaleIn`, and `UpdatePoolStatus`; the error
paths (`PersistFails`, `ScaleNotReady`, `StatusConflict`, `SchedulePanics`) end the
round. Between them the caches advance, users create, resize and delete sandboxes
and change the template, the kubelet moves pods on, and the process may crash,
which loses the expectations. Resource versions are abstracted to `poolLag`: what
`IsSatisfied` compares is only whether the cached pool includes the last
allocation this process wrote; `latest` is the object `latestPool`, which the patch
of the allocation brings up to date. A creation may fail, and may also take effect
and return an error (`createUnknown`): such a pod is not expected, and is in
`unreported`. Crashes, failing calls and lost pods are counted in `faults`, up to
`MaxFaults`. Names of pods are the constant `Pods`, which bounds
creations. A batch of creations or deletions is one action, since the checks before
it are made once.

### `TaskScheduler`

One BatchSandbox and its scheduler. A reconciliation is `GetTaskScheduler` (with
recovery, when the scheduler is not in memory), `CollectTaskStatus`, then for each
task `SetTaskNode` and `ReleaseTaskNode`, interleaved as the goroutines are, and
`ReleasePods` (or `ReleaseFails`). A call of Set arrives, is lost, or is kept in `late`
and may arrive at any later time; Get answers any listed task (the code takes the
first of a list in the order of a Go map), or nothing. Executors are reduced to the
life of a task: absent, running, completed, stopping, removing.

### `TaskExecutor`

The manager holds one mutex for each operation, so `pc` is the progress of the
operation that holds it; the steps inside are those between which a process can end
or the executor be killed: the task directory, `task.json`, the start of the shim,
the pid file, the two reads of `Inspect`. A process is a shim and its command; on
SIGTERM the shell's `wait` returns, so the shim may write an exit code while its
command runs. The shim writes it in two steps, `OpenExitFile` (the redirection
creates the file, empty) and `ShimExits` (printf); `Inspect` reads an empty file as
exit code 0, since it ignores the error of `Atoi`. Goroutines that stop a task are the records in `stops`.

### `DockerSandbox`

API handlers run one at a time (coroutines that call the service without awaiting),
a `wait=false` creation is provisioned by its own thread (`worker`), and a timer that
elapses runs `_expire_sandbox` in its own thread (`thread`). A restart drops all
memory; `_restore_existing_sandboxes` runs as `RestoreTimers`, `RestoreCounts`,
`RestoreExpires`, `RestoreOrphan` (for each sidecar of the listing) and
`RestoreDone`, with timers already elapsing. Labels never change:
`_update_container_labels` calls an endpoint of the Docker Engine that takes no
labels (see the findings). `promise` is a history variable, the expiration last
granted to a client; `grant` is the one of the creation. The worker of a failed
provisioning removes the containers (`_cleanup_failed_containers`) and then, in the
step `sweep`, the sidecar, and each of the two may fail. Abstractions: kill and
forced removal of a container are one step; sandboxes with OSSFS volumes share one
mount; the clock stops at `MaxTime`, to which the delay of a retry is rounded;
renewals may shorten a lifetime, as in the code. The server is a single process.

## Runs

| Run | Instance | Environment | Shows |
|---|---|---|---|
| `pool_capacity` | 2 pods, 1 sandbox, PoolMax 1, 2 faults | all caches lag; crashes, failing writes and pod calls, ambiguous creations, lost pods, resizes with the panic they cause | never more than PoolMax reported pods; no other creation escapes the count; an allocation computed from an old pool takes no pod away |
| `pool_exclusive` | 2 pods, 2 sandboxes with tasks | lagging lists of pods and sandboxes | no pod has two users, none in use is deleted, the settled status is right |
| `pool_live` | 3 pods, 1 sandbox, 2 revisions | lagging pod list | the sandbox is served, the update reaches every idle pod and spares those in use |
| `scheduler_release` | 2 tasks, 2 pods, Release policy, 1 restart | failing patches | pods are handed back and the sandbox goes only without tasks; assigned tasks start, completed ones release, deletions complete, nothing reruns |
| `scheduler_network` | 2 tasks, 2 pods, Retain policy, 1 restart | late calls, lost and reused pods | one pod per task; a live sandbox keeps its pods |
| `scheduler_loss` | 2 tasks, 2 pods | lost calls | **violation**, see below |
| `executor_safety` | 2 tasks, 2 processes, 1 restart | timeouts, failing starts | one active task, durable deletions, every shim that waits is in its pid file |
| `executor_removal` | 1 task, 2 processes | timeouts, failing store and start | a deleted task is removed; an exit code that was written is reported |
| `docker_live` | 1 sandbox with timeout, mount and sidecar, 2 threads, 1 restart | asynchronous creation, renewals, polling | always a timer, removed in the end, never reported missing while provisioned, no orphan sidecar |
| `docker_state` | 1 sandbox with timeout, 2 manual ones with the mount, 1 restart | renewals | the granted expiration is in force until a restart; the mount stays and is counted |
| `docker_failures` | 2 sandboxes (one with a timeout, one with a mount and a sidecar), 1 restart, 1 failure of any kind | asynchronous creation, failing queries, removals, deletions and provisioning steps | tracking is dropped; no creation stays pending |
| `docker_renewal` | 1 sandbox with timeout, 1 restart | renewals | **violation**, see below |

Why these bounds. The pool needs one pod name more than PoolMax to be able to
overshoot, and two names to replace a pod by another; two sandboxes compete for one
pod. Two faults make a crash or a failing write meet any other fault; lagging
caches, which need no fault, are not limited. Two tasks and two pods allow a task to move to a pod that held the other. Two
processes of one name let the goroutine that stops the first meet the second; one
restart reaches every recovery path, since recovery starts from what is stored, not
from how often it was stored. One shared mount with two users has a first, a second
and a last reference. The clock of `docker_live` has room for a creation, a renewal
and the expiry of both. Deadlock checking is off where a behaviour may end (all
sandboxes gone, the clock stopped, the counters used up).

Fairness. `Pool`: the worker, the caches and the kubelet make progress, which is
controller-runtime's retry with back-off, the watch, and Kubernetes' own promise;
users need not act. `TaskScheduler`: reconciliations repeat (the controller requeues
every few seconds while tasks exist), an executor stops what it is told to stop, a
call of Set that is tried again and again gets through, and so does a patch.
`TaskExecutor`: the ticker fires, the mutex is granted (strong fairness, Go's mutex
does not starve a waiter), and a removal that is tried again and again succeeds.
`DockerSandbox`: time passes, timers elapse, threads and handlers run; clients need
not call.

## The findings

`scheduler_loss`: `collectTaskStatus` stores nil for an executor that did not answer,
and nil is what `isTaskDeleted` takes for a deleted task. One failed status request
while a sandbox is being deleted releases the node and the finalizer while the task
runs. `kubernetes/README.md:492` says "the controller will first stop all tasks
before deleting the BatchSandbox resource".

`docker_renewal`: `Container.update` of docker-py (7.1.0 in `server/uv.lock`) has no
`labels` argument, and the call that `_update_container_labels` falls back to posts
them to `/containers/{id}/update`, where the Docker Engine takes resource limits and
a restart policy and ignores the rest. The label keeps the expiration of the
creation, to which a restarted server returns. `docker.py:1741` says of the renewal
"it will also be respected on restart via _restore_existing_sandboxes". That the
Engine ignores labels is an assumption about code outside the repository;
`RenewalInForce` is what holds with it.

## Limits of the guarantees

The passing runs hold in the environments listed. Each line below names an
environment in which TLC refutes a property, all reproducible by changing `Env` (or
the named constant) in a configuration.

| Property | fails when | because |
|---|---|---|
| `HeldPodsKept` | `release`: a live sandbox releases a pod | `doDeallocate` frees the pods of the release annotation in every round, also under their next owner (`allocator.go:378`) |
| `StatusAccurate` | `lagPool` | sandboxes are patched from an old allocation before its version is checked (`allocator.go:248`) |
| `StatusAccurate` | `crash` | pods named only in a sandbox's annotation are never adopted into the allocation (`pool_controller.go:174`) |
| `StatusAccurate` | `patchFail` | a failed patch is only logged (`allocator.go:249`) |
| at most PoolMax pods in all | `createUnknown` | a pod whose Create took effect and returned an error is not expected (`pool_controller.go:482`); `CapacityRespected` and `CreationsTracked` speak of the others |
| `SandboxServed` | `resize` | a sandbox scaled below its pods makes `doAllocate` panic in every round (`allocator.go:319`) |
| `NoRerun` | `late` or `reuse`, or across a restart | a late Set starts a task anew; recovery does not know completed tasks that were removed |
| `CompletedReleased`, start of every task | across a restart | a task that completed before it takes a second pod, which another task then lacks; `AssignedStarted` and `CompletedReleased` are stated for the life of a scheduler |
| `TasksStoppedFirst`, `ReleasedPodsIdle` | `loss` | the first finding above |
| a released node stays released | always | it keeps its pod and is collected and scheduled again (`default_scheduler.go:396`) |
| every deleted task is removed, every shim is in a pid file | a restart between `task.json` and the pid file | `Inspect` answers Pending for ever and `Stop` finds no pid (`process.go:281`); `DeletedTaskRemoved` and `ShimsTracked` make this exception |
| a reported success is real | always | an exit file that is still empty reads as exit code 0 (`process.go:208`), until the next inspection, or for ever if the write fails; `ExitCodeReported` is what remains true |
| `DeletionDurable` | `storeFail` | the mark stays in memory (`task_manager.go:236`) |
| an exit file means the command has ended | SIGTERM | the shell's `wait` returns early (`process.go:205`) |
| terminal states are final | a command ends between the reads of `Inspect` | reported Failed, then Succeeded (`process.go:270`) |
| `PromiseKept` | a restart | the second finding above |
| `RenewalInForce` | `async` | the first timer overwrites a renewal granted during provisioning (`docker.py:1107`) |
| a granted renewal saves the sandbox | the expiration thread has passed its check | check and removal are not atomic (`docker.py:365`) |
| `ExpiredTerminated` | `queryFail` with `renew`; `expireFail` | the retry replaces the renewed timer (`docker.py:355`); a failed removal is not tried again (`docker.py:392`) |
| `ExpiryArmed`, `ExpiredTerminated` | `deleteFail` | a deletion that fails drops the timer too (`docker.py:1629`); the container stays until a restart |
| `SidecarCollected` | a failing removal of a sidecar (`provisionFail`, `expireFail`, `deleteFail`, `queryFail`) | it is logged and left to the next restart (`docker.py:2062`) |
| `MountHeld` | `async`, or a mounting sandbox with a timeout | unmounting follows the release outside the lock (`ossfs_mixin.py:438`) |
| `MountsCounted` | `async` | deletion during provisioning releases twice |
| get never answers 404 for a running sandbox | `async` with `get` | the pending record goes between the two look-ups (`docker.py:1586`); `ProvisioningVisible` is what remains true |
| `PendingResolved` | two failures, the start of the container and its removal (`MaxFailures`) | a container that was created and not removed is reported as pending (`docker.py:881`) |
| every pending sandbox is resolved | a restart during provisioning | pending records are not persisted; `PendingResolved` makes this exception |

## Proofs

| Theorem | Statement | Assumptions |
|---|---|---|
| `PoolProofs!TypeCorrect` | `Spec => []TypeOK` | `PoolAssumption` |
| `PoolProofs!CapacityTheorem` | `Spec => [](CreationsTracked /\ CapacityRespected)` | `PoolAssumption` |
| `TaskSchedulerProofs!AssignmentTheorem` | `Spec => []OnePodPerTaskNode` | `SchedulerAssumption` |

They hold for every number of pods, sandboxes, tasks and faults, all limits and every
`Env`, ambiguous creations included.
`PoolAssumption` asks for finite sets of names, limits that are natural numbers and
`PoolMin <= PoolMax`; without the last the code clips to `PoolMin`, which is then above `PoolMax`.

*Capacity.* `CapacityRespected` alone is not inductive: `ScaleOut` creates as many
pods as the list of the round allows, and the list is old. The strengthening is
`CreationsTracked`: a pod that exists and whose Create did not return an error is in
the cache, or is a creation that is still expected; and during a round it is in the list of the round or expected. `ScaleOut`
is enabled only when nothing is expected, so the list then contains every such pod, and
`DesiredWithinMax` bounds the result. `NoNewPods` and `PodsUntouched` dispose of the
steps that create nothing; a crash forgets the expectations and at the same time
lists everything again, which is where the model's cache after a restart is used.
`CreationsTracked` is also an invariant of `pool_capacity`.

*Assignment.* Only recovery and `assignTaskNodes` give pods to tasks. Recovery puts a
task on a pod whose executor named it, and one answer names one task
(`RecoveryInjective`); an assignment is an injection into pods that no task has
(`AssignmentInjective`).

Only model-checked: every other property. Liveness under fairness is outside the
prover's reach; the remaining safety properties are on the plan.

## Not modelled

Listing, endpoints, logs and image pulls of the Docker runtime (no state of the
service changes), `touch_last_activity` (its label update changes no
label either), failing unmounts, the sidecar mode of the executor's process lookup, reuse of
process ids by the operating system, unsynchronised reads of task records by the
HTTP handler, the container runtime of the executor (a stub in the code), and the
parts marked planned above.

## Plan

1. `BatchSandbox`: scaling, expiry and the two status patches; `Informer` and the
   rate limiter; the Kubernetes runtime of the server on top of the informer.
2. `EgressPolicy`, `BashSession` and Jupyter contexts, `RenewIntent`.
3. Compositions: the scheduler with real executors, its `agent` as the abstract
   specification that `TaskExecutor` implements; the pool with the BatchSandbox
   controller; an abstract lease of pods that `Pool` implements.
4. Proofs: `ExclusiveAllocation` and `NoUpdateLost` of `Pool`, `OneActiveTask` and
   `DeletionDurable` of `TaskExecutor`, `ExpiryArmed` of `DockerSandbox`, and the
   safety part of the refinements.
