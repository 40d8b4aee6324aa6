---------------------------- MODULE DockerSandbox ---------------------------
(***************************************************************************)
(* The Docker runtime of the lifecycle server: DockerSandboxService and    *)
(* its OSSFS mounts (server/src/services/docker.py and ossfs_mixin.py).    *)
(*                                                                         *)
(* Three kinds of threads run.  The handlers of the API are coroutines     *)
(* that call the service without awaiting, so they run one at a time       *)
(* (apiPc).  A sandbox that is created with wait=false is provisioned by a *)
(* thread of its own (worker).  A timer that elapses runs _expire_sandbox  *)
(* in its own thread (thread); the slot Main is the starting server        *)
(* itself, which expires the sandboxes that are already due.               *)
(*                                                                         *)
(* Steps are the calls between which another thread can run.  The kill and *)
(* the forced removal of a container are one step, since a removal that    *)
(* finds the container gone is handled like a kill that does.  Sandboxes   *)
(* with OSSFS volumes share one mount.                                     *)
(***************************************************************************)
EXTENDS Integers, FiniteSets

CONSTANTS
  Sandboxes,    \* sandbox ids; an id is used once
  NoSandbox,
  Expiring,     \* the sandboxes with a timeout; the others are manual
  Mounting,     \* the sandboxes with the OSSFS volume
  Guarded,      \* the sandboxes with a network policy, hence a sidecar
  Threads,      \* bound: threads that expire sandboxes
  Main,         \* the slot of the starting server
  MaxTime,      \* bound: where the clock stops; 0 stands for "no time"
  MaxRestarts,  \* bound: restarts of the server
  MaxFailures,  \* bound: failing calls
  Env           \* what the environment may do, a subset of EnvBehaviours

EnvBehaviours == {"async", "renew", "get", "queryFail", "expireFail", "deleteFail",
                  "provisionFail"}

ASSUME DockerAssumption ==
  /\ NoSandbox \notin Sandboxes /\ Main \notin Threads
  /\ Expiring \subseteq Sandboxes /\ Mounting \subseteq Sandboxes
  /\ Guarded \subseteq Sandboxes
  /\ MaxTime \in Nat /\ MaxRestarts \in Nat /\ MaxFailures \in Nat
  /\ Env \subseteq EnvBehaviours

VARIABLES
  now,          \* the clock
  box, label,   \* the containers and their expires-at label
  sidecar,      \* the egress sidecars
  mounted,      \* is the OSSFS path mounted?
  refs,         \* _ossfs_mount_ref_counts
  expires,      \* _sandbox_expirations
  timer,        \* _expiration_timers that have not elapsed
  pending,      \* _pending_sandboxes
  purge,        \* _pending_cleanup_timers
  worker, grant, \* the provisioning of each sandbox, and its expires_at
  thread,       \* the threads in _expire_sandbox
  apiPc, apiBox, \* the handler that runs, and its sandbox
  apiAt,        \* the new_expiration of a renewal
  boot, due,    \* the step of _restore_existing_sandboxes; expired_entries
  counted, seen, \* restored_mount_refs and seen_sidecars
  promise,      \* the expiration last granted to a client
  restarts, failures

docker   == <<box, label, sidecar>>
mount    == <<mounted, refs>>
tracking == <<expires, timer>>
creation == <<pending, purge, worker, grant>>
api      == <<apiPc, apiBox, apiAt>>
starting == <<boot, due, counted, seen>>
bounds   == <<restarts, failures>>
vars == <<now, docker, mount, tracking, creation, thread, api, starting, promise, bounds>>

Times == 0..MaxTime
NoTimer == [at |-> 0, keys |-> FALSE]
Idle == [of |-> NoSandbox, step |-> "idle", keys |-> FALSE]
Slots == Threads \cup {Main}

Present(s) == box[s] # "none"

\* A call of the environment fails.
Fails(kind) ==
  /\ kind \in Env /\ failures < MaxFailures
  /\ failures' = failures + 1

-----------------------------------------------------------------------------
(* Expiration tracking and mounts: sections under a lock                   *)

\* Defective variant: a timer that is set is not replaced.
MutantKeepTimer(s, at, keys, update) ==
  /\ timer' = IF timer[s] # NoTimer THEN timer
              ELSE [timer EXCEPT ![s] = [at |-> at, keys |-> keys]]
  /\ expires' = IF update THEN [expires EXCEPT ![s] = at] ELSE expires

_schedule_expiration(s, at, keys, update) ==
  /\ timer' = [timer EXCEPT ![s] = [at |-> at, keys |-> keys]]
  /\ expires' = IF update THEN [expires EXCEPT ![s] = at] ELSE expires

_remove_expiration_tracking(s) ==
  /\ timer' = [timer EXCEPT ![s] = NoTimer]
  /\ expires' = [expires EXCEPT ![s] = 0]

\* The path is mounted unless it is counted or is a mount already.
_ensure_ossfs_mounted ==
  /\ refs' = refs + 1
  /\ mounted' = TRUE

\* Defective variant: an untracked key is released too.
MutantReleaseUntracked == refs' = refs - 1

\* The count is changed under the lock; the unmounting comes after it.
_release_ossfs_mount == refs' = IF refs = 0 THEN 0 ELSE refs - 1

\* Defective variant: every release unmounts.
MutantUnmountAlways == refs >= 1

should_unmount == refs = 1

_unmount == mounted' = FALSE

\* A sidecar that cannot be removed is left behind, with a warning.
_cleanup_egress_sidecar(s, failure) ==
  \/ sidecar' = [sidecar EXCEPT ![s] = FALSE] /\ UNCHANGED failures
  \/ sidecar[s] /\ Fails(failure) /\ UNCHANGED sidecar

-----------------------------------------------------------------------------
Init ==
  /\ now = 1
  /\ box = [s \in Sandboxes |-> "none"] /\ label = [s \in Sandboxes |-> 0]
  /\ sidecar = [s \in Sandboxes |-> FALSE]
  /\ mounted = FALSE /\ refs = 0
  /\ expires = [s \in Sandboxes |-> 0] /\ timer = [s \in Sandboxes |-> NoTimer]
  /\ pending = [s \in Sandboxes |-> "none"] /\ purge = [s \in Sandboxes |-> FALSE]
  /\ worker = [s \in Sandboxes |-> "new"] /\ grant = [s \in Sandboxes |-> 0]
  /\ thread = [i \in Slots |-> Idle]
  /\ apiPc = "idle" /\ apiBox = NoSandbox /\ apiAt = 0
  /\ boot = "up" /\ due = {} /\ counted = 0 /\ seen = {}
  /\ promise = [s \in Sandboxes |-> 0]
  /\ restarts = 0 /\ failures = 0

Tick == /\ now < MaxTime
        /\ now' = now + 1
        /\ UNCHANGED <<docker, mount, tracking, creation, thread, api, starting,
                       promise, bounds>>

-----------------------------------------------------------------------------
(* Provisioning                                                            *)

serving == apiPc = "idle" /\ boot = "up"

\* create_sandbox holds the handler until the provisioning ends;
\* create_sandbox_async registers the sandbox as pending and returns.
create_sandbox(s) ==
  /\ serving /\ worker[s] = "new"
  /\ \E at \in IF s \in Expiring THEN (now + 1)..MaxTime ELSE {0} :
       /\ grant' = [grant EXCEPT ![s] = at]
       /\ promise' = [promise EXCEPT ![s] = at]
  /\ worker' = [worker EXCEPT ![s] = "mount"]
  /\ \/ /\ apiPc' = "create" /\ apiBox' = s
        /\ UNCHANGED <<apiAt, pending>>
     \/ /\ "async" \in Env
        /\ pending' = [pending EXCEPT ![s] = "pending"]
        /\ UNCHANGED api
  /\ UNCHANGED <<now, docker, mount, tracking, purge, thread, starting, bounds>>

At(s, step, next) == worker[s] = step /\ worker' = [worker EXCEPT ![s] = next]

rest == <<now, pending, purge, grant, thread, api, starting, promise, restarts>>

PrepareMounts(s) ==
  /\ At(s, "mount", "sidecar")
  /\ IF s \in Mounting THEN _ensure_ossfs_mounted ELSE UNCHANGED mount
  /\ UNCHANGED <<rest, docker, tracking, failures>>

\* The mount command fails: no mount is held, and none is to be released.
PrepareFails(s) ==
  /\ s \in Mounting /\ refs = 0 /\ ~mounted
  /\ At(s, "mount", "failed")
  /\ Fails("provisionFail")
  /\ UNCHANGED <<rest, docker, mount, tracking>>

_start_egress_sidecar(s) ==
  /\ At(s, "sidecar", "create")
  /\ sidecar' = [sidecar EXCEPT ![s] = s \in Guarded]
  /\ UNCHANGED <<rest, box, label, mount, tracking, failures>>

CreateContainer(s) ==
  /\ At(s, "create", "start")
  /\ box' = [box EXCEPT ![s] = "created"]
  /\ label' = [label EXCEPT ![s] = grant[s]]
  /\ UNCHANGED <<rest, sidecar, mount, tracking, failures>>

\* The sidecar cannot be started; it is removed, unless that fails too.
SidecarFails(s) ==
  /\ s \in Guarded /\ At(s, "sidecar", "unmount")
  /\ Fails("provisionFail")
  /\ sidecar' \in {sidecar, [sidecar EXCEPT ![s] = TRUE]}
  /\ UNCHANGED <<rest, box, label, mount, tracking>>

CreateFails(s) ==
  /\ At(s, "create", "unsidecar")
  /\ Fails("provisionFail")
  /\ UNCHANGED <<rest, docker, mount, tracking>>

StartContainer(s) ==
  /\ At(s, "start", "schedule")
  /\ box[s] = "created"
  /\ s \in Guarded => sidecar[s]
  /\ box' = [box EXCEPT ![s] = "running"]
  /\ UNCHANGED <<rest, label, sidecar, mount, tracking, failures>>

\* The container was deleted meanwhile, or cannot be started; it is removed,
\* unless that fails too.
StartFails(s) ==
  /\ At(s, "start", "unsidecar")
  /\ \/ /\ ~Present(s) \/ (s \in Guarded /\ ~sidecar[s])
        /\ box' = [box EXCEPT ![s] = "none"]
        /\ UNCHANGED failures
     \/ /\ Fails("provisionFail")
        /\ box' \in {box, [box EXCEPT ![s] = "none"]}
  /\ UNCHANGED <<rest, label, sidecar, mount, tracking>>

ScheduleExpiration(s) ==
  /\ At(s, "schedule", "finish")
  /\ IF grant[s] # 0 THEN _schedule_expiration(s, grant[s], FALSE, TRUE)
                     ELSE UNCHANGED tracking
  /\ UNCHANGED <<rest, docker, mount, failures>>

\* The caller of _provision_sandbox: the handler returns, or the worker goes on.
waited(s) == apiPc = "create" /\ apiBox = s
Return(s) == /\ apiPc' = IF waited(s) THEN "idle" ELSE apiPc
             /\ apiBox' = IF waited(s) THEN NoSandbox ELSE apiBox
             /\ UNCHANGED apiAt

FinishProvision(s) ==
  /\ At(s, "finish", "done")
  /\ Return(s)
  /\ pending' = [pending EXCEPT ![s] = "none"]
  /\ UNCHANGED <<now, docker, mount, tracking, purge, grant, thread, starting,
                 promise, bounds>>

RemoveSidecar(s) ==
  /\ At(s, "unsidecar", "unmount") \/ At(s, "sweep", "purge")
  /\ _cleanup_egress_sidecar(s, "provisionFail")
  /\ UNCHANGED <<rest, box, label, mount, tracking>>

\* A thread that gave up the last reference unmounts before it goes on.
Released(unmount, next) == IF should_unmount THEN unmount ELSE next

ReleaseMounts(s) ==
  /\ IF s \in Mounting THEN /\ At(s, "unmount", Released("failedUnmount", "failed"))
                            /\ _release_ossfs_mount
                       ELSE At(s, "unmount", "failed") /\ UNCHANGED refs
  /\ UNCHANGED <<rest, docker, mounted, tracking, failures>>

WorkerUnmounts(s) ==
  /\ At(s, "failedUnmount", "failed") \/ At(s, "purgeUnmount", "sweep")
  /\ _unmount
  /\ UNCHANGED <<rest, docker, refs, tracking, failures>>

\* Defective variant: the pending record keeps its state.
MutantNotMarked(s) ==
  /\ At(s, "failed", IF waited(s) THEN "done" ELSE "cleanup")
  /\ Return(s)
  /\ UNCHANGED <<now, docker, mount, tracking, pending, purge, grant, thread, starting,
                 promise, bounds>>

_mark_pending_failed(s) ==
  /\ IF waited(s) THEN At(s, "failed", "done") /\ UNCHANGED pending
     ELSE /\ At(s, "failed", "cleanup")
          /\ pending' = [pending EXCEPT ![s] = IF @ = "none" THEN @ ELSE "failed"]
  /\ Return(s)
  /\ UNCHANGED <<now, docker, mount, tracking, purge, grant, thread, starting,
                 promise, bounds>>

\* A container that was left behind is removed, or that fails; the mount of its
\* label is released in either case.  The sidecar is removed last (RemoveSidecar).
_cleanup_failed_containers(s) ==
  /\ IF Present(s) /\ s \in Mounting
     THEN At(s, "cleanup", Released("purgeUnmount", "sweep")) /\ _release_ossfs_mount
     ELSE At(s, "cleanup", "sweep") /\ UNCHANGED refs
  /\ \/ box' = [box EXCEPT ![s] = "none"] /\ UNCHANGED failures
     \/ Present(s) /\ Fails("provisionFail") /\ UNCHANGED box
  /\ UNCHANGED <<rest, label, sidecar, mounted, tracking>>

\* The containers that were left behind cannot be listed.
CleanupFails(s) ==
  /\ At(s, "cleanup", "sweep")
  /\ Fails("provisionFail")
  /\ UNCHANGED <<rest, docker, mount, tracking>>

_schedule_pending_cleanup(s) ==
  /\ At(s, "purge", "done")
  /\ purge' = [purge EXCEPT ![s] = TRUE]
  /\ UNCHANGED <<now, docker, mount, tracking, pending, grant, thread, api, starting,
                 promise, bounds>>

_remove_pending_sandbox(s) ==
  /\ purge[s]
  /\ purge' = [purge EXCEPT ![s] = FALSE]
  /\ pending' = [pending EXCEPT ![s] = "none"]
  /\ UNCHANGED <<now, docker, mount, tracking, worker, grant, thread, api, starting,
                 promise, bounds>>

Provision(s) ==
  \/ PrepareMounts(s) \/ PrepareFails(s) \/ _start_egress_sidecar(s)
  \/ SidecarFails(s) \/ CreateContainer(s) \/ CreateFails(s) \/ StartContainer(s)
  \/ StartFails(s) \/ ScheduleExpiration(s) \/ FinishProvision(s) \/ RemoveSidecar(s)
  \/ ReleaseMounts(s) \/ WorkerUnmounts(s) \/ _mark_pending_failed(s)
  \/ _cleanup_failed_containers(s) \/ CleanupFails(s) \/ _schedule_pending_cleanup(s)
-----------------------------------------------------------------------------
(* _expire_sandbox                                                         *)

TimerElapses(i, s) ==
  /\ thread[i] = Idle
  /\ timer[s] # NoTimer /\ timer[s].at <= now
  /\ thread' = [thread EXCEPT ![i] = [of |-> s, step |-> "fetch", keys |-> timer[s].keys]]
  /\ timer' = [timer EXCEPT ![s] = NoTimer]
  /\ UNCHANGED <<now, docker, mount, expires, creation, api, starting, promise, bounds>>

Goes(i, step, next) ==
  /\ thread[i].step = step
  /\ thread' = [thread EXCEPT ![i] = IF next = "idle" THEN Idle ELSE [@ EXCEPT !.step = next]]

others == <<now, label, creation, api, starting, promise, restarts>>

\* Defective variant: a sandbox that expires right now counts as renewed.
MutantRenewedNow(s) == expires[s] >= now

renewed(s) == expires[s] > now

ExpireFetch(i) ==
  /\ Goes(i, "fetch", "check") /\ Present(thread[i].of)
  /\ UNCHANGED <<others, box, sidecar, mount, tracking, failures>>

\* Defective variant: the tracking of a missing sandbox is kept.
MutantKeepTracking(i) ==
  LET s == thread[i].of IN
  /\ thread[i].step = "fetch" /\ ~Present(s)
  /\ Goes(i, "fetch", IF thread[i].keys /\ s \in Mounting THEN "release" ELSE "idle")
  /\ UNCHANGED <<others, box, sidecar, mount, tracking, failures>>

\* 404: the keys that the restoration passed on are released.
ExpireNotFound(i) ==
  LET s == thread[i].of IN
  /\ thread[i].step = "fetch" /\ ~Present(s)
  /\ Goes(i, "fetch", IF thread[i].keys /\ s \in Mounting THEN "release" ELSE "idle")
  /\ _remove_expiration_tracking(s)
  /\ UNCHANGED <<others, box, sidecar, mount, failures>>

\* The query fails: unless the sandbox was renewed, it is tried again.
ExpireQueryFails(i) ==
  /\ Goes(i, "fetch", IF renewed(thread[i].of) THEN "idle" ELSE "retry")
  /\ Fails("queryFail")
  /\ UNCHANGED <<others, box, sidecar, mount, tracking>>

ExpireRetry(i) ==
  /\ Goes(i, "retry", "idle")
  /\ _schedule_expiration(thread[i].of, IF now < MaxTime THEN now + 1 ELSE now,
                          thread[i].keys, FALSE)
  /\ UNCHANGED <<others, box, sidecar, mount, failures>>

ExpireCheck(i) ==
  /\ Goes(i, "check", IF renewed(thread[i].of) THEN "idle" ELSE "remove")
  /\ UNCHANGED <<others, box, sidecar, mount, tracking, failures>>

\* Failures to stop and to remove are logged.
ExpireRemove(i) ==
  /\ Goes(i, "remove", "forget")
  /\ \/ box' = [box EXCEPT ![thread[i].of] = "none"] /\ UNCHANGED failures
     \/ Fails("expireFail") /\ UNCHANGED box
  /\ UNCHANGED <<others, sidecar, mount, tracking>>

ExpireForget(i) ==
  LET s == thread[i].of IN
  /\ Goes(i, "forget", IF s \in Mounting THEN "release" ELSE "idle")
  /\ _remove_expiration_tracking(s)
  /\ _cleanup_egress_sidecar(s, "expireFail")
  /\ UNCHANGED <<others, box, mount>>

ExpireRelease(i) ==
  /\ Goes(i, "release", Released("unmount", "idle"))
  /\ _release_ossfs_mount
  /\ UNCHANGED <<others, box, sidecar, mounted, tracking, failures>>

ExpireUnmount(i) ==
  /\ Goes(i, "unmount", "idle")
  /\ _unmount
  /\ UNCHANGED <<others, box, sidecar, refs, tracking, failures>>

_expire_sandbox(i) ==
  \/ ExpireFetch(i) \/ ExpireNotFound(i) \/ ExpireQueryFails(i) \/ ExpireRetry(i)
  \/ ExpireCheck(i) \/ ExpireRemove(i) \/ ExpireForget(i) \/ ExpireRelease(i)
  \/ ExpireUnmount(i)

-----------------------------------------------------------------------------
(* The other handlers of the API                                           *)

Calls(s, step) == serving /\ apiPc' = step /\ apiBox' = s /\ UNCHANGED apiAt
Handles(step, next) ==
  /\ apiPc = step /\ apiPc' = next
  /\ apiBox' = IF next = "idle" THEN NoSandbox ELSE apiBox
  /\ next = "label" \/ apiAt' = 0

rest2 == <<now, creation, thread, starting, restarts>>

delete_sandbox(s) ==
  /\ Present(s) /\ Calls(s, "delete")
  /\ UNCHANGED <<rest2, docker, mount, tracking, promise, failures>>

\* Whether the container was removed or not, the finally clause follows.
DeleteContainer ==
  /\ Handles("delete", "forget")
  /\ \/ box' = [box EXCEPT ![apiBox] = "none"] /\ UNCHANGED failures
     \/ Fails("deleteFail") /\ UNCHANGED box
  /\ UNCHANGED <<rest2, label, sidecar, mount, tracking, promise>>

DeleteForget ==
  /\ Handles("forget", IF apiBox \in Mounting THEN "release" ELSE "idle")
  /\ _remove_expiration_tracking(apiBox)
  /\ _cleanup_egress_sidecar(apiBox, "deleteFail")
  /\ UNCHANGED <<rest2, box, label, mount, promise>>

DeleteRelease ==
  /\ Handles("release", Released("unmount", "idle"))
  /\ _release_ossfs_mount
  /\ UNCHANGED <<rest2, docker, mounted, tracking, promise, failures>>

DeleteUnmount ==
  /\ Handles("unmount", "idle")
  /\ _unmount
  /\ UNCHANGED <<rest2, docker, refs, tracking, promise, failures>>

pause_sandbox(s) ==
  /\ serving /\ box[s] = "running"
  /\ box' = [box EXCEPT ![s] = "paused"]
  /\ UNCHANGED <<rest2, api, label, sidecar, mount, tracking, promise, failures>>

resume_sandbox(s) ==
  /\ serving /\ box[s] = "paused"
  /\ box' = [box EXCEPT ![s] = "running"]
  /\ UNCHANGED <<rest2, api, label, sidecar, mount, tracking, promise, failures>>

\* A manual sandbox cannot be renewed, nor one without a known expiration.
renew_expiration(s) ==
  /\ "renew" \in Env
  /\ Present(s) /\ s \in Expiring
  /\ expires[s] # 0 \/ label[s] # 0
  /\ Calls(s, "renew")
  /\ UNCHANGED <<rest2, docker, mount, tracking, promise, failures>>

\* Defective variant: the timer is set, the expiration is not recorded.
MutantTimerOnly ==
  /\ Handles("renew", "label")
  /\ \E at \in (now + 1)..MaxTime :
       _schedule_expiration(apiBox, at, FALSE, FALSE) /\ apiAt' = at
  /\ UNCHANGED <<rest2, docker, mount, promise, failures>>

RenewTimer ==
  /\ Handles("renew", "label")
  /\ \E at \in (now + 1)..MaxTime :
       _schedule_expiration(apiBox, at, FALSE, TRUE) /\ apiAt' = at
  /\ UNCHANGED <<rest2, docker, mount, promise, failures>>

\* ensure_future_expiration: no later time is left.
RenewRefused ==
  /\ Handles("renew", "idle")
  /\ now = MaxTime
  /\ UNCHANGED <<rest2, docker, mount, tracking, promise, failures>>

\* docker-py's Container.update takes no labels; the call that follows posts them
\* to the update endpoint of the Docker Engine, which changes resource limits and
\* the restart policy only.  Whether that call succeeds or not, no label changes.
_update_container_labels == UNCHANGED label

\* The handler returns the new expiration.
RenewLabel ==
  /\ Handles("label", "idle")
  /\ promise' = [promise EXCEPT ![apiBox] = apiAt]
  /\ _update_container_labels
  /\ UNCHANGED <<rest2, box, sidecar, mount, tracking, failures>>

\* The pending record is looked up when there was no container.
get_sandbox(s) ==
  /\ "get" \in Env
  /\ worker[s] # "new" /\ ~Present(s) /\ Calls(s, "get")
  /\ UNCHANGED <<rest2, docker, mount, tracking, promise, failures>>

\* Defective variant: the record of a failed provisioning does not count.
MutantHidesFailed ==
  /\ Handles("get", IF pending[apiBox] = "pending" THEN "idle" ELSE "notFound")
  /\ UNCHANGED <<rest2, docker, mount, tracking, promise, failures>>

GetPending ==
  /\ Handles("get", IF pending[apiBox] # "none" THEN "idle" ELSE "notFound")
  /\ UNCHANGED <<rest2, docker, mount, tracking, promise, failures>>

GetNotFound ==
  /\ Handles("notFound", "idle")
  /\ UNCHANGED <<rest2, docker, mount, tracking, promise, failures>>

Handler == \/ DeleteContainer \/ DeleteForget \/ DeleteRelease \/ DeleteUnmount
           \/ RenewTimer \/ RenewRefused \/ RenewLabel
           \/ GetPending \/ GetNotFound

Request(s) == \/ create_sandbox(s) \/ delete_sandbox(s) \/ renew_expiration(s)
              \/ pause_sandbox(s) \/ resume_sandbox(s) \/ get_sandbox(s)

\* The entrypoint of a sandbox ends.
ContainerExits(s) ==
  /\ box[s] = "running"
  /\ box' = [box EXCEPT ![s] = "exited"]
  /\ UNCHANGED <<rest2, api, label, sidecar, mount, tracking, promise, failures>>

-----------------------------------------------------------------------------
(* Restart of the server                                                   *)

Restart ==
  /\ restarts < MaxRestarts
  /\ restarts' = restarts + 1
  /\ expires' = [s \in Sandboxes |-> 0] /\ timer' = [s \in Sandboxes |-> NoTimer]
  /\ refs' = 0
  /\ pending' = [s \in Sandboxes |-> "none"] /\ purge' = [s \in Sandboxes |-> FALSE]
  /\ worker' = [s \in Sandboxes |-> IF worker[s] = "new" THEN "new" ELSE "done"]
  /\ thread' = [i \in Slots |-> Idle]
  /\ apiPc' = "idle" /\ apiBox' = NoSandbox /\ apiAt' = 0
  /\ boot' = "list" /\ due' = {} /\ counted' = 0 /\ seen' = {}
  /\ UNCHANGED <<now, docker, mounted, grant, promise, failures>>

boxes == {s \in Sandboxes : Present(s)}

\* Pass 1: the labels of all containers are read; timers are set for those
\* that are not due yet.
RestoreTimers ==
  /\ boot = "list"
  /\ LET timed == {s \in boxes : label[s] # 0}
         alive == {s \in timed : label[s] > now}
     IN /\ due' = timed \ alive
        /\ timer' = [s \in Sandboxes |-> IF s \in alive THEN [at |-> label[s], keys |-> FALSE]
                                                       ELSE NoTimer]
        /\ expires' = [s \in Sandboxes |-> IF s \in alive THEN label[s] ELSE 0]
  /\ counted' = Cardinality(boxes \cap Mounting)
  /\ seen' = {s \in Sandboxes : sidecar[s]}
  /\ boot' = "count"
  /\ UNCHANGED <<now, docker, mount, creation, thread, api, promise, bounds>>

\* The containers cannot be listed: the server starts without them.
RestoreFails ==
  /\ boot = "list"
  /\ Fails("queryFail")
  /\ boot' = "up"
  /\ UNCHANGED <<now, docker, mount, tracking, creation, thread, api, due, counted,
                 seen, promise, restarts>>

\* Defective variant: the references are not counted again.
MutantNoRecount ==
  /\ boot = "count" /\ boot' = "expire"
  /\ UNCHANGED <<now, docker, mount, tracking, creation, thread, api, due, counted,
                 seen, promise, bounds>>

RestoreCounts ==
  /\ boot = "count" /\ boot' = "expire"
  /\ refs' = counted
  /\ UNCHANGED <<now, docker, mounted, tracking, creation, thread, api, due, counted,
                 seen, promise, bounds>>

\* Pass 2: the sandboxes that were due are expired one after the other.
RestoreExpires(s) ==
  /\ boot = "expire" /\ s \in due /\ thread[Main] = Idle
  /\ due' = due \ {s}
  /\ thread' = [thread EXCEPT ![Main] = [of |-> s, step |-> "fetch", keys |-> TRUE]]
  /\ UNCHANGED <<now, docker, mount, tracking, creation, api, boot, counted, seen, promise,
                 bounds>>

\* Defective variant: orphan sidecars are left alone.
MutantKeepOrphans(s) ==
  /\ boot = "expire" /\ due = {} /\ thread[Main] = Idle
  /\ s \in seen /\ seen' = seen \ {s}
  /\ UNCHANGED <<now, docker, mount, tracking, creation, thread, api, boot, due, counted,
                 promise, bounds>>

\* A listed sidecar without a sandbox is removed, unless the removal or the
\* lookup of the sandbox fails.
RestoreOrphan(s) ==
  /\ boot = "expire" /\ due = {} /\ thread[Main] = Idle
  /\ s \in seen /\ seen' = seen \ {s}
  /\ \/ Present(s) /\ UNCHANGED <<sidecar, failures>>
     \/ ~Present(s) /\ _cleanup_egress_sidecar(s, "queryFail")
     \/ Fails("queryFail") /\ UNCHANGED sidecar
  /\ UNCHANGED <<now, box, label, mount, tracking, creation, thread, api, boot, due, counted,
                 promise, restarts>>

RestoreDone ==
  /\ boot = "expire" /\ due = {} /\ thread[Main] = Idle /\ seen = {}
  /\ boot' = "up"
  /\ UNCHANGED <<now, docker, mount, tracking, creation, thread, api, due, counted, seen,
                 promise, bounds>>

_restore_existing_sandboxes ==
  \/ RestoreTimers \/ RestoreFails \/ RestoreCounts
  \/ (\E s \in due : RestoreExpires(s)) \/ (\E s \in seen : RestoreOrphan(s))
  \/ RestoreDone

-----------------------------------------------------------------------------
Elapses(s) == \E i \in Threads : TimerElapses(i, s)

Next == \/ Tick \/ Handler \/ Restart \/ _restore_existing_sandboxes
        \/ \E s \in Sandboxes : \/ Request(s) \/ Provision(s) \/ Elapses(s)
                              \/ _remove_pending_sandbox(s) \/ ContainerExits(s)
        \/ \E i \in Slots : _expire_sandbox(i)

Spec == Init /\ [][Next]_vars

\* Time passes, threads run and timers elapse.  Clients need not call.
Fairness ==
  /\ WF_vars(Tick) /\ WF_vars(Handler) /\ WF_vars(_restore_existing_sandboxes)
  /\ \A s \in Sandboxes : WF_vars(Provision(s)) /\ WF_vars(Elapses(s))
  /\ \A i \in Slots : WF_vars(_expire_sandbox(i))

FairSpec == Spec /\ Fairness

(***************************************************************************)
(* Properties                                                              *)
(***************************************************************************)

\* The state is well typed; in particular the reference count never exceeds
\* the number of sandboxes with the volume.
TypeOK ==
  /\ now \in 1..MaxTime
  /\ box \in [Sandboxes -> {"none", "created", "running", "paused", "exited"}]
  /\ label \in [Sandboxes -> Times] /\ expires \in [Sandboxes -> Times]
  /\ sidecar \in [Sandboxes -> BOOLEAN] /\ mounted \in BOOLEAN
  /\ refs \in 0..Cardinality(Mounting) /\ counted \in 0..Cardinality(Mounting)
  /\ timer \in [Sandboxes -> [at : Times, keys : BOOLEAN]]
  /\ pending \in [Sandboxes -> {"none", "pending", "failed"}]
  /\ purge \in [Sandboxes -> BOOLEAN]
  /\ worker \in [Sandboxes -> {"new", "mount", "sidecar", "create", "start", "schedule",
                               "finish", "unsidecar", "unmount", "failedUnmount",
                               "failed", "cleanup", "purgeUnmount", "sweep", "purge",
                               "done"}]
  /\ grant \in [Sandboxes -> Times] /\ promise \in [Sandboxes -> Times]
  /\ thread \in [Slots -> [of : Sandboxes \cup {NoSandbox},
                           step : {"idle", "fetch", "retry", "check", "remove", "forget",
                                   "release", "unmount"},
                           keys : BOOLEAN]]
  /\ apiPc \in {"idle", "create", "delete", "forget", "release", "unmount", "renew",
                "label", "get", "notFound"}
  /\ apiBox \in Sandboxes \cup {NoSandbox} /\ apiAt \in Times
  /\ boot \in {"up", "list", "count", "expire"} /\ due \subseteq Sandboxes
  /\ seen \subseteq Sandboxes
  /\ restarts \in 0..MaxRestarts /\ failures \in 0..MaxFailures

\* No step of provisioning, expiration, renewal or deletion of s is under way.
Quiet(s) ==
  /\ boot = "up" /\ apiBox # s /\ worker[s] = "done"
  /\ \A i \in Slots : thread[i].of # s

\* A sandbox with a timeout always has a timer that will expire it
\* (_schedule_expiration), whatever renewals, timers that elapse meanwhile and
\* restarts do, and the timer is set for the expiration the service knows.
ExpiryArmed ==
  \A s \in Expiring : Present(s) /\ Quiet(s) =>
    timer[s] # NoTimer /\ timer[s].at = expires[s]

\* The expiration the service goes by is the one it last granted
\* (create_sandbox, renew_expiration), over restarts too: "it will also be
\* respected on restart via _restore_existing_sandboxes".
PromiseKept ==
  \A s \in Expiring : Present(s) /\ Quiet(s) => expires[s] = promise[s]

\* Only a restart takes a renewal back: the expiration the service goes by is
\* the one it last granted (renew_expiration) or, after a restart, the one the
\* sandbox was created with, which is what its label says
\* (_restore_existing_sandboxes).
RenewalInForce ==
  \A s \in Expiring : Present(s) /\ Quiet(s) =>
    expires[s] = promise[s] \/ (restarts > 0 /\ expires[s] = grant[s])

\* The OSSFS path is not unmounted while a sandbox that uses it has a
\* container (_release_ossfs_mount).
MountHeld == \A s \in Mounting : Present(s) => mounted

\* Every container that uses the OSSFS path is counted, from the moment that a
\* restarted server has counted them again.
MountsCounted == boot \in {"up", "expire"} => Cardinality(boxes \cap Mounting) <= refs

\* get_sandbox does not answer that there is no such sandbox while a thread is
\* provisioning it or cleaning up after its failure.
ProvisioningVisible == apiPc = "notFound" => worker[apiBox] \in {"new", "done"}

\* Every container of a sandbox with a timeout is removed in the end
\* (_expire_sandbox, and _restore_existing_sandboxes after a restart).
ExpiredTerminated == \A s \in Expiring : Present(s) ~> ~Present(s)

\* What a client that polls get_sandbox sees.
Polled(s) == IF ~Present(s) THEN pending[s]
             ELSE IF box[s] = "created" THEN "pending" ELSE "settled"

\* A sandbox created with wait=false does not stay pending: a client that polls
\* sees it running, failed or gone, unless the server is restarted meanwhile
\* (create_sandbox_async).
PendingResolved ==
  \A s \in Sandboxes : pending[s] = "pending" ~> (Polled(s) # "pending" \/ boot # "up")

\* The service forgets the expiration of a sandbox that is gone, and no timer
\* is left for it (_remove_expiration_tracking), whatever thread removed it and
\* whichever calls failed.
TrackingDropped ==
  \A s \in Expiring : (worker[s] = "done" /\ ~Present(s)) ~>
                        (expires[s] = 0 /\ timer[s] = NoTimer)

\* An egress sidecar does not outlive its sandbox for ever
\* (_cleanup_egress_sidecar), wherever a restart falls.
SidecarCollected ==
  \A s \in Guarded : (worker[s] = "done" /\ ~Present(s)) ~> ~sidecar[s]
=============================================================================
