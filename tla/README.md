# Verification of Jumpstarter's lease and exporter control plane

Jumpstarter lends hardware test devices to clients over the network. A Go
controller keeps `Lease` and `Exporter` objects on a Kubernetes API server, a
router joins gRPC streams, a Python exporter process runs beside the device, and
a Python client library drives it. This directory holds TLA+ models of the parts
in which several actors touch the same state, the TLC runs that check them on
small instances, and TLAPS proofs that hold for every size.

Source paths below are relative to `src/`. `PROJECT.json` has the line-by-line
map from definitions to source, the list of hazards and the mutants (plausible
bugs, each of which makes a property fail).

## 1. The system

### Parts

| Part | Source | State | Operations | Hard behaviour | Module |
|---|---|---|---|---|---|
| Listen queues and lease locks | `controller/internal/service/controller_service.go` | `leaseLocks`, `listenQueues`, reference counts, mutexes, channels | `Listen`, `Dial` (`sendToListener`), `swapListenQueue`, `acquireLeaseLock`, `releaseLeaseLock` | goroutines interleave at every atomic operation; exporters reconnect; bounded buffers | `ListenQueue` |
| Lease lifecycle | `controller/internal/controller/lease_controller.go`, `lease.go`, `api/v1alpha1/lease_helpers.go`, `service/client/v1/client_service.go` | Lease objects, the informer cache of them | `CreateLease`, `RequestLease`, `UpdateLease`, `DeleteLease`, `ReleaseLease`, `Reconcile` | a cache that lags; resource versions on some writes and not on others; two writes per pass; restarts | `LeaseTime`, `LeaseController` |
| `LeaseRef` of an exporter | `controller/internal/controller/exporter_controller.go` | `Exporter.Status.LeaseRef` | `reconcileStatusLeaseRef` | computed from cached leases | `LeaseController` |
| Exporter process | `python/packages/jumpstarter/jumpstarter/exporter/{exporter,hooks,lease_context,session}.py` | the lease slot, the events of a lease context, the last status report | control-plane loop, `handle_lease`, hooks, `EndSession`, release, status reports, stop | tasks suspended at awaits; a new lease before the old one is gone; failing hooks; lost streams | `ExporterRuntime` |
| Exporter status at the controller | `exporter_controller.go`, `controller_service.go` | Online and Registered conditions, `LastSeen`, reported status | `Register`, `Unregister`, `ReportStatus`, `Status`, `Reconcile` | merge patches computed from stale reads; watches that fall silent | `ExporterStatus`, `StatusWatch` |
| Router | `controller/internal/service/router_service.go`, `router_support.go` | map of waiting streams | `Stream`, `Forward` | two peers meet, or one never comes; half-closed streams | `RouterStream` |
| Client lease | `python/.../client/lease.py` | lease handle | request, wait, dial with retries, release | timeouts against late answers | `ClientLease` |
| Client status monitor | `python/.../client/status_monitor.py` | last status, change event | poll loop, `wait_for_status`, `stop` | missed wake-ups | `StatusMonitor` |
| Exporter sets | `controller/internal/exporterset/` | owned Exporters and Pods | scale up and down, drain, replace | stale counts; draining what is being leased | `ExporterSet` |
| `jumpstarter-exec` | `rust/jumpstarter-exec/` | children, lifecycle lock | `Exec`, `Shutdown` | shutdown against a starting child | `ExecServer` |
| Operator, login, telemetry, configuration, drivers, command line | see `PROJECT.json` | | | no shared control state of their own | not modelled |

### How they interact

1. A client asks for a lease (`CreateLease`, or the older `RequestLease`). The
   lease reconciler picks an exporter that is online, ready and free and writes
   `Lease.Status.ExporterRef`. `LeaseController` models this.
2. The exporter reconciler writes `Exporter.Status.LeaseRef`; the exporter learns
   of it on its `Status` stream (`StatusWatch`). `ExporterRuntime` takes over there:
   its variable `assigned` is that `LeaseRef`, its `AssignLease` and `EndLease` are
   what steps 1 and 4 look like from the exporter.
3. The exporter opens a session, runs the beforeLease hook and calls `Listen` for
   the lease. Each `Dial` of the client sends a router token through the lease's
   listen queue. `ListenQueue` models that hand-over. Exporter and client then meet
   at the router under the token's stream name (`RouterStream`), and the client
   follows the exporter's status through the session (`StatusMonitor`).
4. The client releases the lease, it expires, or the exporter releases it. The
   exporter runs the afterLease hook, tears the session down and reports
   `AVAILABLE`; only then will the lease reconciler choose it again. The client's
   half, from its request to its release, is `ClientLease`.
5. All the while the exporter's reports, its `Status` stream and the exporter
   reconciler patch one status (`ExporterStatus`). Its Online condition is what
   step 1 looks at, and what an exporter set counts when it sizes its pool
   (`ExporterSet`).

## 2. Modules

| Module | Kind |
|---|---|
| `ListenQueue`, `MCListenQueue`, `ListenQueueProofs`, `ListenConnectedProofs` | specification and properties; instances for TLC; theorems about `Spec` and about `ConnectedSpec` |
| `LeaseTime` | the pure functions on a lease's time fields |
| `LeaseController`, `MCLeaseController`, `LeaseControllerProofs` | specification (extends `LeaseTime`); instances; theorems |
| `ExclusiveUse` | the abstract specification that `LeaseController` implements |
| `LeaseOutcomeProofs` | more theorems about `LeaseController`: why leases end, priorities, times, the refinement of `ExclusiveUse` |
| `ExporterRuntime`, `MCExporterRuntime`, `ExporterRuntimeProofs` | specification; instances; theorems |
| `ExporterStatus`, `MCExporterStatus`, `ExporterStatusProofs` | specification; instance; theorems |
| `ExporterSet`, `MCExporterSet`, `ExporterSetProofs` | specification; instances; theorems |
| `RouterStream`, `ExecServer`, `StatusMonitor`, `StatusWatch`, `ClientLease` | specifications of five smaller components |
| `MCComponents`, `ComponentsProofs` | the instances of those five, for one run; theorems about each of them |

In each specification an operator commented "Mutant" is a deliberately wrong
variant of the definition that follows it. `Next` does not use it.

### ListenQueue

One lease name, because entries of `leaseLocks` and `listenQueues` under
different names never interact. `Listeners` are the `Listen` calls, `Dialers` the
`Dial` calls that have passed their checks; each is a goroutine with a program
counter. A step is one atomic operation: a `sync.Map` call (`LoadOrStore`,
`LoadLock`, `DeleteLock`, `Load`, `Swap`, `DeleteQueue`), an atomic add (`AddRef`,
`BackOut`, `DecRef`), `Lock` or `Unlock`, a `select` or a channel operation
(`CheckDone`, `Send`, `Select`, `Drain`, `CloseOld`, `CloseDone`). A lock object is
named by the call that created it, so a lock that has left the map can still be
told from its successor. `Cancel` is the end of an exporter's stream.

`ConnectedSpec` restricts the environment: the exporter has a live `Listen`
whenever another call starts, and a stream ends only once a newer one has taken
over. Then the reference count of the lease's lock never reaches zero while it
is needed. `Spec` and `FairSpec` have no such restriction.

### LeaseTime and LeaseController

`LeaseTime` translates `ReconcileLeaseTimeFields`: which combinations of begin,
end and duration are accepted, and what is stored for them. An instant loses its
fraction of a second when the API server stores it and a duration does not (`Whole`,
`Stored`, with `Second` units of time to the second), so a stored window and a stored
duration agree only to within a second.

In `LeaseController` the variable `leases` is the API server and `cache` the
manager's informer cache. Instead of resource versions the model keeps
`current[l]`, which says whether the cached copy still has the server's version:
an `Update` with an old version is refused and the lease requeued, which changes
nothing. `ReadYourWrites` says whether the reconciler's own writes are in the cache
by its next pass. The code does nothing to ensure that, so both values are
examined.

| Action | Code |
|---|---|
| `CreateLease` | `ClientService.CreateLease`, `ControllerService.RequestLease` |
| `UpdateLease`, `UpdateLeasePatch` | `ClientService.UpdateLease`: the read and checks, then the merge patch, which has no resource version |
| `ReleaseLease` | `DeleteLease`, `ReleaseLease` |
| `ReconcileStatus`, `ReconcileMetadata` | `LeaseReconciler.Reconcile`: the status update, then the update of label and owner reference |
| `ReconcileLeaseRef` | `reconcileStatusLeaseRef` and the status patch after it |
| `SyncLease`, `SyncExporter` | a watch event reaches the cache |
| `ExporterChange`, `Tick`, `Restart` | an exporter changes or is deleted (with garbage collection of its leases), time passes, the controller restarts |

`Assign` is the whole selection: validation of the target, access policies with
priority, spot access and maximum duration, the offline, leased and not-ready
filters, and the order of candidates.

`ExclusiveUse` says in three actions what leasing is for. A user takes a resource
that nobody holds; a resource is given back, after which its user takes nothing any
more; a user that holds nothing retires. `ImplementsExclusiveUse` maps to it: an
exporter is held by the leases that have it and have not ended, and a lease is spent
when it has ended or is deleted. Holders are sets, so that a double assignment has an
image, and no step leads to it. `ReconcileStatus` is a `Take`, a `GiveBack`, a
`Retire` or a stutter; the collection of a deleted exporter's leases is one
`GiveBack` at most, however many leases go.

### ExporterRuntime

The Python tasks share one event loop, so a task runs from one suspending await to
the next in one step. Per lease there are up to three tasks (`Tasks`):
`run_before_lease_hook`, `handle_lease` and `_handle_end_session`. `ctx[l]` is the set
of events of the `LeaseContext` that are set; `slot` is `_lease_context`, `control` the
channel into the control-plane loop, `pendingLease` is `_pending_lease_status`,
`report` is `_pending_status_request`. `HandleStatus` and `HandleFinished` are the
loop's two message handlers, and the actions with a leading underscore are the
methods of the same name. `Reconnect` is a broken `Status` stream, `ReleaseCall` may
fail after its retries, and a hook ends with any result its configuration allows.

### ExporterStatus and StatusWatch

`ExporterStatus` has one Exporter object, `st`, and everything that writes it. Each
writer reads the object, changes its copy and sends the difference as a merge patch
(`Diff`, `Apply`), so that reading and writing are separate steps: `Begin` and
`HandleCall` for `Register`, `ReportStatus` and `Unregister`, `Connect` and
`StatusStart` for the first write of `Status`, `PassStart` and `PassPatch` for the
reconciler, which reads the cache. A call that the exporter has given up on may still
be applied, and a stream it has hung up on may go on for a while. Time advances in
half minutes, and nothing that is under way lasts longer than that (`Settled`): calls
have deadlines of that order and caches are not minutes late.

`StatusWatch` is the loop of the `Status` handler: `online` writes `LastSeen` and
compares it with what the watch has brought back, `WatchEvent` sends what has changed
to the exporter. The watch may stop without a word (`WatchStops`), the patch may fail,
the lease or the exporter may be deleted.

### ExporterSet

`pool` is what the API server has, `view` what the manager's cache shows; an exporter
and its pod are one record. A pass of `Reconcile` reads the cache once and then
writes, so it is one action, and there is an action for each way through it:
`Cleanup`, `scaleUp`, `clearSurplusAnnotation`, `setSurplusAnnotation`, `StillCooling`,
`StillSurplus`, `Disable`, and the passes that fail half way. `Slots` are numbers for
exporters, reused when nothing refers to the last one any more.

The lease reconciler, the exporter reconciler (`Credential`, `ComesOnline`,
`SetLeaseRef`), pods, clients and restarts are the environment. A requested lease is
`fresh` until the lease reconciler has looked at it. It is then given an exporter
(`Assign`), marked Pending if all that match are busy (`SetStatusPending`), or given up
if none matches (`SetStatusUnsatisfiable`); only the Pending ones count as demand. An
exporter that is not enabled does not match. `Others` says whether exporters outside the
set match as well.

### The five smaller components

- `RouterStream`: the two calls of `Stream` for one stream name. `LoadOrStore`,
  `Forward` and `FirstReturns` are the steps on `s.pending`, `Recv` and `RecvEnds` one
  round of `pipe`, `ForwardReturns` is `g.Wait()`.
- `ExecServer`: `serve_with` (`is_shutdown`, `accept`, `KillLeftover`, `Return`), the
  handlers of `Exec` and `Shutdown`, and the thread that reads from the client. What
  the lifecycle mutex protects is one step; `Spawn` and `register_child` are two, and the
  kill of a child that was not registered is a third (`terminate_child`).
- `StatusMonitor`: a step is the code between two awaits. The change event is a
  number: `event` is the one in place and all before it are set, so a waiter wakes
  when the one it captured (`seen`) is older.
- `ClientLease`: `pc` follows `request_async`, the body of the context manager and its
  `finally`. Cancellation may come at every await; the shielded cleanup goes on.
  `monitor_async` runs beside the body with its own sleeps and calls (`wake`, `last`).
- `MCComponents` puts these four and `StatusWatch` side by side. The initial state
  chooses which one runs, so the states are the disjoint union of theirs and nothing
  about their interaction is claimed.

## 3. What the runs check

A "violation" run states what a document or comment says and shows that the code
does otherwise; section 6 describes each one.

| Run | Specification and bounds | Checks |
|---|---|---|
| `listen_connected` | `ConnectedFairSpec`, 2 listeners, 2 dialers, capacity 1 | all callers use the mutex in the map, critical sections exclude each other, a token goes only to a live queue, and an accepted token is delivered unless its stream ends |
| `listen_any` | `FairSpec`, 2 listeners, 1 dialer | with any interleaving of calls, an entry with count zero is about to be deleted, and every `Dial` and every superseded `Listen` returns |
| `listen_dead_queue` | `Spec`, 1 listener, 2 dialers | violation: `SendsToLiveQueue` |
| `lease_exclusive` | `Spec`, 2 leases, 2 exporters, 2 clients, 2 policies, exporters registered and deleted, 1 restart, `ReadYourWrites` | exclusive assignment, also as a refinement of `ExclusiveUse`; label only after end, `LeaseRef` only to an assigned lease, assignments final, highest priority first |
| `lease_ending` | `FairSpec`, 2 leases, 1 exporter, 1 restart, lagging cache | a released or expired lease is labelled, an ended one is withdrawn from `LeaseRef`, no lease waits for ever beside a free exporter |
| `lease_updates` | `Spec`, 1 lease, 2 updaters whose calls may overlap, units of half a second, clock to 3, an exporter that is ready or not, lagging cache | stored times stay usable, and agree to within a second unless a patch overwrites what its call has not read; a lease with an exporter ends only for its release or expiry as the server has them |
| `lease_lagging` | `Spec`, 2 leases, 1 exporter, lagging cache | violation: `ExclusiveLease` |
| `exporter_tasks` | `Spec`, 2 leases, three configurations, early ends, 1 reconnection, 1 failed release | one open session, hooks one at a time and only with a session, `LeaseFinished` only from the owner of the slot |
| `exporter_progress` | `FairSpec`, 2 leases, hooks that succeed, 1 failed release | an ended lease is torn down, an assigned one is served, an idle exporter is seen as available |
| `exporter_status` | `FairSpec`, 1 status value beside Offline and none, 2 streams, 2 calls, a minute of 2 units, 1 fault | a status reported over a steady connection is kept, a silent exporter ends up offline, condition and status do not contradict each other for good |
| `exporter_set` | `FairSpec`, 3 slots, 3 specs (a warm pool that replaces, two that start empty and reuse, one of them beside other exporters), cooldown 2, 1 lease, 1 fault, `ReadYourWrites` | the maximum is kept, one exporter is disabled per cooldown, the pool settles, a lease gets an exporter, is given up, or finds the pool all leased |
| `components` | `Spec` of `MCComponents` | five components, see below |

`components` checks, for `RouterStream` (2 peers, 1 frame each), that forwarding
delivers every frame of a stream nobody cuts off (`CleanEnd`) and that no call is left
behind (`AllReturn`); for `ExecServer` (1 `Exec`, 1 `Shutdown`), that no registered child is
left without a SIGTERM (`NoOrphan`), an acknowledged `Shutdown` ends the server
(`ShutdownReturns`) and a child ends with its client and is waited for
(`ChildIsReaped`); for `StatusMonitor` (2 waiters through the statuses of one lease),
that waiters return (`WaitersReturn`); for `StatusWatch` (2 leases, 2 events under way),
that the exporter is told of its lease or the stream ends (`LeaseRefIsTold`); for
`ClientLease` (clock to 8, interval 3, latency 1), that a lease is released on the way
out (`ReleasedOnExit`) and its end noticed in time (`EndIsNoticed`).

Bounds, and why they are enough for the cases in question:

- Two listeners are an old and a new `Listen`. Two dialers and a capacity of 1 fill
  the buffer, and suffice for two acquirers to race one release.
- Two leases contend for an exporter or follow each other on it. Two exporters
  give the order of candidates something to choose. One unit of time expires a
  lease; updates need three for windows that begin in the future. Half seconds are
  enough for a stored instant to differ from the one sent. Two updaters are two calls
  that overlap.
- An exporter that is deleted is in `lease_exclusive`, one that stops being ready in
  `lease_updates`; both in one run would take TLC past a few minutes. The theorems of
  section 5 have neither bound.
- `exporter_tasks` has a reconnection, a failed release and early ends together;
  `exporter_progress`, which checks liveness, has only the failed release.
- `exporter_status` has one status value, so that its liveness properties stay within a
  few minutes: a late patch is told from an earlier one by Offline and the empty status.
  What needs two values, a late report against a newer one, is in the theorem
  `ReportsAreKept`, which has no such bound. One fault of any kind there, and in
  `exporter_set`, is a fault at every point; the ring of times in `StatusWatch` is
  longer than the watch, so equal times are the same write.
- Three slots in `exporter_set` let a pool of at most two be exceeded. A pool that starts
  empty gets no demand unless others match its leases, so there is one of each.
- In `ClientLease`, durations 2 and 6 against an interval of 3 give a lease that ends
  before the monitor's first look and one that it meets on the way; a lease of 6 that
  somebody ends early is the case in which sleeping to the known end would be wrong.
- Symmetry is used only in runs without liveness properties. The action properties
  and the refinement of `lease_exclusive` treat all leases alike, and those of
  `lease_updates` all updaters.

Every module with state of the code has a type invariant `TypeOK`. Those of `ListenQueue`,
`LeaseController`, `ExporterRuntime`, `ExporterStatus` and `ExporterSet` are theorems
(section 5), and those of `RouterStream`, `ExecServer` and `ClientLease` are part of an
inductive invariant there. Of the other two, `StatusMonitor` and `StatusWatch`, the proofs
need a few types only. Both hold on the instances of the runs, which do not list them,
as they say little about the code.

`CHECK_DEADLOCK FALSE` is in every configuration, because every instance may come to
rest: all calls have returned, all leases are over and the clock has reached its
bound, the exporter, the server or the client has stopped, or nothing is left to do
for the pool. That nobody waits for ever is stated by the liveness properties instead.

## 4. Fairness

- `ListenQueue`: weak fairness of the steps of a started goroutine (the Go scheduler
  runs what can run). A call need not start and a stream need not end.
- `LeaseController`: weak fairness of watch events, of the second write of a pass
  and of the exporter reconciler; strong fairness of `ReconcileStatus`, because a
  conflict requeues the lease and a retry with a fresh copy follows each time. The
  clock, clients, updates and restarts are not fair.
- `ExporterRuntime`: weak fairness of each task, of reading the `Status` stream and of
  reports, since asyncio runs every ready task, hooks have timeouts and gRPC calls
  have deadlines. A lease whose release was requested is ended in the end
  (`ReleasedIsLabelled` and `EndedIsWithdrawn` of `LeaseController`). The client's
  `EndSession`, other ends of a lease, reconnections and stops are not fair.
- `ExporterStatus`: weak fairness of handlers, cache, ticker and time; strong fairness
  of `PassPatch`, since a pass that fails is retried with backoff. The exporter's own
  steps are not fair: it may fall silent at any point.
- `ExporterSet`: weak fairness of passes, of time, and of the environment's routine
  steps (caches catch up, credentials and `LeaseRef` are written, pods start and finish, a
  new lease is marked Pending or given up). Strong
  fairness of `Assign`, by `AcquiresFreeExporter` of `LeaseController`. Leases need not
  end, and nothing need fail.
- `RouterStream`: the router's goroutines; a peer may never connect, send or end.
  `ExecServer`: its threads, and a child that was sent SIGTERM exits. `StatusMonitor`:
  the poll loop and the waiters, and polls do not miss their deadline for ever (strong
  fairness of `PollReply`). `StatusWatch`: the handler, and a watch that has not stopped delivers.
  `ClientLease` has safety properties only.

## 5. What is proved

TLAPS checks these for every value of the constants, under the named `ASSUME`s of the
modules (disjoint names, well-formed requests, positive capacity), which TLC
evaluates on each instance.

Some theorems are the *safety part* of a liveness property. A leads-to needs two
things: that the state it starts from always leaves somebody with a step to take, until
it is reached, and that the scheduler lets them take it. The second is fairness, which
only TLC can check here. The first is an invariant, and where the bugs are: a wake-up that
is lost, a requeue that nobody asked for, an event that no path sets.

`ListenQueueProofs`
- `TypeCorrect`: `Spec => []TypeOK`, with the bound on every channel.
- `RetryIsTransient`: `Spec => []DeadEntryIsBeingDeleted`. The inductive invariant
  `LockInv` adds two facts. A lock is stored in the map at most once (`StoredOnce`),
  so an entry that was deleted cannot come back with an old count. An acquirer
  backs out of the current entry only because a goroutine past its decrement is
  about to delete it (`BackOutIsJustified`), so its own decrement needs no deletion.
- `MutexHolderIsCritical`: a mutex that is locked is held by a goroutine in the critical
  section it guards (`LockedIsCritical`), also when two mutexes are in use for the lease.
  With `RetryIsTransient`, which is about the other wait, this is the safety part of
  `CallsReturn`. `MutexInv` adds which mutex each call has taken and not yet given back.
- `SupersededLearns`: a `Listen` call in its loop whose queue has left the map has its
  `done` closed, or the call that swapped it out is about to (`SupersededIsTold`). It holds
  in spite of the lock problem of section 6, because the swap itself is atomic. `ToldInv`
  says the same from the swap to the deletion of the queue.
- `TokensAreKept`: an accepted token is in the channel it was sent to until it is delivered
  or that stream ends (`AcceptedIsKept`), once, and in no other channel (`QueuedOnce`).

`LeaseControllerProofs`
- `AcceptedIsConsistent`: what `ReconcileLeaseTimeFields` accepts has a positive
  duration that fits its window. `StoredAgrees`: what is stored of it is usable, and agrees
  to within a second.
- `LeaseTypeCorrect`, `LabelNeverEarly`, `LeaseRefSound`, `AssignmentsAreFinal`: type
  correctness, `LabelledIsEnded`, `LeaseRefWasAssigned` and `AssignmentIsFinal`, for any
  lag of the cache and any number of restarts. The inductive invariant `Inv` adds
  `CurrentIsEqual` (a copy marked current equals the object) and `CacheIsPast` (what
  the cache shows of an assignment or an end is true of the object). The second
  is what makes a write computed from the cache harmless.
- `LeasesAreExclusive`: `ReadYourWrites => (Spec => []ExclusiveLease)`. `ExclusiveInv`
  adds that every lease that holds an exporter shows it in the cache, so that the
  next pass sees the exporter as taken. This is the fact that `lease_lagging`
  refutes without `ReadYourWrites`.

`ListenConnectedProofs`, about `ConnectedSpec`
- `LocksAreCurrent`, `SectionsExclude`, `DialSendsToLiveQueue`: `HeldLockIsCurrent`,
  `Serialized` and `SendsToLiveQueue` for any number of calls. The inductive invariant
  `ConnectedInv` says that, once the first `Listen` has stored its lock, some `Listen` is
  alive and the count of the entry is the number of references held (`Counted`), so that
  nobody ever sees a count of zero. One lock then serves all, whoever holds it is alone
  with `listenQueues`, and the queue it has found there is open (`AllFit`).
  `listen_dead_queue` refutes the third property without the restriction.
- `NoTokenIsStranded`: the safety part of `AcceptedIsDelivered`. A token that is not
  delivered is in the channel of a `Listen` call that is still in its loop, or drains its
  channel on the way out (`AcceptedIsServed`). From `TokensAreKept`, and from the fact that
  a queue which is open and in the map has a `Listen` call that will still look at it.

`LeaseOutcomeProofs`
- `LeasesEndForAReason`: `Spec => EndsForAReason`, an action property. A status written
  from an old copy is refused, so the reason holds of the object itself. The inductive
  invariant `FailedHasEnded` (a lease that cannot be satisfied ends in the pass that finds
  it out) rules out that the failure of a lease ends it later, with an exporter.
- `HighestPriorityIsPicked`: `Spec => PicksHighestPriority`, from what the filters and the
  choice of `Reconcile` return.
- `TimesStayConsistent`: `Spec => TimesAreConsistent`, an action property, for any number of
  overlapping `UpdateLease` calls. `TimesInv` says that a call under way is about to write
  usable times, which agree or are those it has read, and that a begin, once stored, is
  never taken back: so a patch that leaves begin out cannot leave an end without one.
- `LeasingIsExclusiveUse`: `ReadYourWrites => (Spec => ImplementsExclusiveUse)`, the
  refinement of `ExclusiveUse`. From `ExclusiveInv` and the step lemmas above. The one
  new fact is `OneUse`: a step changes what at most one lease holds, also the deletion
  of an exporter that takes many leases with it, because only one was still in use.
  Then each kind of change is one abstract step (`TakeUse`, `GiveBackUse`, `RetireUse`)
  or none (`StutterUse`).

`ExporterRuntimeProofs`
- `RuntimeTypeCorrect`, `SessionsExclude`, `HooksRunInSession`, `HooksExclude`,
  `FinishedComesFromSlot`: `TypeOK`, `OneSession`, `HooksHaveASession`, `HooksAreSerial` and
  `FinishedOwnsSlot` for any number of leases. The inductive invariant `RuntimeInv` has
  four parts. A lease whose `handle_lease` runs has the slot (`HasSlot`). `LeaseFinished`
  is in the channel once, sent by the lease in the slot as its last act (`FinishedOnce`):
  without it the slot could be freed twice. Whatever is in the slot has a `handle_lease`
  that runs or has sent it (`SlotIsHeld`). `TasksFit` ties the tasks of one lease to its
  events: who may run which hook, which event keeps `handle_lease` from closing the
  session until then, and which task is there to set that event.
- `SlotNeverSticks`: the safety part of `EndedIsTornDown`, from `RuntimeInv`. `handle_lease`
  of the lease in the slot can go on, or the task that sets the event it waits for is at
  work, or its `LeaseFinished` is in the channel (`SlotIsAttended`). For every
  configuration, early ends and failed calls included.
- `AssignmentIsNotLost`, `LeaseIsServedOnce`: if a lease ends only after it was picked up
  (`~EndsEarly`), an assigned lease that the stream has told of is picked up, or named by
  the channel, or kept for when the slot is free (`AssignmentIsKept`, the safety part of
  `AssignedIsServed`); and one that was torn down is not opened again by a status that
  comes late or twice (`StaysGone`, an action property). The inductive invariant
  `KeptInv` is about the order of the channel. Statuses of leases picked up come first and
  name the current lease (`TrailingIsCurrent`), the assigned one comes last
  (`AssignedIsLast`), and while a lease waits for the slot the channel names no other
  (`PendingIsAssigned`), so that putting it back at the end of the channel does no harm.
  Without the condition the first of these fails (section 6).
- `IdleIsReported`: the safety part of `IdleIsAvailable`. Without a lease on either side,
  the last status stored or under way is `AVAILABLE` (`IdleSaysAvailable`). The condition
  `Sound` on configurations asks for a beforeLease hook if there are hooks, and for an
  afterLease hook that does not fail with `onFailure: endLease`; section 6 says why.
  `AvailableInv` adds that `AVAILABLE` has been reported as soon as a task of the lease in
  the slot is past its afterLease hook (`PastHook`). From then on `TasksFit` leaves no task
  that could report a hook or `LEASE_READY`.

`ExporterStatusProofs`
- `ReportsAreKept`: `Spec => []SteadyReportIsKept`, for any statuses and faults. A steady
  connection has seen a unit of time go by, in which everything older was applied. The
  inductive invariant says what follows: the stream before is over and `LastSeen` is
  recent in every copy a pass reads, so no pass touches the status (`SteadyIsQuiet`); a
  report that is the only call under way either carries its status or finds it stored
  (`ReportIsEnough`). The second alternative is why a report beside an abandoned call
  does not count: a status equal to the one read is left out of the patch, and the late
  call then has the last word.
- `SilentIsNoticed`: the safety part of `SilentGoesOffline` and `OnlineAgrees`. An exporter
  that is not shown offline has a pass under way or to come (`IsRechecked`): its cached copy
  is yet to change, it is queued, or its requeue is due. A pass asks for the requeue only
  if it found the exporter online. `LastPassSettles` says that one which does not
  leaves the exporter shown offline, unless the object has changed under it, in which case
  the change itself brings another pass.
- `StatusTypeCorrect`: `Spec => []TypeOK`.

`ExporterSetProofs`
- `PoolStaysWithinMax`: `ReadYourWrites => (Spec => []WithinMax)`. `CacheShowsAll` says that
  the cache shows every exporter of the pool, so the count a pass scales up from is not
  too low.
- `DisablesOncePerCooldown`: `Spec => OneDisablePerCooldown`, an action property, from
  `InMemory`: the time kept in memory is that of the last disabling since the restart.
- `SetSleepsSettled`: the safety part of `PoolSettles` and `DemandIsMet`, for any lag of the
  cache. Demand is what is marked Pending. A set that is neither queued nor to be requeued, and whose cache is up to
  date, has nothing to delete, grow or disable, and every enabled exporter has its pod
  (`QuietIsSettled`). The inductive `SleepsAtRest` covers the time before the cache is up to
  date: what it shows leaves nothing to do, or it shows something that is not true any
  more and never will be again, so that an event is still to come. `PoolAdvances` says why
  "never again": exporters are not enabled again and go from stage to stage only forward.
- `SetTypeCorrect`: `Spec => []TypeOK`.

`ComponentsProofs`, about the specifications of single components
- `ServerLeavesNoOrphan`: `NoOrphan` of `ExecServer`, for any number of calls. `ExecInv` says
  that a running child is registered or was signalled, unless its handler is between
  `spawn` and `register_child` or between being refused there and the kill, and that after the accept loop every registered one was
  signalled or is on the list `serve_with` has yet to go through.
- `RouterEndsCleanly`: `CleanEnd` of `RouterStream`, for any number of frames.
  `RouterMeets` says who forwards for whom, `RouterDelivers` counts the frames sent,
  under way and received.
- `ServerMindsChildren`: the safety part of `ChildIsReaped`, also from `ExecInv`. A child that
  has not been waited for has a handler that will, and a handler that waits has signalled
  the child or has a reader that will do so when the client goes (`ChildIsMinded`). Left
  out is the child whose `Started` could not be sent (section 6).
- `RouterPairsCalls`: the safety part of `AllReturn`, also from `RouterMeets`. A call that
  waits can still be found in `s.pending`, or was found by a call that cancels it; no
  entry outlives its call (`NobodyWaitsInVain`).
- `MonitorLosesNoWakeUp`: the safety part of `WaitersReturn` of `StatusMonitor`. A waiter's
  event has been set since it was captured, or the status is not one it waits for and the
  poll loop runs, or `stop()` was called (`WaiterIsUpToDate`). `MonitorInv` adds that an end
  of the loop sets the event in the same step.
- `WatchTellsLease`: the safety part of `LeaseRefIsTold` of `StatusWatch`. A working watch that
  has delivered its events has told the exporter of the stored lease
  (`ToldWhenDelivered`). `WatchInv` adds that the last event under way is the object as
  stored, and that what a response is compared with is what was told.
- `ClientReleasesLease`, `ClientNoticesEnd`: `ReleasedOnExit` and `EndIsNoticed` of
  `ClientLease`, for any durations, interval and latency. `ClientMonitors` bounds the
  monitor's next step by the end it knows and by the interval.

TLC has checked each inductive invariant on the instance of a run as well.

Only model-checked: the liveness properties of all modules, as fairness and `ENABLED` are
out of the prover's reach. Their safety parts are proved as said above, with these
exceptions. `ReleasedIsLabelled`, `EndedIsWithdrawn` and `AcquiresFreeExporter` of
`LeaseController` have none: its reconcilers may run at any time, so that there is no
queue or wake-up that could be forgotten, and all is in the fairness. `ShutdownReturns` of
`ExecServer` is about two threads that wait for nobody. Every safety and action property
of a passing run, and the refinement, is a theorem.

## 6. Where the code departs from what is said of it

- **A lock that has left the map** (`listen_dead_queue`). A releaser has decremented
  the count to zero and not yet deleted the entry. One acquirer raises the count to 1
  and will back out; a second raises it to 2 and keeps the mutex. The releaser then
  deletes the entry, so callers lock different mutexes, and a `Dial` sends to a queue
  that is closed. `listen_connected` shows that this needs the count to reach zero.
- **Two leases, one exporter** (`lease_lagging`). The list of active leases comes from
  the informer cache. If the cache does not show the previous assignment, the next
  pass makes the same one again.

The following have no run of their own. The models show them, and the properties that
are checked leave out these cases where their comments say so.

- **The wrong lease released** (`hooks.py:804`). After a failed beforeLease hook the
  task sleeps a second and releases the lease in the slot, which may be the next one;
  `exporter.py:728` speaks of "preventing retry from releasing a newly-assigned lease".
  `ReleasesOwnLease` with `Configs <- BeforeFails` shows it.
- **Out of service after a failed afterLease hook** (`exporter.py:763`). If the
  controller has ended the lease already, `_request_lease_release` returns before the
  only report of `AVAILABLE`, and the reconciler passes the exporter over from then on,
  though `hooks.md:210` says it "remains available". `IdleIsAvailable` with
  `Configs <- AfterFails` shows it. The same property fails for a configuration without
  a beforeLease hook, which reports `LEASE_READY` after `AVAILABLE` (`hooks.py:725`). For all
  other configurations `IdleIsReported` holds; `exporter_progress` has only these.
- **A lease replayed out of turn** (`exporter.py:1453`). `_on_lease_finished` puts the lease
  that waits for the slot at the end of the channel, behind statuses that came later.
  If leases end before they are picked up (`EndsEarly`), the lease may be over by then. It
  is opened all the same, and stays open until the stream has something new to say. With
  four leases the replayed status can also reach the loop while a newer, assigned lease
  waits for the slot, and take its place in `_pending_lease_status`: `AssignmentIsKept`
  fails, and with it `AssignedIsServed`. `exporter_progress` has `EndsEarly = FALSE`.
- **Connected and Offline** (`exporter_controller.go:232`). A pass that has read an old
  `LastSeen` marks the exporter Offline just after its new `Status` stream has cleared
  that. `LastSeen` is recent from then on, so every pass takes Offline for the
  exporter's own report, until it reports again or reconnects. An old exporter never
  reports; the comment at `controller_service.go:717` is about exactly these.
- **A report that says nothing new** (`controller_service.go:400`). See `ReportsAreKept` in
  section 5: a `ReportStatus` that equals the status it has read does not overrule one that
  was given up on and is applied in between.
- **A watch that never starts** (`controller_service.go:740`). The watchdog compares
  with the first event; a watch that stops before it is not noticed.
- **Pools over a lagging cache**. Without `ReadYourWrites` two passes can create one
  exporter each for the same gap and exceed `maxReplicas`. A drained exporter is
  deleted although a lease has it, if its `LeaseRef` is not in the cache yet
  (`reconciler.go:654`). With `InPlaceReuse` the exporter of a finished pod stays and
  counts as a replica (`reconciler.go:705`), so that a full pool may have none to offer.
- **An idle survivor at the router** (`router_support.go:45`). When one peer is lost the
  other's call ends with its next frame, and not before.
- **A pool scaled to zero**. JEP-0014 says of one that it "consumes no resources until a
  lease is requested" (`JEP-0014-virtual-scalable-exporters.md:277`) and "provisions on
  demand only" (`:1489`). But the lease reconciler gives a lease up in its first pass if no
  enabled exporter matches (`lease_controller.go:309`), and the set counts only leases
  that are marked Pending and have not ended (`reconciler.go:1401`). So an empty pool grows
  only if exporters outside the set match as well; the test at `reconciler_test.go:1201`
  makes its Pending lease by hand. In the same way a Pending lease is given up by a pass
  that comes while the last exporter is being replaced. `DemandIsMet` allows for both.
- **Children of jumpstarter-exec**. `server.rs:325` says "do not leave an untracked child
  running". One between `spawn` and `register_child` when
  `serve_with` returns is orphaned (`server.rs:324`), and so is one that was refused
  there and not yet killed (`server.rs:330`); one whose `Started` cannot be sent
  stays registered with nobody to wait for it (`server.rs:344`).
- **Waiters of the status monitor**. `stop()` wakes none of them
  (`status_monitor.py:482`). `wait_for_status` returns `False` when `GetStatus` turns out
  to be missing, although the status counts as `LEASE_READY` from then on;
  `wait_for_any_of` looks once more.
- **Leases a client leaves behind**. One that was created for a client cancelled before
  it had the name (`lease.py:134`), and one that replaces a lease named by `JMP_LEASE`
  with another selector (`lease.py:203`), which is kept on exit like the named one.
- **Times of a lease**. Two overlapping `UpdateLease` calls can leave a duration that
  disagrees with the window. The stored window and duration may differ by less than a
  second, so that an update which gives some of the fields is refused as conflicting, and so
  is one that sends the begin of a started lease again with its fraction of a second. An
  update of end and duration changes the stored `Spec.BeginTime` of a lease that has
  started. Spot access is refused on the first candidate before leased exporters are
  removed.

## 7. What is not modelled

- `ExporterRuntime`: an immediate stop in the middle of a lease, exceptions that end
  the task group, the release through `ReportStatus` used with old controllers,
  reports lost after their retries, the safety timeout of `_cleanup_after_lease`,
  leases without a client, standalone mode.
- `LeaseController`: events, metrics, tags and the length of requeue delays.
  Policies and the target of a request do not change during a behaviour.
- `ListenQueue`: the checks of `Dial` and `Listen` before they take the lock, which
  read the API server and change nothing here.
- `ExporterStatus`: devices, labels, the Registered condition and messages; the release
  through `ReportStatus` (`controller_service.go:440`), which old exporters use.
- `ExporterSet`: conditions, counters and events of the set's status; the content of
  pods and secrets; changes of the spec; clients that withdraw a lease which waits; the
  ready filter of the lease reconciler; a lag between what is written of a lease and what
  the set's reconciler sees of it.
- `ClientLease`: `_dial_with_retry` (a retry loop over one call with a deadline),
  `serve_unix`, leases without an end time, the second attempt after a NoExporter
  condition (`lease.py:267`), which this controller never sets. `StatusMonitor`: callbacks and intervals.
  `ExecServer`: input, output, the signals a client sends, the client program.
- Most of the repository has no control state shared between actors, and is left out
  for that reason: some fifty driver packages and the command line tools (I/O with
  devices and external programs), the operator (contents of manifests), login, the
  dashboard, telemetry, metrics, configuration, generated protocol code,
  authentication and the transport of bytes. The map therefore covers a small part of
  the repository's lines. `PROJECT.json` gives the reason for each part.

## 8. Plan

In this order:

1. A composition of `ExporterStatus` with the lease reconciler's filters: how long an
   exporter can be passed over for a status that is out of date.
2. A work queue for the reconcilers of `LeaseController`, as `ExporterSet` has one. The
   safety parts of its liveness properties would then say that every write a reconcile
   depends on queues it.
3. `StaysGone` for leases that end before they are picked up. TLC finds no violation with
   two leases; the proof needs an order of the channel that survives the replay.

No module declares a `RECURSIVE` operator, so that all can be proved about.
