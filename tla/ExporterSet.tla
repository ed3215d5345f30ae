----------------------------- MODULE ExporterSet -----------------------------
(***************************************************************************)
(* The pool of virtual exporters of one ExporterSet and the passes of      *)
(* ExporterSetReconciler that keep it at its size                          *)
(* (controller/internal/exporterset/reconciler.go): draining, replacement  *)
(* of finished pods, scaling up and down, creation of pods.                *)
(*                                                                         *)
(* A pass decides everything from one reading of the manager's cache and   *)
(* then writes.  It is one action here: what other actors do between its   *)
(* reading and its writes is what the cache does not show yet.  Around it  *)
(* are the exporter reconciler (credential, LeaseRef), the lease           *)
(* reconciler (assignment, or the end of a lease that no exporter          *)
(* matches), the clients, the pods, and time.  What is written of a lease  *)
(* shows in the cache at once, and a client waits for as long as it takes. *)
(*                                                                         *)
(* The conditions and counters of the set's status, which nothing reads    *)
(* back, and the content of pods and secrets are left out.                 *)
(***************************************************************************)
EXTENDS Integers, FiniteSets, FiniteSetsExt

CONSTANTS
    Slots,                \* numbers for the exporters; one is used again
                          \* when its last exporter is gone for good
    Specs,                \* specs the set may have
    Others,               \* for each of them: exporters outside the set match
                          \* its leases, too; none of them is ever free
    Cooldown,             \* scaleDownCooldown, in units of time
    MaxLeases,            \* bound: leases requested
    MaxFaults,            \* bound: failed passes, failed pods, restarts
    ReadYourWrites,       \* the cache shows a pass what earlier ones wrote
    None

ASSUME SetAssumption ==
    /\ Slots \subseteq Nat /\ IsFiniteSet(Slots)
    /\ Specs \subseteq [minReplicas : Nat, maxReplicas : Nat, minAvailableReplicas : Nat,
                       recycleStrategy : {"ExitAndReplace", "InPlaceReuse"}]
    /\ Others \in [Specs -> BOOLEAN]
    /\ MaxLeases \in Nat /\ MaxFaults \in Nat
    /\ Cooldown \in Nat \ {0}
    /\ ReadYourWrites \in BOOLEAN

VARIABLES
    spec,        \* the set's spec, which nobody changes here
    pool,        \* the stored exporters with their pods
    view,        \* the same in the manager's cache
    held,        \* exporters that a lease names in its status
    leaving,     \* exporters that exit, as their lease is over
    fresh,       \* leases the lease reconciler has not looked at yet
    pending,     \* leases that have no exporter and are marked Pending
    requested,   \* leases requested so far
    since,       \* age of the surplus-since annotation
    lastAction,  \* age of LastScaleDownAction, kept in memory
    queued,      \* the set is in the work queue
    timer,       \* units until its requeue
    faults,
    calm         \* units since the last disabling by this process, if any

vars == <<spec, pool, view, held, leaving, fresh, pending, requested, since, lastAction, queued,
          timer, faults, calm>>
clock == <<since, lastAction, timer, calm>>
leases == <<spec, held, leaving, fresh, pending, requested>>

Fault == faults < MaxFaults /\ faults' = faults + 1

(* An exporter and its pod: "new" has no credential yet, "ready" has one   *)
(* and no pod, "pod" and "done" have a pod that runs or has finished.      *)
Exporter == [enabled : BOOLEAN, online : BOOLEAN, leased : BOOLEAN,
             stage : {"new", "ready", "pod", "done"}]
New == [enabled |-> TRUE, online |-> FALSE, leased |-> FALSE, stage |-> "new"]

ASSUME NoneAssumption == None \notin Exporter /\ None \notin 0 .. Cooldown

Ages == {None} \cup 0 .. Cooldown
Delays == {None} \cup 1 .. Cooldown

(* The types of the variables; a requeue is at least one unit away.        *)
TypeOK ==
    /\ pool \in [Slots -> Exporter \cup {None}]
    /\ view \in [Slots -> Exporter \cup {None}]
    /\ spec \in Specs
    /\ held \subseteq Slots /\ leaving \subseteq Slots
    /\ fresh \in 0 .. MaxLeases /\ pending \in 0 .. MaxLeases /\ requested \in 0 .. MaxLeases
    /\ since \in Ages /\ lastAction \in Ages /\ calm \in Ages
    /\ timer \in Delays
    /\ queued \in BOOLEAN
    /\ faults \in 0 .. MaxFaults

Init ==
    /\ spec \in Specs
    /\ pool = [s \in Slots |-> None]
    /\ view = pool
    /\ held = {} /\ leaving = {} /\ fresh = 0 /\ pending = 0 /\ requested = 0
    /\ since = None /\ lastAction = None /\ calm = None
    /\ queued = TRUE /\ timer = None
    /\ faults = 0

-----------------------------------------------------------------------------
(* Counts                                                                  *)

Owned(p) == {s \in Slots : p[s] # None}
Available(p) == {s \in Owned(p) : p[s].online /\ p[s].enabled /\ ~p[s].leased}
Leased(p) == {s \in Owned(p) : p[s].leased}

computePoolState(p) ==
    [replicas |-> Cardinality(Owned(p)), available |-> Cardinality(Available(p)),
     leased |-> Cardinality(Leased(p))]

(* Mutant: one too many.                                                   *)
AtMaxLate(n) == spec.maxReplicas > 0 /\ n > spec.maxReplicas

atMaxReplicas(n) == spec.maxReplicas > 0 /\ n >= spec.maxReplicas

Drained(p) == {s \in Owned(p) : ~p[s].enabled /\ ~p[s].leased}
Terminal(p) ==
    IF spec.recycleStrategy = "InPlaceReuse" THEN {}
    ELSE {s \in Owned(p) : ~p[s].leased /\ p[s].stage = "done"}

(* Mutant: only the floor and the warm buffer.                             *)
GrowsWithoutDemand(st) ==
    /\ ~atMaxReplicas(st.replicas)
    /\ \/ st.replicas < spec.minReplicas
       \/ st.available < spec.minAvailableReplicas /\ st.replicas - st.leased < spec.minAvailableReplicas

(* The three rules of reconcileScaleUp.                                    *)
Grows(st) ==
    LET potentiallyAvailable == st.replicas - st.leased
    IN  /\ ~atMaxReplicas(st.replicas)
        /\ \/ st.replicas < spec.minReplicas
           \/ st.available < spec.minAvailableReplicas /\ potentiallyAvailable < spec.minAvailableReplicas
           \/ pending > 0 /\ st.available = 0

Surplus(st) == st.replicas > spec.minReplicas /\ st.available > spec.minAvailableReplicas

-----------------------------------------------------------------------------
(* The writes of a pass                                                    *)

(* The pass ends with p stored.  With ReadYourWrites the cache shows at    *)
(* once what it wrote, which queues the set again, as an error does.       *)
Done(p, failed) ==
    /\ queued
    /\ pool' = p
    /\ view' = IF ReadYourWrites
               THEN [s \in Slots |-> IF p[s] # pool[s] THEN p[s] ELSE view[s]]
               ELSE view
    /\ queued' = (failed \/ view' # view)

Without(D) == [s \in Slots |-> IF s \in D THEN None ELSE pool[s]]

(* The name of a new exporter is one that neither the API server nor the   *)
(* cache has.                                                              *)
Free == {s \in Slots : pool[s] = None /\ view[s] = None /\ s \notin held \cup leaving}

(* ensureExporterPods, for the exporters the pass has listed: a pod for    *)
(* each enabled one with a credential and none.                            *)
WithPods(p) ==
    [s \in Slots |-> IF /\ p[s] # None /\ p[s].stage = "ready"
                        /\ view[s] # None /\ view[s].enabled /\ view[s].stage = "ready"
                     THEN [p[s] EXCEPT !.stage = "pod"] ELSE p[s]]
Waiting == \E s \in Owned(view) : view[s].enabled /\ view[s].stage = "new"

(* RequeueAfter: the earlier of the requeues is kept.                      *)
Requeue(after) ==
    timer' = IF after = None \/ (timer # None /\ timer <= after) THEN timer ELSE after

-----------------------------------------------------------------------------
(* The passes, by what they find                                           *)

(* cleanupDisabledExporters, and cleanupTerminalExporters when that has    *)
(* found none; nothing else in such a pass.  A failed one has deleted some *)
(* of them.                                                                *)
Doomed == IF Drained(view) # {} THEN Drained(view) ELSE Terminal(view)

Cleanup ==
    /\ Doomed # {}
    /\ Done(Without(Doomed), FALSE)
    /\ UNCHANGED <<leases, clock, faults>>

CleanupFails ==
    /\ \E D \in SUBSET Doomed : D # Doomed /\ Done(Without(D), TRUE)
    /\ Fault
    /\ UNCHANGED <<leases, clock>>

scaleUp ==
    /\ Doomed = {}
    /\ Grows(computePoolState(view))
    /\ \E s \in Free : s = Min(Free) /\ Done(WithPods([pool EXCEPT ![s] = New]), FALSE)
    /\ Requeue(IF Waiting THEN 1 ELSE None)
    /\ UNCHANGED <<leases, since, lastAction, calm, faults>>

(* The exporter is created; the pods, or the status of the set, are not    *)
(* written.                                                                *)
scaleUpFails ==
    /\ Doomed = {}
    /\ Grows(computePoolState(view))
    /\ \E s \in Free : s = Min(Free) /\ Done([pool EXCEPT ![s] = New], TRUE)
    /\ Fault
    /\ UNCHANGED <<leases, clock>>

(* A pass that neither deletes nor creates an exporter: what it does with  *)
(* the annotation and when it comes back.                                  *)
Steady(newSince, after) ==
    /\ Doomed = {}
    /\ ~Grows(computePoolState(view))
    /\ Done(WithPods(pool), FALSE)
    /\ since' = newSince
    /\ Requeue(IF after = None /\ Waiting THEN 1 ELSE after)
    /\ UNCHANGED <<leases, lastAction, calm, faults>>

clearSurplusAnnotation ==
    /\ ~Surplus(computePoolState(view))
    /\ Steady(None, None)

(* Mutant: no guard in memory, only the annotation.                        *)
NotCoolingDown == FALSE

CoolingDown == lastAction # None /\ lastAction < Cooldown

StillCooling ==
    /\ Surplus(computePoolState(view))
    /\ CoolingDown
    /\ Steady(since, Cooldown - lastAction)

(* Mutant: no requeue when the surplus is first seen.                      *)
SetSurplusAndForget ==
    /\ Surplus(computePoolState(view))
    /\ ~CoolingDown
    /\ since = None
    /\ Steady(0, None)

setSurplusAnnotation ==
    /\ Surplus(computePoolState(view))
    /\ ~CoolingDown
    /\ since = None
    /\ Steady(0, Cooldown)

StillSurplus ==
    /\ Surplus(computePoolState(view))
    /\ ~CoolingDown
    /\ since # None /\ since < Cooldown
    /\ Steady(since, Cooldown - since)

(* Online exporters first.                                                 *)
Candidates ==
    LET idle == {s \in Owned(view) : view[s].enabled /\ ~view[s].leased}
        up == {s \in idle : view[s].online}
    IN  IF up # {} THEN up ELSE idle

MayDisable ==
    /\ Surplus(computePoolState(view))
    /\ ~CoolingDown
    /\ since = Cooldown

(* The update carries the resource version that was read.  The annotation  *)
(* is renewed unless the set has changed, and then the pass is repeated.   *)
Disable(s) ==
    /\ Doomed = {}
    /\ ~Grows(computePoolState(view))
    /\ MayDisable
    /\ s \in Candidates
    /\ pool[s] = view[s]
    /\ lastAction' = 0 /\ calm' = 0
    /\ LET p == WithPods([pool EXCEPT ![s].enabled = FALSE])
       IN  \/ since' = 0 /\ Done(p, FALSE) /\ UNCHANGED faults
           \/ Fault /\ Done(p, TRUE) /\ UNCHANGED since
    /\ Requeue(Cooldown)
    /\ UNCHANGED leases

(* The exporter has changed since it was read: the pass fails.             *)
DisableConflict(s) ==
    /\ queued
    /\ Doomed = {}
    /\ ~Grows(computePoolState(view))
    /\ MayDisable
    /\ s \in Candidates
    /\ pool[s] # view[s]
    /\ UNCHANGED vars

Reconcile ==
    \/ Cleanup \/ CleanupFails \/ scaleUp \/ scaleUpFails
    \/ clearSurplusAnnotation \/ StillCooling \/ setSurplusAnnotation \/ StillSurplus
    \/ \E s \in Slots : Disable(s) \/ DisableConflict(s)

-----------------------------------------------------------------------------
(* The other actors                                                        *)

Change(s, e) ==
    /\ pool' = [pool EXCEPT ![s] = e]
    /\ UNCHANGED <<view, clock, queued>>

(* The exporter reconciler: the credential, the Online condition of a      *)
(* running pod, LeaseRef.                                                  *)
Credential(s) ==
    /\ pool[s] # None /\ pool[s].stage = "new"
    /\ Change(s, [pool[s] EXCEPT !.stage = "ready"])
    /\ UNCHANGED <<leases, faults>>

ComesOnline(s) ==
    /\ pool[s] # None /\ ~pool[s].online /\ pool[s].stage = "pod"
    /\ Change(s, [pool[s] EXCEPT !.online = TRUE])
    /\ UNCHANGED <<leases, faults>>

GoesOffline(s) ==
    /\ pool[s] # None /\ pool[s].online /\ pool[s].stage = "done"
    /\ Change(s, [pool[s] EXCEPT !.online = FALSE])
    /\ UNCHANGED <<leases, faults>>

SetLeaseRef(s) ==
    /\ pool[s] # None /\ pool[s].leased # (s \in held)
    /\ Change(s, [pool[s] EXCEPT !.leased = s \in held])
    /\ UNCHANGED <<leases, faults>>

PodFails(s) ==
    /\ pool[s] # None /\ pool[s].stage = "pod"
    /\ Change(s, [pool[s] EXCEPT !.stage = "done"])
    /\ Fault
    /\ UNCHANGED leases

(* A lease is requested.  The lease reconciler, which has a cache of its   *)
(* own, gives it an exporter, marks it Pending, or gives it up; its passes *)
(* see an exporter as it is stored or as it is in view.                    *)
RequestLease ==
    /\ requested < MaxLeases
    /\ requested' = requested + 1 /\ fresh' = fresh + 1
    /\ queued' = TRUE
    /\ UNCHANGED <<spec, pool, view, held, leaving, pending, clock, faults>>

filterOutDisabledExporters(p) == {s \in Owned(p) : p[s].enabled}

(* A matching exporter is there, and offline, leased, or not yet ready for *)
(* another lease, which this module does not tell from being ready.        *)
SetStatusPending ==
    /\ Others[spec] \/ filterOutDisabledExporters(pool) \cup filterOutDisabledExporters(view) # {}
    /\ fresh > 0
    /\ fresh' = fresh - 1 /\ pending' = pending + 1
    /\ queued' = TRUE
    /\ UNCHANGED <<spec, pool, view, held, leaving, requested, clock, faults>>

NoLongerWaits ==
    \/ fresh > 0 /\ fresh' = fresh - 1 /\ UNCHANGED pending
    \/ pending > 0 /\ pending' = pending - 1 /\ UNCHANGED fresh

(* No exporter matches, or all are disabled: the lease ends in the same    *)
(* pass, also when it was Pending before.  The set is not queued for it.   *)
SetStatusUnsatisfiable ==
    /\ ~Others[spec]
    /\ filterOutDisabledExporters(pool) \cap filterOutDisabledExporters(view) = {}
    /\ NoLongerWaits
    /\ UNCHANGED <<spec, pool, view, held, leaving, requested, clock, queued, faults>>

(* An exporter that is about to exit may still be given.                   *)
Assign(s) ==
    /\ s \in (Available(pool) \cup Available(view)) \ held
    /\ NoLongerWaits
    /\ held' = held \cup {s}
    /\ queued' = TRUE
    /\ UNCHANGED <<spec, pool, view, leaving, requested, clock, faults>>

(* With ExitAndReplace the exporter exits when it has torn the session     *)
(* down.                                                                   *)
EndLease(s) ==
    /\ s \in held
    /\ held' = held \ {s}
    /\ leaving' = IF spec.recycleStrategy = "ExitAndReplace" /\ pool[s] # None
                  THEN leaving \cup {s} ELSE leaving
    /\ UNCHANGED <<spec, pool, view, fresh, pending, requested, clock, queued, faults>>

Exits(s) ==
    /\ s \in leaving
    /\ leaving' = leaving \ {s}
    /\ pool' = IF pool[s] # None THEN [pool EXCEPT ![s].stage = "done"] ELSE pool
    /\ UNCHANGED <<spec, view, held, fresh, pending, requested, clock, queued, faults>>

(* The cache takes over the object and its pod, which queues the set.      *)
Sync(s) ==
    /\ view[s] # pool[s]
    /\ view' = [view EXCEPT ![s] = pool[s]]
    /\ queued' = TRUE
    /\ UNCHANGED <<pool, leases, clock, faults>>

Restart ==
    /\ lastAction' = None /\ calm' = None
    /\ timer' = None /\ queued' = TRUE
    /\ view' = pool
    /\ Fault
    /\ UNCHANGED <<pool, leases, since>>

Older(age) == IF age = None \/ age = Cooldown THEN age ELSE age + 1

Tick ==
    /\ timer # None \/ calm \notin {None, Cooldown}
    /\ since' = Older(since) /\ lastAction' = Older(lastAction) /\ calm' = Older(calm)
    /\ timer' = IF timer \in {None, 1} THEN None ELSE timer - 1
    /\ queued' = (queued \/ timer = 1)
    /\ UNCHANGED <<pool, view, leases, faults>>

Progress(s) ==
    Sync(s) \/ Credential(s) \/ ComesOnline(s) \/ GoesOffline(s) \/ SetLeaseRef(s) \/ Exits(s)

Next ==
    \/ Reconcile
    \/ RequestLease \/ SetStatusPending \/ SetStatusUnsatisfiable
    \/ Restart \/ Tick
    \/ \E s \in Slots : Progress(s) \/ PodFails(s) \/ Assign(s) \/ EndLease(s)

Spec == Init /\ [][Next]_vars

(* Passes run while the set is queued and time passes; caches catch up,    *)
(* the exporter reconciler does its part and pods start and finish; a      *)
(* lease is looked at, and a pending one not always passed over.  Leases   *)
(* need not end.                                                           *)
Fairness ==
    /\ WF_vars(Reconcile) /\ WF_vars(Tick)
    /\ WF_vars(\E s \in Slots : Progress(s))
    /\ WF_vars(SetStatusPending \/ SetStatusUnsatisfiable)
    /\ SF_vars(\E s \in Slots : Assign(s))
FairSpec == Spec /\ Fairness

-----------------------------------------------------------------------------
(* Properties                                                              *)

(* Scale-up never brings the pool over maxReplicas, whatever the order of  *)
(* events, passes that fail after creating an exporter, and restarts, as   *)
(* long as the cache shows a pass what earlier ones created (JEP-0014:     *)
(* "Never exceed maxReplicas"; atMaxReplicas, maxScaleUp).                 *)
WithinMax == spec.maxReplicas > 0 => Cardinality(Owned(pool)) <= spec.maxReplicas

(* Between two restarts reconcileScaleDown disables at most one exporter   *)
(* per cooldown, also when the renewal of the annotation is lost to a      *)
(* conflict and the pass is repeated at once.                              *)
OneDisablePerCooldown ==
    [][(\E s \in Slots : /\ pool[s] # None /\ pool'[s] # None
                         /\ pool[s].enabled /\ ~pool'[s].enabled)
          => calm \in {None, Cooldown}]_vars

(* Once requests and faults are over, the pool returns to its steady state *)
(* and stays there: the floor and the warm buffer are filled unless the    *)
(* pool is at its maximum, the surplus is gone, and no drained or finished *)
(* exporter is left.  With InPlaceReuse a pod that has finished is kept    *)
(* and counts as a replica for ever, so that case is excepted.             *)
PoolSettles ==
    <>[](\/ spec.recycleStrategy = "InPlaceReuse" /\ \E s \in Owned(pool) : pool[s].stage = "done"
         \/ /\ \/ Cardinality(Available(pool)) >= spec.minAvailableReplicas
               \/ atMaxReplicas(Cardinality(Owned(pool)))
            /\ Cardinality(Owned(pool)) >= spec.minReplicas
            /\ ~Surplus(computePoolState(pool))
            /\ Drained(pool) = {} /\ Terminal(pool) = {})

(* A lease that waits for an exporter makes the pool grow until it gets    *)
(* one, or leases hold as many as the set may have; the same exception.    *)
(* But a pass of the lease reconciler that finds no enabled exporter, of   *)
(* the set or of others, gives the lease up: without others a pool without *)
(* exporters does not grow on demand, and a lease may be given up while    *)
(* the last exporter is being replaced.                                    *)
DemandIsMet ==
    fresh + pending > 0 ~>
        \/ fresh + pending = 0
        \/ atMaxReplicas(Cardinality(held))
        \/ spec.recycleStrategy = "InPlaceReuse" /\ \E s \in Owned(pool) : pool[s].stage = "done"
=============================================================================
