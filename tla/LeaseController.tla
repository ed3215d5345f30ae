--------------------------- MODULE LeaseController ---------------------------
(***************************************************************************)
(* The life of Lease objects: the calls that create, update and release    *)
(* them, the lease reconciler that gives each an exporter and ends it, and *)
(* the exporter reconciler that publishes Exporter.Status.LeaseRef.        *)
(*                                                                         *)
(* The Kubernetes API server is the variable leases.  The reconcilers      *)
(* read a cache of it, filled by watches, that may lag behind; the gRPC    *)
(* services read the API server itself (cmd/main.go:269).  A resource      *)
(* version is kept only as the fact that decides a conflict: current[l]    *)
(* says that the cached copy of l has the version the server has.          *)
(***************************************************************************)
EXTENDS LeaseTime, FiniteSets

CONSTANTS Leases, Exporters, Clients,
          NoLease, NoExporter, NoClient, Idle,
          Rank,           \* the alphabetical position of an exporter's name
          Requests,       \* what clients ask for
          UpdateRequests, \* the UpdateLease requests they send
          Updaters,       \* concurrent UpdateLease calls
          Policies,       \* the rules of the ExporterAccessPolicy objects
          ExporterStates, \* what the cache may show of an exporter
          MaxTime,        \* bound on the clock
          MaxRestarts,    \* bound on the restarts of the controller
          ReadYourWrites  \* the reconciler's writes reach its cache at once

NoMaximum == NoTime

ASSUME NamesAssumption ==
    /\ NoLease \notin Leases /\ NoExporter \notin Exporters
    /\ NoClient \notin Clients
    /\ Rank \in [Exporters -> Int]
    /\ \A e, f \in Exporters : Rank[e] = Rank[f] => e = f

(* A request has a selector or names an exporter (validateLeaseTarget and  *)
(* the validation rule of LeaseSpec).  An empty selector matches all.      *)
ASSUME RequestsAssumption ==
    Requests \subseteq
      {q \in [call : {"CreateLease", "RequestLease"}, client : Clients,
              empty : BOOLEAN, selector : SUBSET Exporters,
              exporter : Exporters \cup {NoExporter}, allowDisabled : BOOLEAN,
              time : TimeFields] : ~q.empty \/ q.exporter # NoExporter}
ASSUME UpdateRequestsAssumption ==
    UpdateRequests \subseteq [time : TimeFields, client : Clients \cup {NoClient}]
ASSUME PoliciesAssumption ==
    \A p \in Policies : /\ p.exporters \subseteq Exporters
                        /\ p.clients \subseteq Clients
                        /\ p.priority \in Int /\ p.spot \in BOOLEAN
                        /\ p.maximum \in Times
ASSUME ExporterStatesAssumption ==
    ExporterStates \subseteq [exists : BOOLEAN, enabled : BOOLEAN,
                              online : BOOLEAN, ready : BOOLEAN]
ASSUME BoundsAssumption == /\ MaxTime \in Nat /\ MaxRestarts \in Nat
                           /\ ReadYourWrites \in BOOLEAN

VARIABLES leases,     \* the Lease objects on the API server
          cache,      \* the manager's cached copies of them
          current,    \* whether a cached copy is up to date
          exporters,  \* the cached Exporter objects
          leaseRef,   \* Exporter.Status.LeaseRef on the API server
          refView,    \* and in the cache
          updating,   \* the lease whose metadata Reconcile has yet to write
          updates,    \* the UpdateLease calls between Get and Patch
          now,
          restarts

vars == <<leases, cache, current, exporters, leaseRef, refView, updating,
          updates, now, restarts>>

Reasons == {"", "Invalid", "ExporterNotFound", "SelectorMismatch",
            "ExporterDisabled", "AllDisabled", "NoAccess", "SpotAccess"}
PendingReasons == {"", "Offline", "NotAvailable", "NotReady"}

(* Spec (begin to release), status (ref to ready) and metadata of a Lease. *)
(* failed is the reason of an Unsatisfiable or Invalid condition, ready    *)
(* the Ready condition, bt Status.BeginTime.                               *)
LeaseFields ==
    [phase : {"none", "live", "deleted"}, request : Requests,
     client : Clients, begin : Times, end : Times, dur : Times,
     release : BOOLEAN, ref : Exporters \cup {NoExporter}, spot : BOOLEAN,
     bt : Times, ended : BOOLEAN, pending : PendingReasons,
     failed : Reasons, ready : {"", "True", "False"},
     label : BOOLEAN, owned : BOOLEAN]
Lease == {r \in LeaseFields : (IsSet(r.bt) <=> r.ref # NoExporter) /\ Whole(r.bt) = r.bt}

(* The fields of Lease.Spec an UpdateLease call may write.                 *)
Mutable == [begin : Times, end : Times, dur : Times, client : Clients]
MutableOf(r) ==
    [begin |-> r.begin, end |-> r.end, dur |-> r.dur, client |-> r.client]
TimesOf(r) == [begin |-> r.begin, end |-> r.end, dur |-> r.dur]

TypeOK ==
    /\ leases \in [Leases -> Lease]
    /\ cache \in [Leases -> Lease]
    /\ current \in [Leases -> BOOLEAN]
    /\ exporters \in [Exporters -> ExporterStates]
    /\ leaseRef \in [Exporters -> Leases \cup {NoLease}]
    /\ refView \in [Exporters -> Leases \cup {NoLease}]
    /\ updating \in Leases \cup {NoLease}
    /\ updates \in [Updaters -> {Idle} \cup
                      [lease : Leases, read : Mutable, new : Mutable]]
    /\ now \in 0..MaxTime
    /\ restarts \in 0..MaxRestarts

(* The object that the request q will create (LeaseFromProtobuf, and the   *)
(* literal in RequestLease).  It is not on the server yet.                 *)
Fresh(q, t) ==
    [phase |-> "none", request |-> q, client |-> q.client,
     begin |-> t.begin, end |-> t.end, dur |-> t.dur, release |-> FALSE,
     ref |-> NoExporter, spot |-> FALSE, bt |-> NoTime, ended |-> FALSE,
     pending |-> "", failed |-> "", ready |-> "",
     label |-> FALSE, owned |-> FALSE]
NewLease(q) ==
    Fresh(q, IF q.call = "CreateLease"
               THEN Stored(ReconcileLeaseTimeFields(q.time))
               ELSE [begin |-> NoTime, end |-> NoTime, dur |-> q.time.dur])

Init ==
    /\ leases \in [Leases -> {NewLease(q) : q \in Requests}]
    /\ cache = leases
    /\ current = [l \in Leases |-> TRUE]
    /\ exporters \in [Exporters -> ExporterStates]
    /\ leaseRef = [e \in Exporters |-> NoLease]
    /\ refView = leaseRef
    /\ updating = NoLease
    /\ updates = [u \in Updaters |-> Idle]
    /\ now = 0
    /\ restarts = 0

(* A write of lease l that is not the reconciler's: the cached copy is old *)
(* now, and a metadata Update in flight for l will end in a conflict,      *)
(* which only requeues l.                                                  *)
Write(l, new) ==
    /\ leases' = [leases EXCEPT ![l] = new]
    /\ current' = [current EXCEPT ![l] = FALSE]
    /\ updating' = IF updating = l THEN NoLease ELSE updating

Live(l) == leases[l].phase = "live"

-----------------------------------------------------------------------------
(* The calls of clients and exporters.                                     *)

(* ClientService.CreateLease refuses inconsistent times;                   *)
(* ControllerService.RequestLease takes any duration, or none.             *)
CreateLease(l) ==
    /\ leases[l].phase = "none"
    /\ leases[l].request.call = "CreateLease" => Accepted(leases[l].request.time)
    /\ Write(l, [leases[l] EXCEPT !.phase = "live"])
    /\ UNCHANGED <<cache, exporters, leaseRef, refView, updates, now, restarts>>

(* DeleteLease and ReleaseLease, by the client or by the exporter that     *)
(* holds the lease: a merge patch that sets Spec.Release.                  *)
ReleaseLease(l) ==
    /\ Live(l) /\ ~leases[l].release
    /\ Write(l, [leases[l] EXCEPT !.release = TRUE])
    /\ UNCHANGED <<cache, exporters, leaseRef, refView, updates, now, restarts>>

(* Mutant: the times given are checked, not what they make of the lease's. *)
UpdatedUnchecked(r, u) ==
    LET t == [f \in {"begin", "end", "dur"} |-> IF IsSet(u.time[f]) THEN u.time[f] ELSE r[f]]
        new == Stored(ReconcileLeaseTimeFields(t))
    IN  [ok |-> Accepted(u.time) /\ u.client = NoClient,
         new |-> [begin |-> new.begin, end |-> new.end, dur |-> new.dur, client |-> r.client]]

(* What UpdateLease makes of the lease r it has read, as it is serialised  *)
(* for the patch.                                                          *)
Updated(r, u) ==
    LET desired == ReconcileLeaseTimeFields(u.time)
        t == [begin |-> IF IsSet(u.time.begin) THEN desired.begin ELSE r.begin,
              end |-> IF IsSet(u.time.end) THEN desired.end ELSE r.end,
              dur |-> IF IsSet(u.time.dur) THEN desired.dur ELSE r.dur]
        timed == IsSet(u.time.begin) \/ IsSet(u.time.end) \/ IsSet(u.time.dur)
        c == IF u.client = NoClient THEN r.client ELSE u.client
        new == IF timed THEN Stored(ReconcileLeaseTimeFields(t)) ELSE t
    IN  [ok |-> /\ timed => Accepted(u.time) /\ Accepted(t)
                /\ IsSet(u.time.begin) /\ r.ref # NoExporter => r.begin = desired.begin
                /\ u.client # NoClient => r.ref # NoExporter /\ ~r.ended,
         new |-> [begin |-> new.begin, end |-> new.end, dur |-> new.dur, client |-> c]]

(* UpdateLease up to its last check: Get, the checks, the new fields.      *)
UpdateLease(c, l, u) ==
    /\ updates[c] = Idle
    /\ Live(l)
    /\ Updated(leases[l], u).ok
    /\ updates' = [updates EXCEPT ![c] =
                     [lease |-> l, read |-> MutableOf(leases[l]),
                      new |-> Updated(leases[l], u).new]]
    /\ UNCHANGED <<leases, cache, current, exporters, leaseRef, refView,
                   updating, now, restarts>>

(* The merge patch carries the fields that differ from those read, and no  *)
(* resource version: it overwrites whatever was written in between.        *)
Patched(r, read, new) ==
    [r EXCEPT !.begin = IF new.begin = read.begin THEN @ ELSE new.begin,
              !.end = IF new.end = read.end THEN @ ELSE new.end,
              !.dur = IF new.dur = read.dur THEN @ ELSE new.dur,
              !.client = IF new.client = read.client THEN @ ELSE new.client]

UpdateLeasePatch(c) ==
    /\ updates[c] # Idle
    /\ LET l == updates[c].lease
           new == Patched(leases[l], updates[c].read, updates[c].new)
       IN  IF ~Live(l) \/ new = leases[l]
             THEN UNCHANGED <<leases, current, updating>>
             ELSE Write(l, new)
    /\ updates' = [updates EXCEPT ![c] = Idle]
    /\ UNCHANGED <<cache, exporters, leaseRef, refView, now, restarts>>

-----------------------------------------------------------------------------
(* LeaseReconciler.Reconcile.                                              *)

(* MatchingActiveLeases: the cached leases without the "ended" label.      *)
ActiveLeases == {l \in Leases : cache[l].phase = "live" /\ ~cache[l].label}

(* Mutant: a lease counts once its exporter owns it.                       *)
OwnedOn(e) == {l \in ActiveLeases : cache[l].owned /\ cache[l].ref = e}

ActiveOn(e) == {l \in ActiveLeases : cache[l].ref = e}

(* attachExistingLeases: the last lease of the list that names e, and the  *)
(* list has no particular order.                                           *)
Attachments ==
    {x \in [Exporters -> Leases \cup {NoLease}] :
       \A e \in Exporters : IF ActiveOn(e) = {} THEN x[e] = NoLease
                                                ELSE x[e] \in ActiveOn(e)}

Matches(q, e) == q.empty \/ e \in q.selector
ListMatchingExporters(q) ==
    {e \in Exporters : exporters[e].exists /\ Matches(q, e)}

(* Why the target of request q cannot be satisfied, whatever the policies. *)
TargetFailure(q) ==
    LET e == q.exporter
        listed == ListMatchingExporters(q)
    IN  IF q.empty /\ e = NoExporter THEN "Invalid"
        ELSE IF e # NoExporter
               THEN IF ~exporters[e].exists THEN "ExporterNotFound"
                    ELSE IF ~Matches(q, e) THEN "SelectorMismatch"
                    ELSE IF ~exporters[e].enabled /\ ~q.allowDisabled
                           THEN "ExporterDisabled" ELSE ""
               ELSE IF listed # {} /\ \A f \in listed : ~exporters[f].enabled
                      THEN "AllDisabled" ELSE ""

MatchingExporters(q) ==
    IF q.exporter # NoExporter
      THEN {q.exporter}
      ELSE {e \in ListMatchingExporters(q) : exporters[e].enabled}

(* The duration a policy's MaximumDuration is compared with.               *)
RequestedDuration(r) ==
    IF IsSet(r.dur) THEN r.dur
    ELSE IF IsSet(r.begin) /\ IsSet(r.end) THEN r.end - r.begin ELSE 0

attachMatchingPolicies(r, es) ==
    IF Policies = {}
      THEN {[exporter |-> e, priority |-> 0, spot |-> FALSE] : e \in es}
      ELSE {[exporter |-> a[1], priority |-> a[2].priority, spot |-> a[2].spot] :
              a \in {b \in es \X Policies :
                       /\ b[1] \in b[2].exporters
                       /\ r.client \in b[2].clients
                       /\ IsSet(b[2].maximum) => RequestedDuration(r) <= b[2].maximum}}

(* Mutant: the lowest priority first.                                      *)
OrderedAscending(a, b, x) ==
    LET leased(c) == x[c.exporter] # NoLease
    IN  IF leased(a) # leased(b) THEN leased(b)
        ELSE IF a.spot # b.spot THEN b.spot
        ELSE IF a.priority # b.priority THEN a.priority < b.priority
        ELSE Rank[a.exporter] < Rank[b.exporter]

(* orderApprovedExporters: not leased, not spot, higher priority, name.    *)
OrderedBefore(a, b, x) ==
    LET leased(c) == x[c.exporter] # NoLease
    IN  IF leased(a) # leased(b) THEN leased(b)
        ELSE IF a.spot # b.spot THEN b.spot
        ELSE IF a.priority # b.priority THEN a.priority > b.priority
        ELSE Rank[a.exporter] < Rank[b.exporter]
First(S, x) == {a \in S : \A b \in S \ {a} : OrderedBefore(a, b, x)}

filterOutOfflineExporters(S) == {a \in S : exporters[a.exporter].online}
filterOutNotReadyExporters(S) == {a \in S : exporters[a.exporter].ready}
filterOutLeasedExporters(S, x) ==
    {a \in S : x[a.exporter] = NoLease \/ (~a.spot /\ cache[x[a.exporter]].spot)}

(* The part of reconcileStatusExporterRef for a lease without an exporter  *)
(* whose begin time has come: the set of what r may become.                *)
Assign(r, x) ==
    LET approved == attachMatchingPolicies(r, MatchingExporters(r.request))
        online == filterOutOfflineExporters(approved)
        available == filterOutLeasedExporters(online, x)
        ready == filterOutNotReadyExporters(available)
        Unsatisfiable(reason) == {[r EXCEPT !.failed = reason]}
        Pending(reason) == {[r EXCEPT !.pending = reason]}
    IN  IF TargetFailure(r.request) # "" THEN Unsatisfiable(TargetFailure(r.request))
        ELSE IF approved = {} THEN Unsatisfiable("NoAccess")
        ELSE IF online = {} THEN Pending("Offline")
        ELSE IF \E a \in First(online, x) : a.spot THEN Unsatisfiable("SpotAccess")
        ELSE IF available = {} THEN Pending("NotAvailable")
        ELSE IF ready = {} THEN Pending("NotReady")
        ELSE IF \E a \in First(ready, x) : x[a.exporter] # NoLease THEN Pending("NotAvailable")
        ELSE {[r EXCEPT !.ref = a.exporter, !.spot = a.spot] : a \in First(ready, x)}

(* Mutant: a lease found pending is not tried again.                       *)
TryOnce(r, x) ==
    IF r.ended \/ r.ref # NoExporter \/ r.pending # "" THEN {r} ELSE Assign(r, x)

(* Mutant: a lease that has an exporter is given one again.                *)
AssignAgain(r, x) ==
    IF r.ended \/ (IsSet(r.begin) /\ r.begin > now) THEN {r} ELSE Assign(r, x)

reconcileStatusExporterRef(r, x) ==
    IF r.ended \/ r.ref # NoExporter \/ (IsSet(r.begin) /\ r.begin > now)
      THEN {r} ELSE Assign(r, x)

reconcileStatusBeginEndTimes(r) ==
    IF r.bt = NoTime /\ r.ref # NoExporter
      THEN [r EXCEPT !.bt = now, !.ready = "True"] ELSE r

(* Without an end and a duration the expiration is the zero time.          *)
Expired(r) ==
    /\ IsSet(r.bt)
    /\ IF IsSet(r.end) THEN r.end < now
       ELSE IF IsSet(r.dur)
              THEN (IF IsSet(r.begin) THEN r.begin ELSE r.bt) + r.dur < now
              ELSE TRUE

reconcileStatusEnded(r) ==
    IF r.ended THEN r
    ELSE IF r.failed # "" THEN [r EXCEPT !.ended = TRUE]
    ELSE IF r.release \/ Expired(r)
           THEN [r EXCEPT !.ready = "False", !.ended = TRUE]
           ELSE r

(* A pass compares exact times, and stores Status.BeginTime in whole       *)
(* seconds.                                                                *)
Reconciled(r, x) ==
    {[reconcileStatusEnded(reconcileStatusBeginEndTimes(n)) EXCEPT !.bt = Whole(@)] :
       n \in reconcileStatusExporterRef(r, x)}

(* Status().Update of the lease read from the cache.                       *)
StatusUpdate(l) ==
    /\ \E x \in Attachments : \E new \in Reconciled(cache[l], x) :
         /\ leases' = [leases EXCEPT ![l] = new]
         /\ cache' = IF ReadYourWrites THEN [cache EXCEPT ![l] = new] ELSE cache
         /\ current' = [current EXCEPT ![l] = ReadYourWrites \/ new = cache[l]]
    /\ updating' = l
    /\ UNCHANGED <<exporters, leaseRef, refView, updates, now, restarts>>

(* Mutant: a status patch in place of the update, so no conflict.          *)
PatchStatus(l) ==
    /\ updating = NoLease
    /\ l \in ActiveLeases /\ Live(l)
    /\ \E x \in Attachments : \E r \in Reconciled(cache[l], x) :
         leases' = [leases EXCEPT ![l].ref = r.ref, ![l].bt = r.bt, ![l].ended = r.ended]
    /\ current' = [current EXCEPT ![l] = FALSE]
    /\ updating' = l
    /\ UNCHANGED <<cache, exporters, leaseRef, refView, updates, now, restarts>>

(* Mutant: leases whose status has ended are skipped.                      *)
SkipEnded(l) ==
    /\ updating = NoLease
    /\ l \in ActiveLeases /\ ~cache[l].ended
    /\ current[l]
    /\ StatusUpdate(l)

(* Reconcile up to Status().Update.  One worker: the previous pass must be *)
(* over.  If the copy read is not current the update is refused with a     *)
(* conflict and the lease requeued, which changes nothing.                 *)
ReconcileStatus(l) ==
    /\ updating = NoLease
    /\ l \in ActiveLeases
    /\ current[l]
    /\ StatusUpdate(l)

(* Mutant: every reconciled lease is labelled.                             *)
LabelAlways(l) ==
    /\ updating = l
    /\ updating' = NoLease
    /\ leases' = [leases EXCEPT ![l].label = TRUE]
    /\ current' = [current EXCEPT ![l] = FALSE]
    /\ UNCHANGED <<cache, exporters, leaseRef, refView, updates, now, restarts>>

(* The rest of Reconcile: the "ended" label and the owner reference.  An   *)
(* exporter that is gone is an error, returned before the Update.          *)
ReconcileMetadata(l) ==
    /\ updating = l
    /\ updating' = NoLease
    /\ LET r == leases[l]
           new == [r EXCEPT !.label = @ \/ r.ended,
                            !.owned = @ \/ r.ref # NoExporter]
       IN  IF r.ref # NoExporter /\ ~exporters[r.ref].exists
             THEN UNCHANGED <<leases, cache, current>>
             ELSE /\ leases' = [leases EXCEPT ![l] = new]
                  /\ cache' = IF ReadYourWrites THEN [cache EXCEPT ![l] = new] ELSE cache
                  /\ current' = [current EXCEPT ![l] = IF new = r THEN @ ELSE ReadYourWrites]
    /\ UNCHANGED <<exporters, leaseRef, refView, updates, now, restarts>>

-----------------------------------------------------------------------------
(* Mutant: any active lease that has an exporter.                          *)
AnyLeaseRef(e) ==
    /\ exporters[e].exists
    /\ \E l \in ActiveLeases : leaseRef' = [leaseRef EXCEPT ![e] = l]
    /\ UNCHANGED <<leases, cache, current, exporters, refView, updating,
                   updates, now, restarts>>

(* Mutant: LeaseRef is set and never reset.                                *)
KeepLeaseRef(e) ==
    /\ \E l \in ActiveOn(e) : ~cache[l].ended /\ leaseRef' = [leaseRef EXCEPT ![e] = l]
    /\ UNCHANGED <<leases, cache, current, exporters, refView, updating,
                   updates, now, restarts>>

(* ExporterReconciler.reconcileStatusLeaseRef and the Status().Patch: the  *)
(* last active lease listed that has not ended; the patch is empty when    *)
(* that is what the cached exporter says already.                          *)
ReconcileLeaseRef(e) ==
    /\ exporters[e].exists
    /\ LET held == {l \in ActiveOn(e) : ~cache[l].ended}
       IN  \E r \in IF held = {} THEN {NoLease} ELSE held :
             leaseRef' = [leaseRef EXCEPT ![e] = IF r = refView[e] THEN @ ELSE r]
    /\ UNCHANGED <<leases, cache, current, exporters, refView, updating,
                   updates, now, restarts>>

-----------------------------------------------------------------------------
(* The environment.                                                        *)

(* A watch event brings the cached lease, or exporter, up to date.         *)
SyncLease(l) ==
    /\ ~current[l]
    /\ cache' = [cache EXCEPT ![l] = leases[l]]
    /\ current' = [current EXCEPT ![l] = TRUE]
    /\ UNCHANGED <<leases, exporters, leaseRef, refView, updating, updates,
                   now, restarts>>

SyncExporter(e) ==
    /\ refView[e] # leaseRef[e]
    /\ refView' = [refView EXCEPT ![e] = leaseRef[e]]
    /\ UNCHANGED <<leases, cache, current, exporters, leaseRef, updating,
                   updates, now, restarts>>

(* An exporter connects, disconnects, reports a status, is enabled or      *)
(* disabled, is registered or deleted.  With the Exporter object go its    *)
(* status and, by garbage collection, the leases it owns.                  *)
ExporterChange(e) ==
    /\ \E s \in ExporterStates \ {exporters[e]} :
         /\ exporters' = [exporters EXCEPT ![e] = s]
         /\ LET collected == {l \in Leases : /\ ~s.exists /\ Live(l)
                                             /\ leases[l].owned /\ leases[l].ref = e}
            IN  /\ leases' = [l \in Leases |->
                     IF l \in collected THEN [leases[l] EXCEPT !.phase = "deleted"]
                                        ELSE leases[l]]
                /\ current' = [l \in Leases |-> current[l] /\ l \notin collected]
                /\ updating' = IF updating \in collected THEN NoLease ELSE updating
         /\ leaseRef' = IF s.exists THEN leaseRef ELSE [leaseRef EXCEPT ![e] = NoLease]
         /\ refView' = IF s.exists THEN refView ELSE [refView EXCEPT ![e] = NoLease]
    /\ UNCHANGED <<cache, updates, now, restarts>>

Tick ==
    /\ now < MaxTime
    /\ now' = now + 1
    /\ UNCHANGED <<leases, cache, current, exporters, leaseRef, refView,
                   updating, updates, restarts>>

(* The controller process restarts: calls in flight are lost, the cache is *)
(* listed anew before any reconciler runs.                                 *)
Restart ==
    /\ restarts < MaxRestarts
    /\ restarts' = restarts + 1
    /\ cache' = leases
    /\ current' = [l \in Leases |-> TRUE]
    /\ refView' = leaseRef
    /\ updating' = NoLease
    /\ updates' = [u \in Updaters |-> Idle]
    /\ UNCHANGED <<leases, exporters, leaseRef, now>>

Next ==
    \/ \E l \in Leases : CreateLease(l) \/ ReleaseLease(l) \/ SyncLease(l)
                         \/ ReconcileStatus(l) \/ ReconcileMetadata(l)
    \/ \E c \in Updaters, l \in Leases, u \in UpdateRequests : UpdateLease(c, l, u)
    \/ \E c \in Updaters : UpdateLeasePatch(c)
    \/ \E e \in Exporters : ReconcileLeaseRef(e) \/ SyncExporter(e) \/ ExporterChange(e)
    \/ Tick
    \/ Restart

Spec == Init /\ [][Next]_vars

(* The work queues and watches of controller-runtime: an event is          *)
(* delivered, a lease that is not finished is reconciled again (its own    *)
(* events, RequeueAfter, the retry of a conflict or an error), an exporter *)
(* is reconciled when a lease it owns changes.                             *)
Fairness ==
    /\ \A l \in Leases : /\ WF_vars(SyncLease(l))
                         /\ SF_vars(ReconcileStatus(l))
                         /\ WF_vars(ReconcileMetadata(l))
    /\ \A e \in Exporters : WF_vars(SyncExporter(e)) /\ WF_vars(ReconcileLeaseRef(e))

FairSpec == Spec /\ Fairness

-----------------------------------------------------------------------------
(* Properties.                                                             *)

Active(l) == Live(l) /\ leases[l].ref # NoExporter /\ ~leases[l].ended

(* Two leases that have not ended never have the same exporter: the lease  *)
(* reconciler gives a lease only an exporter that no active lease names.   *)
ExclusiveLease ==
    \A k, l \in Leases : Active(k) /\ Active(l) /\ leases[k].ref = leases[l].ref => k = l

(* A lease leaves the list of active leases only when it has ended: the    *)
(* label Reconcile writes in a second update is never ahead of the status. *)
LabelledIsEnded ==
    \A l \in Leases : leases[l].label => leases[l].ended

(* An exporter announces only a lease that was given to it, although the   *)
(* exporter reconciler works from an old copy of the leases.               *)
LeaseRefWasAssigned ==
    \A e \in Exporters : leaseRef[e] # NoLease => leases[leaseRef[e]].ref = e

(* No write takes an assignment back: the exporter of a lease never        *)
(* changes, an ended lease stays ended, and one not ended keeps its begin. *)
AssignmentIsFinal ==
    [][\A l \in Leases :
         /\ leases[l].ref # NoExporter => leases'[l].ref = leases[l].ref
         /\ leases[l].bt # NoTime => leases'[l].bt = leases[l].bt
         /\ leases[l].ended => leases'[l].ended]_vars

(* A lease with an exporter is ended only by its release or after its      *)
(* expiration, as the server has them at that moment.                      *)
EndsForAReason ==
    [][\A l \in Leases :
         Active(l) /\ leases'[l].ended => leases[l].release \/ Expired(leases[l])]_vars

(* A lease that is to end leaves the list of active leases, through lost   *)
(* updates, conflicts and restarts, unless its exporter is deleted first.  *)
Released(l) == Live(l) /\ (leases[l].release \/ Expired(leases[l]))
ReleasedIsLabelled ==
    \A l \in Leases : Released(l) ~>
      \/ leases[l].label \/ leases[l].phase = "deleted"
      \/ leases[l].ref # NoExporter /\ ~exporters[leases[l].ref].exists

(* An ended lease is withdrawn from the exporter's status.                 *)
EndedIsWithdrawn ==
    \A l \in Leases, e \in Exporters :
      leases[l].ended /\ leases[l].ref = e ~> leaseRef[e] # l

(* A free exporter that is online, ready and within the reach of lease l   *)
(* without spot access.                                                    *)
Suitable(l, e) ==
    /\ exporters[e].online /\ exporters[e].ready
    /\ \E a \in attachMatchingPolicies(leases[l], MatchingExporters(leases[l].request)) :
         a.exporter = e /\ ~a.spot
    /\ \A k \in Leases : Live(k) /\ leases[k].ref = e => leases[k].label
Waiting(l) ==
    /\ Live(l) /\ ~leases[l].ended /\ leases[l].ref = NoExporter
    /\ IsSet(leases[l].begin) => leases[l].begin <= now

(* No lease waits for ever while an exporter it could have stays free:     *)
(* Reconcile runs again when an exporter or a lease has changed.           *)
AcquiresFreeExporter ==
    \A l \in Leases : ~<>[](Waiting(l) /\ \E e \in Exporters : Suitable(l, e))

(* Of the exporters that are free, online, ready and approved without spot *)
(* access, the reconciler gives the one of highest priority.               *)
PicksHighestPriority ==
    [][\A l \in Leases : leases[l].ref = NoExporter /\ leases'[l].ref # NoExporter =>
         LET approved == attachMatchingPolicies(cache[l], MatchingExporters(cache[l].request))
             free == {a \in approved : /\ exporters[a.exporter].online
                                       /\ exporters[a.exporter].ready
                                       /\ ~a.spot /\ ActiveOn(a.exporter) = {}}
         IN  \E a \in approved : /\ a.exporter = leases'[l].ref
                                 /\ \A b \in free : b.priority <= a.priority]_vars

(* The stored times of a lease made by CreateLease always have a positive  *)
(* duration and no end without a begin, whatever calls of UpdateLease      *)
(* overlap.  No step makes window and duration disagree by a second or     *)
(* more, except the patch of a call of UpdateLease that had read other     *)
(* fields than those it overwrites.                                        *)
Overlaps(l) ==
    \E c \in Updaters : /\ updates[c] # Idle /\ updates'[c] = Idle
                        /\ updates[c].lease = l /\ updates[c].read # MutableOf(leases[l])
TimesAreConsistent ==
    [][\A l \in Leases :
         leases'[l].phase = "live" /\ leases'[l].request.call = "CreateLease" =>
           /\ Usable(TimesOf(leases'[l]))
           /\ \/ Agree(TimesOf(leases'[l]))
              \/ Live(l) /\ ~Agree(TimesOf(leases[l]))
              \/ Overlaps(l)]_vars

-----------------------------------------------------------------------------
(* The leases that hold each exporter, and those that are over.            *)
Holders == [e \in Exporters |-> {l \in Leases : Active(l) /\ leases[l].ref = e}]
Spent == {l \in Leases : leases[l].ended \/ leases[l].phase = "deleted"}

Use == INSTANCE ExclusiveUse WITH
    Resources <- Exporters, Users <- Leases, holders <- Holders, spent <- Spent

(* The calls, the reconciler passes and the garbage collection implement   *)
(* exclusive use: each step gives one free exporter to one lease that has  *)
(* never had one, takes one exporter back for good, ends a lease without   *)
(* an exporter, or leaves all that alone.                                  *)
ImplementsExclusiveUse == Use!Spec

=============================================================================
