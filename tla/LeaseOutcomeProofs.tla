------------------------- MODULE LeaseOutcomeProofs --------------------------
(***************************************************************************)
(* More proofs about LeaseController, for every value of its constants:    *)
(* why leases end, which exporter they get, that their times stay          *)
(* consistent, and that all of it implements ExclusiveUse.                 *)
(***************************************************************************)
EXTENDS LeaseControllerProofs

(* The fields of a lease r that no reconciler writes.                      *)
SameSpec(r, n) ==
    /\ n.begin = r.begin /\ n.end = r.end /\ n.dur = r.dur /\ n.client = r.client
    /\ n.request = r.request
SameOutcome(r, n) == n.ref = r.ref /\ n.ended = r.ended /\ n.failed = r.failed

(* Every way the stored lease l changes in a step: a call or the garbage   *)
(* collector moves its phase, a call sets Spec.Release or Spec's times, or *)
(* the reconciler writes its status or its metadata.                       *)
Moved(l) ==
    /\ \/ /\ leases[l].phase = "none" /\ leases'[l].phase = "live"
          /\ leases[l].request.call = "CreateLease" => Accepted(leases[l].request.time)
       \/ leases[l].phase = "live" /\ leases'[l].phase = "deleted"
       \/ leases'[l].phase = leases[l].phase
    /\ SameSpec(leases[l], leases'[l]) /\ SameOutcome(leases[l], leases'[l])
Changed(l) ==
    \E c \in Updaters :
      /\ updates[c] # Idle /\ updates[c].lease = l /\ leases[l].phase = "live"
      /\ leases'[l] = Patched(leases[l], updates[c].read, updates[c].new)
      /\ updates'[c] = Idle
Passed(l) ==
    /\ leases[l].phase = "live" /\ cache[l] = leases[l]
    /\ \E x \in Attachments : leases'[l] \in Reconciled(leases[l], x)

LEMMA CreatedKeeps ==
    ASSUME NEW r \in Lease, NEW p \in {"live", "deleted"}
    PROVE  SameSpec(r, [r EXCEPT !.phase = p]) /\ SameOutcome(r, [r EXCEPT !.phase = p])
BY Zenon DEF Lease, LeaseFields, SameSpec, SameOutcome

LEMMA ReleasedKeeps ==
    ASSUME NEW r \in Lease
    PROVE  SameSpec(r, [r EXCEPT !.release = TRUE]) /\ SameOutcome(r, [r EXCEPT !.release = TRUE])
BY Zenon DEF Lease, LeaseFields, SameSpec, SameOutcome

LEMMA LabelledKeeps ==
    ASSUME NEW r \in Lease
    PROVE  SameSpec(r, Labelled(r)) /\ SameOutcome(r, Labelled(r))
BY Zenon DEF Lease, LeaseFields, SameSpec, SameOutcome, Labelled

LEMMA PatchedKeeps ==
    ASSUME NEW r \in Lease, NEW read \in Mutable, NEW new \in Mutable
    PROVE  /\ SameOutcome(r, Patched(r, read, new))
           /\ Patched(r, read, new).phase = r.phase
           /\ Patched(r, read, new).request = r.request
           /\ read = MutableOf(r) => MutableOf(Patched(r, read, new)) = new
<1> DEFINE n == Patched(r, read, new)
           b == IF new.begin = read.begin THEN r.begin ELSE new.begin
           e == IF new.end = read.end THEN r.end ELSE new.end
           d == IF new.dur = read.dur THEN r.dur ELSE new.dur
           c == IF new.client = read.client THEN r.client ELSE new.client
<1>1. r \in LeaseFields
  BY Zenon DEF Lease
<1>2. n = [r EXCEPT !.begin = b, !.end = e, !.dur = d, !.client = c]
  BY Zenon DEF Patched
<1>3. read = MutableOf(r) => b = new.begin /\ e = new.end /\ d = new.dur /\ c = new.client
  BY DEF MutableOf
<1> HIDE DEF b, e, d, c, n
<1>4. /\ n.ref = r.ref /\ n.ended = r.ended /\ n.failed = r.failed
      /\ n.phase = r.phase /\ n.request = r.request
  BY <1>1, <1>2, Zenon DEF LeaseFields
<1>5. n.begin = b /\ n.end = e /\ n.dur = d /\ n.client = c
  BY <1>1, <1>2, Zenon DEF LeaseFields
<1>6. read = MutableOf(r) => MutableOf(n) = new
  BY <1>3, <1>5, Zenon DEF MutableOf, Mutable
<1> QED BY <1>4, <1>6, Zenon DEF n, SameOutcome

LEMMA NextWrites ==
    ASSUME Inv, [Next]_vars, NEW l \in Leases
    PROVE  leases'[l] = leases[l] \/ Moved(l) \/ Changed(l) \/ Passed(l)
<1>0. leases[l] \in Lease
  BY Zenon DEF Inv, TypeOK
<1>1. ASSUME NEW k \in Leases, NEW new, leases' = [leases EXCEPT ![k] = new]
      PROVE  leases'[l] = leases[l] \/ (k = l /\ leases'[l] = new)
  BY <1>1, Zenon DEF Inv, TypeOK
<1>2. ASSUME NEW k \in Leases, CreateLease(k) PROVE leases'[l] = leases[l] \/ Moved(l)
  <2>1. \/ leases'[l] = leases[l]
        \/ k = l /\ leases'[l] = [leases[l] EXCEPT !.phase = "live"]
    BY <1>1, <1>2, Zenon DEF CreateLease, Write
  <2> QED
    BY <1>0, <1>2, <2>1, CreatedKeeps, CreatedType, Zenon DEF CreateLease, Moved
<1>3. ASSUME NEW k \in Leases, ReleaseLease(k) PROVE leases'[l] = leases[l] \/ Moved(l)
  <2>1. \/ leases'[l] = leases[l]
        \/ k = l /\ leases'[l] = [leases[l] EXCEPT !.release = TRUE]
    BY <1>1, <1>3, Zenon DEF ReleaseLease, Write
  <2> QED
    BY <1>0, <1>3, <2>1, ReleasedKeeps, ReleasedType, Zenon DEF ReleaseLease, Live, Moved
<1>4. ASSUME NEW c \in Updaters, UpdateLeasePatch(c) PROVE leases'[l] = leases[l] \/ Changed(l)
  <2> DEFINE k == updates[c].lease
  <2>1. k \in Leases /\ updates'[c] = Idle
    BY <1>4, Zenon DEF UpdateLeasePatch, Inv, TypeOK
  <2>2. \/ leases' = leases
        \/ /\ Live(k)
           /\ leases' = [leases EXCEPT ![k] = Patched(leases[k], updates[c].read, updates[c].new)]
    BY <1>4, Zenon DEF UpdateLeasePatch, Write
  <2>3. updates[c] # Idle
    BY <1>4, Zenon DEF UpdateLeasePatch
  <2> HIDE DEF k
  <2>4. \/ leases'[l] = leases[l]
        \/ /\ k = l /\ leases[l].phase = "live"
           /\ leases'[l] = Patched(leases[l], updates[c].read, updates[c].new)
    BY <1>1, <2>1, <2>2, Zenon DEF Live
  <2> QED
    BY <2>1, <2>3, <2>4, Zenon DEF Changed, k
<1>5. ASSUME NEW k \in Leases, ReconcileStatus(k) PROVE leases'[l] = leases[l] \/ Passed(l)
  <2>1. PICK x \in Attachments : \E n \in Reconciled(cache[k], x) : leases' = [leases EXCEPT ![k] = n]
    BY <1>5, Zenon DEF ReconcileStatus, StatusUpdate
  <2>2. PICK n \in Reconciled(cache[k], x) : leases' = [leases EXCEPT ![k] = n]
    BY <2>1, Zenon
  <2>3. cache[k] = leases[k] /\ leases[k].phase = "live"
    BY <1>5, Zenon DEF ReconcileStatus, ActiveLeases, Inv, CurrentIsEqual
  <2>4. leases'[l] = leases[l] \/ (k = l /\ leases'[l] = n)
    BY <1>1, <2>2, Zenon
  <2> QED
    BY <2>2, <2>3, <2>4, Zenon DEF Passed
<1>6. ASSUME NEW k \in Leases, ReconcileMetadata(k) PROVE leases'[l] = leases[l] \/ Moved(l)
  <2>1. leases' = leases \/ leases' = [leases EXCEPT ![k] = Labelled(leases[k])]
    BY <1>6, Zenon DEF ReconcileMetadata, Labelled
  <2>2. leases'[l] = leases[l] \/ (k = l /\ leases'[l] = Labelled(leases[l]))
    BY <1>1, <2>1, Zenon
  <2> QED
    BY <1>0, <2>2, LabelledKeeps, LabelledType, Zenon DEF Moved
<1>7. ASSUME NEW e \in Exporters, ExporterChange(e) PROVE leases'[l] = leases[l] \/ Moved(l)
  <2>1. \/ leases'[l] = leases[l]
        \/ leases[l].phase = "live" /\ leases'[l] = [leases[l] EXCEPT !.phase = "deleted"]
    BY <1>7, Zenon DEF ExporterChange, Live
  <2> QED
    BY <1>0, <2>1, CreatedKeeps, CreatedType, Zenon DEF Moved
<1>8. ASSUME \/ \E k \in Leases : SyncLease(k)
             \/ \E c \in Updaters, k \in Leases, u \in UpdateRequests : UpdateLease(c, k, u)
             \/ \E e \in Exporters : ReconcileLeaseRef(e) \/ SyncExporter(e)
             \/ Tick \/ Restart \/ UNCHANGED vars
      PROVE  leases'[l] = leases[l]
  BY <1>8, Zenon DEF SyncLease, UpdateLease, ReconcileLeaseRef, SyncExporter, Tick, Restart, vars
<1> QED
  BY <1>2, <1>3, <1>4, <1>5, <1>6, <1>7, <1>8, Zenon DEF Next

(* The two steps of Reconcile that a lease in them is carried through.     *)
LEMMA ExporterRefShape ==
    ASSUME NEW r \in Lease, NEW x \in Attached, NEW a \in reconcileStatusExporterRef(r, x)
    PROVE  a \in LeaseFields /\ SameSpec(r, a) /\ a.phase = r.phase
           /\ a.ended = r.ended /\ a.bt = r.bt
<1>1. r \in LeaseFields /\ r.request \in Requests
  BY Zenon DEF Lease, LeaseFields
<1>2. CASE a = r
  BY <1>1, <1>2, Zenon DEF SameSpec
<1>3. CASE a \in Assign(r, x)
  <2>1. CASE \E f \in Reasons : a = [r EXCEPT !.failed = f]
    BY <1>1, <2>1, ZenonT(40) DEF LeaseFields, SameSpec
  <2>2. CASE \E p \in PendingReasons : a = [r EXCEPT !.pending = p]
    BY <1>1, <2>2, ZenonT(40) DEF LeaseFields, SameSpec
  <2>3. CASE \E e \in Exporters, s \in BOOLEAN : a = [r EXCEPT !.ref = e, !.spot = s]
    <3>1. PICK e \in Exporters, s \in BOOLEAN : a = [r EXCEPT !.ref = e, !.spot = s]
      BY <2>3, Zenon
    <3>2. a \in LeaseFields
      BY <1>1, <3>1, Zenon DEF LeaseFields
    <3>3. SameSpec(r, a) /\ a.phase = r.phase /\ a.ended = r.ended /\ a.bt = r.bt
      BY <1>1, <3>1, Zenon DEF LeaseFields, SameSpec
    <3> QED BY <3>2, <3>3, Zenon
  <2>4. AssignOutcome(r, x, a)
    BY <1>1, <1>3, AssignShape, Zenon
  <2> QED BY <2>1, <2>2, <2>3, <2>4, Zenon DEF AssignOutcome
<1> QED BY <1>2, <1>3, Zenon DEF reconcileStatusExporterRef

LEMMA BeginEndShape ==
    ASSUME NEW a \in LeaseFields, now \in Int
    PROVE  LET b == reconcileStatusBeginEndTimes(a)
           IN  /\ b \in LeaseFields /\ SameSpec(a, b) /\ b.phase = a.phase
               /\ b.ref = a.ref /\ b.ended = a.ended /\ b.failed = a.failed
               /\ IsSet(a.bt) => b = a
<1> DEFINE b == reconcileStatusBeginEndTimes(a)
<1>1. CASE a.bt = NoTime /\ a.ref # NoExporter
  <2>1. b = [a EXCEPT !.bt = now, !.ready = "True"]
    BY <1>1, Zenon DEF reconcileStatusBeginEndTimes
  <2> HIDE DEF b
  <2>2. b \in LeaseFields
    BY <2>1, Zenon DEF LeaseFields, Times
  <2>3. SameSpec(a, b) /\ b.phase = a.phase /\ b.ref = a.ref /\ b.ended = a.ended /\ b.failed = a.failed
    BY <2>1, Zenon DEF LeaseFields, SameSpec
  <2> QED BY <1>1, <2>2, <2>3, Zenon DEF IsSet, b
<1>2. CASE ~(a.bt = NoTime /\ a.ref # NoExporter)
  BY <1>2, Zenon DEF reconcileStatusBeginEndTimes, SameSpec
<1> QED BY <1>1, <1>2, Zenon

LEMMA EndedShape ==
    ASSUME NEW b \in LeaseFields
    PROVE  LET n == reconcileStatusEnded(b)
           IN  /\ n \in LeaseFields
               /\ SameSpec(b, n) /\ n.phase = b.phase /\ n.ref = b.ref /\ n.failed = b.failed
               /\ n.failed # "" => n.ended
               /\ n.ended => b.ended \/ b.failed # "" \/ b.release \/ Expired(b)
<1> DEFINE n == reconcileStatusEnded(b)
<1>1. \/ n = b /\ (b.ended \/ b.failed = "")
      \/ n = [b EXCEPT !.ended = TRUE] /\ b.failed # ""
      \/ n = [b EXCEPT !.ready = "False", !.ended = TRUE] /\ (b.release \/ Expired(b))
  BY Zenon DEF reconcileStatusEnded
<1> HIDE DEF n
<1>2. SameSpec(b, n) /\ n.phase = b.phase /\ n.ref = b.ref /\ n.failed = b.failed
  BY <1>1, ZenonT(40) DEF LeaseFields, SameSpec
<1>3. /\ n \in LeaseFields
      /\ \/ n = b /\ (b.ended \/ b.failed = "")
         \/ n.ended
  BY <1>1, ZenonT(40) DEF LeaseFields
<1>4. n.failed # "" => n.ended
  BY <1>2, <1>3, Zenon
<1>5. n.ended => b.ended \/ b.failed # "" \/ b.release \/ Expired(b)
  BY <1>1, Zenon
<1> QED BY <1>2, <1>3, <1>4, <1>5, Zenon DEF n

(* What is written is that, with Status.BeginTime in whole seconds.        *)
LEMMA WrittenShape ==
    ASSUME NEW d \in LeaseFields
    PROVE  LET n == [d EXCEPT !.bt = Whole(@)]
           IN  /\ SameSpec(d, n) /\ n.phase = d.phase /\ n.ref = d.ref
               /\ n.failed = d.failed /\ n.ended = d.ended
BY ZenonT(40) DEF LeaseFields, SameSpec

(* A pass leaves the spec alone, ends a lease that cannot be satisfied,    *)
(* and ends one that has an exporter only for its release or expiration.   *)
LEMMA PassShape ==
    ASSUME NEW r \in Lease, NEW x \in Attached, now \in Int, NEW n \in Reconciled(r, x)
    PROVE  /\ SameSpec(r, n) /\ n.phase = r.phase
           /\ n.failed # "" => n.ended
           /\ r.ref # NoExporter /\ ~r.ended /\ r.failed = "" /\ n.ended =>
                r.release \/ Expired(r)
<1>1. PICK a \in reconcileStatusExporterRef(r, x) :
        n = [reconcileStatusEnded(reconcileStatusBeginEndTimes(a)) EXCEPT !.bt = Whole(@)]
  BY Zenon DEF Reconciled
<1> DEFINE b == reconcileStatusBeginEndTimes(a)
           d == reconcileStatusEnded(b)
<1>2. a \in LeaseFields /\ SameSpec(r, a) /\ a.phase = r.phase
  BY ExporterRefShape, Zenon
<1>3. /\ b \in LeaseFields /\ SameSpec(a, b) /\ b.phase = a.phase
      /\ IsSet(a.bt) => b = a
  BY <1>2, BeginEndShape, Zenon
<1>4. r.ref # NoExporter => a = r /\ IsSet(r.bt)
  BY Zenon DEF reconcileStatusExporterRef, Lease
<1>5. n = [d EXCEPT !.bt = Whole(@)]
  BY <1>1, Zenon
<1> HIDE DEF b
<1>5a. /\ d \in LeaseFields /\ SameSpec(b, d) /\ d.phase = b.phase
       /\ d.failed # "" => d.ended
       /\ d.ended => b.ended \/ b.failed # "" \/ b.release \/ Expired(b)
  BY <1>3, EndedShape, Zenon
<1> HIDE DEF d
<1>6. /\ SameSpec(b, n) /\ n.phase = b.phase
      /\ n.failed # "" => n.ended
      /\ n.ended => b.ended \/ b.failed # "" \/ b.release \/ Expired(b)
  BY <1>5, <1>5a, WrittenShape, Zenon DEF SameSpec
<1>7. r.ref # NoExporter => b = r
  BY <1>3, <1>4, Zenon
<1>8. SameSpec(r, n) /\ n.phase = r.phase
  BY <1>2, <1>3, <1>6, Zenon DEF SameSpec
<1> QED BY <1>6, <1>7, <1>8, Zenon

(* A patch of UpdateLease does not touch the status.                       *)
LEMMA ChangedKeeps ==
    ASSUME TypeOK, NEW l \in Leases, Changed(l)
    PROVE  /\ SameOutcome(leases[l], leases'[l])
           /\ leases'[l].phase = "live" /\ leases'[l].request = leases[l].request
<1>1. PICK c \in Updaters :
        /\ updates[c] # Idle /\ leases[l].phase = "live"
        /\ leases'[l] = Patched(leases[l], updates[c].read, updates[c].new)
  BY Zenon DEF Changed
<1>2. leases[l] \in Lease /\ updates[c].read \in Mutable /\ updates[c].new \in Mutable
  BY <1>1, Zenon DEF TypeOK
<1> QED BY <1>1, <1>2, PatchedKeeps

-----------------------------------------------------------------------------
(* A lease that cannot be satisfied ends in the pass that finds it out.    *)
FailedHasEnded == \A l \in Leases : leases[l].failed # "" => leases[l].ended

LEMMA FailedInit == Init => FailedHasEnded
<1> SUFFICES ASSUME Init, NEW l \in Leases PROVE leases[l].failed = ""
  BY Zenon DEF FailedHasEnded
<1>1. PICK q \in Requests : leases[l] = NewLease(q)
  BY Zenon DEF Init
<1>2. NewLease(q).failed = ""
  BY Zenon DEF NewLease, Fresh
<1> QED BY <1>1, <1>2, Zenon

LEMMA AttachmentsType == Attachments \subseteq Attached
BY Zenon DEF Attachments, Attached

LEMMA FailedNext == Inv /\ FailedHasEnded /\ [Next]_vars => FailedHasEnded'
<1> SUFFICES ASSUME Inv, FailedHasEnded, [Next]_vars, NEW l \in Leases
             PROVE  leases'[l].failed # "" => leases'[l].ended
  BY Zenon DEF FailedHasEnded
<1>1. TypeOK
  BY Zenon DEF Inv
<1>2. leases[l] \in Lease /\ now \in Int
  BY <1>1, BoundsAssumption DEF TypeOK
<1>3. CASE leases'[l] = leases[l] \/ Moved(l)
  BY <1>3, Zenon DEF Moved, SameOutcome, FailedHasEnded
<1>4. CASE Changed(l)
  BY <1>1, <1>4, ChangedKeeps, Zenon DEF SameOutcome, FailedHasEnded
<1>5. CASE Passed(l)
  BY <1>2, <1>5, PassShape, AttachmentsType, Zenon DEF Passed
<1> QED BY <1>3, <1>4, <1>5, NextWrites, Zenon

LEMMA FailedInvariant == Spec => [](Inv /\ FailedHasEnded)
BY FailedInit, FailedNext, Invariant, PTL DEF Spec

(* A lease that has its exporter is ended only by its release or after its *)
(* expiration, by what the API server has of it at that moment: a status   *)
(* update made from an older copy is refused.                              *)
THEOREM LeasesEndForAReason == Spec => EndsForAReason
<1> DEFINE A == \A l \in Leases :
                  Active(l) /\ leases'[l].ended => leases[l].release \/ Expired(leases[l])
<1>1. ASSUME Inv, FailedHasEnded, [Next]_vars PROVE A
  <2> SUFFICES ASSUME NEW l \in Leases, Active(l), leases'[l].ended
               PROVE  leases[l].release \/ Expired(leases[l])
    OBVIOUS
  <2>1. leases[l] \in Lease /\ now \in Int
    BY <1>1, BoundsAssumption DEF Inv, TypeOK
  <2>2. leases[l].ref # NoExporter /\ ~leases[l].ended /\ leases[l].failed = ""
    BY <1>1, Zenon DEF Active, FailedHasEnded
  <2>3. leases'[l] # leases[l] /\ ~Moved(l)
    BY <2>2, Zenon DEF Moved, SameOutcome
  <2>4. ~Changed(l)
    BY <1>1, <2>2, ChangedKeeps, Zenon DEF SameOutcome, Inv
  <2>5. Passed(l)
    BY <1>1, <2>3, <2>4, NextWrites, Zenon
  <2> QED BY <2>1, <2>2, <2>5, PassShape, AttachmentsType, Zenon DEF Passed
<1>2. EndsForAReason <=> [][A]_vars
  BY Zenon DEF EndsForAReason
<1>3. Inv /\ FailedHasEnded /\ [Next]_vars => [A]_vars
  BY <1>1, Zenon
<1> HIDE DEF A
<1> QED BY <1>2, <1>3, FailedInvariant, PTL DEF Spec

-----------------------------------------------------------------------------
(* The lease reconciler gives a lease the best exporter its cache has.     *)
LEMMA PriorityType ==
    ASSUME NEW r, NEW es, NEW a \in attachMatchingPolicies(r, es)
    PROVE  a.priority \in Int
<1>1. CASE Policies = {}
  <2>1. PICK e \in es : a = [exporter |-> e, priority |-> 0, spot |-> FALSE]
    BY <1>1, Zenon DEF attachMatchingPolicies
  <2> QED BY <2>1
<1>2. CASE Policies # {}
  <2>1. PICK b \in es \X Policies :
          a = [exporter |-> b[1], priority |-> b[2].priority, spot |-> b[2].spot]
    BY <1>2, Zenon DEF attachMatchingPolicies
  <2> QED BY <2>1, PoliciesAssumption, Zenon
<1> QED BY <1>1, <1>2, Zenon

(* The best of the approved exporters that r could have now.               *)
Best(r, e) ==
    LET approved == attachMatchingPolicies(r, MatchingExporters(r.request))
        free == {a \in approved : /\ exporters[a.exporter].online
                                  /\ exporters[a.exporter].ready
                                  /\ ~a.spot /\ ActiveOn(a.exporter) = {}}
    IN  \E a \in approved : a.exporter = e /\ \A b \in free : b.priority <= a.priority

LEMMA AssignPicksBest ==
    ASSUME NEW r \in LeaseFields, NEW x \in Attachments, NEW n \in Assign(r, x),
           n.ref # r.ref
    PROVE  Best(r, n.ref)
<1> DEFINE approved == attachMatchingPolicies(r, MatchingExporters(r.request))
           online == filterOutOfflineExporters(approved)
           available == filterOutLeasedExporters(online, x)
           ready == filterOutNotReadyExporters(available)
<1>1. \/ \E f : n = [r EXCEPT !.failed = f]
      \/ \E p : n = [r EXCEPT !.pending = p]
      \/ /\ \A a \in First(ready, x) : x[a.exporter] = NoLease
         /\ \E a \in First(ready, x) : n = [r EXCEPT !.ref = a.exporter, !.spot = a.spot]
  BY Zenon DEF Assign
<1>2. ready \subseteq approved
  BY Zenon DEF filterOutNotReadyExporters, filterOutLeasedExporters, filterOutOfflineExporters
<1>3. \A b \in approved :
        /\ exporters[b.exporter].online /\ exporters[b.exporter].ready /\ x[b.exporter] = NoLease
        => b \in ready
  BY Zenon DEF filterOutNotReadyExporters, filterOutLeasedExporters, filterOutOfflineExporters
<1>4. \A b \in approved : b.exporter \in Exporters /\ b.spot \in BOOLEAN /\ b.priority \in Int
  <2>1. r.request \in Requests
    BY Zenon DEF LeaseFields
  <2> QED BY <2>1, ApprovedType, MatchingSubset, PriorityType, Zenon
<1> HIDE DEF approved, online, available, ready
<1>5. PICK a \in First(ready, x) : n = [r EXCEPT !.ref = a.exporter, !.spot = a.spot]
  <2>1. ASSUME NEW f, n = [r EXCEPT !.failed = f] PROVE FALSE
    BY <2>1, Zenon DEF LeaseFields
  <2>2. ASSUME NEW p, n = [r EXCEPT !.pending = p] PROVE FALSE
    BY <2>2, Zenon DEF LeaseFields
  <2> QED BY <1>1, <2>1, <2>2, Zenon
<1>6. n.ref = a.exporter
  BY <1>5, Zenon DEF LeaseFields
<1>7. x[a.exporter] = NoLease
  <2>1. ASSUME NEW f, n = [r EXCEPT !.failed = f] PROVE FALSE
    BY <2>1, Zenon DEF LeaseFields
  <2>2. ASSUME NEW p, n = [r EXCEPT !.pending = p] PROVE FALSE
    BY <2>2, Zenon DEF LeaseFields
  <2> QED BY <1>1, <1>5, <2>1, <2>2, Zenon
<1>8. a \in approved /\ \A b \in ready \ {a} : OrderedBefore(a, b, x)
  BY <1>2, <1>5, Zenon DEF First
<1>9. ASSUME NEW b \in approved, exporters[b.exporter].online, exporters[b.exporter].ready,
             ~b.spot, ActiveOn(b.exporter) = {}
      PROVE  b.priority <= a.priority
  <2>1. x[b.exporter] = NoLease
    BY <1>4, <1>9 DEF Attachments
  <2>2. b \in ready
    BY <1>3, <1>9, <2>1, Zenon
  <2>3. CASE b = a
    BY <1>4, <2>3
  <2>4. CASE b # a
    <3>1. OrderedBefore(a, b, x)
      BY <1>8, <2>2, <2>4, Zenon
    <3>2. a.priority = b.priority \/ a.priority > b.priority
      BY <1>4, <1>7, <1>8, <1>9, <2>1, <3>1, Zenon DEF OrderedBefore
    <3> QED BY <1>4, <1>8, <3>2
  <2> QED BY <2>3, <2>4, Zenon
<1> QED BY <1>6, <1>8, <1>9, Zenon DEF Best, approved

(* Of the exporters that are free, online, ready and approved without spot *)
(* access, a lease gets one of the highest priority, by the reconciler's   *)
(* own copies of leases and exporters.                                     *)
THEOREM HighestPriorityIsPicked == Spec => PicksHighestPriority
<1> DEFINE A == \A l \in Leases : leases[l].ref = NoExporter /\ leases'[l].ref # NoExporter =>
         LET approved == attachMatchingPolicies(cache[l], MatchingExporters(cache[l].request))
             free == {a \in approved : /\ exporters[a.exporter].online
                                       /\ exporters[a.exporter].ready
                                       /\ ~a.spot /\ ActiveOn(a.exporter) = {}}
         IN  \E a \in approved : /\ a.exporter = leases'[l].ref
                                 /\ \A b \in free : b.priority <= a.priority
<1>1. ASSUME Inv, [Next]_vars, NEW l \in Leases,
             leases[l].ref = NoExporter, leases'[l].ref # NoExporter
      PROVE  Best(cache[l], leases'[l].ref)
  <2>1. TypeOK /\ leases[l] \in Lease /\ now \in Int
    BY <1>1, BoundsAssumption DEF Inv, TypeOK
  <2>2. leases'[l] # leases[l] /\ ~Moved(l) /\ ~Changed(l)
    BY <1>1, <2>1, ChangedKeeps, Zenon DEF Moved, SameOutcome
  <2>3. Passed(l)
    BY <1>1, <2>2, NextWrites, Zenon
  <2>4. cache[l] = leases[l]
    BY <2>3, Zenon DEF Passed
  <2>5. PICK x \in Attachments : leases'[l] \in Reconciled(leases[l], x)
    BY <2>3, Zenon DEF Passed
  <2>6. PICK a \in reconcileStatusExporterRef(leases[l], x) :
          leases'[l] =
            [reconcileStatusEnded(reconcileStatusBeginEndTimes(a)) EXCEPT !.bt = Whole(@)]
    BY <2>5, Zenon DEF Reconciled
  <2>7. a \in LeaseFields
    BY <2>1, ExporterRefShape, AttachmentsType, Zenon
  <2>8. leases'[l].ref = a.ref
    <3> DEFINE b == reconcileStatusBeginEndTimes(a)
    <3>1. b \in LeaseFields /\ b.ref = a.ref
      BY <2>1, <2>7, BeginEndShape, Zenon
    <3>2. leases'[l] = [reconcileStatusEnded(b) EXCEPT !.bt = Whole(@)]
      BY <2>6, Zenon
    <3> HIDE DEF b
    <3>3. reconcileStatusEnded(b) \in LeaseFields /\ reconcileStatusEnded(b).ref = b.ref
      BY <3>1, EndedShape, Zenon
    <3> QED BY <3>1, <3>2, <3>3, WrittenShape, Zenon
  <2>9. a \in Assign(leases[l], x)
    BY <1>1, <2>8, Zenon DEF reconcileStatusExporterRef
  <2>10. leases[l] \in LeaseFields
    BY <2>1, Zenon DEF Lease
  <2> QED BY <1>1, <2>4, <2>8, <2>9, <2>10, AssignPicksBest, Zenon
<1>2. Inv /\ [Next]_vars => [A]_vars
  BY <1>1, Zenon DEF Best
<1>3. PicksHighestPriority <=> [][A]_vars
  BY Zenon DEF PicksHighestPriority
<1> HIDE DEF A
<1> QED BY <1>2, <1>3, Invariant, PTL DEF Spec

-----------------------------------------------------------------------------
(* The times of leases, whatever calls of UpdateLease overlap.             *)

Created(r) == r.request.call = "CreateLease"

(* A call in flight for the lease r holds usable times, which agree or are *)
(* the ones it has read, and neither it nor a call that has patched r      *)
(* since takes back a begin it has read.                                   *)
Sound(u, r) ==
    /\ Usable(TimesOf(u.new))
    /\ Agree(TimesOf(u.new)) \/ TimesOf(u.new) = TimesOf(u.read)
    /\ IsSet(u.read.begin) => IsSet(u.new.begin) /\ IsSet(r.begin)

(* A lease has usable times from CreateLease on, which stores what         *)
(* ReconcileLeaseTimeFields left, once accepted.                           *)
TimesInv ==
    /\ \A l \in Leases : Created(leases[l]) =>
         /\ leases[l].phase = "none" =>
              TimesOf(leases[l]) = Stored(ReconcileLeaseTimeFields(leases[l].request.time))
         /\ leases[l].phase # "none" => Usable(TimesOf(leases[l]))
    /\ \A c \in Updaters : updates[c] # Idle =>
         LET l == updates[c].lease
         IN  /\ leases[l].phase # "none"
             /\ Created(leases[l]) => Sound(updates[c], leases[l])

LEMMA TimesInit == Init => TimesInv
<1> SUFFICES ASSUME Init PROVE TimesInv
  OBVIOUS
<1>1. ASSUME NEW l \in Leases, Created(leases[l])
      PROVE  /\ leases[l].phase = "none"
             /\ TimesOf(leases[l]) = Stored(ReconcileLeaseTimeFields(leases[l].request.time))
  <2>1. PICK q \in Requests : leases[l] = NewLease(q)
    BY Zenon DEF Init
  <2> DEFINE t == Stored(ReconcileLeaseTimeFields(q.time))
  <2>2. t \in TimeFields
    BY RequestType, TimeFieldsType, StoredType, Zenon
  <2>3. q.call = "CreateLease" /\ leases[l].request = q
    <3>1. NewLease(q).request = q
      BY Zenon DEF NewLease, Fresh
    <3> QED BY <1>1, <2>1, <3>1, Zenon DEF Created
  <2>4. leases[l] = Fresh(q, t)
    BY <2>1, <2>3, Zenon DEF NewLease
  <2> HIDE DEF t
  <2>5. leases[l].phase = "none" /\ TimesOf(leases[l]) = t
    <3>1. /\ Fresh(q, t).phase = "none" /\ Fresh(q, t).begin = t.begin
          /\ Fresh(q, t).end = t.end /\ Fresh(q, t).dur = t.dur
      BY Zenon DEF Fresh
    <3>2. t = [begin |-> t.begin, end |-> t.end, dur |-> t.dur]
      BY <2>2, Zenon DEF TimeFields
    <3> QED BY <2>4, <3>1, <3>2, Zenon DEF TimesOf
  <2> QED BY <2>3, <2>5, Zenon DEF t
<1>2. \A c \in Updaters : updates[c] = Idle
  BY Zenon DEF Init
<1> QED BY <1>1, <1>2, Zenon DEF TimesInv

(* ReconcileLeaseTimeFields does not clear a begin.                        *)
LEMMA BeginStaysSet ==
    ASSUME NEW t \in TimeFields, IsSet(t.begin)
    PROVE  IsSet(ReconcileLeaseTimeFields(t).begin)
<1>1. CASE IsSet(t.end)
  <2>1. ReconcileLeaseTimeFields(t).begin = t.begin
    BY <1>1, Zenon DEF ReconcileLeaseTimeFields, TimeFields
  <2> QED BY <2>1, Zenon
<1>2. CASE ~IsSet(t.end)
  BY <1>2, Zenon DEF ReconcileLeaseTimeFields
<1> QED BY <1>1, <1>2, Zenon

(* What UpdateLease accepts is sound for the lease it has read.            *)
LEMMA UpdatedIsSound ==
    ASSUME NEW r \in Lease, NEW u \in UpdateRequests, Usable(TimesOf(r)), Updated(r, u).ok,
           NEW k
    PROVE  Sound([lease |-> k, read |-> MutableOf(r), new |-> Updated(r, u).new], r)
<1> DEFINE desired == ReconcileLeaseTimeFields(u.time)
           t == [begin |-> IF IsSet(u.time.begin) THEN desired.begin ELSE r.begin,
                 end |-> IF IsSet(u.time.end) THEN desired.end ELSE r.end,
                 dur |-> IF IsSet(u.time.dur) THEN desired.dur ELSE r.dur]
           c == IF u.client = NoClient THEN r.client ELSE u.client
           timed == IsSet(u.time.begin) \/ IsSet(u.time.end) \/ IsSet(u.time.dur)
           new == IF timed THEN Stored(ReconcileLeaseTimeFields(t)) ELSE t
<1>1. r.begin \in Times /\ r.end \in Times /\ r.dur \in Times
  BY Zenon DEF Lease, LeaseFields
<1>2. desired \in TimeFields
  BY TimeFieldsType, UpdateRequestsAssumption, Zenon
<1>3. t \in TimeFields
  <2> HIDE DEF desired
  <2> QED BY <1>1, <1>2, SMTT(30) DEF TimeFields
<1>4. timed => Accepted(t)
  BY Zenon DEF Updated
<1>5. ~timed => t = TimesOf(r)
  BY Zenon DEF TimesOf
<1>6. Updated(r, u).new =
        [begin |-> new.begin, end |-> new.end, dur |-> new.dur, client |-> c]
  BY Zenon DEF Updated
<1>7. IsSet(r.begin) => IsSet(t.begin)
  <2>1. IsSet(u.time.begin) => IsSet(desired.begin)
    BY BeginStaysSet, UpdateRequestsAssumption, Zenon
  <2> HIDE DEF desired
  <2> QED BY <2>1, Zenon
<1> HIDE DEF t, c, desired, timed
<1>8. /\ new \in TimeFields /\ Usable(new)
      /\ Agree(new) \/ new = TimesOf(r)
      /\ IsSet(r.begin) => IsSet(new.begin)
  <2>1. CASE timed
    <3> DEFINE n == ReconcileLeaseTimeFields(t)
    <3>1. n \in TimeFields /\ Consistent(n)
      BY <1>3, <1>4, <2>1, AcceptedIsConsistent, Zenon
    <3>2. IsSet(t.begin) => IsSet(n.begin)
      BY <1>3, BeginStaysSet, Zenon
    <3>3. new = Stored(n)
      BY <2>1, Zenon
    <3> HIDE DEF n, new
    <3>4. IsSet(n.begin) => IsSet(Stored(n).begin)
      BY <3>1, WholeType, Zenon DEF Stored, TimeFields
    <3> QED BY <1>7, <3>1, <3>2, <3>3, <3>4, StoredAgrees, StoredType, Zenon
  <2>2. CASE ~timed
    BY <1>3, <1>5, <1>7, <2>2, Zenon
  <2> QED BY <2>1, <2>2, Zenon
<1> HIDE DEF new
<1>9. TimesOf(Updated(r, u).new) = new /\ Updated(r, u).new.begin = new.begin
  BY <1>6, <1>8 DEF TimesOf, TimeFields
<1>10. TimesOf(MutableOf(r)) = TimesOf(r) /\ MutableOf(r).begin = r.begin
  BY Zenon DEF TimesOf, MutableOf
<1> QED BY <1>8, <1>9, <1>10, Zenon DEF Sound

(* A sound call leaves the lease it patches with usable times, whatever    *)
(* fields it has read.                                                     *)
LEMMA PatchedIsUsable ==
    ASSUME NEW r \in Lease, NEW read \in Mutable, NEW new \in Mutable, Usable(TimesOf(r)),
           NEW k, Sound([lease |-> k, read |-> read, new |-> new], r)
    PROVE  /\ Usable(TimesOf(Patched(r, read, new)))
           /\ IsSet(r.begin) => IsSet(Patched(r, read, new).begin)
<1> DEFINE n == Patched(r, read, new)
           b == IF new.begin = read.begin THEN r.begin ELSE new.begin
           e == IF new.end = read.end THEN r.end ELSE new.end
           d == IF new.dur = read.dur THEN r.dur ELSE new.dur
<1>1. /\ IsSet(r.dur) /\ r.dur > 0 /\ (IsSet(r.end) => IsSet(r.begin))
      /\ IsSet(new.dur) /\ new.dur > 0 /\ (IsSet(new.end) => IsSet(new.begin))
      /\ IsSet(read.begin) => IsSet(new.begin) /\ IsSet(r.begin)
  BY Zenon DEF Sound, Usable, TimesOf
<1>2. IsSet(d) /\ d > 0
  BY <1>1, Zenon
<1>3. (IsSet(e) => IsSet(b)) /\ (IsSet(r.begin) => IsSet(b))
  BY <1>1, Zenon DEF IsSet
<1>4. n.begin = b /\ n.end = e /\ n.dur = d
  BY Zenon DEF Patched, Lease, LeaseFields
<1> HIDE DEF n, b, e, d
<1> QED BY <1>2, <1>3, <1>4, Zenon DEF Usable, TimesOf, n

LEMMA SpecTimes ==
    ASSUME NEW r, NEW n, SameSpec(r, n)
    PROVE  TimesOf(n) = TimesOf(r) /\ MutableOf(n) = MutableOf(r) /\ Created(n) = Created(r)
BY Zenon DEF SameSpec, TimesOf, MutableOf, Created

(* A lease keeps its times, or a call in flight patches it.                *)
TimesStep(l) ==
    \/ /\ SameSpec(leases[l], leases'[l])
       /\ \/ leases'[l].phase = leases[l].phase
          \/ leases[l].phase = "live" /\ leases'[l].phase = "deleted"
          \/ /\ leases[l].phase = "none" /\ leases'[l].phase = "live"
             /\ Created(leases[l]) => Accepted(leases[l].request.time)
    \/ /\ Changed(l)
       /\ leases'[l].phase = "live" /\ leases'[l].request = leases[l].request

LEMMA NextTimes ==
    ASSUME Inv, [Next]_vars, NEW l \in Leases
    PROVE  TimesStep(l)
<1>1. TypeOK /\ leases[l] \in Lease
  BY Zenon DEF Inv, TypeOK
<1>2. now \in Int
  BY <1>1, BoundsAssumption DEF TypeOK
<1>3. CASE leases'[l] = leases[l]
  BY <1>3, Zenon DEF TimesStep, SameSpec
<1>4. CASE Moved(l)
  BY <1>4, Zenon DEF Moved, TimesStep, Created
<1>5. CASE Passed(l)
  <2>1. SameSpec(leases[l], leases'[l]) /\ leases'[l].phase = leases[l].phase
    BY <1>1, <1>2, <1>5, PassShape, AttachmentsType, Zenon DEF Passed
  <2> QED BY <2>1, Zenon DEF TimesStep
<1>6. CASE Changed(l)
  <2>1. PICK c \in Updaters :
          /\ updates[c] # Idle /\ updates[c].lease = l /\ leases[l].phase = "live"
          /\ leases'[l] = Patched(leases[l], updates[c].read, updates[c].new)
    BY <1>6, Zenon DEF Changed
  <2>2. updates[c].read \in Mutable /\ updates[c].new \in Mutable
    BY <1>1, <2>1, Zenon DEF TypeOK
  <2>3. leases'[l].phase = leases[l].phase /\ leases'[l].request = leases[l].request
    BY <1>1, <2>1, <2>2, PatchedKeeps, SMTT(30)
  <2> QED BY <1>6, <2>1, <2>3, Zenon DEF TimesStep
<1> QED BY <1>3, <1>4, <1>5, <1>6, NextWrites, Zenon

(* Calls in flight: one is made, one ends, or all are as before.           *)
LEMMA NextUpdates ==
    ASSUME TypeOK, [Next]_vars, NEW c \in Updaters, updates'[c] # Idle
    PROVE  \/ updates'[c] = updates[c]
           \/ \E l \in Leases, u \in UpdateRequests :
                /\ Live(l) /\ Updated(leases[l], u).ok /\ UNCHANGED leases
                /\ updates'[c] = [lease |-> l, read |-> MutableOf(leases[l]),
                                  new |-> Updated(leases[l], u).new]
<1>1. ASSUME NEW d \in Updaters, NEW l \in Leases, NEW u \in UpdateRequests, UpdateLease(d, l, u)
      PROVE  \/ updates'[c] = updates[c]
             \/ /\ Live(l) /\ Updated(leases[l], u).ok /\ UNCHANGED leases
                /\ updates'[c] = [lease |-> l, read |-> MutableOf(leases[l]),
                                  new |-> Updated(leases[l], u).new]
  BY <1>1, Zenon DEF UpdateLease, TypeOK
<1>2. ASSUME NEW d \in Updaters, UpdateLeasePatch(d) PROVE updates'[c] = updates[c]
  BY <1>2, Zenon DEF UpdateLeasePatch, TypeOK
<1>3. CASE Restart
  BY <1>3, Zenon DEF Restart
<1>4. ASSUME NEW l \in Leases, \/ CreateLease(l) \/ ReleaseLease(l) \/ SyncLease(l)
                               \/ ReconcileStatus(l) \/ ReconcileMetadata(l)
      PROVE  updates' = updates
  BY <1>4, Zenon
  DEF CreateLease, ReleaseLease, SyncLease, ReconcileStatus, StatusUpdate, ReconcileMetadata
<1>5. ASSUME NEW e \in Exporters, ReconcileLeaseRef(e) \/ SyncExporter(e) \/ ExporterChange(e)
      PROVE  updates' = updates
  BY <1>5, Zenon DEF ReconcileLeaseRef, SyncExporter, ExporterChange
<1>6. Tick \/ UNCHANGED vars => updates' = updates
  BY Zenon DEF Tick, vars
<1> QED BY <1>1, <1>2, <1>3, <1>4, <1>5, <1>6, ZenonT(40) DEF Next

LEMMA NewTimes ==
    ASSUME Inv, TimesInv, NEW l \in Leases, Created(leases[l]), leases[l].phase = "none",
           SameSpec(leases[l], leases'[l]), Accepted(leases[l].request.time)
    PROVE  Usable(TimesOf(leases'[l])) /\ Agree(TimesOf(leases'[l]))
<1>1. TimesOf(leases'[l]) = Stored(ReconcileLeaseTimeFields(leases[l].request.time))
  BY SpecTimes, Zenon DEF TimesInv
<1>2. leases[l].request.time \in TimeFields
  BY RequestType, ZenonT(40) DEF Inv, TypeOK, Lease, LeaseFields
<1> QED BY <1>1, <1>2, AcceptedIsConsistent, StoredAgrees, Zenon

(* What a patch leaves: usable times, and the begin, if there was one.     *)
LEMMA ChangedTimes ==
    ASSUME Inv, TimesInv, NEW l \in Leases, Created(leases[l]), Changed(l)
    PROVE  Usable(TimesOf(leases'[l])) /\ (IsSet(leases[l].begin) => IsSet(leases'[l].begin))
<1>1. PICK c \in Updaters :
        /\ updates[c] # Idle /\ updates[c].lease = l /\ leases[l].phase = "live"
        /\ leases'[l] = Patched(leases[l], updates[c].read, updates[c].new)
  BY Zenon DEF Changed
<1>2. /\ leases[l] \in Lease /\ updates[c].read \in Mutable /\ updates[c].new \in Mutable
      /\ updates[c] = [lease |-> l, read |-> updates[c].read, new |-> updates[c].new]
  BY <1>1, Zenon DEF Inv, TypeOK
<1>3. Usable(TimesOf(leases[l])) /\ Sound(updates[c], leases[l])
  BY <1>1, Zenon DEF TimesInv
<1>4. Sound([lease |-> l, read |-> updates[c].read, new |-> updates[c].new], leases[l])
  BY <1>2, <1>3, Zenon
<1> QED BY <1>1, <1>2, <1>3, <1>4, PatchedIsUsable, Zenon

LEMMA TimesNext ==
    ASSUME Inv, TimesInv, [Next]_vars
    PROVE  TimesInv'
<1>1. ASSUME NEW l \in Leases PROVE TimesStep(l)
  BY NextTimes, Zenon
<1>2. TypeOK /\ \A l \in Leases : leases[l] \in Lease
  BY Zenon DEF Inv, TypeOK
<1>3. ASSUME NEW l \in Leases, Created(leases'[l])
      PROVE  /\ leases'[l].phase = "none" => TimesOf(leases'[l]) =
                  Stored(ReconcileLeaseTimeFields(leases'[l].request.time))
             /\ leases'[l].phase # "none" => Usable(TimesOf(leases'[l]))
  <2>1. CASE SameSpec(leases[l], leases'[l]) /\ leases'[l].phase = leases[l].phase
    BY <1>3, <2>1, SpecTimes, SMTT(30) DEF TimesInv, SameSpec
  <2>2. CASE /\ SameSpec(leases[l], leases'[l])
             /\ leases[l].phase = "live" /\ leases'[l].phase = "deleted"
    BY <1>3, <2>2, SpecTimes, Zenon DEF TimesInv
  <2>3. CASE /\ SameSpec(leases[l], leases'[l])
             /\ leases[l].phase = "none" /\ leases'[l].phase = "live"
             /\ Created(leases[l]) => Accepted(leases[l].request.time)
    BY <1>3, <2>3, SpecTimes, NewTimes, Zenon
  <2>4. CASE /\ Changed(l) /\ leases'[l].phase = "live"
             /\ leases'[l].request = leases[l].request
    BY <1>3, <2>4, ChangedTimes, Zenon DEF Created
  <2> QED BY <1>1, <2>1, <2>2, <2>3, <2>4, ZenonT(40) DEF TimesStep
<1>4. ASSUME NEW c \in Updaters, updates'[c] # Idle
      PROVE  LET l == updates'[c].lease
             IN  /\ leases'[l].phase # "none"
                 /\ Created(leases'[l]) => Sound(updates'[c], leases'[l])
  <2>1. CASE updates'[c] = updates[c]
    <3> DEFINE l == updates[c].lease
    <3>1. l \in Leases
      BY <1>2, <1>4, <2>1, Zenon DEF TypeOK
    <3>2. leases[l].phase # "none" /\ (Created(leases[l]) => Sound(updates[c], leases[l]))
      BY <1>4, <2>1, Zenon DEF TimesInv
    <3> HIDE DEF l
    <3>3. leases'[l].phase # "none" /\ Created(leases'[l]) = Created(leases[l])
      BY <1>1, <3>1, <3>2, SpecTimes, SMTT(30) DEF TimesStep, Created
    <3>4. Created(leases[l]) => (IsSet(leases[l].begin) => IsSet(leases'[l].begin))
      BY <1>1, <3>1, ChangedTimes, ZenonT(40) DEF TimesStep, SameSpec
    <3> QED BY <2>1, <3>2, <3>3, <3>4, Zenon DEF l, Sound
  <2>2. ASSUME NEW l \in Leases, NEW u \in UpdateRequests,
               Live(l), Updated(leases[l], u).ok, UNCHANGED leases,
               updates'[c] = [lease |-> l, read |-> MutableOf(leases[l]),
                              new |-> Updated(leases[l], u).new]
        PROVE  /\ updates'[c].lease = l /\ leases'[l].phase # "none"
               /\ Created(leases'[l]) => Sound(updates'[c], leases'[l])
    <3>1. Created(leases[l]) => Usable(TimesOf(leases[l]))
      BY <2>2, Zenon DEF TimesInv, Live
    <3>2. Created(leases[l]) => Sound(updates'[c], leases[l])
      BY <1>2, <2>2, <3>1, UpdatedIsSound, Zenon
    <3> QED BY <2>2, <3>2 DEF Live
  <2> QED BY <1>2, <1>4, <2>1, <2>2, NextUpdates, Zenon
<1> QED BY <1>3, <1>4, Zenon DEF TimesInv

(* Whatever calls of UpdateLease overlap and whatever the reconcilers      *)
(* write in between, a lease made by CreateLease keeps a positive duration *)
(* and no end without a begin; and only a patch over fields that were      *)
(* changed after the call had read them can make window and duration       *)
(* disagree by a second or more.                                           *)
THEOREM TimesStayConsistent == Spec => TimesAreConsistent
<1> DEFINE A == \A l \in Leases :
         leases'[l].phase = "live" /\ leases'[l].request.call = "CreateLease" =>
           /\ Usable(TimesOf(leases'[l]))
           /\ \/ Agree(TimesOf(leases'[l]))
              \/ Live(l) /\ ~Agree(TimesOf(leases[l]))
              \/ Overlaps(l)
<1>1. Inv /\ TimesInv /\ [Next]_vars => TimesInv'
  BY TimesNext, Zenon
<1>2. ASSUME Inv, TimesInv, TimesInv', [Next]_vars, NEW l \in Leases,
             leases'[l].phase = "live", Created(leases'[l])
      PROVE  /\ Usable(TimesOf(leases'[l]))
             /\ \/ Agree(TimesOf(leases'[l]))
                \/ Live(l) /\ ~Agree(TimesOf(leases[l]))
                \/ Overlaps(l)
  <2>1. Usable(TimesOf(leases'[l]))
    BY <1>2, Zenon DEF TimesInv
  <2>2. CASE SameSpec(leases[l], leases'[l]) /\ leases'[l].phase = leases[l].phase
    BY <1>2, <2>1, <2>2, SpecTimes, Zenon DEF Live
  <2>3. CASE /\ SameSpec(leases[l], leases'[l]) /\ leases[l].phase = "none"
             /\ Created(leases[l]) => Accepted(leases[l].request.time)
    BY <1>2, <2>3, SpecTimes, NewTimes, Zenon
  <2>4. CASE Changed(l) /\ leases'[l].request = leases[l].request
    <3>1. PICK c \in Updaters :
            /\ updates[c] # Idle /\ updates[c].lease = l /\ leases[l].phase = "live"
            /\ leases'[l] = Patched(leases[l], updates[c].read, updates[c].new)
            /\ updates'[c] = Idle
      BY <2>4, Zenon DEF Changed
    <3>2. CASE updates[c].read # MutableOf(leases[l])
      BY <2>1, <3>1, <3>2, Zenon DEF Overlaps
    <3>3. CASE updates[c].read = MutableOf(leases[l])
      <4>1. /\ leases[l] \in Lease /\ updates[c].read \in Mutable
            /\ updates[c].new \in Mutable
        BY <1>2, <3>1, Zenon DEF Inv, TypeOK
      <4>2. MutableOf(leases'[l]) = updates[c].new
        BY <3>1, <3>3, <4>1, PatchedKeeps, SMTT(30)
      <4>3. /\ TimesOf(leases'[l]) = TimesOf(updates[c].new)
            /\ TimesOf(leases[l]) = TimesOf(updates[c].read)
        BY <3>3, <4>2 DEF TimesOf, MutableOf
      <4>4. Sound(updates[c], leases[l])
        BY <1>2, <2>4, <3>1, Zenon DEF TimesInv, Created
      <4> QED BY <2>1, <3>1, <4>3, <4>4, Zenon DEF Sound, Live
    <3> QED BY <3>2, <3>3, Zenon
  <2>5. TimesStep(l)
    BY <1>2, NextTimes, Zenon
  <2> QED BY <1>2, <2>2, <2>3, <2>4, <2>5, Zenon DEF TimesStep
<1>3. Inv /\ TimesInv /\ TimesInv' /\ [Next]_vars => [A]_vars
  BY <1>2, Zenon DEF Created
<1>4. TimesAreConsistent <=> [][A]_vars
  BY Zenon DEF TimesAreConsistent
<1> HIDE DEF A
<1> QED BY <1>1, <1>3, <1>4, TimesInit, Invariant, PTL DEF Spec

-----------------------------------------------------------------------------
(* LeaseController implements ExclusiveUse, for any leases and exporters,  *)
(* when the reconciler's cache has its own writes.                         *)

Over(l) == leases[l].ended \/ leases[l].phase = "deleted"

(* A step that means nothing for what lease l holds.                       *)
SameUse(l) ==
    /\ Active(l)' <=> Active(l)
    /\ Active(l) => leases'[l].ref = leases[l].ref
    /\ Over(l)' <=> Over(l)

LEMMA UnchangedUse ==
    ASSUME NEW l \in Leases, leases'[l] = leases[l]
    PROVE  SameUse(l)
BY Zenon DEF SameUse, Active, Live, Over

LEMMA OthersUnchanged ==
    ASSUME NEW l \in Leases, NEW new, leases \in [Leases -> Lease],
           leases' = leases \/ leases' = [leases EXCEPT ![l] = new]
    PROVE  \A k \in Leases \ {l} : SameUse(k)
<1> SUFFICES ASSUME NEW k \in Leases \ {l} PROVE SameUse(k)
  OBVIOUS
<1>1. leases'[k] = leases[k]
  OBVIOUS
<1> QED BY <1>1, UnchangedUse, Zenon

(* When an Exporter is deleted many leases may go with it, but only one of *)
(* them was still using it.                                                *)
LEMMA CollectedUse ==
    ASSUME TypeOK, ExclusiveLease, NEW e \in Exporters, ExporterChange(e),
           NEW l \in Leases, NEW k \in Leases, ~SameUse(l), ~SameUse(k)
    PROVE  k = l
<1>1. ASSUME NEW j \in Leases, ~SameUse(j) PROVE Active(j) /\ leases[j].ref = e
  <2>1. leases'[j] # leases[j]
    BY <1>1, UnchangedUse, Zenon
  <2>2. /\ Live(j) /\ leases[j].ref = e
        /\ leases'[j] = [leases[j] EXCEPT !.phase = "deleted"]
    BY <2>1, Zenon DEF ExporterChange
  <2>3. leases[j] \in Lease
    BY Zenon DEF TypeOK
  <2>4. leases'[j].ended = leases[j].ended /\ leases'[j].phase = "deleted"
    BY <2>2, <2>3, CreatedType DEF SameStatus
  <2>5. CASE leases[j].ended
    BY <1>1, <2>4, <2>5, Zenon DEF SameUse, Active, Over
  <2>6. e # NoExporter
    BY NamesAssumption, Zenon
  <2> QED BY <2>2, <2>5, <2>6, Zenon DEF Active
<1> QED BY <1>1, Zenon DEF ExclusiveLease

(* A step changes what at most one lease holds.                            *)
LEMMA OneUse ==
    ASSUME TypeOK, ExclusiveLease, [Next]_vars
    PROVE  \/ \A k \in Leases : SameUse(k)
           \/ \E l \in Leases : \A k \in Leases \ {l} : SameUse(k)
<1> DEFINE Goal == \/ \A k \in Leases : SameUse(k)
                   \/ \E l \in Leases : \A k \in Leases \ {l} : SameUse(k)
<1> SUFFICES Goal
  OBVIOUS
<1>0. leases \in [Leases -> Lease]
  BY Zenon DEF TypeOK
<1>1. ASSUME NEW l \in Leases, NEW new, leases' = leases \/ leases' = [leases EXCEPT ![l] = new]
      PROVE  Goal
  BY <1>0, <1>1, OthersUnchanged, Zenon
<1>2. CASE leases' = leases
  BY <1>2, UnchangedUse, Zenon
<1>3. ASSUME NEW e \in Exporters, ExporterChange(e) PROVE Goal
  BY <1>3, CollectedUse, Zenon
<1> HIDE DEF Goal
<1>4. ASSUME NEW l \in Leases, CreateLease(l) PROVE Goal
  BY <1>1, <1>4, Zenon DEF CreateLease, Write
<1>5. ASSUME NEW l \in Leases, ReleaseLease(l) PROVE Goal
  BY <1>1, <1>5, Zenon DEF ReleaseLease, Write
<1>6. ASSUME NEW c \in Updaters, UpdateLeasePatch(c) PROVE Goal
  <2> DEFINE l == updates[c].lease
             new == Patched(leases[l], updates[c].read, updates[c].new)
  <2>1. l \in Leases
    BY <1>6, Zenon DEF UpdateLeasePatch, TypeOK
  <2>2. leases' = leases \/ leases' = [leases EXCEPT ![l] = new]
    BY <1>6, Zenon DEF UpdateLeasePatch, Write
  <2> HIDE DEF l, new
  <2> QED BY <1>1, <2>1, <2>2, Zenon
<1>7. ASSUME NEW l \in Leases, ReconcileStatus(l) PROVE Goal
  <2>1. PICK x \in Attachments : \E n \in Reconciled(cache[l], x) :
          leases' = [leases EXCEPT ![l] = n]
    BY <1>7, Zenon DEF ReconcileStatus, StatusUpdate
  <2> QED BY <1>1, <2>1, Zenon
<1>8. ASSUME NEW l \in Leases, ReconcileMetadata(l) PROVE Goal
  <2>1. leases' = leases \/ leases' = [leases EXCEPT ![l] = Labelled(leases[l])]
    BY <1>8, Zenon DEF ReconcileMetadata, Labelled
  <2> QED BY <1>1, <2>1, Zenon
<1>9. ASSUME NEW l \in Leases, SyncLease(l) PROVE leases' = leases
  BY <1>9, Zenon DEF SyncLease
<1>10. ASSUME NEW c \in Updaters, NEW l \in Leases, NEW u \in UpdateRequests, UpdateLease(c, l, u)
       PROVE  leases' = leases
  BY <1>10, Zenon DEF UpdateLease
<1>11. ASSUME NEW e \in Exporters, ReconcileLeaseRef(e) \/ SyncExporter(e) PROVE leases' = leases
  BY <1>11, Zenon DEF ReconcileLeaseRef, SyncExporter
<1>12. Tick \/ Restart \/ UNCHANGED vars => leases' = leases
  BY Zenon DEF Tick, Restart, vars
<1> QED BY <1>2, <1>3, <1>4, <1>5, <1>6, <1>7, <1>8, <1>9, <1>10, <1>11, <1>12 DEF Next
-----------------------------------------------------------------------------
(* The steps of ExclusiveUse, by what becomes of one lease.                *)

LEMMA StutterUse ==
    ASSUME \A k \in Leases : SameUse(k)
    PROVE  UNCHANGED Use!vars
<1>1. Holders' = Holders
  BY Zenon DEF Holders, SameUse
<1>2. Spent' = Spent
  BY Zenon DEF Spent, SameUse, Over
<1> QED BY <1>1, <1>2, Zenon DEF Use!vars

LEMMA RetireUse ==
    ASSUME NEW l \in Leases, \A k \in Leases \ {l} : SameUse(k),
           ~Active(l), ~Active(l)', Over(l)'
    PROVE  Use!Retire(l)
<1>1. Holders' = Holders
  BY Zenon DEF Holders, SameUse
<1>2. Spent' = Spent \cup {l}
  BY Zenon DEF Spent, SameUse, Over
<1>3. \A e \in Exporters : l \notin Holders[e]
  BY Zenon DEF Holders
<1> QED BY <1>1, <1>2, <1>3, Zenon DEF Use!Retire

LEMMA GiveBackUse ==
    ASSUME ExclusiveLease, NEW l \in Leases, \A k \in Leases \ {l} : SameUse(k),
           Active(l), leases[l].ref \in Exporters, ~Active(l)', Over(l)'
    PROVE  Use!GiveBack(leases[l].ref)
<1> DEFINE e == leases[l].ref
<1>1. \A k \in Leases \ {l} : Active(k) => leases[k].ref # e
  BY Zenon DEF ExclusiveLease
<1>2. Holders[e] = {l}
  BY <1>1, Zenon DEF Holders
<1>3. Spent' = Spent \cup {l}
  BY Zenon DEF Spent, SameUse, Over
<1>4. Holders' = [Holders EXCEPT ![e] = {}]
  <2>1. \A d \in Exporters : Holders'[d] = IF d = e THEN {} ELSE Holders[d]
    BY <1>1, Zenon DEF Holders, SameUse
  <2> QED BY <2>1, Zenon DEF Holders
<1> QED BY <1>2, <1>3, <1>4, Zenon DEF Use!GiveBack

LEMMA TakeUse ==
    ASSUME NEW l \in Leases, \A k \in Leases \ {l} : SameUse(k),
           ~Active(l), ~Over(l), Active(l)', ~Over(l)', leases'[l].ref \in Exporters,
           \A k \in Leases \ {l} : Active(k) => leases[k].ref # leases'[l].ref
    PROVE  Use!Take(leases'[l].ref, l)
<1> DEFINE e == leases'[l].ref
<1>1. Holders[e] = {}
  BY Zenon DEF Holders
<1>2. l \notin Spent /\ Spent' = Spent
  BY Zenon DEF Spent, SameUse, Over
<1>3. \A d \in Exporters : l \notin Holders[d]
  BY Zenon DEF Holders
<1>4. Holders' = [Holders EXCEPT ![e] = {l}]
  <2>1. \A d \in Exporters : Holders'[d] = IF d = e THEN {l} ELSE Holders[d]
    BY Zenon DEF Holders, SameUse
  <2> QED BY <2>1, Zenon DEF Holders
<1> QED BY <1>1, <1>2, <1>3, <1>4, Zenon DEF Use!Take

LEMMA ExclusiveUseInit == Init => Use!Init
<1> SUFFICES ASSUME Init PROVE Use!Init
  OBVIOUS
<1>1. \A l \in Leases : ~Active(l) /\ ~Over(l)
  <2> SUFFICES ASSUME NEW l \in Leases PROVE ~Active(l) /\ ~Over(l)
    OBVIOUS
  <2>1. PICK q \in Requests : leases[l] = NewLease(q)
    BY Zenon DEF Init
  <2>2. NewLease(q).phase = "none" /\ ~NewLease(q).ended
    BY Zenon DEF NewLease, Fresh
  <2> QED BY <2>1, <2>2, Zenon DEF Active, Live, Over
<1>2. Holders = [e \in Exporters |-> {}]
  BY <1>1, Zenon DEF Holders
<1>3. Spent = {}
  BY <1>1, Zenon DEF Spent, Over
<1> QED BY <1>2, <1>3, Zenon DEF Use!Init

LEMMA ExclusiveUseNext ==
    ASSUME ReadYourWrites, ExclusiveInv, [Next]_vars
    PROVE  [Use!Next]_(Use!vars)
<1>1. TypeOK /\ CurrentIsEqual /\ ExclusiveLease
  BY Zenon DEF ExclusiveInv, Inv
<1>2. CASE \A k \in Leases : SameUse(k)
  BY <1>2, StutterUse, Zenon
<1>3. ASSUME NEW l \in Leases, \A k \in Leases \ {l} : SameUse(k)
      PROVE  [Use!Next]_(Use!vars)
  <2>1. leases[l].ended => leases'[l].ended
    BY <1>1, NextLeaseStep, Zenon DEF LeaseStep, Forward
  <2>2. leases[l] \in Lease
    BY <1>1, Zenon DEF TypeOK
  <2>3. CASE Keeps(l)
    <3>1. Active(l)' => Active(l)
      BY <2>1, <2>3, Zenon DEF Active, Live, Keeps, ExclusiveInv, UnbornHasNone
    <3>2. Over(l) => Over(l)'
      BY <2>1, <2>3, Zenon DEF Over, Keeps
    <3>3. CASE Active(l) /\ Active(l)'
      <4>1. SameUse(l)
        BY <2>3, <3>3, Zenon DEF SameUse, Over, Active, Live, Keeps
      <4> QED BY <1>3, <4>1, StutterUse
    <3>4. CASE Active(l) /\ ~Active(l)'
      <4>1. Over(l)'
        BY <2>3, <3>4 DEF Over, Active, Live, Keeps
      <4>2. leases[l].ref \in Exporters
        BY <2>2, <3>4, Zenon DEF Active, Lease, LeaseFields
      <4>3. Use!GiveBack(leases[l].ref)
        BY <1>1, <1>3, <3>4, <4>1, <4>2, GiveBackUse, Zenon
      <4> QED BY <4>2, <4>3, Zenon DEF Use!Next
    <3>5. CASE ~Active(l) /\ Over(l)'
      <4>1. Use!Retire(l)
        BY <1>3, <3>1, <3>5, RetireUse
      <4> QED BY <4>1 DEF Use!Next
    <3>6. CASE ~Active(l) /\ ~Over(l)'
      <4>1. SameUse(l)
        BY <3>1, <3>2, <3>6, Zenon DEF SameUse
      <4> QED BY <1>3, <4>1, StutterUse, Zenon
    <3> QED BY <3>3, <3>4, <3>5, <3>6
  <2>4. CASE Grants(l)
    <3>1. ~Active(l)
      BY <2>4, Zenon DEF Grants, Active
    <3>2. CASE leases'[l].ended
      <4>1. ~Active(l)' /\ Over(l)'
        BY <3>2, Zenon DEF Active, Over
      <4>2. Use!Retire(l)
        BY <1>3, <3>1, <4>1, RetireUse
      <4> QED BY <4>2, Zenon DEF Use!Next
    <3>3. CASE ~leases'[l].ended
      <4>1. leases'[l].ref \in Exporters /\ leases'[l].ref # NoExporter
        BY <2>4, NamesAssumption, Zenon DEF Grants
      <4>2. ~Over(l) /\ Active(l)' /\ ~Over(l)'
        BY <2>1, <2>4, <3>3, <4>1 DEF Grants, Active, Live, Over
      <4>3. ASSUME NEW k \in Leases \ {l}, Active(k) PROVE leases[k].ref # leases'[l].ref
        <5>1. cache[k].ref = leases[k].ref /\ cache[k].phase = "live" /\ ~cache[k].label
          BY <4>3, Zenon
          DEF Active, ExclusiveInv, CacheHasRef, HolderIsCached, Inv, CacheIsPast, Past
        <5>2. k \in ActiveOn(leases[k].ref)
          BY <5>1 DEF ActiveOn, ActiveLeases
        <5> QED BY <2>4, <5>2, Zenon DEF Grants
      <4>4. Use!Take(leases'[l].ref, l)
        BY <1>3, <3>1, <4>1, <4>2, <4>3, TakeUse, Zenon
      <4> QED BY <4>1, <4>4, Zenon DEF Use!Next
    <3> QED BY <3>2, <3>3, Zenon
  <2>5. Keeps(l) \/ Grants(l)
    BY <1>1, NextGrants, Zenon
  <2> QED BY <2>3, <2>4, <2>5, Zenon
<1>4. \/ \A k \in Leases : SameUse(k)
      \/ \E l \in Leases : \A k \in Leases \ {l} : SameUse(k)
  BY <1>1, OneUse
<1> QED BY <1>2, <1>3, <1>4, Zenon

(* The lease calls, the two reconcilers and the garbage collection, seen   *)
(* from the exporters, are exclusive use and nothing else, provided the    *)
(* reconciler's cache has the writes the reconciler has made.              *)
THEOREM LeasingIsExclusiveUse == ReadYourWrites => (Spec => ImplementsExclusiveUse)
<1> SUFFICES ASSUME ReadYourWrites PROVE Spec => Use!Spec
  BY Zenon DEF ImplementsExclusiveUse
<1>1. ExclusiveInv /\ [Next]_vars => ExclusiveInv'
  BY ExclusiveNext, Zenon
<1>2. ExclusiveInv /\ [Next]_vars => [Use!Next]_(Use!vars)
  BY ExclusiveUseNext, Zenon
<1> QED BY <1>1, <1>2, ExclusiveInit, ExclusiveUseInit, PTL DEF Spec, Use!Spec

==============================================================================
