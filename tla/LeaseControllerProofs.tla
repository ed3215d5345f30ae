------------------------ MODULE LeaseControllerProofs ------------------------
(***************************************************************************)
(* What holds of LeaseController for any leases, exporters, policies and   *)
(* requests.                                                               *)
(***************************************************************************)
EXTENDS LeaseController, TLAPS

(* The fields ReconcileLeaseTimeFields accepts, it leaves with a positive  *)
(* duration that fits the window, and accepts again unchanged.             *)
THEOREM AcceptedIsConsistent ==
    ASSUME NEW t \in TimeFields, Accepted(t)
    PROVE  /\ ReconcileLeaseTimeFields(t) \in TimeFields
           /\ Consistent(ReconcileLeaseTimeFields(t))
           /\ Accepted(ReconcileLeaseTimeFields(t))
           /\ ReconcileLeaseTimeFields(ReconcileLeaseTimeFields(t)) = ReconcileLeaseTimeFields(t)
<1> DEFINE n == ReconcileLeaseTimeFields(t)
<1>1. CASE IsSet(t.begin) /\ IsSet(t.end)
  <2>1. n = [t EXCEPT !.dur = t.end - t.begin] /\ n \in TimeFields
    BY <1>1, NoTimeAssumption DEF ReconcileLeaseTimeFields, TimeFields, Times, IsSet
  <2>2. n.begin = t.begin /\ n.end = t.end /\ n.dur = t.end - t.begin /\ n.dur \in Int /\ n.dur > 0
    BY <1>1, <2>1, NoTimeAssumption, Zenon DEF Accepted, TimeFields, Times, IsSet
  <2>3. ReconcileLeaseTimeFields(n) = n
    BY <1>1, <2>1, <2>2, Zenon DEF ReconcileLeaseTimeFields, TimeFields
  <2> QED BY <1>1, <2>1, <2>2, <2>3, NoTimeAssumption, Zenon
          DEF Consistent, Accepted, Conflicting, IsSet, TimeFields, Times
<1>2. CASE ~(IsSet(t.begin) /\ IsSet(t.end)) /\ IsSet(t.end) /\ IsSet(t.dur) /\ t.dur > 0
  <2>1. n = [t EXCEPT !.begin = t.end - t.dur] /\ n \in TimeFields
    BY <1>2, NoTimeAssumption DEF ReconcileLeaseTimeFields, TimeFields, Times, IsSet
  <2>2. n.begin = t.end - t.dur /\ n.end = t.end /\ n.dur = t.dur /\ n.end \in Int /\ n.dur \in Int
    BY <1>2, <2>1, NoTimeAssumption, Zenon DEF TimeFields, Times, IsSet
  <2>3. ReconcileLeaseTimeFields(n) = n
    <3>1. n.end - n.begin = n.dur /\ n.begin \in Int
      BY <2>2
    <3> QED BY <1>2, <2>1, <2>2, <3>1, NoTimeAssumption, Zenon DEF ReconcileLeaseTimeFields, TimeFields, IsSet
  <2> QED BY <1>2, <2>1, <2>2, <2>3, NoTimeAssumption
          DEF Consistent, Accepted, Conflicting, IsSet, TimeFields, Times
<1>3. CASE ~IsSet(t.end) /\ ~(IsSet(t.begin) /\ IsSet(t.end))
  BY <1>3, NoTimeAssumption, Zenon
  DEF ReconcileLeaseTimeFields, Consistent, Accepted, Conflicting, IsSet, TimeFields, Times
<1>4. CASE IsSet(t.end) /\ ~IsSet(t.begin) /\ ~(IsSet(t.dur) /\ t.dur > 0)
  BY <1>4, NoTimeAssumption, Zenon DEF ReconcileLeaseTimeFields, Accepted, IsSet
<1> QED BY <1>1, <1>2, <1>3, <1>4, Zenon

(* Storing a time in whole seconds keeps whether it is set, and changes    *)
(* nothing when it is done again.                                          *)
LEMMA WholeType ==
    ASSUME NEW x \in Times
    PROVE  /\ Whole(x) \in Times /\ (IsSet(Whole(x)) <=> IsSet(x))
           /\ Whole(Whole(x)) = Whole(x)
<1>1. CASE ~IsSet(x)
  BY <1>1, Zenon DEF Whole
<1>2. CASE IsSet(x)
  <2>1. x \in Int
    BY <1>2, Zenon DEF Times, IsSet
  <2>2. x - (x % Second) \in Int /\ (x - (x % Second)) % Second = 0
    BY <2>1, SecondAssumption
  <2>3. Whole(x) = x - (x % Second)
    BY <1>2, Zenon DEF Whole
  <2>4. Whole(x) \in Int /\ IsSet(Whole(x)) /\ Whole(x) % Second = 0
    BY <2>2, <2>3, NoTimeAssumption, Zenon DEF IsSet
  <2>5. Whole(Whole(x)) = Whole(x) - (Whole(x) % Second)
    BY <2>4, Zenon DEF Whole
  <2>6. Whole(Whole(x)) = Whole(x)
    BY <2>4, <2>5
  <2> QED BY <1>2, <2>4, <2>6, Zenon DEF Times
<1> QED BY <1>1, <1>2, Zenon

LEMMA StoredType ==
    ASSUME NEW t \in TimeFields
    PROVE  Stored(t) \in TimeFields
<1>1. t.begin \in Times /\ t.end \in Times /\ t.dur \in Times
  BY Zenon DEF TimeFields
<1>2. Whole(t.begin) \in Times /\ Whole(t.end) \in Times
  BY <1>1, WholeType, Zenon
<1> QED BY <1>1, <1>2, Zenon DEF Stored, TimeFields

(* Once stored, such fields agree to within a second.                      *)
THEOREM StoredAgrees ==
    ASSUME NEW t \in TimeFields, Consistent(t)
    PROVE  Usable(Stored(t)) /\ Agree(Stored(t))
<1> DEFINE s == Stored(t)
<1>1. t.begin \in Times /\ t.end \in Times /\ t.dur \in Times
  BY Zenon DEF TimeFields
<1>2. s.begin = Whole(t.begin) /\ s.end = Whole(t.end) /\ s.dur = t.dur
  BY Zenon DEF Stored
<1> HIDE DEF s
<1>3. (IsSet(s.begin) <=> IsSet(t.begin)) /\ (IsSet(s.end) <=> IsSet(t.end))
  BY <1>1, <1>2, WholeType, Zenon
<1>4. Usable(s)
  BY <1>2, <1>3, Zenon DEF Consistent, Usable
<1>5. Agree(s)
  <2> SUFFICES ASSUME IsSet(s.begin), IsSet(s.end), IsSet(s.dur)
               PROVE  /\ s.end - s.begin - s.dur < Second
                      /\ s.dur - (s.end - s.begin) < Second
    BY Zenon DEF Agree
  <2>1. t.begin \in Int /\ t.end \in Int /\ t.dur \in Int /\ t.end - t.begin = t.dur
    BY <1>1, <1>2, <1>3, Zenon DEF Consistent, Times, IsSet
  <2>2. s.begin = t.begin - (t.begin % Second) /\ s.end = t.end - (t.end % Second)
    BY <1>2, <1>3, Zenon DEF Whole
  <2>3. t.begin % Second \in 0..(Second - 1) /\ t.end % Second \in 0..(Second - 1)
    BY <2>1, SecondAssumption
  <2> QED BY <1>2, <2>1, <2>2, <2>3, SecondAssumption
<1> QED BY <1>4, <1>5, Zenon DEF s

-----------------------------------------------------------------------------
(* What one pass of Reconcile can make of a lease.                         *)

Attached == [Exporters -> Leases \cup {NoLease}]

LEMMA MatchingSubset ==
    ASSUME NEW q \in Requests
    PROVE  MatchingExporters(q) \subseteq Exporters
<1>1. q.exporter \in Exporters \cup {NoExporter}
  BY RequestsAssumption, Zenon
<1>2. ListMatchingExporters(q) \subseteq Exporters
  BY Zenon DEF ListMatchingExporters
<1>3. CASE q.exporter = NoExporter
  <2>1. MatchingExporters(q) = {e \in ListMatchingExporters(q) : exporters[e].enabled}
    BY <1>3, Zenon DEF MatchingExporters
  <2> QED BY <1>2, <2>1, Zenon
<1>4. CASE q.exporter # NoExporter
  <2>1. MatchingExporters(q) = {q.exporter}
    BY <1>4, Zenon DEF MatchingExporters
  <2> QED BY <1>1, <1>4, <2>1, Zenon
<1> QED BY <1>3, <1>4, Zenon

LEMMA ApprovedType ==
    ASSUME NEW r, NEW es, NEW a \in attachMatchingPolicies(r, es)
    PROVE  a.exporter \in es /\ a.spot \in BOOLEAN
<1>1. CASE Policies = {}
  <2>1. PICK e \in es : a = [exporter |-> e, priority |-> 0, spot |-> FALSE]
    BY <1>1, Zenon DEF attachMatchingPolicies
  <2> QED BY <2>1, Zenon
<1>2. CASE Policies # {}
  <2>1. PICK b \in es \X Policies :
          a = [exporter |-> b[1], priority |-> b[2].priority, spot |-> b[2].spot]
    BY <1>2, Zenon DEF attachMatchingPolicies
  <2>2. b[1] \in es /\ b[2] \in Policies
    BY <2>1, Zenon
  <2> QED BY <2>1, <2>2, PoliciesAssumption, Zenon
<1> QED BY <1>1, <1>2, Zenon

(* A pass ends in a failure, leaves the lease pending, or gives it an      *)
(* exporter with no lease attached.                                        *)
AssignOutcome(r, x, n) ==
    \/ \E f \in Reasons : n = [r EXCEPT !.failed = f]
    \/ \E p \in PendingReasons : n = [r EXCEPT !.pending = p]
    \/ \E e \in Exporters, s \in BOOLEAN :
         x[e] = NoLease /\ n = [r EXCEPT !.ref = e, !.spot = s]

LEMMA AssignShape ==
    ASSUME NEW r, r.request \in Requests, NEW x \in Attached, NEW n \in Assign(r, x)
    PROVE  AssignOutcome(r, x, n)
<1> DEFINE approved == attachMatchingPolicies(r, MatchingExporters(r.request))
           online == filterOutOfflineExporters(approved)
           available == filterOutLeasedExporters(online, x)
           ready == filterOutNotReadyExporters(available)
           failure == TargetFailure(r.request)
<1>1. failure \in Reasons
  BY Zenon DEF TargetFailure, Reasons
<1>2. \A a \in First(ready, x) : a.exporter \in Exporters /\ a.spot \in BOOLEAN
  <2>1. First(ready, x) \subseteq approved
    BY Zenon
    DEF First, filterOutNotReadyExporters, filterOutLeasedExporters, filterOutOfflineExporters
  <2> HIDE DEF approved, ready
  <2> QED
    <3> SUFFICES ASSUME NEW a \in First(ready, x)
                 PROVE  a.exporter \in Exporters /\ a.spot \in BOOLEAN
      OBVIOUS
    <3>1. a \in attachMatchingPolicies(r, MatchingExporters(r.request))
      BY <2>1, Zenon DEF approved
    <3> QED BY <3>1, ApprovedType, MatchingSubset, Zenon
<1>3. \/ n = [r EXCEPT !.failed = failure]
      \/ n = [r EXCEPT !.failed = "NoAccess"]
      \/ n = [r EXCEPT !.failed = "SpotAccess"]
      \/ n = [r EXCEPT !.pending = "Offline"]
      \/ n = [r EXCEPT !.pending = "NotAvailable"]
      \/ n = [r EXCEPT !.pending = "NotReady"]
      \/ /\ \A a \in First(ready, x) : x[a.exporter] = NoLease
         /\ \E a \in First(ready, x) : n = [r EXCEPT !.ref = a.exporter, !.spot = a.spot]
  BY Zenon DEF Assign
<1> HIDE DEF approved, online, available, ready, failure
<1> QED BY <1>1, <1>2, <1>3, Zenon DEF AssignOutcome, Reasons, PendingReasons

(* Reconcile keeps the spec and the metadata, never takes back an end, a   *)
(* begin or an exporter, and gives only an exporter with no lease attached.*)
LEMMA ReconciledShape ==
    ASSUME NEW r \in Lease, NEW x \in Attached, now \in Int,
           NEW n \in Reconciled(r, x)
    PROVE  /\ n \in Lease
           /\ n.phase = r.phase /\ n.label = r.label /\ n.owned = r.owned
           /\ r.ended => n.ended
           /\ IsSet(r.bt) => n.bt = r.bt
           /\ \/ n.ref = r.ref
              \/ r.ref = NoExporter /\ n.ref \in Exporters /\ x[n.ref] = NoLease
<1> DEFINE Good(k) ==
             /\ k \in LeaseFields
             /\ k.phase = r.phase /\ k.label = r.label /\ k.owned = r.owned
             /\ r.ended => k.ended
             /\ IsSet(r.bt) => k.bt = r.bt
             /\ \/ k.ref = r.ref
                \/ r.ref = NoExporter /\ k.ref \in Exporters /\ x[k.ref] = NoLease
<1>1. r \in LeaseFields /\ (IsSet(r.bt) <=> r.ref # NoExporter) /\ Whole(r.bt) = r.bt
  BY Zenon DEF Lease
<1>2. PICK a \in reconcileStatusExporterRef(r, x) :
        n = [reconcileStatusEnded(reconcileStatusBeginEndTimes(a)) EXCEPT !.bt = Whole(@)]
  BY Zenon DEF Reconciled
<1> DEFINE b == reconcileStatusBeginEndTimes(a)
           d == reconcileStatusEnded(b)
<1>3. Good(a) /\ a.bt = r.bt
  <2>1. CASE a = r
    BY <1>1, <2>1, Zenon
  <2>2. CASE a \in Assign(r, x) /\ r.ref = NoExporter
    <3>1. r.request \in Requests
      BY <1>1, Zenon DEF LeaseFields
    <3>2. CASE \E f \in Reasons : a = [r EXCEPT !.failed = f]
      BY <1>1, <3>2, ZenonT(40) DEF LeaseFields
    <3>3. CASE \E p \in PendingReasons : a = [r EXCEPT !.pending = p]
      BY <1>1, <3>3, ZenonT(40) DEF LeaseFields
    <3>4. CASE \E e \in Exporters, s \in BOOLEAN :
                 x[e] = NoLease /\ a = [r EXCEPT !.ref = e, !.spot = s]
      <4>1. PICK e \in Exporters, s \in BOOLEAN :
              x[e] = NoLease /\ a = [r EXCEPT !.ref = e, !.spot = s]
        BY <3>4, Zenon
      <4>2. a \in LeaseFields
        BY <1>1, <4>1, Zenon DEF LeaseFields
      <4>3. /\ a.ref = e /\ a.phase = r.phase /\ a.label = r.label
            /\ a.owned = r.owned /\ a.ended = r.ended /\ a.bt = r.bt
        BY <1>1, <4>1, Zenon DEF LeaseFields
      <4> QED BY <2>2, <4>1, <4>2, <4>3, SMTT(30)
    <3>5. AssignOutcome(r, x, a)
      BY <2>2, <3>1, AssignShape, Zenon
    <3> HIDE DEF Good
    <3> QED BY <3>2, <3>3, <3>4, <3>5, Zenon DEF AssignOutcome
  <2> QED BY <1>2, <2>1, <2>2, Zenon DEF reconcileStatusExporterRef
<1>4. Good(b) /\ (IsSet(b.bt) <=> b.ref # NoExporter)
  <2>1. CASE a.bt = NoTime /\ a.ref # NoExporter
    <3>1. b = [a EXCEPT !.bt = now, !.ready = "True"]
      BY <2>1, Zenon DEF reconcileStatusBeginEndTimes
    <3> HIDE DEF b
    <3>2. b \in LeaseFields /\ b.bt = now /\ b.ref = a.ref /\ b.phase = a.phase
          /\ b.label = a.label /\ b.owned = a.owned /\ b.ended = a.ended
      BY <1>3, <3>1, Zenon DEF LeaseFields, Times
    <3> QED BY <1>3, <2>1, <3>2, NoTimeAssumption, Zenon DEF IsSet
  <2>2. CASE ~(a.bt = NoTime /\ a.ref # NoExporter)
    <3>1. b = a
      BY <2>2, Zenon DEF reconcileStatusBeginEndTimes
    <3> HIDE DEF b
    <3> QED BY <1>1, <1>3, <2>2, <3>1, Zenon DEF IsSet
  <2> QED BY <2>1, <2>2, Zenon
<1>5. \/ d = b
      \/ d = [b EXCEPT !.ended = TRUE]
      \/ d = [b EXCEPT !.ready = "False", !.ended = TRUE]
  BY Zenon DEF reconcileStatusEnded
<1>6. n = [d EXCEPT !.bt = Whole(d.bt)]
  BY <1>2, Zenon
<1> HIDE DEF b, d
<1>7. Good(d) /\ (IsSet(d.bt) <=> d.ref # NoExporter)
  BY <1>4, <1>5, ZenonT(60) DEF LeaseFields
<1>8. d.bt \in Times
  BY <1>7, Zenon DEF LeaseFields
<1>9. Whole(d.bt) \in Times /\ (IsSet(Whole(d.bt)) <=> IsSet(d.bt)) /\ Whole(Whole(d.bt)) = Whole(d.bt)
  BY <1>8, WholeType, Zenon
<1>10. n \in LeaseFields /\ n.bt = Whole(d.bt)
  BY <1>6, <1>7, <1>9, ZenonT(40) DEF LeaseFields
<1>11. /\ n.ref = d.ref /\ n.ended = d.ended
       /\ n.phase = d.phase /\ n.label = d.label /\ n.owned = d.owned
  BY <1>6, <1>7, ZenonT(40) DEF LeaseFields
<1>12. n \in Lease
  BY <1>7, <1>9, <1>10, <1>11, Zenon DEF Lease
<1>13. IsSet(r.bt) => n.bt = r.bt
  BY <1>1, <1>7, <1>10, Zenon
<1> QED BY <1>7, <1>11, <1>12, <1>13, Zenon

-----------------------------------------------------------------------------
(* Types.                                                                  *)

LEMMA TimeFieldsType ==
    ASSUME NEW t \in TimeFields
    PROVE  ReconcileLeaseTimeFields(t) \in TimeFields
<1>1. CASE IsSet(t.begin) /\ IsSet(t.end)
  BY <1>1, NoTimeAssumption DEF ReconcileLeaseTimeFields, TimeFields, Times, IsSet
<1>2. CASE ~(IsSet(t.begin) /\ IsSet(t.end)) /\ IsSet(t.end) /\ IsSet(t.dur) /\ t.dur > 0
  BY <1>2, NoTimeAssumption DEF ReconcileLeaseTimeFields, TimeFields, Times, IsSet
<1>3. CASE ~(IsSet(t.begin) /\ IsSet(t.end)) /\ ~(IsSet(t.end) /\ IsSet(t.dur) /\ t.dur > 0)
  BY <1>3, Zenon DEF ReconcileLeaseTimeFields
<1> QED BY <1>1, <1>2, <1>3, Zenon

LEMMA RequestType ==
    ASSUME NEW q \in Requests
    PROVE  q.client \in Clients /\ q.time \in TimeFields
BY RequestsAssumption, Zenon

LEMMA FreshType ==
    ASSUME NEW q \in Requests, NEW t \in TimeFields
    PROVE  Fresh(q, t) \in Lease /\ Fresh(q, t).ref = NoExporter /\ ~Fresh(q, t).label
<1>1. t.begin \in Times /\ t.end \in Times /\ t.dur \in Times
  BY Zenon DEF TimeFields
<1>2. q.client \in Clients /\ NoTime \in Times
  BY RequestType, Zenon DEF Times
<1>3. Fresh(q, t) \in LeaseFields
  BY <1>1, <1>2, Zenon DEF Fresh, LeaseFields, Reasons, PendingReasons
<1>4. Fresh(q, t).bt = NoTime /\ Fresh(q, t).ref = NoExporter
  BY Zenon DEF Fresh
<1>5. ~Fresh(q, t).label
  BY Zenon DEF Fresh
<1> QED BY <1>3, <1>4, <1>5, Zenon DEF Lease, IsSet, Whole

LEMMA NewLeaseType ==
    ASSUME NEW q \in Requests
    PROVE  NewLease(q) \in Lease /\ NewLease(q).ref = NoExporter /\ ~NewLease(q).label
<1>1. CASE q.call = "CreateLease"
  <2>1. Stored(ReconcileLeaseTimeFields(q.time)) \in TimeFields
    BY RequestType, TimeFieldsType, StoredType, Zenon
  <2>2. NewLease(q) = Fresh(q, Stored(ReconcileLeaseTimeFields(q.time)))
    BY <1>1, Zenon DEF NewLease
  <2> QED BY <2>1, <2>2, FreshType, Zenon
<1>2. CASE q.call # "CreateLease"
  <2> DEFINE t == [begin |-> NoTime, end |-> NoTime, dur |-> q.time.dur]
  <2>1. t \in TimeFields
    BY RequestType, Zenon DEF TimeFields, Times
  <2>2. NewLease(q) = Fresh(q, t)
    BY <1>2, Zenon DEF NewLease
  <2> HIDE DEF t
  <2> QED BY <2>1, <2>2, FreshType, Zenon
<1> QED BY <1>1, <1>2, Zenon

LEMMA UpdatedType ==
    ASSUME NEW r \in Lease, NEW u \in UpdateRequests
    PROVE  MutableOf(r) \in Mutable /\ Updated(r, u).new \in Mutable
<1> DEFINE desired == ReconcileLeaseTimeFields(u.time)
           t == [begin |-> IF IsSet(u.time.begin) THEN desired.begin ELSE r.begin,
                 end |-> IF IsSet(u.time.end) THEN desired.end ELSE r.end,
                 dur |-> IF IsSet(u.time.dur) THEN desired.dur ELSE r.dur]
           c == IF u.client = NoClient THEN r.client ELSE u.client
           new == IF IsSet(u.time.begin) \/ IsSet(u.time.end) \/ IsSet(u.time.dur)
                    THEN Stored(ReconcileLeaseTimeFields(t)) ELSE t
<1>1. r.begin \in Times /\ r.end \in Times /\ r.dur \in Times /\ r.client \in Clients
  BY Zenon DEF Lease, LeaseFields
<1>2. u.time \in TimeFields /\ u.client \in Clients \cup {NoClient}
  BY UpdateRequestsAssumption, Zenon
<1>3. desired \in TimeFields
  BY <1>2, TimeFieldsType, Zenon
<1>4. c \in Clients
  BY <1>1, <1>2, Zenon
<1>5. t \in TimeFields
  <2> HIDE DEF desired
  <2> QED BY <1>1, <1>3, Zenon DEF TimeFields
<1> HIDE DEF t, c, desired
<1>6. new \in TimeFields
  BY <1>5, TimeFieldsType, StoredType, Zenon
<1>7. Updated(r, u).new =
        [begin |-> new.begin, end |-> new.end, dur |-> new.dur, client |-> c]
  BY Zenon DEF Updated, t, c, desired
<1> HIDE DEF new
<1> QED BY <1>1, <1>4, <1>6, <1>7 DEF MutableOf, Mutable, TimeFields

LEMMA PatchedType ==
    ASSUME NEW r \in Lease, NEW read \in Mutable, NEW new \in Mutable
    PROVE  /\ Patched(r, read, new) \in Lease
           /\ \A f \in {"ref", "bt", "ended", "label", "phase"} : Patched(r, read, new)[f] = r[f]
<1> DEFINE n == Patched(r, read, new)
           b == IF new.begin = read.begin THEN r.begin ELSE new.begin
           e == IF new.end = read.end THEN r.end ELSE new.end
           d == IF new.dur = read.dur THEN r.dur ELSE new.dur
           c == IF new.client = read.client THEN r.client ELSE new.client
<1>1. r \in LeaseFields /\ (IsSet(r.bt) <=> r.ref # NoExporter) /\ Whole(r.bt) = r.bt
  BY Zenon DEF Lease
<1>2. b \in Times /\ e \in Times /\ d \in Times /\ c \in Clients
  BY <1>1, Zenon DEF LeaseFields, Mutable
<1>3. n = [r EXCEPT !.begin = b, !.end = e, !.dur = d, !.client = c]
  BY Zenon DEF Patched
<1> HIDE DEF b, e, d, c, n
<1>4. n \in LeaseFields
  BY <1>1, <1>2, <1>3, ZenonT(60) DEF LeaseFields
<1>5. /\ n.ref = r.ref /\ n.bt = r.bt /\ n.ended = r.ended
      /\ n.label = r.label /\ n.phase = r.phase
  BY <1>1, <1>3, Zenon DEF LeaseFields
<1>6. n \in Lease
  BY <1>1, <1>4, <1>5, Zenon DEF Lease
<1> QED BY <1>5, <1>6, Zenon DEF n

(* The other writes to a lease leave its status alone.                     *)
SameStatus(r, n) == n.ref = r.ref /\ n.bt = r.bt /\ n.ended = r.ended

LEMMA CreatedType ==
    ASSUME NEW r \in Lease, NEW p \in {"live", "deleted"}
    PROVE  /\ [r EXCEPT !.phase = p] \in Lease
           /\ SameStatus(r, [r EXCEPT !.phase = p])
           /\ [r EXCEPT !.phase = p].label = r.label
           /\ [r EXCEPT !.phase = p].phase = p
BY Zenon DEF Lease, LeaseFields, SameStatus

LEMMA ReleasedType ==
    ASSUME NEW r \in Lease
    PROVE  /\ [r EXCEPT !.release = TRUE] \in Lease
           /\ SameStatus(r, [r EXCEPT !.release = TRUE])
           /\ [r EXCEPT !.release = TRUE].label = r.label
           /\ [r EXCEPT !.release = TRUE].phase = r.phase
BY Zenon DEF Lease, LeaseFields, SameStatus

(* What the metadata Update writes.                                        *)
Labelled(r) == [r EXCEPT !.label = @ \/ r.ended, !.owned = @ \/ r.ref # NoExporter]

LEMMA LabelledType ==
    ASSUME NEW r \in Lease
    PROVE  /\ Labelled(r) \in Lease
           /\ SameStatus(r, Labelled(r))
           /\ Labelled(r).label = (r.label \/ r.ended)
           /\ Labelled(r).phase = r.phase
<1>1. r \in LeaseFields /\ (IsSet(r.bt) <=> r.ref # NoExporter)
  BY Zenon DEF Lease
<1>2. Labelled(r) \in LeaseFields
  BY <1>1, ZenonT(60) DEF Labelled, LeaseFields
<1>3. /\ Labelled(r).ref = r.ref /\ Labelled(r).bt = r.bt /\ Labelled(r).ended = r.ended
      /\ Labelled(r).label = (r.label \/ r.ended) /\ Labelled(r).phase = r.phase
  BY <1>1, Zenon DEF Labelled, LeaseFields
<1> QED BY <1>1, <1>2, <1>3, Zenon DEF Lease, SameStatus

(* A write of one lease by anyone but the reconciler.                      *)
LEMMA WriteType ==
    ASSUME TypeOK, NEW l \in Leases, NEW new \in Lease, Write(l, new)
    PROVE  /\ leases' \in [Leases -> Lease]
           /\ current' \in [Leases -> BOOLEAN]
           /\ updating' \in Leases \cup {NoLease}
BY Zenon DEF TypeOK, Write

LEMMA InitType == Init => TypeOK
<1> SUFFICES ASSUME Init PROVE TypeOK
  OBVIOUS
<1>1. leases \in [Leases -> Lease]
  <2>1. {NewLease(q) : q \in Requests} \subseteq Lease
    BY NewLeaseType, Zenon
  <2> QED BY <2>1, Zenon DEF Init
<1>2. now \in 0..MaxTime /\ restarts \in 0..MaxRestarts
  BY BoundsAssumption DEF Init
<1> QED BY <1>1, <1>2, Zenon DEF Init, TypeOK

LEMMA NextType == TypeOK /\ [Next]_vars => TypeOK'
<1> SUFFICES ASSUME TypeOK, [Next]_vars PROVE TypeOK'
  OBVIOUS
<1>0. now \in Int
  BY BoundsAssumption DEF TypeOK
<1>1. ASSUME NEW l \in Leases, CreateLease(l) PROVE TypeOK'
  <2>1. [leases[l] EXCEPT !.phase = "live"] \in Lease
    BY CreatedType, Zenon DEF TypeOK
  <2> QED BY <1>1, <2>1, WriteType, Zenon DEF CreateLease, TypeOK
<1>2. ASSUME NEW l \in Leases, ReleaseLease(l) PROVE TypeOK'
  <2>1. [leases[l] EXCEPT !.release = TRUE] \in Lease
    BY ReleasedType, SMTT(30) DEF TypeOK
  <2> QED BY <1>2, <2>1, WriteType, Zenon DEF ReleaseLease, TypeOK
<1>3. ASSUME NEW c \in Updaters, NEW l \in Leases, NEW u \in UpdateRequests, UpdateLease(c, l, u)
      PROVE  TypeOK'
  <2>1. leases[l] \in Lease
    BY Zenon DEF TypeOK
  <2>2. [lease |-> l, read |-> MutableOf(leases[l]), new |-> Updated(leases[l], u).new]
          \in [lease : Leases, read : Mutable, new : Mutable]
    BY <2>1, UpdatedType, Zenon
  <2> QED BY <1>3, <2>2, Zenon DEF UpdateLease, TypeOK
<1>4. ASSUME NEW c \in Updaters, UpdateLeasePatch(c) PROVE TypeOK'
  <2> DEFINE l == updates[c].lease
             new == Patched(leases[l], updates[c].read, updates[c].new)
  <2>1. l \in Leases /\ updates[c].read \in Mutable /\ updates[c].new \in Mutable
    BY <1>4, Zenon DEF UpdateLeasePatch, TypeOK
  <2>2. new \in Lease
    BY <2>1, PatchedType, Zenon DEF TypeOK
  <2>3. UNCHANGED <<leases, current, updating>> \/ Write(l, new)
    BY <1>4, Zenon DEF UpdateLeasePatch
  <2>4. updates' \in [Updaters -> {Idle} \cup [lease : Leases, read : Mutable, new : Mutable]]
    BY <1>4, Zenon DEF UpdateLeasePatch, TypeOK
  <2> HIDE DEF l, new
  <2>5. /\ leases' \in [Leases -> Lease] /\ current' \in [Leases -> BOOLEAN]
        /\ updating' \in Leases \cup {NoLease}
    BY <2>1, <2>2, <2>3, WriteType, Zenon DEF TypeOK
  <2> QED BY <1>4, <2>4, <2>5, Zenon DEF UpdateLeasePatch, TypeOK
<1>5. ASSUME NEW l \in Leases, ReconcileStatus(l) PROVE TypeOK'
  <2>1. PICK x \in Attachments : \E new \in Reconciled(cache[l], x) :
          /\ leases' = [leases EXCEPT ![l] = new]
          /\ cache' = IF ReadYourWrites THEN [cache EXCEPT ![l] = new] ELSE cache
          /\ current' = [current EXCEPT ![l] = ReadYourWrites \/ new = cache[l]]
    BY <1>5, Zenon DEF ReconcileStatus, StatusUpdate
  <2>2. PICK new \in Reconciled(cache[l], x) :
          /\ leases' = [leases EXCEPT ![l] = new]
          /\ cache' = IF ReadYourWrites THEN [cache EXCEPT ![l] = new] ELSE cache
          /\ current' = [current EXCEPT ![l] = ReadYourWrites \/ new = cache[l]]
    BY <2>1, Zenon
  <2>3. x \in Attached /\ cache[l] \in Lease
    BY Zenon DEF Attachments, Attached, TypeOK
  <2>4. new \in Lease
    BY <1>0, <2>3, ReconciledShape, Zenon
  <2> QED BY <1>5, <2>2, <2>4, Zenon DEF ReconcileStatus, StatusUpdate, TypeOK
<1>6. ASSUME NEW l \in Leases, ReconcileMetadata(l) PROVE TypeOK'
  <2> DEFINE r == leases[l]
             new == Labelled(r)
  <2>1. new \in Lease
    BY LabelledType, Zenon DEF TypeOK
  <2>2. \/ UNCHANGED <<leases, cache, current>>
        \/ /\ leases' = [leases EXCEPT ![l] = new]
           /\ cache' = IF ReadYourWrites THEN [cache EXCEPT ![l] = new] ELSE cache
           /\ current' = [current EXCEPT ![l] = IF new = r THEN @ ELSE ReadYourWrites]
    BY <1>6, Zenon DEF ReconcileMetadata, Labelled
  <2> HIDE DEF new
  <2>3. /\ leases' \in [Leases -> Lease] /\ cache' \in [Leases -> Lease]
        /\ current' \in [Leases -> BOOLEAN]
    BY <2>1, <2>2, BoundsAssumption DEF TypeOK
  <2> QED BY <1>6, <2>3, Zenon DEF ReconcileMetadata, TypeOK
<1>7. ASSUME NEW l \in Leases, SyncLease(l) PROVE TypeOK'
  BY <1>7, Zenon DEF SyncLease, TypeOK
<1>8. ASSUME NEW e \in Exporters, ReconcileLeaseRef(e) PROVE TypeOK'
  <2>1. leaseRef' \in [Exporters -> Leases \cup {NoLease}]
    BY <1>8 DEF ReconcileLeaseRef, ActiveOn, ActiveLeases, TypeOK
  <2> QED BY <1>8, <2>1, Zenon DEF ReconcileLeaseRef, TypeOK
<1>9. ASSUME NEW e \in Exporters, SyncExporter(e) PROVE TypeOK'
  BY <1>9, Zenon DEF SyncExporter, TypeOK
<1>10. ASSUME NEW e \in Exporters, ExporterChange(e) PROVE TypeOK'
  <2>1. leases' \in [Leases -> Lease]
    <3>1. \A l \in Leases : leases[l] \in Lease /\ [leases[l] EXCEPT !.phase = "deleted"] \in Lease
      BY CreatedType, Zenon DEF TypeOK
    <3> QED BY <1>10, <3>1 DEF ExporterChange
  <2>2. current' \in [Leases -> BOOLEAN] /\ updating' \in Leases \cup {NoLease}
    BY <1>10 DEF ExporterChange, TypeOK
  <2>3. /\ leaseRef' \in [Exporters -> Leases \cup {NoLease}]
        /\ refView' \in [Exporters -> Leases \cup {NoLease}]
        /\ exporters' \in [Exporters -> ExporterStates]
    BY <1>10 DEF ExporterChange, TypeOK
  <2> QED BY <1>10, <2>1, <2>2, <2>3, Zenon DEF ExporterChange, TypeOK
<1>11. CASE Tick
  BY <1>11, BoundsAssumption DEF Tick, TypeOK
<1>12. CASE Restart
  BY <1>12, BoundsAssumption DEF Restart, TypeOK
<1>13. CASE UNCHANGED vars
  BY <1>13, Zenon DEF vars, TypeOK
<1> QED BY <1>1, <1>2, <1>3, <1>4, <1>5, <1>6, <1>7, <1>8, <1>9, <1>10, <1>11, <1>12, <1>13, Zenon
        DEF Next

(* The objects on the API server and in the cache are well formed; the     *)
(* status has a begin time exactly when it has an exporter.                *)
THEOREM LeaseTypeCorrect == Spec => []TypeOK
BY InitType, NextType, PTL DEF Spec

-----------------------------------------------------------------------------
(* Leases only move forward, and the cache holds some past of each.        *)

(* What a write may do to a stored lease.                                  *)
Forward(r, n) ==
    /\ r.ref # NoExporter => n.ref = r.ref
    /\ IsSet(r.bt) => n.bt = r.bt
    /\ r.ended => n.ended
    /\ n.label => r.label \/ r.ended

(* What the stored lease r still has of its cached copy c.                 *)
Past(c, r) ==
    /\ c.ref # NoExporter => r.ref = c.ref
    /\ c.label \/ c.ended => r.ended

CurrentIsEqual == \A l \in Leases : current[l] => cache[l] = leases[l]
CacheIsPast == \A l \in Leases : Past(cache[l], leases[l])

Inv == /\ TypeOK /\ CurrentIsEqual /\ CacheIsPast
       /\ LabelledIsEnded /\ LeaseRefWasAssigned

(* One step, seen from lease l.                                            *)
LeaseStep(l) ==
    /\ Forward(leases[l], leases'[l])
    /\ cache'[l] = cache[l] \/ cache'[l] = leases'[l]
    /\ current'[l] => cache'[l] = leases'[l]

LEMMA SameStatusIsForward ==
    ASSUME NEW r, NEW n, SameStatus(r, n), n.label => r.label \/ r.ended
    PROVE  Forward(r, n)
BY Zenon DEF SameStatus, Forward

LEMMA WriteStep ==
    ASSUME TypeOK, CurrentIsEqual, NEW l \in Leases, NEW new \in Lease, Write(l, new),
           Forward(leases[l], new), cache' = cache
    PROVE  \A k \in Leases : LeaseStep(k)
<1> SUFFICES ASSUME NEW k \in Leases PROVE LeaseStep(k)
  OBVIOUS
<1>1. CASE k = l
  BY <1>1, Zenon DEF Write, LeaseStep, TypeOK
<1>2. CASE k # l
  <2>1. leases'[k] = leases[k] /\ current'[k] = current[k]
    BY <1>2, Zenon DEF Write, TypeOK
  <2> QED BY <2>1, Zenon DEF LeaseStep, CurrentIsEqual, Forward
<1> QED BY <1>1, <1>2, Zenon

LEMMA UnchangedStep ==
    ASSUME CurrentIsEqual, UNCHANGED <<leases, cache, current>>
    PROVE  \A k \in Leases : LeaseStep(k)
BY Zenon DEF LeaseStep, CurrentIsEqual, Forward

(* A write of the reconciler: its cache may see it at once.                *)
LEMMA ReconcilerStep ==
    ASSUME TypeOK, CurrentIsEqual, NEW l \in Leases, NEW new \in Lease,
           Forward(leases[l], new),
           leases' = [leases EXCEPT ![l] = new],
           cache' = IF ReadYourWrites THEN [cache EXCEPT ![l] = new] ELSE cache,
           NEW b \in BOOLEAN, current' = [current EXCEPT ![l] = b],
           b => cache'[l] = new
    PROVE  \A k \in Leases : LeaseStep(k)
<1> SUFFICES ASSUME NEW k \in Leases PROVE LeaseStep(k)
  OBVIOUS
<1>1. CASE k = l
  <2>1. leases'[k] = new /\ current'[k] = b /\ (cache'[k] = new \/ cache'[k] = cache[k])
    BY <1>1, Zenon DEF TypeOK
  <2> QED BY <1>1, <2>1, Zenon DEF LeaseStep
<1>2. CASE k # l
  <2>1. leases'[k] = leases[k] /\ current'[k] = current[k] /\ cache'[k] = cache[k]
    BY <1>2, Zenon DEF TypeOK
  <2> QED BY <2>1, Zenon DEF LeaseStep, CurrentIsEqual, Forward
<1> QED BY <1>1, <1>2, Zenon

LEMMA NextLeaseStep ==
    ASSUME TypeOK, CurrentIsEqual, [Next]_vars
    PROVE  \A l \in Leases : LeaseStep(l)
<1>0. now \in Int
  BY BoundsAssumption DEF TypeOK
<1>1. ASSUME NEW l \in Leases, CreateLease(l) PROVE \A k \in Leases : LeaseStep(k)
  <2> DEFINE new == [leases[l] EXCEPT !.phase = "live"]
  <2>1. new \in Lease /\ SameStatus(leases[l], new) /\ new.label = leases[l].label
    BY CreatedType, Zenon DEF TypeOK
  <2>2. Write(l, new) /\ cache' = cache
    BY <1>1, Zenon DEF CreateLease
  <2> HIDE DEF new
  <2>3. Forward(leases[l], new)
    BY <2>1, SameStatusIsForward, Zenon
  <2> QED BY <2>1, <2>2, <2>3, WriteStep, Zenon
<1>2. ASSUME NEW l \in Leases, ReleaseLease(l) PROVE \A k \in Leases : LeaseStep(k)
  <2> DEFINE new == [leases[l] EXCEPT !.release = TRUE]
  <2>1. new \in Lease /\ SameStatus(leases[l], new) /\ new.label = leases[l].label
    BY ReleasedType, Zenon DEF TypeOK
  <2>2. Write(l, new) /\ cache' = cache
    BY <1>2, Zenon DEF ReleaseLease
  <2> HIDE DEF new
  <2>3. Forward(leases[l], new)
    BY <2>1, SameStatusIsForward, Zenon
  <2> QED BY <2>1, <2>2, <2>3, WriteStep, Zenon
<1>3. ASSUME NEW c \in Updaters, UpdateLeasePatch(c) PROVE \A k \in Leases : LeaseStep(k)
  <2> DEFINE l == updates[c].lease
             new == Patched(leases[l], updates[c].read, updates[c].new)
  <2>1. l \in Leases /\ updates[c].read \in Mutable /\ updates[c].new \in Mutable
    BY <1>3, Zenon DEF UpdateLeasePatch, TypeOK
  <2>2. /\ new \in Lease
        /\ \A f \in {"ref", "bt", "ended", "label", "phase"} : new[f] = leases[l][f]
    BY <2>1, PatchedType DEF TypeOK
  <2>3. cache' = cache /\ (UNCHANGED <<leases, current, updating>> \/ Write(l, new))
    BY <1>3, Zenon DEF UpdateLeasePatch
  <2> HIDE DEF l, new
  <2>4. Forward(leases[l], new)
    BY <2>2, Zenon DEF Forward
  <2>5. CASE Write(l, new)
    BY <2>1, <2>2, <2>3, <2>4, <2>5, WriteStep, Zenon
  <2>6. CASE UNCHANGED <<leases, current, updating>>
    BY <2>3, <2>6, UnchangedStep, Zenon
  <2> QED BY <2>3, <2>5, <2>6, Zenon
<1>4. ASSUME NEW l \in Leases, ReconcileStatus(l) PROVE \A k \in Leases : LeaseStep(k)
  <2>1. PICK x \in Attachments : \E n \in Reconciled(cache[l], x) :
          /\ leases' = [leases EXCEPT ![l] = n]
          /\ cache' = IF ReadYourWrites THEN [cache EXCEPT ![l] = n] ELSE cache
          /\ current' = [current EXCEPT ![l] = ReadYourWrites \/ n = cache[l]]
    BY <1>4, Zenon DEF ReconcileStatus, StatusUpdate
  <2>2. PICK new \in Reconciled(cache[l], x) :
          /\ leases' = [leases EXCEPT ![l] = new]
          /\ cache' = IF ReadYourWrites THEN [cache EXCEPT ![l] = new] ELSE cache
          /\ current' = [current EXCEPT ![l] = ReadYourWrites \/ new = cache[l]]
    BY <2>1, Zenon
  <2>3. x \in Attached /\ cache[l] \in Lease /\ cache[l] = leases[l]
    BY <1>4, Zenon DEF Attachments, Attached, TypeOK, ReconcileStatus, CurrentIsEqual
  <2>4. /\ new \in Lease /\ new.label = cache[l].label
        /\ cache[l].ended => new.ended
        /\ IsSet(cache[l].bt) => new.bt = cache[l].bt
        /\ new.ref = cache[l].ref \/ cache[l].ref = NoExporter
    BY <1>0, <2>3, ReconciledShape
  <2>5. Forward(leases[l], new)
    BY <2>3, <2>4, Zenon DEF Forward
  <2> DEFINE b == ReadYourWrites \/ new = cache[l]
  <2>6. b \in BOOLEAN /\ current' = [current EXCEPT ![l] = b] /\ (b => cache'[l] = new)
    BY <2>2, BoundsAssumption, Zenon DEF TypeOK
  <2> HIDE DEF b
  <2> QED BY <2>2, <2>4, <2>5, <2>6, ReconcilerStep, Zenon
<1>5. ASSUME NEW l \in Leases, ReconcileMetadata(l) PROVE \A k \in Leases : LeaseStep(k)
  <2> DEFINE r == leases[l]
             new == Labelled(r)
             b == IF new = r THEN current[l] ELSE ReadYourWrites
  <2>1. new \in Lease /\ SameStatus(r, new) /\ new.label = (r.label \/ r.ended)
    BY LabelledType, Zenon DEF TypeOK
  <2>2. \/ UNCHANGED <<leases, cache, current>>
        \/ /\ leases' = [leases EXCEPT ![l] = new]
           /\ cache' = IF ReadYourWrites THEN [cache EXCEPT ![l] = new] ELSE cache
           /\ current' = [current EXCEPT ![l] = b]
    BY <1>5, Zenon DEF ReconcileMetadata, Labelled, TypeOK
  <2> HIDE DEF new
  <2>3. CASE UNCHANGED <<leases, cache, current>>
    BY <2>3, UnchangedStep, Zenon
  <2>4. CASE /\ leases' = [leases EXCEPT ![l] = new]
             /\ cache' = IF ReadYourWrites THEN [cache EXCEPT ![l] = new] ELSE cache
             /\ current' = [current EXCEPT ![l] = b]
    <3>1. Forward(r, new)
      BY <2>1, SameStatusIsForward, Zenon
    <3>2. b \in BOOLEAN /\ (b => cache'[l] = new)
      BY <2>4, BoundsAssumption, Zenon DEF TypeOK, CurrentIsEqual
    <3> HIDE DEF b
    <3> QED BY <2>1, <2>4, <3>1, <3>2, ReconcilerStep, Zenon
  <2> QED BY <2>2, <2>3, <2>4, Zenon
<1>6. ASSUME NEW l \in Leases, SyncLease(l) PROVE \A k \in Leases : LeaseStep(k)
  BY <1>6, Zenon DEF SyncLease, LeaseStep, TypeOK, CurrentIsEqual, Forward
<1>7. ASSUME NEW e \in Exporters, ExporterChange(e) PROVE \A k \in Leases : LeaseStep(k)
  <2> SUFFICES ASSUME NEW k \in Leases PROVE LeaseStep(k)
    OBVIOUS
  <2>1. /\ cache' = cache
        /\ \/ leases'[k] = leases[k] /\ (current'[k] => current[k])
           \/ leases'[k] = [leases[k] EXCEPT !.phase = "deleted"] /\ ~current'[k]
    BY <1>7, Zenon DEF ExporterChange
  <2>2. CASE leases'[k] = leases[k] /\ (current'[k] => current[k])
    BY <2>1, <2>2, Zenon DEF LeaseStep, Forward, CurrentIsEqual
  <2>3. CASE leases'[k] = [leases[k] EXCEPT !.phase = "deleted"] /\ ~current'[k]
    <3>1. SameStatus(leases[k], leases'[k]) /\ leases'[k].label = leases[k].label
      BY <2>3, CreatedType, ZenonT(60) DEF TypeOK
    <3> QED BY <2>1, <2>3, <3>1, SameStatusIsForward, Zenon DEF LeaseStep
  <2> QED BY <2>1, <2>2, <2>3, Zenon
<1>8. CASE Restart
  BY <1>8, Zenon DEF Restart, LeaseStep, Forward
<1>9. CASE UNCHANGED <<leases, cache, current>>
  BY <1>9, UnchangedStep, Zenon
<1>10. ASSUME NEW c \in Updaters, NEW l \in Leases, NEW u \in UpdateRequests, UpdateLease(c, l, u)
       PROVE  UNCHANGED <<leases, cache, current>>
  BY <1>10, Zenon DEF UpdateLease
<1>11. ASSUME NEW e \in Exporters, ReconcileLeaseRef(e) \/ SyncExporter(e)
       PROVE  UNCHANGED <<leases, cache, current>>
  BY <1>11, Zenon DEF ReconcileLeaseRef, SyncExporter
<1>12. Tick \/ UNCHANGED vars => UNCHANGED <<leases, cache, current>>
  BY Zenon DEF Tick, vars
<1> QED BY <1>1, <1>2, <1>3, <1>4, <1>5, <1>6, <1>7, <1>8, <1>9, <1>10, <1>11, <1>12, Zenon DEF Next

(* The exporter reconciler publishes a lease its cache gives to e, or none.*)
LEMMA LeaseRefStep ==
    ASSUME TypeOK, [Next]_vars, NEW e \in Exporters
    PROVE  \/ leaseRef'[e] = leaseRef[e]
           \/ leaseRef'[e] = NoLease
           \/ leaseRef'[e] \in Leases /\ cache[leaseRef'[e]].ref = e
<1>1. ASSUME NEW f \in Exporters, ReconcileLeaseRef(f)
      PROVE  \/ leaseRef'[e] = leaseRef[e]
             \/ leaseRef'[e] = NoLease
             \/ leaseRef'[e] \in Leases /\ cache[leaseRef'[e]].ref = e
  BY <1>1 DEF ReconcileLeaseRef, ActiveOn, ActiveLeases, TypeOK
<1>2. ASSUME NEW f \in Exporters, ExporterChange(f)
      PROVE  leaseRef'[e] = leaseRef[e] \/ leaseRef'[e] = NoLease
  BY <1>2 DEF ExporterChange, TypeOK
<1>3. ASSUME NEW f \in Exporters, SyncExporter(f) PROVE leaseRef' = leaseRef
  BY <1>3, Zenon DEF SyncExporter
<1>4. ASSUME NEW l \in Leases, CreateLease(l) \/ ReleaseLease(l) \/ SyncLease(l)
      PROVE  leaseRef' = leaseRef
  BY <1>4, Zenon DEF CreateLease, ReleaseLease, SyncLease
<1>5. ASSUME NEW l \in Leases, ReconcileStatus(l) \/ ReconcileMetadata(l)
      PROVE  leaseRef' = leaseRef
  BY <1>5, Zenon DEF ReconcileStatus, StatusUpdate, ReconcileMetadata
<1>6. ASSUME NEW c \in Updaters, NEW l \in Leases, NEW u \in UpdateRequests, UpdateLease(c, l, u)
      PROVE  leaseRef' = leaseRef
  BY <1>6, Zenon DEF UpdateLease
<1>7. ASSUME NEW c \in Updaters, UpdateLeasePatch(c) PROVE leaseRef' = leaseRef
  BY <1>7, Zenon DEF UpdateLeasePatch
<1>8. Tick \/ Restart \/ UNCHANGED vars => leaseRef' = leaseRef
  BY Zenon DEF Tick, Restart, vars
<1> QED BY <1>1, <1>2, <1>3, <1>4, <1>5, <1>6, <1>7, <1>8, Zenon DEF Next

LEMMA InvInit == Init => Inv
<1> SUFFICES ASSUME Init PROVE Inv
  OBVIOUS
<1>1. TypeOK
  BY InitType, Zenon
<1>2. \A l \in Leases : ~leases[l].label /\ ~leases[l].ended /\ cache[l] = leases[l]
  <2> SUFFICES ASSUME NEW l \in Leases
               PROVE  ~leases[l].label /\ ~leases[l].ended /\ cache[l] = leases[l]
    OBVIOUS
  <2>1. PICK q \in Requests : leases[l] = NewLease(q)
    BY Zenon DEF Init
  <2>2. ~NewLease(q).label /\ ~NewLease(q).ended
    BY Zenon DEF NewLease, Fresh
  <2> QED BY <2>1, <2>2, Zenon DEF Init
<1> QED BY <1>1, <1>2, Zenon DEF Inv, Init, CurrentIsEqual, CacheIsPast, Past, LabelledIsEnded,
                          LeaseRefWasAssigned

LEMMA InvNext == Inv /\ [Next]_vars => Inv'
<1> SUFFICES ASSUME Inv, [Next]_vars PROVE Inv'
  OBVIOUS
<1>1. TypeOK'
  BY NextType, Zenon DEF Inv
<1>2. \A l \in Leases : LeaseStep(l)
  BY NextLeaseStep, Zenon DEF Inv
<1>3. CurrentIsEqual'
  BY <1>2, Zenon DEF LeaseStep, CurrentIsEqual
<1>4. LabelledIsEnded'
  BY <1>2, SMTT(30) DEF Inv, LeaseStep, Forward, LabelledIsEnded
<1>5. CacheIsPast'
  <2> SUFFICES ASSUME NEW l \in Leases PROVE Past(cache'[l], leases'[l])
    BY Zenon DEF CacheIsPast
  <2>1. Past(cache[l], leases[l]) /\ LeaseStep(l)
    BY <1>2, Zenon DEF Inv, CacheIsPast
  <2>2. CASE cache'[l] = cache[l]
    BY <2>1, <2>2, Zenon DEF Past, LeaseStep, Forward
  <2>3. CASE cache'[l] = leases'[l]
    BY <1>4, <2>3, Zenon DEF Past, LabelledIsEnded
  <2> QED BY <2>1, <2>2, <2>3, Zenon DEF LeaseStep
<1>6. LeaseRefWasAssigned'
  <2> SUFFICES ASSUME NEW e \in Exporters, leaseRef'[e] # NoLease
               PROVE  leases'[leaseRef'[e]].ref = e
    BY Zenon DEF LeaseRefWasAssigned
  <2>1. e # NoExporter
    BY NamesAssumption, Zenon
  <2>2. leaseRef'[e] \in Leases /\ leases[leaseRef'[e]].ref = e
    <3>1. CASE leaseRef'[e] = leaseRef[e]
      BY <3>1, Zenon DEF Inv, TypeOK, LeaseRefWasAssigned
    <3>2. CASE leaseRef'[e] \in Leases /\ cache[leaseRef'[e]].ref = e
      BY <2>1, <3>2, Zenon DEF Inv, CacheIsPast, Past
    <3> QED BY <3>1, <3>2, LeaseRefStep, Zenon DEF Inv
  <2> QED BY <1>2, <2>1, <2>2, Zenon DEF LeaseStep, Forward
<1> QED BY <1>1, <1>3, <1>4, <1>5, <1>6, Zenon DEF Inv

LEMMA Invariant == Spec => []Inv
BY InvInit, InvNext, PTL DEF Spec

(* The "ended" label is never ahead of the status, whatever the lag of the *)
(* reconciler's cache and whoever else writes the lease.                   *)
THEOREM LabelNeverEarly == Spec => []LabelledIsEnded
<1>1. Inv => LabelledIsEnded
  BY Zenon DEF Inv
<1> QED BY <1>1, Invariant, PTL

(* An exporter's Status.LeaseRef names only a lease that was given to it,  *)
(* although it is written from a cache that may lag.                       *)
THEOREM LeaseRefSound == Spec => []LeaseRefWasAssigned
<1>1. Inv => LeaseRefWasAssigned
  BY Zenon DEF Inv
<1> QED BY <1>1, Invariant, PTL

(* No write of any call or reconciler takes back an exporter, a begin time *)
(* or an end.                                                              *)
THEOREM AssignmentsAreFinal == Spec => AssignmentIsFinal
<1> DEFINE A == \A l \in Leases :
         /\ leases[l].ref # NoExporter => leases'[l].ref = leases[l].ref
         /\ leases[l].bt # NoTime => leases'[l].bt = leases[l].bt
         /\ leases[l].ended => leases'[l].ended
<1>1. Inv /\ [Next]_vars => [A]_vars
  BY NextLeaseStep, Zenon DEF Inv, LeaseStep, Forward, IsSet
<1>2. AssignmentIsFinal <=> [][A]_vars
  BY Zenon DEF AssignmentIsFinal
<1> HIDE DEF A
<1> QED BY <1>1, <1>2, Invariant, PTL DEF Spec

-----------------------------------------------------------------------------
(* Exclusive leases, when the reconciler's cache has its own writes.       *)

(* With its own writes in the cache, the reconciler knows every exporter   *)
(* given away, and that the lease is there.                                *)
CacheHasRef == \A l \in Leases : cache[l].ref = leases[l].ref
HolderIsCached ==
    \A l \in Leases : Live(l) /\ leases[l].ref # NoExporter => cache[l].phase = "live"
UnbornHasNone == \A l \in Leases : leases[l].phase = "none" => leases[l].ref = NoExporter

ExclusiveInv ==
    Inv /\ CacheHasRef /\ HolderIsCached /\ UnbornHasNone /\ ExclusiveLease

(* A step either keeps the exporter of lease l ...                         *)
Keeps(l) ==
    /\ leases'[l].ref = leases[l].ref
    /\ \/ leases'[l].phase = leases[l].phase
       \/ leases'[l].phase = "deleted"
       \/ leases[l].phase = "none"
(* ... or gives it one that no lease in the cache holds.                   *)
Grants(l) ==
    /\ leases[l].phase = "live" /\ leases'[l].phase = "live"
    /\ leases[l].ref = NoExporter
    /\ leases'[l].ref \in Exporters /\ ActiveOn(leases'[l].ref) = {}
    /\ ReadYourWrites => cache'[l] = leases'[l]
    /\ \A k \in Leases \ {l} : leases'[k] = leases[k]

LEMMA WriteKeeps ==
    ASSUME TypeOK, NEW l \in Leases, NEW new \in Lease,
           leases' = [leases EXCEPT ![l] = new], new.ref = leases[l].ref,
           new.phase = leases[l].phase \/ new.phase = "deleted" \/ leases[l].phase = "none"
    PROVE  \A k \in Leases : Keeps(k)
<1> SUFFICES ASSUME NEW k \in Leases PROVE Keeps(k)
  OBVIOUS
<1>1. CASE k = l
  <2>1. leases'[k] = new
    BY <1>1, Zenon DEF TypeOK
  <2> QED BY <1>1, <2>1, Zenon DEF Keeps
<1>2. CASE k # l
  <2>1. leases'[k] = leases[k]
    BY <1>2, Zenon DEF TypeOK
  <2> QED BY <2>1, Zenon DEF Keeps
<1> QED BY <1>1, <1>2, Zenon

LEMMA NextGrants ==
    ASSUME TypeOK, CurrentIsEqual, [Next]_vars
    PROVE  \A k \in Leases : Keeps(k) \/ Grants(k)
<1>0. now \in Int
  BY BoundsAssumption DEF TypeOK
<1>1. ASSUME NEW l \in Leases, CreateLease(l) PROVE \A k \in Leases : Keeps(k)
  <2> DEFINE new == [leases[l] EXCEPT !.phase = "live"]
  <2>1. new \in Lease /\ SameStatus(leases[l], new)
    BY CreatedType, Zenon DEF TypeOK
  <2>2. leases' = [leases EXCEPT ![l] = new] /\ leases[l].phase = "none"
    BY <1>1, Zenon DEF CreateLease, Write
  <2> HIDE DEF new
  <2> QED BY <2>1, <2>2, WriteKeeps, Zenon DEF SameStatus
<1>2. ASSUME NEW l \in Leases, ReleaseLease(l) PROVE \A k \in Leases : Keeps(k)
  <2> DEFINE new == [leases[l] EXCEPT !.release = TRUE]
  <2>1. new \in Lease /\ SameStatus(leases[l], new) /\ new.phase = leases[l].phase
    BY ReleasedType, Zenon DEF TypeOK
  <2>2. leases' = [leases EXCEPT ![l] = new]
    BY <1>2, Zenon DEF ReleaseLease, Write
  <2> HIDE DEF new
  <2> QED BY <2>1, <2>2, WriteKeeps, Zenon DEF SameStatus
<1>3. ASSUME NEW c \in Updaters, UpdateLeasePatch(c) PROVE \A k \in Leases : Keeps(k)
  <2> DEFINE l == updates[c].lease
             new == Patched(leases[l], updates[c].read, updates[c].new)
  <2>1. l \in Leases /\ updates[c].read \in Mutable /\ updates[c].new \in Mutable
    BY <1>3, Zenon DEF UpdateLeasePatch, TypeOK
  <2>2. /\ new \in Lease
        /\ \A f \in {"ref", "bt", "ended", "label", "phase"} : new[f] = leases[l][f]
    BY <2>1, PatchedType, ZenonT(40) DEF TypeOK
  <2>3. leases' = leases \/ leases' = [leases EXCEPT ![l] = new]
    BY <1>3, Zenon DEF UpdateLeasePatch, Write
  <2> HIDE DEF l, new
  <2>4. new.ref = leases[l].ref /\ new.phase = leases[l].phase
    BY <2>2, Zenon
  <2>5. CASE leases' = leases
    BY <2>5, Zenon DEF Keeps
  <2>6. CASE leases' = [leases EXCEPT ![l] = new]
    BY <2>1, <2>2, <2>4, <2>6, WriteKeeps, Zenon
  <2> QED BY <2>3, <2>5, <2>6, Zenon
<1>4. ASSUME NEW l \in Leases, ReconcileStatus(l) PROVE \A k \in Leases : Keeps(k) \/ Grants(k)
  <2>1. PICK x \in Attachments : \E n \in Reconciled(cache[l], x) :
          /\ leases' = [leases EXCEPT ![l] = n]
          /\ cache' = IF ReadYourWrites THEN [cache EXCEPT ![l] = n] ELSE cache
    BY <1>4, Zenon DEF ReconcileStatus, StatusUpdate
  <2>2. PICK new \in Reconciled(cache[l], x) :
          /\ leases' = [leases EXCEPT ![l] = new]
          /\ cache' = IF ReadYourWrites THEN [cache EXCEPT ![l] = new] ELSE cache
    BY <2>1, Zenon
  <2>3. x \in Attached /\ cache[l] \in Lease /\ cache[l] = leases[l] /\ leases[l].phase = "live"
    BY <1>4, Zenon DEF Attachments, Attached, TypeOK, ReconcileStatus, CurrentIsEqual, ActiveLeases
  <2>4. /\ new \in Lease /\ new.phase = cache[l].phase
        /\ \/ new.ref = cache[l].ref
           \/ cache[l].ref = NoExporter /\ new.ref \in Exporters /\ x[new.ref] = NoLease
    BY <1>0, <2>3, ReconciledShape
  <2>5. CASE new.ref = cache[l].ref
    BY <2>2, <2>3, <2>4, <2>5, WriteKeeps, Zenon
  <2>6. CASE cache[l].ref = NoExporter /\ new.ref \in Exporters /\ x[new.ref] = NoLease
    <3>1. ActiveOn(new.ref) = {}
      BY <2>6, NamesAssumption, Zenon DEF Attachments, ActiveOn, ActiveLeases
    <3>2. leases'[l] = new /\ (ReadYourWrites => cache'[l] = new)
      BY <2>2, Zenon DEF TypeOK
    <3>3. \A k \in Leases \ {l} : leases'[k] = leases[k]
      BY <2>2, Zenon DEF TypeOK
    <3>4. Grants(l)
      BY <2>3, <2>4, <2>6, <3>1, <3>2, <3>3, Zenon DEF Grants
    <3>5. \A k \in Leases \ {l} : Keeps(k)
      BY <3>3, Zenon DEF Keeps
    <3> QED BY <3>4, <3>5, Zenon
  <2> QED BY <2>4, <2>5, <2>6, Zenon
<1>5. ASSUME NEW l \in Leases, ReconcileMetadata(l) PROVE \A k \in Leases : Keeps(k)
  <2> DEFINE new == Labelled(leases[l])
  <2>1. new \in Lease /\ SameStatus(leases[l], new) /\ new.phase = leases[l].phase
    BY LabelledType, Zenon DEF TypeOK
  <2>2. leases' = leases \/ leases' = [leases EXCEPT ![l] = new]
    BY <1>5, Zenon DEF ReconcileMetadata, Labelled
  <2> HIDE DEF new
  <2>3. CASE leases' = leases
    BY <2>3, Zenon DEF Keeps
  <2>4. CASE leases' = [leases EXCEPT ![l] = new]
    BY <2>1, <2>4, WriteKeeps, Zenon DEF SameStatus
  <2> QED BY <2>2, <2>3, <2>4, Zenon
<1>6. ASSUME NEW e \in Exporters, ExporterChange(e) PROVE \A k \in Leases : Keeps(k)
  <2> SUFFICES ASSUME NEW k \in Leases PROVE Keeps(k)
    OBVIOUS
  <2>1. leases'[k] = leases[k] \/ leases'[k] = [leases[k] EXCEPT !.phase = "deleted"]
    BY <1>6, Zenon DEF ExporterChange
  <2>2. CASE leases'[k] = [leases[k] EXCEPT !.phase = "deleted"]
    BY <2>2, CreatedType DEF Keeps, SameStatus, TypeOK
  <2> QED BY <2>1, <2>2, Zenon DEF Keeps
<1>7. CASE leases' = leases
  BY <1>7, Zenon DEF Keeps
<1>8. ASSUME NEW l \in Leases, SyncLease(l) PROVE leases' = leases
  BY <1>8, Zenon DEF SyncLease
<1>9. ASSUME NEW c \in Updaters, NEW l \in Leases, NEW u \in UpdateRequests, UpdateLease(c, l, u)
      PROVE  leases' = leases
  BY <1>9, Zenon DEF UpdateLease
<1>10. ASSUME NEW e \in Exporters, ReconcileLeaseRef(e) \/ SyncExporter(e) PROVE leases' = leases
  BY <1>10, Zenon DEF ReconcileLeaseRef, SyncExporter
<1>11. Tick \/ Restart \/ UNCHANGED vars => leases' = leases
  BY Zenon DEF Tick, Restart, vars
<1> QED BY <1>1, <1>2, <1>3, <1>4, <1>5, <1>6, <1>7, <1>8, <1>9, <1>10, <1>11, Zenon DEF Next

LEMMA ExclusiveInit == Init => ExclusiveInv
<1> SUFFICES ASSUME Init PROVE ExclusiveInv
  OBVIOUS
<1>1. \A l \in Leases : leases[l].ref = NoExporter /\ cache[l] = leases[l]
  <2> SUFFICES ASSUME NEW l \in Leases PROVE leases[l].ref = NoExporter /\ cache[l] = leases[l]
    OBVIOUS
  <2>1. PICK q \in Requests : leases[l] = NewLease(q)
    BY Zenon DEF Init
  <2> QED BY <2>1, NewLeaseType, Zenon DEF Init
<1> QED BY <1>1, InvInit, Zenon DEF ExclusiveInv, CacheHasRef, HolderIsCached, UnbornHasNone,
                             ExclusiveLease, Active

LEMMA ExclusiveNext == ReadYourWrites /\ ExclusiveInv /\ [Next]_vars => ExclusiveInv'
<1> SUFFICES ASSUME ReadYourWrites, ExclusiveInv, [Next]_vars PROVE ExclusiveInv'
  OBVIOUS
<1>1. Inv'
  BY InvNext, Zenon DEF ExclusiveInv
<1>2. \A l \in Leases : LeaseStep(l)
  BY NextLeaseStep, Zenon DEF ExclusiveInv, Inv
<1>3. \A l \in Leases : Keeps(l) \/ Grants(l)
  BY NextGrants, SMTT(30) DEF ExclusiveInv, Inv
<1>4. CacheHasRef'
  BY <1>2, <1>3, SMTT(30) DEF ExclusiveInv, CacheHasRef, LeaseStep, Keeps, Grants
<1>5. UnbornHasNone'
  BY <1>3, Zenon DEF ExclusiveInv, UnbornHasNone, Keeps, Grants
<1>6. HolderIsCached'
  <2> SUFFICES ASSUME NEW l \in Leases, leases'[l].phase = "live", leases'[l].ref # NoExporter
               PROVE  cache'[l].phase = "live"
    BY Zenon DEF HolderIsCached, Live
  <2>1. CASE Keeps(l)
    <3>1. leases[l].phase = "live" /\ leases[l].ref # NoExporter
      BY <2>1, Zenon DEF Keeps, ExclusiveInv, UnbornHasNone
    <3>2. cache[l].phase = "live"
      BY <3>1, Zenon DEF ExclusiveInv, HolderIsCached, Live
    <3> QED BY <1>2, <3>2, Zenon DEF LeaseStep
  <2>2. CASE Grants(l)
    BY <2>2, Zenon DEF Grants
  <2> QED BY <1>3, <2>1, <2>2, Zenon
<1>7. ASSUME NEW l \in Leases, Keeps(l), Active(l)'
      PROVE  Active(l) /\ leases'[l].ref = leases[l].ref
  <2>1. /\ leases'[l].phase = "live" /\ leases'[l].ref # NoExporter /\ ~leases'[l].ended
    BY <1>7, Zenon DEF Active, Live
  <2>2. leases[l].phase = "live" /\ leases'[l].ref = leases[l].ref
    BY <1>7, <2>1, SMTT(30) DEF Keeps, ExclusiveInv, UnbornHasNone
  <2>3. ~leases[l].ended
    BY <1>2, <2>1, Zenon DEF LeaseStep, Forward
  <2> QED BY <2>1, <2>2, <2>3, Zenon DEF Active, Live
<1>8. ASSUME NEW l \in Leases, NEW k \in Leases, k # l, Grants(l), Active(k)'
      PROVE  leases'[k].ref # leases'[l].ref
  <2>1. leases'[k] = leases[k] /\ ActiveOn(leases'[l].ref) = {}
    BY <1>8, Zenon DEF Grants
  <2>2. Active(k)
    BY <1>8, <2>1, Zenon DEF Active, Live
  <2>3. cache[k].ref = leases[k].ref /\ cache[k].phase = "live" /\ ~cache[k].label
    BY <2>2, Zenon DEF Active, ExclusiveInv, CacheHasRef, HolderIsCached, Inv, CacheIsPast, Past
  <2>4. k \in ActiveOn(leases[k].ref)
    BY <2>3, Zenon DEF ActiveOn, ActiveLeases
  <2> QED BY <2>1, <2>4, SMTT(30)
<1>9. ExclusiveLease'
  <2> SUFFICES ASSUME NEW k \in Leases, NEW l \in Leases, Active(k)', Active(l)',
                      leases'[k].ref = leases'[l].ref, k # l
               PROVE  FALSE
    BY Zenon DEF ExclusiveLease
  <2>1. Keeps(k) /\ Keeps(l)
    BY <1>3, <1>8, Zenon
  <2> QED BY <1>7, <2>1, Zenon DEF ExclusiveInv, ExclusiveLease
<1> QED BY <1>1, <1>4, <1>5, <1>6, <1>9, Zenon DEF ExclusiveInv

(* Two leases that have not ended never have the same exporter, whatever   *)
(* the clients, the other writers, the clock and restarts do, provided the *)
(* reconciler's cache has the writes the reconciler has made.              *)
THEOREM LeasesAreExclusive == ReadYourWrites => (Spec => []ExclusiveLease)
<1> SUFFICES ASSUME ReadYourWrites PROVE Spec => []ExclusiveLease
  OBVIOUS
<1>1. ExclusiveInv /\ [Next]_vars => ExclusiveInv'
  BY ExclusiveNext, Zenon
<1>2. ExclusiveInv => ExclusiveLease
  BY Zenon DEF ExclusiveInv
<1> QED BY <1>1, <1>2, ExclusiveInit, PTL DEF Spec
=============================================================================
