------------------------------ MODULE LeaseTime ------------------------------
(***************************************************************************)
(* The time fields of a lease request or of Lease.Spec: begin, end and     *)
(* dur, each a number or NoTime for nil.  Instants and durations are       *)
(* counted in one unit, Second of which make a second.                     *)
(* (controller/api/v1alpha1/lease_helpers.go)                              *)
(***************************************************************************)
EXTENDS Integers

CONSTANTS NoTime, Second

ASSUME NoTimeAssumption == NoTime \notin Int
ASSUME SecondAssumption == Second \in Nat \ {0}

Times == Int \cup {NoTime}
TimeFields == [begin : Times, end : Times, dur : Times]

IsSet(t) == t # NoTime

(* "duration conflicts with begin_time and end_time"                       *)
Conflicting(t) ==
    /\ IsSet(t.begin) /\ IsSet(t.end)
    /\ IsSet(t.dur) /\ t.dur > 0 /\ t.dur # t.end - t.begin

(* The fields ReconcileLeaseTimeFields leaves behind when it returns nil.  *)
ReconcileLeaseTimeFields(t) ==
    IF IsSet(t.begin) /\ IsSet(t.end)
      THEN [t EXCEPT !.dur = t.end - t.begin]
      ELSE IF IsSet(t.end) /\ IsSet(t.dur) /\ t.dur > 0
             THEN [t EXCEPT !.begin = t.end - t.dur]
             ELSE t

(* ReconcileLeaseTimeFields returns nil.                                   *)
Accepted(t) ==
    LET d == ReconcileLeaseTimeFields(t).dur
    IN  ~Conflicting(t) /\ IsSet(d) /\ d > 0

(* metav1.Time as it is serialised: in whole seconds.  metav1.Duration     *)
(* keeps its fraction.                                                     *)
Whole(x) == IF IsSet(x) THEN x - (x % Second) ELSE x
Stored(t) == [begin |-> Whole(t.begin), end |-> Whole(t.end), dur |-> t.dur]

(* What an accepted set of fields has: a positive duration that agrees     *)
(* with the window, when there is one.                                     *)
Consistent(t) ==
    /\ IsSet(t.dur) /\ t.dur > 0
    /\ IsSet(t.end) => IsSet(t.begin) /\ t.end - t.begin = t.dur

(* What the lease reconciler can rely on in stored ones: a positive        *)
(* duration, no end without a begin, and, unless calls have overlapped, a  *)
(* window that agrees with the duration to within a second.                *)
Usable(t) == IsSet(t.dur) /\ t.dur > 0 /\ (IsSet(t.end) => IsSet(t.begin))
Agree(t) ==
    IsSet(t.begin) /\ IsSet(t.end) /\ IsSet(t.dur) =>
        t.end - t.begin - t.dur < Second /\ t.dur - (t.end - t.begin) < Second

=============================================================================
