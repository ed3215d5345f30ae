-------------------------- MODULE MCLeaseController --------------------------
(* Instances of LeaseController for TLC.                                   *)
EXTENDS LeaseController, TLC

CONSTANTS c1, c2, e1, e2

Unset == [begin |-> NoTime, end |-> NoTime, dur |-> NoTime]
For(d) == [Unset EXCEPT !.dur = d]
StartsAt(b, d) == [begin |-> b, end |-> NoTime, dur |-> d]

Ask(es, t) == [call |-> "CreateLease", client |-> c1, empty |-> FALSE, selector |-> es,
               exporter |-> NoExporter, allowDisabled |-> FALSE, time |-> t]

Up == [exists |-> TRUE, enabled |-> TRUE, online |-> TRUE, ready |-> TRUE]
Busy == [Up EXCEPT !.ready = FALSE]
Gone == [exists |-> FALSE, enabled |-> FALSE, online |-> FALSE, ready |-> FALSE]

OneExporter == [e \in {e1} |-> 1]
TwoExporters == (e1 :> 1) @@ (e2 :> 2)

(* Lease names play no part; used without liveness.                        *)
Symmetry == Permutations(Leases)

(* One exporter that every client wants, immediate leases of one unit.     *)
ContendedRequests == {Ask({e1}, For(1))}
(* The same, with a begin in the past: expired as soon as the clock moves. *)
ShortRequests == {Ask({e1}, StartsAt(-1, 1))}
UpOnly == {Up}
UpOrBusy == {Up, Busy}
UpOrGone == {Up, Gone}
NoSet == {}

(* Two exporters under policies.                                           *)
Rule(es, cs, prio, spot, max) ==
    [exporters |-> es, clients |-> cs, priority |-> prio, spot |-> spot, maximum |-> max]
PriorityPolicies ==
    {Rule({e1}, {c1, c2}, 1, FALSE, NoTime), Rule({e2}, {c1}, 2, FALSE, 1)}
(* A lease for any of them, and one that names e2.  Their begin is in the  *)
(* past: they expire as soon as the clock moves.                           *)
PolicyRequests ==
    {Ask({e1, e2}, StartsAt(-1, 1)),
     [Ask({}, StartsAt(-1, 1)) EXCEPT !.empty = TRUE, !.exporter = e2]}

(* Time fields of CreateLease and UpdateLease requests, in half seconds.   *)
Window(b, e) == [begin |-> b, end |-> e, dur |-> NoTime]
EndsAt(e, d) == [begin |-> NoTime, end |-> e, dur |-> d]
TimedRequests == {Ask({e1}, t) : t \in {For(1), Window(1, 2)}}
                 \cup {[Ask({e1}, For(NoTime)) EXCEPT !.call = "RequestLease"]}
Change(t) == [time |-> t, client |-> NoClient]
TimeChanges == {Change(EndsAt(3, 1)), Change(StartsAt(2, 1)),
                [time |-> For(3), client |-> c2]}
UpdaterSymmetry == Permutations(Updaters)

=============================================================================
