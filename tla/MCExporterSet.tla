---------------------------- MODULE MCExporterSet ----------------------------
(* Instances of ExporterSet for TLC.                                       *)
EXTENDS ExporterSet, TLC

Pool(min, max, available, strategy) ==
    [minReplicas |-> min, maxReplicas |-> max, minAvailableReplicas |-> available,
     recycleStrategy |-> strategy]

(* A warm pool with a floor that replaces its exporters; a pool that       *)
(* starts from nothing and reuses them, for leases that others could serve *)
(* as well; and one that starts from nothing for leases only it can serve. *)
Warm == Pool(1, 2, 1, "ExitAndReplace")
Shared == Pool(0, 2, 0, "InPlaceReuse")
Cold == Pool(0, 1, 0, "InPlaceReuse")
SmallSpecs == {Warm, Shared, Cold}
OnlyShared == [s \in SmallSpecs |-> s = Shared]

=============================================================================
