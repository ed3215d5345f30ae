-------------------------- MODULE MCExporterRuntime --------------------------
(* Instances of ExporterRuntime for TLC.                                   *)
EXTENDS ExporterRuntime, TLC

(* Leases are told apart by nothing but their names.                       *)
Symmetry == Permutations(Leases)

Both == [executor |-> TRUE, before |-> TRUE, after |-> TRUE,
         beforeResults |-> {"ok"}, afterResults |-> {"ok"}, exitOnLeaseEnd |-> FALSE]
NoHooks == [Both EXCEPT !.executor = FALSE, !.before = FALSE, !.after = FALSE]
OneShot == [Both EXCEPT !.exitOnLeaseEnd = TRUE]
AfterOnly == [OneShot EXCEPT !.before = FALSE]
Failing == [Both EXCEPT !.beforeResults = {"ok", "endLease", "exit", "error"},
                        !.afterResults = {"ok", "endLease", "exit"}]

(* Every way the hooks may be configured and come out.                     *)
AllConfigs == {NoHooks, AfterOnly, Failing}
(* Hooks that succeed.                                                     *)
SoundConfigs == {NoHooks, OneShot, Both}
(* A beforeLease hook that may fail with onFailure: endLease.              *)
BeforeFails == {[Both EXCEPT !.beforeResults = {"ok", "endLease"}]}
(* An afterLease hook that may fail with onFailure: endLease.              *)
AfterFails == {[Both EXCEPT !.afterResults = {"ok", "endLease"}]}
=============================================================================
