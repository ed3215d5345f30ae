---------------------------- MODULE MCListenQueue ----------------------------
(* Instances of ListenQueue for TLC.                                       *)
EXTENDS ListenQueue, TLC

(* Calls of the same kind are interchangeable; used without liveness.      *)
Symmetry == Permutations(Listeners) \cup Permutations(Dialers)

=============================================================================
