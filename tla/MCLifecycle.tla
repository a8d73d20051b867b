---------------------------- MODULE MCLifecycle ----------------------------
(* Instances of Lifecycle for TLC.                                         *)
EXTENDS Lifecycle, TLC

CONSTANTS p1, p2, p3

(* Processes are alike.                                                    *)
Processes == Permutations(Process)
=============================================================================
