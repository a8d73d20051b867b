------------------------------ MODULE MCGroups ------------------------------
(* Instances of Groups for TLC: two groups, a whole id, a prefix that both *)
(* begin with, and no group configured.                                    *)
EXTENDS Groups

CONSTANTS g1, g2, whole, prefix, unset

(* Which groups a setting may name.                                        *)
Begins == [s \in Setting |-> CASE s = whole -> {g1} [] s = prefix -> Group [] OTHER -> {}]
=============================================================================
