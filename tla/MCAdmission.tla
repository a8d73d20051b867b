---------------------------- MODULE MCAdmission ----------------------------
(* Instances of Admission for TLC.                                         *)
EXTENDS Admission, TLC

CONSTANTS r1, r2, r3, r4, k1, k2

(* Three requests for one key and one for another.                         *)
Keys == [r \in {r1, r2, r3, r4} |-> IF r = r4 THEN k2 ELSE k1]

(* The three are alike.                                                    *)
Alike == Permutations({r1, r2, r3})
=============================================================================
