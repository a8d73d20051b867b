----------------------------- MODULE MCDelivery -----------------------------
(* Instances of Delivery for TLC.                                          *)
EXTENDS Delivery

CONSTANTS m1, m2, a, b

(* One message that fans out, one that does not.                           *)
FanOut == [m \in {m1, m2} |-> IF m = m1 THEN {a, b} ELSE {a}]

OneEach == [m \in {m1} |-> {a}]

OneFan == [m \in {m1} |-> {a, b}]
=============================================================================
