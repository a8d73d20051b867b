---------------------------- MODULE MCDurability ----------------------------
(* Instances of Durability for TLC.                                        *)
EXTENDS Durability

CONSTANTS i1, i2, i3, i4
=============================================================================
