----------------------------- MODULE MCControl -----------------------------
(* Instances of Control for TLC.                                           *)
EXTENDS Control

CONSTANTS c1, c2, p1
=============================================================================
