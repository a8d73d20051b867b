----------------------------- MODULE MCInbound -----------------------------
(* Instances of Inbound for TLC: a command in a chat of two, and one from  *)
(* the same account in a group, where commands are not allowed.            *)
EXTENDS Inbound

CONSTANTS direct, grouped, alice

From == [m \in {direct, grouped} |-> alice]

Commands == [m \in {direct, grouped} |-> "action"]
=============================================================================
