------------------------------ MODULE Promise -------------------------------
(***************************************************************************)
(* What `send` promises: a caller is told "queued" only when the message   *)
(* is owed to every one of its destinations, and what is owed is delivered *)
(* or given up, and never forgotten.  This is the specification the delivery  *)
(* path is shown to implement; it knows nothing of files, workers or       *)
(* restarts.                                                               *)
(***************************************************************************)
CONSTANTS Message, Destination, DestsOf

VARIABLES
    fate,           \* what became of a message for one destination
    promised        \* the messages whose caller was told they are safe

promiseVars == <<fate, promised>>

Id == Message \X Destination

Init ==
    /\ fate = [id \in Id |-> "none"]
    /\ promised = {}

(* A message is taken on for one destination.                              *)
Take(id) ==
    /\ fate[id] = "none"
    /\ fate' = [fate EXCEPT ![id] = "owed"]
    /\ UNCHANGED promised

(* The caller hears that the message is safe.                              *)
Tell(m) ==
    /\ \A d \in DestsOf[m] : fate[<<m, d>>] # "none"
    /\ promised' = promised \cup {m}
    /\ UNCHANGED fate

Deliver(id) ==
    /\ fate[id] = "owed"
    /\ fate' = [fate EXCEPT ![id] = "delivered"]
    /\ UNCHANGED promised

GiveUp(id) ==
    /\ fate[id] = "owed"
    /\ fate' = [fate EXCEPT ![id] = "dropped"]
    /\ UNCHANGED promised

(* A second deliverer was still sending when the first one gave up.        *)
ArriveLate(id) ==
    /\ fate[id] = "dropped"
    /\ fate' = [fate EXCEPT ![id] = "delivered"]
    /\ UNCHANGED promised

Next ==
    \/ \E id \in Id : Take(id) \/ Deliver(id) \/ GiveUp(id) \/ ArriveLate(id)
    \/ \E m \in Message : Tell(m)

Spec == Init /\ [][Next]_promiseVars
=============================================================================
