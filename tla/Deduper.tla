------------------------------ MODULE Deduper ------------------------------
(***************************************************************************)
(* The deduplicator (internal/outbound/dedup.go): per key, how long ago a  *)
(* message passed and how many repeats were swallowed since.  Every call   *)
(* runs under its mutex, so Allow is one step.                             *)
(*                                                                         *)
(* Time is relative: the code compares now - lastPassed with the window    *)
(* and with ten windows only, so the age saturates beyond that.            *)
(***************************************************************************)
EXTENDS Integers

CONSTANTS
    Key,            \* what DedupKey makes of a message: a key or a hash
    Window          \* FREIZONE_BOT_DEDUP_WINDOW; zero turns the thing off

ASSUME DeduperAssumption == Window \in Nat

VARIABLE seen       \* the repeat of each key; a key without one is not known

ForgetAfter == 10 * Window

Unknown == [known |-> FALSE, age |-> 0, swallowed |-> 0]
Repeat == [known : BOOLEAN, age : 0..ForgetAfter + 1, swallowed : Nat]

SeenTypeOK == seen \in [Key -> Repeat]

SeenInit == seen = [k \in Key |-> Unknown]

Passed == [known |-> TRUE, age |-> 0, swallowed |-> 0]

(* Bug for the checks: a key is forgotten together with its count.         *)
MutQuiet(r) == r.known /\ r.age > ForgetAfter

(* Bug for the checks: a key is forgotten as soon as nothing is owed.      *)
MutQuietEarly(r) == r.known /\ r.swallowed = 0

(* evictLocked's condition.                                                *)
Quiet(r) == r.known /\ r.swallowed = 0 /\ r.age > ForgetAfter

(* evictLocked, which every Allow starts with.                             *)
Kept == [k \in Key |-> IF Quiet(seen[k]) THEN Unknown ELSE seen[k]]

Repeats(k) == Window > 0 /\ Kept[k].known /\ Kept[k].age < Window

(* Allow says yes.  A key that was known hands over its count.             *)
Pass(k) ==
    /\ ~Repeats(k)
    /\ seen' = IF Window > 0 THEN [Kept EXCEPT ![k] = Passed] ELSE seen

Owed(k) == IF Window > 0 THEN Kept[k].swallowed ELSE 0

(* Allow says no and counts.                                               *)
Swallow(k) ==
    /\ Repeats(k)
    /\ seen' = [Kept EXCEPT ![k].swallowed = @ + 1]

SeenTick ==
    seen' = [k \in Key |-> IF seen[k].known /\ seen[k].age <= ForgetAfter
                           THEN [seen[k] EXCEPT !.age = @ + 1] ELSE seen[k]]
=============================================================================
