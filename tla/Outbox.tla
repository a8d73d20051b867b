------------------------------- MODULE Outbox -------------------------------
(***************************************************************************)
(* The directory of messages that were accepted and are not delivered yet  *)
(* (internal/outbox).  One file per message and destination; every         *)
(* operation runs under the outbox's mutex.                                *)
(*                                                                         *)
(* Time is relative.  The code compares now with FirstSeen and NextAttempt *)
(* only, so an entry carries its age (now - FirstSeen) and the wait that   *)
(* is left until NextAttempt.  The age saturates at MaxAge, past which     *)
(* nothing depends on it.  One unit is five seconds: the first backoff and *)
(* also the interval of the delivery loop's ticker.                        *)
(***************************************************************************)
EXTENDS Integers, FiniteSets

CONSTANTS
    Message,        \* the messages that producers hand in
    Destination,    \* the groups and peers messages go to
    DestsOf,        \* [Message -> what routing resolved the message to]
    OutboxMax,      \* FREIZONE_BOT_OUTBOX_MAX
    MaxAge,         \* FREIZONE_BOT_MAX_AGE_MINUTES, in units
    BackoffCap,     \* five minutes, in units
    AttemptCap      \* an attempt count from which the backoff is at its cap

ASSUME OutboxAssumption ==
    /\ DestsOf \in [Message -> (SUBSET Destination) \ {{}}]
    /\ \A m \in Message : IsFiniteSet(DestsOf[m])
    /\ OutboxMax \in Nat \ {0}
    /\ MaxAge \in Nat \ {0}
    /\ BackoffCap \in Nat \ {0}
    /\ AttemptCap \in Nat \ {0}
    /\ 2^(AttemptCap - 1) >= BackoffCap

VARIABLES
    held,           \* the ids with a file in the directory
    entry           \* what the file of an id says; Blank without a file

boxVars == <<held, entry>>

(* An entry is named for the message and the destination it is owed to.    *)
(* The code's ids are unique per entry, which is all that is used of them. *)
Id == Message \X Destination
Ids(m) == {m} \X DestsOf[m]

Entry == [attempts : 0..AttemptCap, age : 0..MaxAge, wait : 0..BackoffCap]
Blank == [attempts |-> 0, age |-> 0, wait |-> 0]

BoxTypeOK ==
    /\ held \subseteq Id
    /\ entry \in [Id -> Entry]

BoxInit ==
    /\ held = {}
    /\ entry = [id \in Id |-> Blank]

-----------------------------------------------------------------------------
(* Five seconds doubling to the ceiling: the wait after the n-th failure.  *)
Backoff(n) == IF 2^(n - 1) \in 1..BackoffCap THEN 2^(n - 1) ELSE BackoffCap

(* The attempt count saturates where the backoff no longer changes.        *)
Bump(n) == IF n < AttemptCap THEN n + 1 ELSE AttemptCap

(* Bug for the checks: the fan-out of the new message is not counted.      *)
MutHasRoomForOne(m) == Cardinality(held) < OutboxMax

(* Enqueue's bound: what is held plus one entry per destination.           *)
HasRoom(m) == Cardinality(held) + Cardinality(DestsOf[m]) <= OutboxMax

Due == {id \in held : entry[id].wait = 0}

Expired(id) == entry[id].age >= MaxAge

(* writeLocked: a synced temporary file renamed into place, so the entry   *)
(* appears or changes in one step.                                         *)
WriteEntry(id, e) ==
    /\ held' = held \cup {id}
    /\ entry' = [entry EXCEPT ![id] = e]

(* os.Remove of an entry's file; a file that is gone already is no error.  *)
RemoveEntry(id) ==
    /\ held' = held \ {id}
    /\ entry' = [entry EXCEPT ![id] = Blank]

(* Fail's ordinary end: one more attempt counted, the next one scheduled.  *)
Reschedule(id) ==
    LET n == Bump(entry[id].attempts)
    IN  WriteEntry(id, [entry[id] EXCEPT !.attempts = n, !.wait = Backoff(n)])

(* One unit of time passes for every file in the directory.                *)
Elapse ==
    /\ entry' = [id \in Id |->
                    IF id \in held
                    THEN [entry[id] EXCEPT !.age  = IF @ < MaxAge THEN @ + 1 ELSE @,
                                           !.wait = IF @ > 0 THEN @ - 1 ELSE @]
                    ELSE entry[id]]
    /\ UNCHANGED held
=============================================================================
