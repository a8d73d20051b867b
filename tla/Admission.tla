----------------------------- MODULE Admission -----------------------------
(***************************************************************************)
(* accept (cmd/bot/daemon.go): the decisions between "something produced a *)
(* message" and "it is durably queued".  The handlers of both ingresses    *)
(* run it concurrently; the deduplicator, the rate cap and the outbox each *)
(* have a lock of their own and none is held from one to the next, so      *)
(* other requests pass in between and a later step may refuse what an      *)
(* earlier one has already counted.                                        *)
(*                                                                         *)
(* Routes are resolved before any of this, without a state: a request that *)
(* has none never gets here.                                               *)
(***************************************************************************)
EXTENDS Deduper, Limiter, FiniteSets, FiniteSetsExt

CONSTANTS
    Request,
    KeyOf,          \* [Request -> Key]
    QueueMayFail    \* whether Enqueue may be full or fail

ASSUME AdmissionAssumption ==
    /\ KeyOf \in [Request -> Key]
    /\ QueueMayFail \in BOOLEAN

(* What is asked of one process is finite; sums over it make sense.        *)
ASSUME RequestAssumption == IsFiniteSet(Request)

VARIABLES
    pc,             \* where the request's handler is
    outcome,        \* what accept returned
    dupNote,        \* the repeats the message says were suppressed
    rateNote,       \* the refusals it says were suppressed
    passedFor,      \* how long ago it passed the deduplicator
    admittedFor     \* how long ago it passed the rate cap

handlerVars == <<pc, outcome, dupNote, rateNote, passedFor, admittedFor>>
vars == <<seen, limitVars, handlerVars>>

TypeOK ==
    /\ SeenTypeOK /\ LimitTypeOK
    /\ pc \in [Request -> {"new", "unique", "within", "done"}]
    /\ outcome \in [Request -> {"none", "duplicate", "rate", "queued", "failed"}]
    /\ dupNote \in [Request -> Nat] /\ rateNote \in [Request -> Nat]
    /\ passedFor \in [Request -> 0..Window] /\ admittedFor \in [Request -> 0..Minute]

Init ==
    /\ SeenInit /\ LimitInit
    /\ pc = [r \in Request |-> "new"]
    /\ outcome = [r \in Request |-> "none"]
    /\ dupNote = [r \in Request |-> 0] /\ rateNote = [r \in Request |-> 0]
    /\ passedFor = [r \in Request |-> 0] /\ admittedFor = [r \in Request |-> 0]

Return(r, what) ==
    /\ pc' = [pc EXCEPT ![r] = "done"]
    /\ outcome' = [outcome EXCEPT ![r] = what]

(* deduper.Allow                                                           *)
Duplicate(r) ==
    /\ pc[r] = "new"
    /\ Swallow(KeyOf[r])
    /\ Return(r, "duplicate")
    /\ UNCHANGED <<limitVars, dupNote, rateNote, passedFor, admittedFor>>

Unique(r) ==
    /\ pc[r] = "new"
    /\ Pass(KeyOf[r])
    /\ dupNote' = [dupNote EXCEPT ![r] = Owed(KeyOf[r])]
    /\ pc' = [pc EXCEPT ![r] = "unique"]
    /\ UNCHANGED <<limitVars, outcome, rateNote, passedFor, admittedFor>>

(* limiter.Allow                                                           *)
OverLimit(r) ==
    /\ pc[r] = "unique"
    /\ Refuse
    /\ Return(r, "rate")
    /\ UNCHANGED <<seen, dupNote, rateNote, passedFor, admittedFor>>

WithinLimit(r) ==
    /\ pc[r] = "unique"
    /\ Admit
    /\ rateNote' = [rateNote EXCEPT ![r] = Missed]
    /\ pc' = [pc EXCEPT ![r] = "within"]
    /\ UNCHANGED <<seen, outcome, dupNote, passedFor, admittedFor>>

(* box.Enqueue                                                             *)
Queue(r) ==
    /\ pc[r] = "within"
    /\ \/ Return(r, "queued")
       \/ QueueMayFail /\ Return(r, "failed")
    /\ UNCHANGED <<seen, limitVars, dupNote, rateNote, passedFor, admittedFor>>

Passing(r) == pc[r] \in {"unique", "within"} \/ outcome[r] \in {"rate", "queued", "failed"}
Admitted(r) == pc[r] = "within" \/ outcome[r] \in {"queued", "failed"}

Tick ==
    /\ SeenTick /\ LimitTick
    /\ passedFor' = [r \in Request |-> IF Passing(r) /\ passedFor[r] < Window
                                       THEN passedFor[r] + 1 ELSE passedFor[r]]
    /\ admittedFor' = [r \in Request |-> IF Admitted(r) /\ admittedFor[r] < Minute
                                         THEN admittedFor[r] + 1 ELSE admittedFor[r]]
    /\ UNCHANGED <<pc, outcome, dupNote, rateNote>>

Next ==
    \/ \E r \in Request : \/ Duplicate(r) \/ Unique(r)
                          \/ OverLimit(r) \/ WithinLimit(r) \/ Queue(r)
    \/ Tick

Spec == Init /\ [][Next]_vars

-----------------------------------------------------------------------------
(* Properties.                                                             *)

(* Of two messages with one key that both pass, the second passes a whole  *)
(* window after the first: concurrent handlers cannot both find the key    *)
(* unknown, and eviction does not reopen a window (Allow, evictLocked).    *)
OncePerWindow ==
    [][\A r, s \in Request :
          /\ pc[r] = "new" /\ pc'[r] = "unique"
          /\ s # r /\ KeyOf[s] = KeyOf[r] /\ Passing(s)
          => passedFor[s] >= Window]_vars

(* The true bound of a window that starts with its first message: no minute *)
(* sees more than twice the limit less one (Limiter.Allow).                *)
AlmostTwice == Cardinality({r \in Request : Admitted(r) /\ admittedFor[r] < Minute}) < 2 * Limit

With(what, k) == {r \in Request : outcome[r] = what /\ KeyOf[r] = k}

(* Every repeat that was swallowed is handed to exactly one message, or    *)
(* still waits in the deduplicator for one: neither concurrent handlers    *)
(* nor eviction count it twice or drop it (Allow, evictLocked).  What      *)
(* becomes of that message is another matter: the rate cap or the outbox   *)
(* may refuse it, and the count goes with it.                              *)
RepeatsCounted ==
    \A k \in Key :
        Cardinality(With("duplicate", k)) =
            seen[k].swallowed
            + MapThenSumSet(LAMBDA r : dupNote[r], {r \in Request : KeyOf[r] = k})

(* The same of what the rate cap refused, over the end of a window too.    *)
RefusalsCounted ==
    Cardinality({r \in Request : outcome[r] = "rate"}) =
        suppressed + MapThenSumSet(LAMBDA r : rateNote[r], Request)
=============================================================================
