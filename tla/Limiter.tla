------------------------------ MODULE Limiter ------------------------------
(***************************************************************************)
(* The rate cap (internal/outbound/rate.go): a window of a minute that     *)
(* starts with the first message after the previous one ended.  Allow runs *)
(* under the limiter's mutex, so it is one step.                           *)
(*                                                                         *)
(* The age of the window saturates at a minute; that is also how the zero  *)
(* time of a limiter that was never asked looks, which Allow treats alike. *)
(***************************************************************************)
EXTENDS Integers

CONSTANTS
    Limit,          \* FREIZONE_BOT_RATE_PER_MINUTE
    Minute          \* a minute, in units of time

ASSUME LimiterAssumption == Limit \in Nat \ {0} /\ Minute \in Nat \ {0}

VARIABLES
    opened,         \* how long ago the window started
    sent,           \* what passed in this window
    suppressed      \* what was refused since one last passed

limitVars == <<opened, sent, suppressed>>

LimitTypeOK == opened \in 0..Minute /\ sent \in 0..Limit /\ suppressed \in Nat

LimitInit == opened = Minute /\ sent = 0 /\ suppressed = 0

Stale == opened >= Minute

(* Bug for the checks: the window is rolled over once a minute has begun.  *)
MutUsed == IF opened > 0 THEN 0 ELSE sent

(* What counts against the limit once the window was looked at.            *)
Used == IF Stale THEN 0 ELSE sent

Roll == opened' = IF Stale THEN 0 ELSE opened

(* Bug for the checks: a new window forgets what the last one refused.     *)
MutMissed == IF Stale THEN 0 ELSE suppressed

(* What the next message to pass has to report, whichever window it is in. *)
Missed == suppressed

(* Allow says yes, and hands over what was missed.                         *)
Admit == Used < Limit /\ Roll /\ sent' = Used + 1 /\ suppressed' = 0

(* Allow says no.  The count outlives the window.                          *)
Refuse == Used >= Limit /\ Roll /\ sent' = Used /\ suppressed' = suppressed + 1

LimitTick == opened' = (IF Stale THEN opened ELSE opened + 1) /\ UNCHANGED <<sent, suppressed>>
=============================================================================
