---------------------------- MODULE InboundProofs ----------------------------
(* That a command runs once, that nothing stored is left without its       *)
(* follow-up and that what waits at the server is fetched in time, for any *)
(* envelopes, senders, intervals and settings, and any number of stops,    *)
(* kills and failed calls.                                                 *)
EXTENDS Inbound, FiniteSetTheorems, TLAPS

Spots == {"off", "idle", "draining", "handling", "acking", "following", "replying"}

(* The types these proofs need, what the spot of a loop says of what it    *)
(* holds, and that a process that is down has no loop.                     *)
JobOK ==
    /\ mail \subseteq Envelope /\ stored \subseteq Envelope /\ todo \subseteq Envelope
    /\ pc \in [Loop -> Spots]
    /\ cur \in [Loop -> Envelope \cup {NoEnvelope}]
    /\ results \in [Loop -> SUBSET Result]
    /\ ran \in [Envelope -> 0..2]
    /\ \A l \in Loop :
        /\ pc[l] \in {"handling", "acking", "replying"} => cur[l] \in Envelope
        /\ pc[l] \in {"idle", "off"} => results[l] = {}
        /\ phase = "down" => pc[l] = "off"

Fresh(l, m) == <<m, FALSE>> \in results[l]

(* A new envelope waits for its command with one loop only, and has not    *)
(* run; whatever has run is stored, so that a second copy is a duplicate.  *)
OneClaim ==
    \A m \in Envelope :
        /\ ran[m] <= 1
        /\ ran[m] = 1 => m \in stored
        /\ \A l \in Loop : Fresh(l, m) => m \in stored /\ ran[m] = 0
        /\ \A l, k \in Loop : Fresh(l, m) /\ Fresh(k, m) => l = k

Held(m) == \E l \in Loop : Fresh(l, m) \/ (pc[l] = "replying" /\ cur[l] = m)

(* Wherever a stored envelope may be.                                      *)
Accounted == \A m \in stored : m \in followed \/ m \in cut \/ Held(m)

IInv == JobOK /\ OneClaim /\ Accounted

LEMMA HeldIsInHand == ASSUME JobOK, NEW m PROVE Held(m) <=> m \in InHand
<1>1. ASSUME Held(m) PROVE m \in InHand
  <2>1. PICK l \in Loop : Fresh(l, m) \/ (pc[l] = "replying" /\ cur[l] = m)
    BY <1>1 DEF Held
  <2>2. CASE Fresh(l, m)
    <3>1. <<m, FALSE>> \in {s \in UNION {results[k] : k \in Loop} : ~s[2]}
      BY <2>2 DEF Fresh
    <3> QED
      BY <3>1 DEF InHand
  <2>3. CASE pc[l] = "replying" /\ cur[l] = m
    BY <2>3 DEF InHand
  <2> QED
    BY <2>1, <2>2, <2>3
<1>2. ASSUME m \in InHand PROVE Held(m)
  <2>1. CASE m \in {cur[l] : l \in {k \in Loop : pc[k] = "replying"}}
    BY <2>1 DEF Held
  <2>2. CASE m \in {r[1] : r \in {s \in UNION {results[l] : l \in Loop} : ~s[2]}}
    <3>1. PICK l \in Loop : \E s \in results[l] : ~s[2] /\ m = s[1]
      BY <2>2
    <3> PICK r \in results[l] : ~r[2] /\ m = r[1]
      BY <3>1
    <3>2. r \in Envelope \X BOOLEAN
      BY DEF JobOK, Result
    <3>3. r = <<r[1], r[2]>> /\ r[2] \in BOOLEAN
      BY <3>2
    <3>4. r[2] = FALSE
      BY <3>3
    <3>5. r = <<m, FALSE>>
      BY <3>3, <3>4
    <3> QED
      BY <3>5 DEF Held, Fresh
  <2> QED
    BY <1>2, <2>1, <2>2 DEF InHand
<1> QED
  BY <1>1, <1>2

LEMMA InitIInv == Init => IInv
BY DEF Init, IInv, JobOK, OneClaim, Accounted, Fresh, Held, Spots, Loop

-----------------------------------------------------------------------------
(* Steps that leave alone what the invariant is about, or nearly.          *)

LEMMA FrameStep ==
  ASSUME IInv, mail' \subseteq Envelope, phase' = phase \/ phase' = "stopping",
         UNCHANGED <<stored, job, ran, followed, cut>>
  PROVE  IInv'
BY DEF IInv, JobOK, OneClaim, Accounted, Fresh, Held, job

(* A loop goes from one spot to another, neither of which holds an answer, *)
(* and keeps its results.                                                  *)
LEMMA MoveStep ==
  ASSUME IInv, NEW l \in Loop, NEW spot \in Spots, NEW e \in Envelope \cup {NoEnvelope},
         pc' = [pc EXCEPT ![l] = spot], cur' = cur \/ cur' = [cur EXCEPT ![l] = e],
         pc[l] \notin {"off", "replying"}, spot # "replying",
         spot \in {"handling", "acking"} => e \in Envelope /\ cur' = [cur EXCEPT ![l] = e],
         spot \in {"idle", "off"} => results[l] = {},
         mail' \subseteq Envelope, todo' \subseteq Envelope,
         UNCHANGED <<stored, results, ran, followed, cut, phase>>
  PROVE  IInv'
<1>1. JobOK'
  BY DEF IInv, JobOK
<1>2. OneClaim'
  BY DEF IInv, OneClaim, Fresh
<1>3. Accounted'
  BY DEF IInv, JobOK, Accounted, Fresh, Held
<1> QED
  BY <1>1, <1>2, <1>3 DEF IInv

-----------------------------------------------------------------------------
(* One step for each that does more.                                       *)

LEMMA StoreStep == ASSUME IInv, NEW l \in Loop, Store(l) PROVE IInv'
<1> DEFINE m == cur[l]
           new == <<m, m \in stored>>
<1>0. /\ m \in stored => new = <<m, TRUE>>
      /\ m \notin stored => new = <<m, FALSE>>
  <2>1. ASSUME m \in stored PROVE (m \in stored) = TRUE
    BY <2>1
  <2>2. ASSUME m \notin stored PROVE (m \in stored) = FALSE
    BY <2>2
  <2> QED
    BY <2>1, <2>2
<1>1. /\ m \in Envelope /\ pc[l] = "handling" /\ stored' = stored \cup {m}
      /\ pc' = [pc EXCEPT ![l] = "acking"] /\ cur' = cur
      /\ results' = [results EXCEPT ![l] = @ \cup {new}]
      /\ mail' = mail /\ todo' = todo /\ ran' = ran /\ followed' = followed /\ cut' = cut /\ phase' = phase
  BY DEF Store, Go, IInv, JobOK, server, seen
<1>2. new \in Result /\ results'[l] = results[l] \cup {new}
      /\ \A k \in Loop \ {l} : results'[k] = results[k]
  BY <1>0, <1>1 DEF Result, IInv, JobOK
<1>3. JobOK'
  BY <1>1, <1>2 DEF IInv, JobOK, Spots
<1>4. ASSUME NEW k \in Loop, NEW e
      PROVE  Fresh(k, e)' <=> Fresh(k, e) \/ (k = l /\ e = m /\ m \notin stored)
  <2>1. <<e, FALSE>> = new <=> e = m /\ m \notin stored
    BY <1>0
  <2>2. k = l \/ k \in Loop \ {l}
    OBVIOUS
  <2> QED
    BY <1>2, <2>1, <2>2 DEF Fresh
<1>5. OneClaim'
  BY <1>1, <1>4 DEF IInv, OneClaim, JobOK
<1>6. Accounted'
  <2> SUFFICES ASSUME NEW e \in stored' PROVE e \in followed' \/ e \in cut' \/ Held(e)'
    BY DEF Accounted
  <2>1. CASE e \in stored
    BY <1>1, <1>4, <2>1 DEF IInv, JobOK, Accounted, Held
  <2>2. CASE e \notin stored
    BY <1>1, <1>4, <2>2 DEF Held
  <2> QED
    BY <2>1, <2>2
<1> QED
  BY <1>3, <1>5, <1>6 DEF IInv

LEMMA NotTheSame ==
  ASSUME NEW e, NEW m, NEW d \in BOOLEAN
  PROVE  <<e, FALSE>> = <<m, d>> <=> e = m /\ ~d
<1>1. CASE d = TRUE
  BY <1>1
<1>2. CASE d = FALSE
  BY <1>2
<1> QED
  BY <1>1, <1>2

LEMMA DispatchStep ==
  ASSUME IInv, NEW l \in Loop, NEW m \in Envelope, NEW duplicate \in BOOLEAN,
         <<m, duplicate>> \in results[l], Dispatch(l, m, duplicate)
  PROVE  IInv'
<1> DEFINE r == <<m, duplicate>>
<1>1. r \in results[l]
  OBVIOUS
<1>2. /\ pc[l] = "following" /\ results' = [results EXCEPT ![l] = @ \ {r}]
      /\ stored' = stored /\ mail' = mail /\ todo' = todo /\ cut' = cut /\ phase' = phase
  BY <1>1 DEF Dispatch, server, core
<1>3. ASSUME NEW k \in Loop, NEW e
      PROVE  Fresh(k, e)' <=> Fresh(k, e) /\ ~(k = l /\ e = m /\ ~duplicate)
  <2>1. <<e, FALSE>> = r <=> e = m /\ ~duplicate
    BY NotTheSame
  <2>2. results'[k] = IF k = l THEN results[k] \ {r} ELSE results[k]
    BY <1>2 DEF IInv, JobOK
  <2> QED
    BY <2>1, <2>2 DEF Fresh
<1>4. results' \in [Loop -> SUBSET Result]
  BY <1>2 DEF IInv, JobOK
<1>5. CASE Concerns(m, duplicate) /\ Interpret(m) # "none"
  <2>1. /\ ~duplicate /\ Execute(m) /\ followed' = followed
        /\ pc' = [pc EXCEPT ![l] = "replying"] /\ cur' = [cur EXCEPT ![l] = m]
    BY <1>5 DEF Dispatch, Concerns, Go, Take
  <2>2. m \in stored /\ ran[m] = 0 /\ Fresh(l, m)
    BY <1>1, <2>1 DEF IInv, OneClaim, Fresh
  <2>3. /\ ran' \in [Envelope -> 0..2] /\ ran'[m] \in {0, 1}
        /\ \A e \in Envelope \ {m} : ran'[e] = ran[e]
    BY <1>1, <2>1, <2>2 DEF Execute, IInv, JobOK
  <2>4. JobOK'
    BY <1>1, <1>2, <1>4, <2>1, <2>3 DEF IInv, JobOK, Spots
  <2>5. OneClaim'
    <3> SUFFICES ASSUME NEW e \in Envelope
                 PROVE  /\ ran'[e] <= 1
                        /\ ran'[e] = 1 => e \in stored'
                        /\ \A k \in Loop : Fresh(k, e)' => e \in stored' /\ ran'[e] = 0
                        /\ \A k, j \in Loop : Fresh(k, e)' /\ Fresh(j, e)' => k = j
      BY DEF OneClaim
    <3>1. CASE e = m
      <4>1. \A k \in Loop : ~Fresh(k, m)'
        BY <1>1, <1>3, <2>1, <2>2 DEF IInv, OneClaim
      <4> QED
        BY <1>2, <2>2, <2>3, <3>1, <4>1
    <3>2. CASE e # m
      BY <1>2, <1>3, <2>3, <3>2 DEF IInv, OneClaim
    <3> QED
      BY <3>1, <3>2
  <2>6. Accounted'
    <3> SUFFICES ASSUME NEW e \in stored PROVE e \in followed' \/ e \in cut' \/ Held(e)'
      BY <1>2 DEF Accounted
    <3>1. CASE e = m
      BY <2>1, <3>1 DEF Held, IInv, JobOK
    <3>2. CASE e # m
      BY <1>2, <1>3, <2>1, <3>2 DEF Held, IInv, JobOK, Accounted
    <3> QED
      BY <3>1, <3>2
  <2> QED
    BY <2>4, <2>5, <2>6 DEF IInv
<1>6. CASE ~(Concerns(m, duplicate) /\ Interpret(m) # "none")
  <2>1. /\ ran' = ran /\ pc' = pc /\ cur' = cur
        /\ followed' = IF duplicate THEN followed ELSE followed \cup {m}
    BY <1>6 DEF Dispatch
  <2>2. JobOK'
    BY <1>2, <1>4, <2>1 DEF IInv, JobOK
  <2>3. OneClaim'
    BY <1>2, <1>3, <2>1 DEF IInv, OneClaim
  <2>4. Accounted'
    BY <1>1, <1>2, <1>3, <2>1 DEF IInv, Accounted, Held
  <2> QED
    BY <2>2, <2>3, <2>4 DEF IInv
<1> QED
  BY <1>5, <1>6

LEMMA AnswerStep == ASSUME IInv, NEW l \in Loop, Answer(l) PROVE IInv'
<1>1. /\ pc[l] = "replying" /\ followed' = followed \cup {cur[l]}
      /\ pc' = [pc EXCEPT ![l] = "following"] /\ cur' = [cur EXCEPT ![l] = NoEnvelope]
      /\ UNCHANGED <<mail, stored, todo, results, ran, cut, phase>>
  BY DEF Answer, Go, Take, server, core
<1>2. JobOK'
  BY <1>1 DEF IInv, JobOK, Spots
<1>3. OneClaim'
  BY <1>1 DEF IInv, OneClaim, Fresh
<1>4. Accounted'
  BY <1>1 DEF IInv, JobOK, Accounted, Held, Fresh
<1> QED
  BY <1>2, <1>3, <1>4 DEF IInv

(* The process ends, and what was in hand is cut off, or nothing was.      *)
LEMMA HaltStep ==
  ASSUME IInv, Halt, cut \subseteq cut', InHand \subseteq cut'
  PROVE  IInv'
<1>1. /\ mail' = mail /\ stored' = stored /\ ran' = ran /\ followed' = followed /\ todo' = {}
      /\ pc' = [k \in Loop |-> "off"] /\ cur' = [k \in Loop |-> NoEnvelope]
      /\ results' = [k \in Loop |-> {}]
  BY DEF Halt, core
<1>2. JobOK'
  BY <1>1 DEF IInv, JobOK, Spots
<1>3. OneClaim'
  BY <1>1 DEF IInv, OneClaim, Fresh
<1>4. Accounted'
  BY <1>1, HeldIsInHand DEF IInv, Accounted
<1> QED
  BY <1>2, <1>3, <1>4 DEF IInv

LEMMA ExitStep == ASSUME IInv, Exit PROVE IInv'
<1>1. InHand = {}
  <2> SUFFICES ASSUME NEW m, Held(m) PROVE FALSE
    BY HeldIsInHand DEF IInv
  <2> QED
    BY DEF Held, Fresh, Exit, IInv, JobOK
<1> QED
  BY <1>1, HaltStep DEF Exit

LEMMA StepIInv == IInv /\ [Next]_vars => IInv'
<1> SUFFICES ASSUME IInv, [Next]_vars PROVE IInv'
  OBVIOUS
<1>1. ASSUME NEW m \in Envelope, Send(m) PROVE IInv'
  BY <1>1, FrameStep DEF Send, core, job, seen, IInv, JobOK
<1>2. CASE LinkUp \/ LinkDown \/ Signal \/ Tick
  BY <1>2, FrameStep DEF LinkUp, LinkDown, Signal, Tick, server, core, job, seen, IInv, JobOK
<1>3. ASSUME NEW l \in Loop, Handle(l) PROVE IInv'
  <2>1. CASE Store(l)
    BY <2>1, StoreStep
  <2>2. CASE Acknowledge(l) \/ HandleFails(l)
    <3>1. /\ pc[l] \notin {"off", "replying"} /\ pc' = [pc EXCEPT ![l] = Onward(l)]
          /\ cur' = [cur EXCEPT ![l] = NoEnvelope] /\ mail' \subseteq Envelope /\ todo' = todo
          /\ UNCHANGED <<stored, results, ran, followed, cut, phase>>
      BY <2>2 DEF Acknowledge, HandleFails, Go, Take, core, seen, IInv, JobOK
    <3>2. Onward(l) \in {"draining", "following", "idle"} /\ (Onward(l) = "idle" => results[l] = {})
      BY DEF Onward
    <3> QED
      BY <3>1, <3>2, MoveStep DEF Spots, IInv, JobOK
  <2> QED
    BY <1>3, <2>1, <2>2 DEF Handle
<1>4. ASSUME NEW l \in Loop, OnReceived(l) PROVE IInv'
  <2>1. CASE \E r \in results[l] : Dispatch(l, r[1], r[2])
    <3>1. PICK r \in results[l] : Dispatch(l, r[1], r[2])
      BY <2>1
    <3>2. r = <<r[1], r[2]>> /\ r[1] \in Envelope /\ r[2] \in BOOLEAN
      BY DEF IInv, JobOK, Result
    <3>3. <<r[1], r[2]>> \in results[l]
      BY <3>2
    <3> QED
      BY <3>1, <3>2, <3>3, DispatchStep
  <2>2. CASE Answer(l)
    BY <2>2, AnswerStep
  <2>3. CASE FollowedUp(l)
    BY <2>3, MoveStep DEF FollowedUp, Go, server, core, seen, Spots, IInv, JobOK
  <2> QED
    BY <1>4, <2>1, <2>2, <2>3 DEF OnReceived
<1>5. CASE StreamConnected \/ StreamDisconnected \/ SkipRound \/ RoundFails
  BY <1>5, FrameStep DEF StreamConnected, StreamDisconnected, SkipRound, RoundFails, server, core, job,
     seen, IInv, JobOK
<1>6. CASE StreamMessage
  BY <1>6, MoveStep DEF StreamMessage, NextEvent, Go, Take, server, core, seen, Spots, Loop, IInv, JobOK
<1>7. CASE StreamEnds \/ UpkeepEnds
  BY <1>7, MoveStep DEF StreamEnds, UpkeepEnds, Go, server, core, seen, Spots, Loop, IInv, JobOK
<1>8. CASE BeginRound
  BY <1>8, MoveStep DEF BeginRound, Asked, Go, server, core, seen, Spots, Loop, IInv, JobOK
<1>9. ASSUME NEW m \in todo, Fetch(m) PROVE IInv'
  BY <1>9, MoveStep DEF Fetch, Go, Take, server, core, seen, Spots, Loop, IInv, JobOK
<1>10. CASE Drained
  BY <1>10, MoveStep DEF Drained, Go, server, core, seen, Spots, Loop, IInv, JobOK
<1>11. CASE Exit
  BY <1>11, ExitStep
<1>12. CASE Crash
  BY <1>12, HaltStep DEF Crash
<1>13. CASE Restart
  <2>1. pc' = [k \in Loop |-> "idle"] /\ UNCHANGED <<mail, stored, todo, cur, results, ran, followed, cut>>
    BY <1>13 DEF Restart, server, core, seen
  <2> QED
    BY <1>13, <2>1 DEF Restart, IInv, JobOK, OneClaim, Accounted, Held, Fresh, Spots
<1>14. CASE UNCHANGED vars
  BY <1>14, FrameStep DEF vars, server, core, job, seen, IInv, JobOK
<1> QED
  BY <1>1, <1>2, <1>3, <1>4, <1>5, <1>6, <1>7, <1>8, <1>9, <1>10, <1>11, <1>12, <1>13, <1>14
     DEF Next, Stream, Upkeep, Loop

LEMMA IInvHolds == Spec => []IInv
BY InitIInv, StepIInv, PTL DEF Spec

(* A command runs once at the most, whichever path gets hold of it, and    *)
(* after any kills (dispatch).                                             *)
THEOREM CommandsRunOnce == Spec => []RunsOnce
<1>1. IInv => RunsOnce
  BY DEF IInv, OneClaim, RunsOnce
<1> QED
  BY <1>1, IInvHolds, PTL

(* Whatever is stored as new is followed up, in hand, or was when the      *)
(* process was killed: a stop in order leaves nothing (onReceived).        *)
THEOREM StoredIsFollowed == Spec => []EverythingFollowed
<1>1. IInv => EverythingFollowed
  BY HeldIsInHand DEF IInv, Accounted, EverythingFollowed
<1> QED
  BY <1>1, IInvHolds, PTL

-----------------------------------------------------------------------------
(* How long an envelope waits at the server.                               *)

Rounds == {"draining", "handling", "acking"}

(* What a round under way still has to fetch.                              *)
Pending(m) == m \in todo \/ (pc["upkeep"] \in {"handling", "acking"} /\ cur["upkeep"] = m)

ClockOK ==
    /\ mail \subseteq sent /\ sent \subseteq Envelope
    /\ waits \in [Envelope -> 0..Longest]
    /\ clock \in 0..(Interval - 1) /\ since \in 0..Spacing
    /\ ticker => clock = 0
    /\ \A m \in Envelope \ sent : waits[m] = 0
    /\ pc["upkeep"] \notin Rounds => todo = {}

(* What no round has in hand came after the last one began, and has not    *)
(* waited longer than since the ticker fired and the round it was skipped  *)
(* for.                                                                    *)
Bounded ==
    \A m \in mail :
        /\ waits[m] < Longest
        /\ ~Pending(m) /\ since < Spacing => waits[m] <= since
        /\ ~Pending(m) /\ ~ticker => waits[m] < clock + Spacing

WaitInv == ClockOK /\ (~failed => Bounded)

LEMMA WaitInit == Init => WaitInv
<1> SUFFICES ASSUME Init PROVE WaitInv
  OBVIOUS
<1>1. 0 \in 0..(Interval - 1) /\ Spacing \in 0..Spacing /\ 0 \in 0..Longest
  BY InboundAssumption DEF Longest
<1>2. ClockOK
  BY <1>1 DEF Init, ClockOK
<1>3. Bounded
  BY DEF Init, Bounded
<1> QED
  BY <1>2, <1>3 DEF WaitInv

(* The clock goes round.                                                   *)
LEMMA Round ==
  ASSUME NEW c \in 0..(Interval - 1)
  PROVE  (c + 1) % Interval = IF c + 1 = Interval THEN 0 ELSE c + 1
<1> Interval \in Nat \ {0}
  BY InboundAssumption
<1>1. CASE c + 1 = Interval
  BY <1>1
<1>2. CASE c + 1 < Interval
  BY <1>2
<1> QED
  BY <1>1, <1>2

(* A step that leaves time alone, and takes from a round only what it      *)
(* takes from the server.                                                  *)
LEMMA WaitFrame ==
  ASSUME WaitInv, UNCHANGED <<sent, waits, clock, since, ticker>>,
         mail' \subseteq mail, ~failed' => ~failed,
         pc'["upkeep"] \notin Rounds => todo' = {},
         ~failed' => \A m \in mail' : Pending(m) => Pending(m)'
  PROVE  WaitInv'
<1>1. ClockOK'
  BY DEF WaitInv, ClockOK
<1>2. ASSUME ~failed' PROVE Bounded'
  BY <1>2 DEF WaitInv, Bounded
<1> QED
  BY <1>1, <1>2 DEF WaitInv

(* A unit of time passes when no round is under way: the ticker fires      *)
(* before the wait is longer than an interval and a skipped round.         *)
LEMMA WaitTick == ASSUME WaitInv, Tick PROVE WaitInv'
<1> Interval \in Nat \ {0} /\ Spacing \in Nat \ {0}
  BY InboundAssumption
<1>1. /\ clock \in 0..(Interval - 1) /\ since \in 0..Spacing /\ todo = {} /\ ~ticker
      /\ waits \in [Envelope -> 0..Longest] /\ mail \subseteq Envelope
      /\ pc["upkeep"] = "idle" /\ Longest = Interval + Spacing
  BY DEF Tick, Quiet, WaitInv, ClockOK, Rounds, Loop, Longest
<1>2. /\ clock' = IF clock + 1 = Interval THEN 0 ELSE clock + 1
      /\ ticker' <=> clock' = 0
  BY <1>1, Round DEF Tick
<1>3. /\ since' = IF since < Spacing THEN since + 1 ELSE Spacing
      /\ waits' = [m \in Envelope |-> IF m \in mail
                     THEN IF waits[m] < Longest THEN waits[m] + 1 ELSE Longest ELSE 0]
      /\ UNCHANGED <<sent, mail, failed, pc, cur, todo>>
  BY <1>1 DEF Tick, Least, job, luck
<1>4. ClockOK'
  <2>1. waits' \in [Envelope -> 0..Longest]
    BY <1>1, <1>3
  <2>2. \A m \in Envelope \ sent : waits'[m] = 0
    BY <1>3 DEF WaitInv, ClockOK
  <2>3. clock' \in 0..(Interval - 1) /\ since' \in 0..Spacing /\ (ticker' => clock' = 0)
    BY <1>1, <1>2, <1>3
  <2> QED
    BY <1>1, <1>3, <2>1, <2>2, <2>3 DEF WaitInv, ClockOK
<1>5. ASSUME ~failed' PROVE Bounded'
  <2> SUFFICES ASSUME NEW m \in mail
               PROVE  /\ waits'[m] < Longest
                      /\ since' < Spacing => waits'[m] <= since'
                      /\ ~ticker' => waits'[m] < clock' + Spacing
    BY <1>3 DEF Bounded
  <2>1. ~Pending(m)
    BY <1>1 DEF Pending
  <2>2. /\ waits[m] < clock + Spacing /\ waits[m] < Longest
        /\ since < Spacing => waits[m] <= since
    BY <1>1, <1>3, <1>5, <2>1 DEF WaitInv, Bounded
  <2>3. waits'[m] = waits[m] + 1 /\ waits[m] \in Nat
    BY <1>1, <1>3, <2>2
  <2> QED
    BY <1>1, <1>2, <1>3, <2>2, <2>3
<1> QED
  BY <1>4, <1>5 DEF WaitInv

(* What has just been sent has not waited.                                 *)
LEMMA WaitSend == ASSUME WaitInv, NEW m \in Envelope, Send(m) PROVE WaitInv'
<1> Interval \in Nat \ {0} /\ Spacing \in Nat \ {0}
  BY InboundAssumption
<1>1. /\ m \notin sent /\ sent' = sent \cup {m} /\ mail' = mail \cup {m}
      /\ UNCHANGED <<waits, clock, since, ticker, pc, cur, todo, failed>>
  BY DEF Send, timing, job, luck
<1>2. ClockOK'
  BY <1>1 DEF WaitInv, ClockOK
<1>3. waits[m] = 0 /\ clock \in Nat /\ since \in Nat /\ Longest = Interval + Spacing
  BY <1>1 DEF WaitInv, ClockOK, Longest
<1>4. ASSUME ~failed' PROVE Bounded'
  <2> SUFFICES ASSUME NEW e \in mail'
               PROVE  /\ waits[e] < Longest
                      /\ ~Pending(e) /\ since < Spacing => waits[e] <= since
                      /\ ~Pending(e) /\ ~ticker => waits[e] < clock + Spacing
    BY <1>1 DEF Bounded, Pending
  <2>1. CASE e \in mail
    BY <1>1, <1>4, <2>1 DEF WaitInv, Bounded
  <2>2. CASE e = m
    BY <1>3, <2>2
  <2> QED
    BY <1>1, <2>1, <2>2
<1> QED
  BY <1>2, <1>4 DEF WaitInv

(* A round reads everything that waits.                                    *)
LEMMA WaitBegin == ASSUME IInv, WaitInv, BeginRound PROVE WaitInv'
<1> Spacing \in Nat \ {0}
  BY InboundAssumption
<1>1. /\ UNCHANGED <<sent, mail, waits, clock, failed>> /\ since' = 0 /\ todo' = mail
      /\ pc'["upkeep"] = "draining" /\ (ticker' => ticker)
  BY DEF BeginRound, Asked, Go, server, luck, IInv, JobOK, Loop
<1>2. ClockOK'
  BY <1>1 DEF WaitInv, ClockOK, Rounds
<1>3. ASSUME ~failed' PROVE Bounded'
  BY <1>1, <1>3 DEF WaitInv, Bounded, Pending
<1> QED
  BY <1>2, <1>3 DEF WaitInv

(* A round that is skipped would have found what came since the last.      *)
LEMMA WaitSkip == ASSUME IInv, WaitInv, SkipRound PROVE WaitInv'
<1> Spacing \in Nat \ {0} /\ Interval \in Nat \ {0}
  BY InboundAssumption
<1>1. /\ UNCHANGED <<sent, mail, waits, clock, since, failed, pc, cur, todo>>
      /\ (ticker' => ticker) /\ since < Spacing /\ pc["upkeep"] = "idle"
  BY DEF SkipRound, Asked, server, job, luck
<1>2. ClockOK'
  BY <1>1 DEF WaitInv, ClockOK
<1>3. ASSUME ~failed' PROVE Bounded'
  <2> SUFFICES ASSUME NEW m \in mail
               PROVE  /\ waits[m] < Longest
                      /\ ~Pending(m) => waits[m] <= since
                      /\ ~Pending(m) => waits[m] < clock + Spacing
    BY <1>1 DEF Bounded, Pending
  <2>1. waits[m] < Longest /\ (~Pending(m) => waits[m] <= since)
    BY <1>1, <1>3 DEF WaitInv, Bounded
  <2>2. since \in Nat /\ clock \in Nat /\ waits[m] \in Nat
    BY DEF WaitInv, ClockOK
  <2> QED
    BY <1>1, <2>1, <2>2
<1> QED
  BY <1>2, <1>3 DEF WaitInv

LEMMA WaitRoundFails == ASSUME WaitInv, RoundFails PROVE WaitInv'
<1>1. /\ UNCHANGED <<sent, mail, waits, clock, pc, todo>> /\ since' = 0 /\ failed'
      /\ (ticker' => ticker)
  BY DEF RoundFails, Asked, Fault, server, job
<1>2. ClockOK'
  BY <1>1, InboundAssumption DEF WaitInv, ClockOK
<1> QED
  BY <1>1, <1>2 DEF WaitInv

(* A run that ends takes the measure with it.                              *)
LEMMA WaitHalt == ASSUME WaitInv, Halt PROVE WaitInv'
<1> Spacing \in Nat \ {0} /\ Interval \in Nat \ {0}
  BY InboundAssumption
<1>1. /\ UNCHANGED <<sent, mail, failed>> /\ ~ticker' /\ clock' = 0 /\ since' = Spacing
      /\ waits' = [m \in Envelope |-> 0] /\ todo' = {}
      /\ Longest = Interval + Spacing
  BY DEF Halt, luck, Longest
<1>2. ClockOK'
  BY <1>1 DEF WaitInv, ClockOK
<1>3. Bounded'
  BY <1>1, <1>2 DEF Bounded, ClockOK
<1> QED
  BY <1>2, <1>3 DEF WaitInv

(* What a round fetches is acknowledged, or a call has failed.             *)
LEMMA WaitHandle == ASSUME IInv, WaitInv, NEW l \in Loop, Handle(l) PROVE WaitInv'
<1>1. CASE Store(l)
  <2>1. /\ UNCHANGED <<sent, waits, clock, since, ticker, mail, failed, todo, cur>>
        /\ pc[l] = "handling" /\ pc' = [pc EXCEPT ![l] = "acking"]
    BY <1>1 DEF Store, Go, server, timing, luck
  <2>2. pc'["upkeep"] \notin Rounds => todo' = {}
    BY <2>1 DEF IInv, JobOK, Loop, WaitInv, ClockOK, Rounds
  <2>3. \A m \in mail : Pending(m) => Pending(m)'
    BY <2>1 DEF IInv, JobOK, Loop, Pending
  <2> QED
    BY <2>1, <2>2, <2>3, WaitFrame
<1>2. CASE Acknowledge(l)
  <2>1. /\ UNCHANGED <<sent, waits, clock, since, ticker, failed, todo>>
        /\ pc[l] = "acking" /\ pc' = [pc EXCEPT ![l] = Onward(l)] /\ mail' = mail \ {cur[l]}
        /\ cur' = [cur EXCEPT ![l] = NoEnvelope]
    BY <1>2 DEF Acknowledge, Go, Take, timing, luck
  <2>2. pc'["upkeep"] \notin Rounds => todo' = {}
    BY <2>1 DEF IInv, JobOK, Loop, WaitInv, ClockOK, Rounds, Onward
  <2>3. \A m \in mail' : Pending(m) => Pending(m)'
    BY <2>1 DEF IInv, JobOK, Loop, Pending
  <2> QED
    BY <2>1, <2>2, <2>3, WaitFrame
<1>3. CASE HandleFails(l)
  <2>1. /\ UNCHANGED <<sent, waits, clock, since, ticker, todo>> /\ mail' \subseteq mail /\ failed'
        /\ pc[l] = "handling" /\ pc' = [pc EXCEPT ![l] = Onward(l)]
    BY <1>3 DEF HandleFails, Fault, Go, timing
  <2>2. pc'["upkeep"] \notin Rounds => todo' = {}
    BY <2>1 DEF IInv, JobOK, Loop, WaitInv, ClockOK, Rounds, Onward
  <2> QED
    BY <2>1, <2>2, WaitFrame
<1> QED
  BY <1>1, <1>2, <1>3 DEF Handle

(* The follow-up is after the fetching.                                    *)
LEMMA WaitFollow == ASSUME IInv, WaitInv, NEW l \in Loop, OnReceived(l) PROVE WaitInv'
<1>1. /\ UNCHANGED <<sent, waits, clock, since, ticker, mail, todo>> /\ (failed => failed')
      /\ pc[l] \notin Rounds /\ \A k \in Loop \ {l} : pc'[k] = pc[k] /\ cur'[k] = cur[k]
      /\ pc'[l] \notin Rounds
  <2>1. CASE \E r \in results[l] : Dispatch(l, r[1], r[2])
    BY <2>1 DEF Dispatch, Go, Take, server, timing, luck, Rounds, IInv, JobOK
  <2>2. CASE Answer(l)
    BY <2>2 DEF Answer, Fault, Go, Take, server, timing, luck, Rounds, IInv, JobOK
  <2>3. CASE FollowedUp(l)
    BY <2>3 DEF FollowedUp, Go, server, timing, luck, Rounds, IInv, JobOK
  <2> QED
    BY <2>1, <2>2, <2>3 DEF OnReceived
<1>2. pc'["upkeep"] \notin Rounds => todo' = {}
  BY <1>1 DEF WaitInv, ClockOK, Loop
<1>3. \A m \in mail' : Pending(m) => Pending(m)'
  BY <1>1 DEF Pending, Rounds, Loop
<1> QED
  BY <1>1, <1>2, <1>3, WaitFrame

LEMMA WaitStep == IInv /\ WaitInv /\ [Next]_vars => WaitInv'
<1> SUFFICES ASSUME IInv, WaitInv, [Next]_vars PROVE WaitInv'
  OBVIOUS
<1>1. CASE \E m \in Envelope : Send(m)
  BY <1>1, WaitSend
<1>2. CASE LinkUp \/ LinkDown \/ Signal \/ StreamConnected \/ StreamDisconnected \/ UNCHANGED vars
  <2>1. UNCHANGED <<sent, waits, clock, since, ticker, mail, todo, pc, cur, failed>>
    BY <1>2 DEF LinkUp, LinkDown, Signal, StreamConnected, StreamDisconnected, vars, server, timing, job, luck
  <2> QED
    BY <2>1, WaitFrame DEF Pending, WaitInv, ClockOK
<1>3. CASE StreamMessage \/ StreamEnds
  <2>1. /\ UNCHANGED <<sent, waits, clock, since, ticker, mail, todo, failed>>
        /\ pc'["upkeep"] = pc["upkeep"] /\ cur'["upkeep"] = cur["upkeep"]
    BY <1>3 DEF StreamMessage, NextEvent, StreamEnds, Go, Take, server, timing, luck, IInv, JobOK, Loop
  <2> QED
    BY <2>1, WaitFrame DEF Pending, WaitInv, ClockOK
<1>4. CASE UpkeepEnds \/ Drained
  <2>1. /\ UNCHANGED <<sent, waits, clock, since, ticker, mail, todo, failed>>
        /\ pc["upkeep"] \in {"idle", "draining"} /\ todo = {}
    BY <1>4 DEF UpkeepEnds, Drained, server, timing, luck, WaitInv, ClockOK, Rounds
  <2> QED
    BY <2>1, WaitFrame DEF Pending
<1>5. ASSUME NEW m \in todo, Fetch(m) PROVE WaitInv'
  <2>1. /\ UNCHANGED <<sent, waits, clock, since, ticker, mail, failed>> /\ todo' = todo \ {m}
        /\ pc["upkeep"] = "draining" /\ pc'["upkeep"] = "handling" /\ cur'["upkeep"] = m
    BY <1>5 DEF Fetch, Go, Take, server, timing, luck, IInv, JobOK, Loop
  <2> QED
    BY <2>1, WaitFrame DEF Pending, Rounds
<1>6. CASE Restart
  <2>1. /\ UNCHANGED <<sent, waits, clock, since, ticker, mail, todo, failed>>
        /\ pc["upkeep"] = "off"
    BY <1>6 DEF Restart, server, timing, luck, IInv, JobOK, Loop
  <2>2. todo = {}
    BY <2>1 DEF WaitInv, ClockOK, Rounds
  <2> QED
    BY <2>1, <2>2, WaitFrame DEF Pending
<1>7. ASSUME NEW l \in Loop, Handle(l) \/ OnReceived(l) PROVE WaitInv'
  BY <1>7, WaitHandle, WaitFollow
<1>8. CASE Exit \/ Crash
  BY <1>8, WaitHalt DEF Exit, Crash
<1> QED
  BY <1>1, <1>2, <1>3, <1>4, <1>5, <1>6, <1>7, <1>8, WaitTick, WaitBegin, WaitSkip, WaitRoundFails
     DEF Next, Stream, Upkeep, Loop

(* As long as no call fails, nothing waits at the server for an interval   *)
(* and a spacing, however often the connection comes and goes: every round *)
(* that is skipped for coming too soon follows one that fetched what was   *)
(* there (runUpkeep).                                                      *)
THEOREM FetchedInTimeAlways == Spec => []FetchedInTime
<1>1. WaitInv => FetchedInTime
  BY DEF WaitInv, Bounded, FetchedInTime
<1> QED
  BY <1>1, IInvHolds, WaitInit, WaitStep, PTL DEF Spec
-----------------------------------------------------------------------------
(* Types.                                                                  *)

(* What the other invariants do not speak of.                              *)
FlagsOK ==
    /\ link \in BOOLEAN /\ connected \in BOOLEAN /\ wanted \in BOOLEAN
    /\ ticker \in BOOLEAN /\ failed \in BOOLEAN

BoundsOK ==
    /\ phase \in {"up", "stopping", "down"}
    /\ stops \in 0..MaxStops /\ crashes \in 0..MaxCrashes /\ faults \in 0..MaxFaults

(* Whatever the bot has of an envelope was sent to it.                     *)
SentOK ==
    /\ events \in Seq(sent \cup {"connected", "dropped"})
    /\ stored \subseteq sent /\ todo \subseteq sent
    /\ answered \subseteq sent /\ followed \subseteq sent /\ cut \subseteq sent
    /\ \A l \in Loop : /\ cur[l] \in sent \cup {NoEnvelope}
                       /\ \A r \in results[l] : r[1] \in sent

(* An envelope is in hand only where one is dealt with, and the stream has *)
(* one at a time: it reads its channel no further until that is followed   *)
(* up.                                                                     *)
PlaceOK ==
    /\ pc["stream"] # "draining"
    /\ \A l \in Loop : cur[l] # NoEnvelope => pc[l] \in {"handling", "acking", "replying"}
    /\ pc["stream"] = "handling" => results["stream"] = {}
    /\ results["stream"] # {} => \E r \in Result : results["stream"] = {r}

TypeInv == IInv /\ WaitInv /\ FlagsOK /\ BoundsOK /\ SentOK /\ PlaceOK

LEMMA InitTypeInv == Init => TypeInv
<1>1. Init => FlagsOK
  BY DEF Init, FlagsOK
<1>2. Init => BoundsOK
  BY InboundAssumption DEF Init, BoundsOK
<1>3. Init => SentOK /\ PlaceOK
  BY DEF Init, SentOK, PlaceOK, Loop
<1> QED
  BY <1>1, <1>2, <1>3, InitIInv, WaitInit DEF TypeInv

LEMMA FlagsStep == FlagsOK /\ [Next]_vars => FlagsOK'
<1> SUFFICES ASSUME FlagsOK, [Next]_vars PROVE FlagsOK'
  OBVIOUS
<1> USE DEF FlagsOK, server, timing, luck
<1>1. CASE UNCHANGED vars
  BY <1>1 DEF vars
<1>2. CASE (\E m \in Envelope : Send(m)) \/ LinkUp \/ LinkDown
  BY <1>2 DEF Send, LinkUp, LinkDown
<1>3. ASSUME NEW l \in Loop, Handle(l) PROVE FlagsOK'
  BY <1>3 DEF Handle, Store, Acknowledge, HandleFails, Fault
<1>4. ASSUME NEW l \in Loop, OnReceived(l) PROVE FlagsOK'
  BY <1>4 DEF OnReceived, Dispatch, Answer, FollowedUp, Fault
<1>5. CASE StreamConnected \/ StreamDisconnected \/ StreamMessage \/ StreamEnds
  BY <1>5 DEF StreamConnected, StreamDisconnected, StreamMessage, StreamEnds
<1>6. CASE SkipRound \/ BeginRound \/ RoundFails
  BY <1>6 DEF SkipRound, BeginRound, RoundFails, Asked, Fault
<1>7. CASE (\E m \in todo : Fetch(m)) \/ Drained \/ UpkeepEnds
  BY <1>7 DEF Fetch, Drained, UpkeepEnds
<1>8. CASE Signal \/ Restart \/ Tick
  BY <1>8 DEF Signal, Restart, Tick
<1>9. CASE Exit \/ Crash
  BY <1>9 DEF Exit, Crash, Halt
<1> QED
  BY <1>1, <1>2, <1>3, <1>4, <1>5, <1>6, <1>7, <1>8, <1>9 DEF Next, Stream, Upkeep, Loop

LEMMA BoundsStep == BoundsOK /\ [Next]_vars => BoundsOK'
<1> SUFFICES ASSUME BoundsOK, [Next]_vars PROVE BoundsOK'
  OBVIOUS
<1>1. ASSUME Fault PROVE faults' \in 0..MaxFaults
  BY <1>1, InboundAssumption DEF Fault, BoundsOK
<1> USE DEF BoundsOK, bounds, luck
<1>2. CASE UNCHANGED <<phase, stops, crashes>> /\ (UNCHANGED faults \/ Fault)
  BY <1>1, <1>2
<1>3. CASE (\E m \in Envelope : Send(m)) \/ LinkUp \/ LinkDown \/ Tick \/ UNCHANGED vars
  BY <1>2, <1>3 DEF Send, LinkUp, LinkDown, Tick, vars
<1>4. ASSUME NEW l \in Loop, Handle(l) \/ OnReceived(l) PROVE BoundsOK'
  BY <1>2, <1>4 DEF Handle, Store, Acknowledge, HandleFails, OnReceived, Dispatch,
                      Answer, FollowedUp
<1>5. CASE StreamConnected \/ StreamDisconnected \/ StreamMessage \/ StreamEnds
  BY <1>2, <1>5 DEF StreamConnected, StreamDisconnected, StreamMessage, StreamEnds
<1>6. CASE \/ SkipRound \/ BeginRound \/ RoundFails
           \/ (\E m \in todo : Fetch(m)) \/ Drained \/ UpkeepEnds
  BY <1>2, <1>6 DEF SkipRound, BeginRound, RoundFails, Fetch, Drained, UpkeepEnds
<1>7. CASE Signal
  BY <1>7, InboundAssumption DEF Signal
<1>8. CASE Exit \/ Restart
  BY <1>8 DEF Exit, Halt, Restart
<1>9. CASE Crash
  <2>1. /\ phase' = "down" /\ crashes < MaxCrashes /\ crashes' = crashes + 1
        /\ stops' = stops /\ faults' = faults
    BY <1>9 DEF Crash, Halt
  <2> QED
    BY <2>1, InboundAssumption
<1> QED
  BY <1>3, <1>4, <1>5, <1>6, <1>7, <1>8, <1>9 DEF Next, Stream, Upkeep, Loop

LEMMA SentStep == IInv /\ WaitInv /\ SentOK /\ [Next]_vars => SentOK'
<1> SUFFICES ASSUME IInv, WaitInv, SentOK, [Next]_vars PROVE SentOK'
  OBVIOUS
<1>0. /\ mail \subseteq sent
      /\ \A l \in Loop : pc[l] \in {"handling", "acking", "replying"} => cur[l] \in sent
      /\ pc \in [Loop -> Spots] /\ cur \in [Loop -> Envelope \cup {NoEnvelope}]
      /\ results \in [Loop -> SUBSET Result]
  BY InboundAssumption DEF IInv, JobOK, WaitInv, ClockOK, SentOK
<1> USE DEF server, core, timing, job, seen, bounds, luck
<1>1. CASE UNCHANGED vars
  BY <1>1 DEF vars, SentOK
<1>2. ASSUME NEW m \in Envelope, Send(m) PROVE SentOK'
  <2>1. sent' = sent \cup {m} /\ events' \in Seq(sent' \cup {"connected", "dropped"})
    BY <1>2 DEF Send, SentOK
  <2> QED
    BY <1>2, <2>1 DEF Send, SentOK
<1>3. CASE LinkUp \/ LinkDown
  BY <1>3 DEF LinkUp, LinkDown, SentOK
<1>4. ASSUME NEW l \in Loop, Handle(l) PROVE SentOK'
  <2>1. CASE Store(l)
    <3>1. /\ cur[l] \in sent /\ stored' = stored \cup {cur[l]}
          /\ results' = [results EXCEPT ![l] = @ \cup {<<cur[l], cur[l] \in stored>>}]
          /\ UNCHANGED <<sent, events, todo, answered, followed, cut, cur>>
      BY <1>0, <2>1 DEF Store
    <3>2. ASSUME NEW k \in Loop, NEW r \in results'[k] PROVE r[1] \in sent
      BY <1>0, <3>1, <3>2 DEF SentOK
    <3> QED
      BY <3>1, <3>2 DEF SentOK
  <2>2. CASE Acknowledge(l) \/ HandleFails(l)
    <3>1. /\ cur' = [cur EXCEPT ![l] = NoEnvelope]
          /\ UNCHANGED <<sent, events, stored, todo, answered, followed, cut, results>>
      BY <2>2 DEF Acknowledge, HandleFails, Take
    <3> QED
      BY <1>0, <3>1 DEF SentOK
  <2> QED
    BY <1>4, <2>1, <2>2 DEF Handle
<1>5. ASSUME NEW l \in Loop, OnReceived(l) PROVE SentOK'
  <2>1. ASSUME NEW r \in results[l], Dispatch(l, r[1], r[2]) PROVE SentOK'
    <3>1. /\ r[1] \in sent /\ (cur' = cur \/ cur' = [cur EXCEPT ![l] = r[1]])
          /\ followed' \subseteq followed \cup {r[1]}
          /\ results' = [results EXCEPT ![l] = @ \ {<<r[1], r[2]>>}]
          /\ UNCHANGED <<sent, events, stored, todo, answered, cut>>
      BY <2>1 DEF Dispatch, Take, SentOK
    <3>2. \A k \in Loop : results'[k] \subseteq results[k]
      BY <1>0, <3>1
    <3>3. \A k \in Loop : cur'[k] \in sent \cup {NoEnvelope}
      BY <1>0, <3>1 DEF SentOK
    <3> QED
      BY <3>1, <3>2, <3>3 DEF SentOK
  <2>2. CASE Answer(l)
    <3>1. /\ cur[l] \in sent /\ cur' = [cur EXCEPT ![l] = NoEnvelope]
          /\ followed' = followed \cup {cur[l]} /\ answered' \subseteq answered \cup {cur[l]}
          /\ UNCHANGED <<sent, events, stored, todo, cut, results>>
      BY <1>0, <2>2 DEF Answer, Take
    <3> QED
      BY <1>0, <3>1 DEF SentOK
  <2>3. CASE FollowedUp(l)
    BY <2>3 DEF FollowedUp, SentOK
  <2> QED
    BY <1>5, <2>1, <2>2, <2>3 DEF OnReceived
<1>6. CASE StreamConnected \/ StreamDisconnected \/ StreamEnds
  <2>1. events' = <<>> \/ (events # <<>> /\ events' = Tail(events))
    BY <1>6 DEF StreamConnected, StreamDisconnected, StreamEnds, NextEvent
  <2>2. events' \in Seq(sent \cup {"connected", "dropped"})
    <3> DEFINE E == sent \cup {"connected", "dropped"}
    <3>1. events \in Seq(E)
      BY DEF SentOK
    <3> HIDE DEF E
    <3>2. ASSUME events # <<>> PROVE Tail(events) \in Seq(E)
      BY <3>1, <3>2
    <3>3. <<>> \in Seq(E)
      OBVIOUS
    <3> QED
      BY <2>1, <3>2, <3>3 DEF E
  <2> QED
    BY <1>6, <2>2 DEF StreamConnected, StreamDisconnected, StreamEnds, SentOK
<1>7. CASE StreamMessage
  <2>1. /\ events' \in Seq(sent \cup {"connected", "dropped"})
        /\ Head(events) \in sent
    BY <1>7, InboundAssumption DEF StreamMessage, NextEvent, SentOK
  <2>2. /\ cur' = [cur EXCEPT !["stream"] = Head(events)]
        /\ UNCHANGED <<sent, stored, todo, answered, followed, cut, results>>
    BY <1>7 DEF StreamMessage, Take
  <2> QED
    BY <1>0, <2>1, <2>2 DEF SentOK
<1>8. CASE SkipRound \/ BeginRound \/ RoundFails
  BY <1>0, <1>8 DEF SkipRound, BeginRound, RoundFails, SentOK
<1>9. CASE (\E m \in todo : Fetch(m)) \/ Drained \/ UpkeepEnds
  BY <1>0, <1>9 DEF Fetch, Take, Drained, UpkeepEnds, SentOK
<1>10. CASE Signal \/ Restart \/ Tick
  BY <1>10 DEF Signal, Restart, Tick, SentOK
<1>11. CASE Exit \/ Crash
  <2>1. InHand \subseteq sent
    <3>1. ASSUME NEW m \in InHand PROVE m \in sent
      <4>1. PICK l \in Loop : Fresh(l, m) \/ (pc[l] = "replying" /\ cur[l] = m)
        BY HeldIsInHand DEF Held, IInv
      <4>2. CASE Fresh(l, m)
        <5>1. <<m, FALSE>>[1] \in sent
          BY <4>2 DEF Fresh, SentOK
        <5> QED
          BY <5>1
      <4> QED
        BY <1>0, <4>1, <4>2
    <3> QED
      BY <3>1
  <2>2. /\ cut' \subseteq cut \cup InHand
        /\ cur' = [l \in Loop |-> NoEnvelope] /\ results' = [l \in Loop |-> {}]
        /\ events' = <<>> /\ todo' = {} /\ UNCHANGED <<sent, stored, answered, followed>>
    BY <1>11 DEF Exit, Crash, Halt
  <2> QED
    BY <2>1, <2>2 DEF SentOK
<1> QED
  BY <1>1, <1>2, <1>3, <1>4, <1>5, <1>6, <1>7, <1>8, <1>9, <1>10, <1>11
     DEF Next, Stream, Upkeep, Loop

LEMMA PlaceStep == IInv /\ PlaceOK /\ [Next]_vars => PlaceOK'
<1> SUFFICES ASSUME IInv, PlaceOK, [Next]_vars PROVE PlaceOK'
  OBVIOUS
<1>0. /\ pc \in [Loop -> Spots] /\ cur \in [Loop -> Envelope \cup {NoEnvelope}]
      /\ results \in [Loop -> SUBSET Result]
      /\ \A l \in Loop : pc[l] \in {"idle", "off"} => results[l] = {}
      /\ \A l \in Loop : pc[l] \in {"handling", "acking", "replying"} => cur[l] \in Envelope
  BY DEF IInv, JobOK
<1> USE DEF job
<1>1. CASE \/ UNCHANGED vars \/ (\E m \in Envelope : Send(m)) \/ LinkUp \/ LinkDown
           \/ StreamConnected \/ StreamDisconnected \/ SkipRound \/ RoundFails
           \/ Signal \/ Tick
  <2>1. UNCHANGED <<pc, cur, results>>
    BY <1>1 DEF vars, Send, LinkUp, LinkDown, StreamConnected, StreamDisconnected,
                SkipRound, RoundFails, Signal, Tick
  <2> QED
    BY <2>1 DEF PlaceOK
<1>2. ASSUME NEW l \in Loop, Store(l) PROVE PlaceOK'
  <2>1. /\ pc[l] = "handling" /\ pc' = [pc EXCEPT ![l] = "acking"] /\ cur' = cur
        /\ results' = [results EXCEPT ![l] = @ \cup {<<cur[l], cur[l] \in stored>>}]
    BY <1>2 DEF Store, Go
  <2>2. <<cur[l], cur[l] \in stored>> \in Result
    <3>1. cur[l] \in Envelope /\ (cur[l] \in stored) \in BOOLEAN
      BY <1>0, <2>1
    <3> QED
      BY <3>1 DEF Result
  <2>3. results'["stream"] # {} => \E r \in Result : results'["stream"] = {r}
    BY <1>0, <2>1, <2>2 DEF PlaceOK, Loop
  <2> QED
    BY <1>0, <2>1, <2>3 DEF PlaceOK, Loop
<1>3. ASSUME NEW l \in Loop, Acknowledge(l) \/ HandleFails(l) PROVE PlaceOK'
  <2>1. /\ pc' = [pc EXCEPT ![l] = Onward(l)] /\ cur' = [cur EXCEPT ![l] = NoEnvelope]
        /\ results' = results
    BY <1>3 DEF Acknowledge, HandleFails, Go, Take
  <2>2. Onward(l) \in {"draining", "following", "idle"} /\ Onward("stream") # "draining"
    BY DEF Onward
  <2> QED
    BY <1>0, <2>1, <2>2 DEF PlaceOK, Loop
<1>4. ASSUME NEW l \in Loop, NEW r \in results[l], Dispatch(l, r[1], r[2]) PROVE PlaceOK'
  <2>1. /\ pc[l] = "following"
        /\ \/ pc' = [pc EXCEPT ![l] = "replying"] /\ cur' = [cur EXCEPT ![l] = r[1]]
           \/ UNCHANGED <<pc, cur>>
        /\ results' = [results EXCEPT ![l] = @ \ {<<r[1], r[2]>>}]
    BY <1>4 DEF Dispatch, Go, Take
  <2>2. results'["stream"] \subseteq results["stream"]
    BY <1>0, <2>1 DEF Loop
  <2>3. results'["stream"] # {} => \E s \in Result : results'["stream"] = {s}
    BY <2>2 DEF PlaceOK
  <2> QED
    BY <1>0, <2>1, <2>2, <2>3 DEF PlaceOK, Loop
<1>5. ASSUME NEW l \in Loop, Answer(l) \/ FollowedUp(l) PROVE PlaceOK'
  <2>1. /\ results' = results
        /\ \/ pc' = [pc EXCEPT ![l] = "following"] /\ cur' = [cur EXCEPT ![l] = NoEnvelope]
           \/ pc' = [pc EXCEPT ![l] = "idle"] /\ cur' = cur /\ pc[l] = "following"
    BY <1>5 DEF Answer, FollowedUp, Go, Take
  <2> QED
    BY <1>0, <2>1 DEF PlaceOK, Loop
<1>6. CASE StreamMessage \/ StreamEnds
  <2>1. /\ pc["stream"] = "idle" /\ results' = results
        /\ \/ pc' = [pc EXCEPT !["stream"] = "handling"]
              /\ cur' = [cur EXCEPT !["stream"] = Head(events)]
           \/ pc' = [pc EXCEPT !["stream"] = "off"] /\ cur' = cur
    BY <1>6 DEF StreamMessage, NextEvent, StreamEnds, Go, Take
  <2> QED
    BY <1>0, <2>1 DEF PlaceOK, Loop
<1>7. CASE BeginRound \/ (\E m \in todo : Fetch(m)) \/ Drained \/ UpkeepEnds
  <2>1. /\ results' = results /\ pc'["stream"] = pc["stream"] /\ cur'["stream"] = cur["stream"]
        /\ \/ pc'["upkeep"] = "handling"
           \/ pc["upkeep"] \in {"idle", "draining"} /\ cur'["upkeep"] = cur["upkeep"]
    BY <1>0, <1>7 DEF BeginRound, Asked, Fetch, Drained, UpkeepEnds, Go, Take, Loop
  <2> QED
    BY <2>1 DEF PlaceOK, Loop
<1>8. CASE Exit \/ Crash
  BY <1>8 DEF Exit, Crash, Halt, PlaceOK, Loop
<1>9. CASE Restart
  <2>1. /\ pc' = [l \in Loop |-> "idle"] /\ UNCHANGED <<cur, results>>
        /\ \A l \in Loop : pc[l] = "off"
    BY <1>9 DEF Restart, IInv, JobOK
  <2> QED
    BY <2>1 DEF PlaceOK, Loop
<1> QED
  BY <1>1, <1>2, <1>3, <1>4, <1>5, <1>6, <1>7, <1>8, <1>9
     DEF Next, Stream, Upkeep, Handle, OnReceived, Loop

(* The state of the two loops is well-typed, whatever comes, fails or is   *)
(* killed: a loop has an envelope in hand exactly where it deals with one, *)
(* nothing is held that was not sent, and the stream never has two results *)
(* to follow up (runStream, upkeep, onReceived).                           *)
THEOREM TypeCorrect == Spec => []TypeOK
<1>1. TypeInv => TypeOK
  <2> SUFFICES ASSUME TypeInv PROVE TypeOK
    OBVIOUS
  <2>1. Cardinality(results["stream"]) <= 1
    <3>1. CASE results["stream"] = {}
      BY <3>1, FS_EmptySet
    <3>2. CASE results["stream"] # {}
      <4>1. PICK r \in Result : results["stream"] = {r}
        BY <3>2 DEF TypeInv, PlaceOK
      <4>2. Cardinality({r}) = 1
        BY FS_Singleton
      <4> QED
        BY <4>1, <4>2
    <3> QED
      BY <3>1, <3>2
  <2>2. /\ events \in Seq(Envelope \cup {"connected", "dropped"})
    BY DEF TypeInv, SentOK, WaitInv, ClockOK
  <2>3. \A l \in Loop :
            /\ cur[l] # NoEnvelope <=> pc[l] \in {"handling", "acking", "replying"}
            /\ results[l] # {} => pc[l] # "idle" /\ pc[l] # "off"
    BY InboundAssumption DEF TypeInv, IInv, JobOK, PlaceOK
  <2> QED
    BY <2>1, <2>2, <2>3
       DEF TypeInv, TypeOK, IInv, JobOK, Spots, WaitInv, ClockOK, FlagsOK, BoundsOK, SentOK, PlaceOK
<1>2. TypeInv /\ [Next]_vars => TypeInv'
  BY StepIInv, WaitStep, FlagsStep, BoundsStep, SentStep, PlaceStep DEF TypeInv
<1> QED
  BY <1>1, <1>2, InitTypeInv, PTL DEF Spec
=============================================================================
