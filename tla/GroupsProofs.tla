---------------------------- MODULE GroupsProofs ----------------------------
(* That no invitation is left waiting, no uninvited group is joined and    *)
(* nothing but what is stale is forgotten, for every number of groups,     *)
(* settings, restarts and failures.                                        *)
EXTENDS Groups, TLAPS

(* Whatever was completed is something the setting may name.               *)
GroupIDMatches == groupID # None => groupID \in Matches[setting]

(* Between resolveGroup and the loops a configured group that is held is   *)
(* where messages go, so that looking it up finds its facts.               *)
StartupKnows ==
    phase \in {"resolved", "accepting"} /\ ~failed =>
        \A g \in Held : IsConfigured(g) => g \in Destination

IInv == TypeOK /\ GroupIDMatches /\ StartupKnows /\ NothingLeftWaiting /\ JoinsOnlyWanted

(* The inductive invariant holds before the first start.                   *)
LEMMA InitInv == Init => IInv
<1> SUFFICES ASSUME Init PROVE IInv
  OBVIOUS
<1>1. TypeOK
  <2>1. optIn \in BOOLEAN /\ failed \in BOOLEAN
    BY GroupsAssumption, Zenon DEF Init
  <2>2. hand \in [Loop -> SUBSET Group] /\ hand["upkeep"] = {} /\ Idle
    BY DEF Init, Idle, Loop
  <2>3. faults \in 0..MaxFaults /\ crashes \in 0..MaxCrashes /\ age \in [Group -> 0..Retention]
    BY GroupsAssumption DEF Init
  <2> QED
    BY <2>1, <2>2, <2>3 DEF Init, TypeOK, Idle
<1>2. GroupIDMatches /\ StartupKnows /\ NothingLeftWaiting /\ JoinsOnlyWanted
  BY DEF Init, GroupIDMatches, StartupKnows, NothingLeftWaiting, JoinsOnlyWanted
<1> QED
  BY <1>1, <1>2 DEF IInv

(* A call of the core either works or is counted and marks the run.        *)
LEMMA FaultFacts ==
    ASSUME TypeOK, Fault \/ NoFault
    PROVE  failed' \in BOOLEAN /\ faults' \in 0..MaxFaults
<1>1. failed' \in BOOLEAN
  BY Zenon DEF TypeOK, Fault, NoFault
<1>2. faults' \in 0..MaxFaults
  BY GroupsAssumption DEF TypeOK, Fault, NoFault
<1> QED
  BY <1>1, <1>2

(* An acceptance, in whichever place, keeps the counters and joins the     *)
(* group or marks the run.                                                 *)
LEMMA AcceptFacts ==
    ASSUME TypeOK, NEW g \in Group, Accept(g)
    PROVE  /\ facts' \in [Group -> {"none", "invited", "joined"}]
           /\ faults' \in 0..MaxFaults /\ failed' \in BOOLEAN /\ joined' \subseteq joined \cup {g}
           /\ joined' \subseteq Group
           /\ failed' \/ (facts'[g] = "joined" /\ failed' = failed)
           /\ \A h \in Group : h # g => facts'[h] = facts[h]
           /\ facts'[g] = "invited" => facts[g] = "invited"
<1>1. failed' \in BOOLEAN
  BY Zenon DEF TypeOK, Accept, Fault, NoFault
<1>2. failed' \/ (facts'[g] = "joined" /\ failed' = failed)
  BY DEF TypeOK, Accept, Fault, NoFault
<1>3. facts' \in [Group -> {"none", "invited", "joined"}] /\ joined' \subseteq joined \cup {g}
  BY DEF TypeOK, Accept, Fault
<1>4. faults' \in 0..MaxFaults
  BY GroupsAssumption DEF TypeOK, Accept, Fault, NoFault
<1>5. /\ \A h \in Group : h # g => facts'[h] = facts[h]
      /\ facts'[g] = "invited" => facts[g] = "invited"
  BY DEF TypeOK, Accept, Fault
<1> QED
  BY <1>1, <1>2, <1>3, <1>4, <1>5 DEF TypeOK

LEMMA NextType == TypeOK /\ [Next]_vars => TypeOK'
<1> SUFFICES ASSUME TypeOK, [Next]_vars PROVE TypeOK'
  OBVIOUS
<1> USE GroupsAssumption
<1> USE DEF TypeOK, Loop, Idle, world, round, cfg, seen
<1>1. CASE Start
  BY <1>1 DEF Start
<1>2. CASE Resolve
  BY <1>2, FaultFacts DEF Resolve
<1>3. CASE LookOnDisk
  BY <1>3, FaultFacts DEF LookOnDisk
<1>4. CASE AcceptWaiting
  <2>1. PICK g \in Destination : Accept(g) /\ groupID' = IF facts'[g] = "joined" THEN g ELSE groupID
    BY <1>4 DEF AcceptWaiting
  <2>2. g \in Group
    BY <2>1 DEF Destination
  <2> QED
    BY <1>4, <2>1, <2>2, AcceptFacts DEF AcceptWaiting
<1>5. ASSUME NEW g \in Group, Receive(g) PROVE TypeOK'
  BY <1>5 DEF Receive, Fold, Announced
<1>6. ASSUME NEW l \in Loop, NEW g \in Group, MaybeJoin(l, g) PROVE TypeOK'
  <2>1. /\ facts' \in [Group -> {"none", "invited", "joined"}]
        /\ faults' \in 0..MaxFaults /\ failed' \in BOOLEAN /\ joined' \subseteq Group
    BY <1>6, AcceptFacts DEF MaybeJoin
  <2>2. /\ phase = "running" /\ hand' = [hand EXCEPT ![l] = @ \ {g}] /\ g \in hand[l]
        /\ UNCHANGED <<world, phase, cfg, groupID, round, crashes>>
    BY <1>6 DEF MaybeJoin
  <2>3. hand["upkeep"]' # {} => hand["upkeep"] # {}
    BY <2>2
  <2> QED
    BY <2>1, <2>2, <2>3
<1>7. CASE ListGroups
  BY <1>7, FaultFacts DEF ListGroups, Held
<1>8. ASSUME NEW g \in Group, Examine(g) PROVE TypeOK'
  BY <1>8, FaultFacts DEF Examine
<1>9. CASE Forget
  BY <1>9, FaultFacts DEF Forget
<1>10. CASE AllExamined
  BY <1>10 DEF AllExamined
<1>11. CASE Drain
  BY <1>11, FaultFacts DEF Drain, Announced
<1>12. CASE EndRound
  BY <1>12 DEF EndRound
<1>13. ASSUME NEW g \in Group, Invite(g) PROVE TypeOK'
  BY <1>13 DEF Invite
<1>14. CASE Tick
  BY <1>14 DEF Tick
<1>15. CASE Crash
  BY <1>15 DEF Crash
<1>16. CASE UNCHANGED vars
  BY <1>16 DEF vars
<1> QED
  BY <1>1, <1>2, <1>3, <1>4, <1>5, <1>6, <1>7, <1>8, <1>9, <1>10, <1>11, <1>12, <1>13, <1>14,
     <1>15, <1>16 DEF Next, StartUp, UpkeepRound, Stream

(* Each step keeps the rest.  What start-up leaves is looked at under      *)
(* LookOnDisk and AcceptWaiting, what the loops take in hand under Receive *)
(* and Drain, what they let go of under MaybeJoin.                         *)
LEMMA NextInv == IInv /\ [Next]_vars => IInv'
<1> SUFFICES ASSUME IInv, [Next]_vars PROVE IInv'
  OBVIOUS
<1>0. TypeOK /\ TypeOK'
  BY NextType DEF IInv
<1> DEFINE Rest == GroupIDMatches /\ StartupKnows /\ NothingLeftWaiting /\ JoinsOnlyWanted
<1> SUFFICES Rest'
  BY <1>0 DEF IInv
<1> USE <1>0, GroupsAssumption
<1> USE DEF IInv, GroupIDMatches, StartupKnows, NothingLeftWaiting, JoinsOnlyWanted, IsConfigured,
        Destination, Held, world, round, cfg, seen
<1>1. CASE Start
  BY <1>1 DEF Start
<1>2. CASE Resolve
  <2>1. groupID = None \/ groupID \in Matches[setting]
    OBVIOUS
  <2>2. PICK m : m = Held \cap Matches[setting]
    OBVIOUS
  <2>3. UNCHANGED <<facts, setting, optIn, joined, hand>> /\ phase = "serving" /\ phase' \in {"resolved", "down"}
    BY <1>2 DEF Resolve
  <2>4. CASE m = {} /\ NoFault /\ UNCHANGED groupID
    BY <2>2, <2>3, <2>4 DEF NoFault, TypeOK
  <2>5. CASE Fault /\ UNCHANGED groupID
    BY <2>3, <2>5 DEF Fault
  <2>6. CASE NoFault /\ \E g \in Group : m = {g} /\ groupID' = g
    BY <2>2, <2>3, <2>6 DEF NoFault, TypeOK
  <2>7. CASE phase' = "down" /\ UNCHANGED groupID
    BY <2>3, <2>7
  <2> QED
    BY <1>2, <2>2, <2>4, <2>5, <2>6, <2>7 DEF Resolve
<1>3. CASE LookOnDisk
  BY <1>3 DEF LookOnDisk, Waiting, Fault, NoFault, TypeOK
<1>4. CASE AcceptWaiting
  <2>1. PICK g \in Destination : Accept(g) /\ groupID' = IF facts'[g] = "joined" THEN g ELSE groupID
    BY <1>4 DEF AcceptWaiting
  <2>2. g \in Group /\ g \in Matches[setting]
    BY <2>1 DEF TypeOK
  <2>3. /\ phase' = "running" /\ UNCHANGED <<setting, optIn, hand>>
    BY <1>4 DEF AcceptWaiting
  <2>4. failed' \/ (facts'[g] = "joined" /\ groupID' = g)
    BY <2>1, <2>2, AcceptFacts
  <2>5. joined' \subseteq joined \cup {g}
    BY <2>1, <2>2, AcceptFacts
  <2>6. groupID' # None => groupID' \in Matches[setting]
    BY <2>1, <2>2
  <2>7. NothingLeftWaiting'
    BY <2>2, <2>3, <2>4
  <2> QED
    BY <2>2, <2>3, <2>5, <2>6, <2>7
<1>5. ASSUME NEW g \in Group, Receive(g) PROVE Rest'
  BY <1>5 DEF Receive, Fold, Announced, TypeOK, Loop
<1>6. ASSUME NEW l \in Loop, NEW g \in Group, MaybeJoin(l, g) PROVE Rest'
  <2>1. /\ phase = "running" /\ phase' = "running" /\ UNCHANGED <<setting, optIn, groupID>>
        /\ hand' = [hand EXCEPT ![l] = @ \ {g}]
    BY <1>6 DEF MaybeJoin
  <2>2. \A k \in Loop : hand[k] \ {g} \subseteq hand'[k]
    BY <2>1 DEF TypeOK
  <2>3. CASE (IsConfigured(g) \/ optIn) /\ Accept(g)
    <3>1. optIn \/ joined' \subseteq Matches[setting]
      BY <2>3, AcceptFacts
    <3>2. failed' \/ (facts'[g] = "joined" /\ failed' = failed)
      BY <2>3, AcceptFacts
    <3>3. \A h \in Group : h # g => facts'[h] = facts[h]
      BY <2>3, AcceptFacts
    <3> QED
      BY <2>1, <2>2, <3>1, <3>2, <3>3
  <2>4. CASE ~IsConfigured(g) /\ ~optIn /\ UNCHANGED <<facts, faults, seen>>
    BY <2>1, <2>2, <2>4
  <2> QED
    BY <1>6, <2>3, <2>4 DEF MaybeJoin
<1>7. CASE ListGroups
  BY <1>7 DEF ListGroups, Fault, NoFault, TypeOK
<1>8. ASSUME NEW g \in Group, Examine(g) PROVE Rest'
  BY <1>8 DEF Examine, Fault, NoFault, TypeOK
<1>9. CASE Forget
  BY <1>9 DEF Forget, Fault, NoFault, TypeOK
<1>10. CASE AllExamined
  BY <1>10 DEF AllExamined
<1>11. CASE Drain
  <2>1. /\ UNCHANGED <<phase, setting, optIn, groupID, joined>>
        /\ upkeep = "draining"
    BY <1>11 DEF Drain
  <2>2. CASE Fault /\ UNCHANGED <<facts, hand, mail>>
    BY <2>1, <2>2 DEF Fault
  <2>3. CASE /\ facts' = [g \in Group |-> IF g \in Announced(mail) THEN "invited" ELSE facts[g]]
             /\ hand' = [hand EXCEPT !["upkeep"] = Announced(mail)]
             /\ NoFault
    <3>1. phase = "running"
      BY <2>1 DEF TypeOK, Idle
    <3>2. hand["upkeep"] = {} /\ hand'["upkeep"] = Announced(mail) /\ hand'["stream"] = hand["stream"]
      BY <2>1, <2>3 DEF TypeOK, Loop
    <3>3. \A g \in Group : g \notin Announced(mail) => facts'[g] = facts[g]
      BY <2>3
    <3>4. NothingLeftWaiting'
      BY <2>1, <2>3, <3>1, <3>2, <3>3 DEF NoFault, Loop
    <3> QED
      BY <2>1, <3>1, <3>4
  <2> QED
    BY <1>11, <2>2, <2>3 DEF Drain
<1>12. CASE EndRound
  BY <1>12 DEF EndRound
<1>13. ASSUME NEW g \in Group, Invite(g) PROVE Rest'
  BY <1>13 DEF Invite
<1>14. CASE Tick
  BY <1>14 DEF Tick
<1>15. CASE Crash
  BY <1>15 DEF Crash
<1>16. CASE UNCHANGED vars
  BY <1>16 DEF vars
<1>17. [Next]_vars
  OBVIOUS
<1> HIDE DEF IInv, GroupIDMatches, StartupKnows, NothingLeftWaiting, JoinsOnlyWanted, Rest,
         IsConfigured, Destination, Held, world, round, cfg, seen
<1> QED
  BY <1>1, <1>2, <1>3, <1>4, <1>5, <1>6, <1>7, <1>8, <1>9, <1>10, <1>11, <1>12, <1>13, <1>14,
     <1>15, <1>16, <1>17 DEF Next, StartUp, UpkeepRound, Stream, Loop

(* Type correctness, and no loop outside a running daemon.                 *)
THEOREM TypeCorrect == SafeSpec => []TypeOK
<1>1. IInv => TypeOK
  BY DEF IInv
<1> QED
  BY <1>1, InitInv, NextInv, PTL DEF SafeSpec

(* Either order works: no invitation to the configured group whose facts   *)
(* are held is left without somebody to answer it.                         *)
THEOREM NothingIsLeftWaiting == SafeSpec => []NothingLeftWaiting
<1>1. IInv => NothingLeftWaiting
  BY DEF IInv
<1> QED
  BY <1>1, InitInv, NextInv, PTL DEF SafeSpec

(* Without the opt-in nothing is joined that the setting cannot name.      *)
THEOREM OnlyWantedIsJoined == SafeSpec => []JoinsOnlyWanted
<1>1. IInv => JoinsOnlyWanted
  BY DEF IInv
<1> QED
  BY <1>1, InitInv, NextInv, PTL DEF SafeSpec

-----------------------------------------------------------------------------
(* What is forgotten.  Between the look at an invitation and its end the   *)
(* stream may accept it, but only a bot that accepts every invitation does *)
(* so with one that the setting does not name.                             *)

StaleInv ==
    victim # None =>
        /\ age[victim] >= Retention /\ ~IsConfigured(victim)
        /\ facts[victim] = "joined" => optIn /\ victim \in joined

(* The steps of the loops and of start-up keep what was decided on.        *)
LEMMA StaleStep == TypeOK /\ StaleInv /\ [Next]_vars => StaleInv'
<1> SUFFICES ASSUME TypeOK, StaleInv, [Next]_vars PROVE StaleInv'
  OBVIOUS
<1> USE GroupsAssumption DEF StaleInv, TypeOK, Idle, Loop, IsConfigured, world, round, cfg, seen
<1>1. CASE StartUp
  <2>1. phase # "running" /\ victim = None
    BY <1>1 DEF StartUp, Start, Resolve, LookOnDisk, AcceptWaiting
  <2>2. victim' = victim
    BY <1>1 DEF StartUp, Start, Resolve, LookOnDisk, AcceptWaiting
  <2> QED
    BY <2>1, <2>2
<1>2. ASSUME NEW g \in Group, Receive(g) PROVE StaleInv'
  BY <1>2 DEF Receive, Fold, Announced
<1>3. ASSUME NEW l \in Loop, NEW g \in Group, MaybeJoin(l, g) PROVE StaleInv'
  <2>1. UNCHANGED <<world, phase, cfg, groupID, round>>
    BY <1>3 DEF MaybeJoin
  <2>2. CASE UNCHANGED <<facts, joined>>
    BY <2>1, <2>2
  <2>3. CASE /\ IsConfigured(g) \/ optIn
             /\ facts' = [facts EXCEPT ![g] = "joined"] /\ joined' = joined \cup {g}
    <3>1. CASE victim = g
      BY <2>1, <2>3, <3>1
    <3>2. CASE victim # g
      BY <2>1, <2>3, <3>2
    <3> QED
      BY <3>1, <3>2
  <2> QED
    BY <1>3, <2>2, <2>3 DEF MaybeJoin, Accept
<1>4. CASE ListGroups \/ AllExamined \/ EndRound
  BY <1>4 DEF ListGroups, AllExamined, EndRound
<1>5. ASSUME NEW g \in Group, Examine(g) PROVE StaleInv'
  BY <1>5 DEF Examine, Forgettable
<1>6. CASE Forget \/ Crash
  BY <1>6 DEF Forget, Crash
<1>7. CASE Drain
  BY <1>7 DEF Drain, Announced
<1>8. CASE Tick \/ \E g \in Group : Invite(g)
  BY <1>8 DEF Tick, Invite
<1>9. CASE UNCHANGED vars
  BY <1>9 DEF vars
<1> QED
  BY <1>1, <1>2, <1>3, <1>4, <1>5, <1>6, <1>7, <1>8, <1>9 DEF Next, UpkeepRound, Stream

LEMMA StaleAlways == SafeSpec => [](IInv /\ StaleInv)
<1>1. Init => StaleInv
  BY DEF Init, Idle, StaleInv
<1>2. IInv /\ StaleInv /\ [Next]_vars => IInv' /\ StaleInv'
  BY NextInv, StaleStep DEF IInv
<1> QED
  BY <1>1, <1>2, InitInv, PTL DEF SafeSpec

(* Facts come to an end in one place.                                      *)
LEMMA OnlyForgetForgets ==
    ASSUME TypeOK, [Next]_vars, NEW g \in Group, facts[g] # "none", facts'[g] = "none"
    PROVE  Forget /\ victim = g
<1>1. ASSUME NEW h \in Group, Accept(h) PROVE FALSE
  BY <1>1 DEF Accept, TypeOK
<1>2. ~StartUp
  BY <1>1, GroupsAssumption
     DEF StartUp, Start, Resolve, LookOnDisk, AcceptWaiting, Destination, TypeOK
<1>3. ~Stream
  BY <1>1 DEF Stream, Receive, Fold, MaybeJoin, TypeOK
<1>4. ~ListGroups /\ ~(\E h \in Group : Examine(h)) /\ ~AllExamined /\ ~Drain /\ ~EndRound
  BY DEF ListGroups, Examine, AllExamined, Drain, EndRound, Announced
<1>5. ~(\E h \in Group : MaybeJoin("upkeep", h))
  BY <1>1 DEF MaybeJoin
<1>6. ~(\E h \in Group : Invite(h)) /\ ~Tick /\ ~Crash /\ ~(UNCHANGED vars)
  BY DEF Invite, Tick, Crash, vars
<1>7. Forget
  BY <1>2, <1>3, <1>4, <1>5, <1>6 DEF Next, UpkeepRound
<1> QED
  BY <1>7 DEF Forget, TypeOK

(* The stale pass lets go of nothing configured and nothing young, and of  *)
(* a membership only if it is one the opt-in has entered since the start,  *)
(* while the pass was between its look and its call.                       *)
THEOREM OnlyStaleIsForgotten == SafeSpec => ForgetsOnlyStale
<1> DEFINE Step == \A g \in Group : facts[g] # "none" /\ facts'[g] = "none" =>
                       /\ age[g] >= Retention /\ ~IsConfigured(g)
                       /\ facts[g] = "joined" => optIn /\ g \in joined
<1>1. IInv /\ StaleInv /\ [Next]_vars => Step
  <2> SUFFICES ASSUME TypeOK, StaleInv, [Next]_vars, NEW g \in Group,
                      facts[g] # "none", facts'[g] = "none"
               PROVE  /\ age[g] >= Retention /\ ~IsConfigured(g)
                      /\ facts[g] = "joined" => optIn /\ g \in joined
    BY DEF IInv
  <2>1. victim = g
    BY OnlyForgetForgets
  <2> QED
    BY <2>1, GroupsAssumption DEF StaleInv
<1>2. SafeSpec => [][Step]_vars
  BY <1>1, StaleAlways, PTL DEF SafeSpec
<1> QED
  BY <1>2 DEF ForgetsOnlyStale

(* The id is completed to a group that is held, and what the stale pass    *)
(* has picked is another one, so the facts of the group messages go to     *)
(* stay, whether or not the bot managed to join it.                        *)
THEOREM CompletedStaysHeld == SafeSpec => []CompletedIsHeld
<1>1. Init => CompletedIsHeld
  BY DEF Init, CompletedIsHeld
<1>2. IInv /\ StaleInv /\ CompletedIsHeld /\ [Next]_vars => CompletedIsHeld'
  <2> SUFFICES ASSUME IInv, StaleInv, CompletedIsHeld, [Next]_vars, groupID' # None
               PROVE  facts'[groupID'] # "none" /\ groupID' \in Matches[setting]'
    BY DEF CompletedIsHeld
  <2>1. TypeOK /\ IInv' /\ groupID' \in Matches[setting]'
    BY NextInv DEF IInv, GroupIDMatches
  <2>2. CASE groupID' # groupID
    <3>1. CASE Resolve
      <4>1. PICK g \in Group : Held \cap Matches[setting] = {g} /\ groupID' = g
        BY <2>2, <3>1 DEF Resolve
      <4>2. facts' = facts
        BY <3>1 DEF Resolve
      <4>3. g \in Held
        <5> DEFINE M == Held \cap Matches[setting]
        <5>1. M = {g}
          BY <4>1
        <5> HIDE DEF M
        <5>2. g \in M
          BY <5>1
        <5> QED
          BY <5>2 DEF M
      <4> QED
        BY <2>1, <4>1, <4>2, <4>3 DEF Held
    <3>2. CASE AcceptWaiting
      <4>1. PICK g \in Destination : groupID' = IF facts'[g] = "joined" THEN g ELSE groupID
        BY <3>2 DEF AcceptWaiting
      <4>2. facts'[g] = "joined" /\ groupID' = g
        BY <2>2, <4>1
      <4> QED
        BY <2>1, <4>2
    <3>3. ~Start /\ ~LookOnDisk
      BY <2>2 DEF Start, LookOnDisk
    <3>4. ~UpkeepRound
      BY <2>2 DEF UpkeepRound, ListGroups, Examine, Forget, AllExamined, Drain, MaybeJoin, EndRound
    <3>5. ~Stream
      BY <2>2 DEF Stream, Receive, MaybeJoin
    <3>6. ~(\E g \in Group : Invite(g)) /\ ~Tick /\ ~Crash /\ ~(UNCHANGED vars)
      BY <2>2 DEF Invite, Tick, Crash, vars
    <3> QED
      BY <2>1, <3>1, <3>2, <3>3, <3>4, <3>5, <3>6 DEF Next, StartUp
  <2>3. CASE groupID' = groupID
    <3>1. groupID \in Group /\ facts[groupID] # "none"
      BY <2>1, <2>3 DEF CompletedIsHeld, TypeOK
    <3>2. victim # groupID
      BY <3>1, GroupsAssumption DEF StaleInv, IsConfigured
    <3> QED
      BY <2>1, <2>3, <3>1, <3>2, OnlyForgetForgets
  <2> QED
    BY <2>2, <2>3
<1> QED
  BY <1>1, <1>2, StaleAlways, PTL DEF SafeSpec
=============================================================================
