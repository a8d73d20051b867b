------------------------------- MODULE Groups -------------------------------
(***************************************************************************)
(* The groups of the bot: completing the configured group, answering       *)
(* invitations at start, from the live stream and from the drained queue,  *)
(* and forgetting those nobody answers (cmd/bot/group.go, and in daemon.go *)
(* joinConfiguredGroupIfInvited, maybeJoinGroup, upkeep).                  *)
(*                                                                         *)
(* The client core and the server behind it are external: an invitation    *)
(* waits on the server until it is acknowledged, its facts are on disk     *)
(* once it is handled, and it is announced only when they are new.  An     *)
(* inviter invites once; removal is left out.                              *)
(***************************************************************************)
EXTENDS Integers, FiniteSets

CONSTANTS
    Group,
    None,           \* no group id
    Setting,        \* what the operator may have configured
    Matches,        \* the groups whose id starts with a setting
    Whole,          \* the settings that are whole ids
    OptIns,         \* the values AcceptGroupInvites may have
    Retention,      \* ForgetInvitesAfter, in ticks
    MaxFaults,      \* bound: calls of the core that fail
    MaxCrashes      \* bound: restarts

ASSUME GroupsAssumption ==
    /\ None \notin Group
    /\ Matches \in [Setting -> SUBSET Group]
    /\ Whole \subseteq Setting /\ \A s \in Whole : \E g \in Group : Matches[s] = {g}
    /\ OptIns \subseteq BOOLEAN /\ OptIns # {}
    /\ Retention \in Nat \ {0}
    /\ MaxFaults \in Nat /\ MaxCrashes \in Nat

Loop == {"stream", "upkeep"}

VARIABLES
    mail,           \* invitations the server holds
    invited,        \* groups that have invited the bot
    facts,          \* what the core holds on disk of each group
    age,            \* ticks since Member.AddedAt
    phase,          \* how far runDaemon is
    setting, optIn, \* cfg.RouteGroup and cfg.AcceptGroupInvites
    groupID,        \* d.groupID
    hand,           \* announced invitations a loop has still to answer
    upkeep,         \* where the upkeep round is
    todo,           \* groups forgetStaleInvitations has still to look at
    victim,         \* the group it has decided to forget
    faults, crashes,
    failed,         \* whether a call failed in this run of the daemon
    joined          \* the groups joined in this run of the daemon

cfg == <<setting, optIn>>
world == <<mail, invited, age>>
round == <<upkeep, todo, victim>>
seen == <<failed, joined>>
vars == <<world, facts, phase, cfg, groupID, hand, round, faults, crashes, seen>>

(* No loop is running.                                                     *)
Idle ==
    /\ hand = [l \in Loop |-> {}]
    /\ upkeep = "idle" /\ todo = {} /\ victim = None

TypeOK ==
    /\ mail \subseteq invited /\ invited \subseteq Group
    /\ facts \in [Group -> {"none", "invited", "joined"}]
    /\ age \in [Group -> 0..Retention]
    /\ phase \in {"down", "serving", "resolved", "accepting", "running"}
    /\ setting \in Setting /\ optIn \in BOOLEAN
    /\ groupID \in Group \cup {None}
    /\ hand \in [Loop -> SUBSET Group]
    /\ upkeep \in {"idle", "forgetting", "draining", "answering"}
    /\ todo \subseteq Group /\ victim \in Group \cup {None}
    /\ todo # {} \/ victim # None => upkeep = "forgetting"
    /\ hand["upkeep"] # {} => upkeep = "answering"
    /\ phase # "running" => Idle
    /\ faults \in 0..MaxFaults /\ crashes \in 0..MaxCrashes
    /\ failed \in BOOLEAN /\ joined \subseteq Group

Init ==
    /\ mail = {} /\ invited = {}
    /\ facts = [g \in Group |-> "none"] /\ age = [g \in Group |-> 0]
    /\ phase = "down" /\ setting \in Setting /\ optIn \in OptIns
    /\ groupID = None /\ Idle
    /\ faults = 0 /\ crashes = 0 /\ failed = FALSE /\ joined = {}

Held == {g \in Group : facts[g] # "none"}

Fault ==
    /\ faults < MaxFaults
    /\ faults' = faults + 1
    /\ failed' = TRUE

NoFault == UNCHANGED <<faults, failed>>

-----------------------------------------------------------------------------
(* The configured group.                                                   *)

(* Bug for the checks: the configured value is not asked for at all.       *)
MutIsConfigured(g) == groupID = None \/ g = groupID

(* isConfiguredGroup: the resolved id, or the prefix until there is one.   *)
IsConfigured(g) == IF groupID # None THEN g = groupID ELSE g \in Matches[setting]

(* What Resolve makes of configuredGroup: a prefix is no destination.      *)
Destination ==
    IF groupID # None THEN {groupID}
    ELSE IF setting \in Whole THEN Matches[setting] ELSE {}

(* The core's AcceptGroupInvitation: it needs the facts, and a server.     *)
Accept(g) ==
    \/ /\ facts[g] # "none"
       /\ facts' = [facts EXCEPT ![g] = "joined"]
       /\ joined' = joined \cup {g}
       /\ NoFault
    \/ /\ facts[g] = "none"
       /\ failed' = TRUE
       /\ UNCHANGED <<facts, joined, faults>>
    \/ Fault /\ UNCHANGED <<facts, joined>>

-----------------------------------------------------------------------------
(* Start.                                                                  *)

(* The control socket is served before the group is resolved.              *)
Start ==
    /\ phase = "down"
    /\ setting' \in Setting /\ optIn' \in OptIns
    /\ phase' = "serving" /\ groupID' = None
    /\ failed' = FALSE /\ joined' = {}
    /\ UNCHANGED <<world, facts, hand, round, faults, crashes>>

(* resolveGroup: one match is the group, none leaves the prefix, several   *)
(* stop the daemon.  A listing that fails is no match.                     *)
Resolve ==
    LET matches == Held \cap Matches[setting]
    IN /\ phase = "serving"
       /\ \/ /\ matches = {}
             /\ NoFault /\ phase' = "resolved" /\ UNCHANGED groupID
          \/ /\ Fault /\ phase' = "resolved" /\ UNCHANGED groupID
          \/ /\ \E g \in Group : matches = {g} /\ groupID' = g
             /\ NoFault /\ phase' = "resolved"
          \/ /\ Cardinality(matches) > 1
             /\ NoFault /\ phase' = "down" /\ UNCHANGED groupID
       /\ UNCHANGED <<world, facts, cfg, hand, round, crashes, joined>>

(* Bug for the checks: only what is announced is answered.                 *)
MutWaiting == FALSE

(* joinConfiguredGroupIfInvited reads the facts of the configured group; a *)
(* prefix has none.                                                        *)
Waiting == \E g \in Destination : facts[g] = "invited"

LookOnDisk ==
    /\ phase = "resolved"
    /\ \/ /\ Destination # {} /\ Fault
          /\ phase' = "running"
       \/ /\ phase' = IF Waiting THEN "accepting" ELSE "running"
          /\ NoFault
    /\ UNCHANGED <<world, facts, cfg, groupID, hand, round, crashes, joined>>

AcceptWaiting ==
    /\ phase = "accepting"
    /\ \E g \in Destination :
        /\ Accept(g)
        /\ groupID' = IF facts'[g] = "joined" THEN g ELSE groupID
    /\ phase' = "running"
    /\ UNCHANGED <<world, cfg, hand, round, crashes>>

-----------------------------------------------------------------------------
(* The loops.                                                              *)

(* HandleAndAck: the facts are folded; they are announced only when new.   *)
(* An acknowledgement that is lost leaves the envelope on the server.      *)
Fold(g) == facts' = [facts EXCEPT ![g] = IF @ = "none" THEN "invited" ELSE @]

Announced(S) == {g \in S : facts[g] = "none"}

Receive(g) ==
    /\ phase = "running" /\ hand["stream"] = {}
    /\ g \in mail
    /\ Fold(g)
    /\ hand' = [hand EXCEPT !["stream"] = Announced({g})]
    /\ mail' \in {mail, mail \ {g}}
    /\ UNCHANGED <<invited, age, phase, cfg, groupID, round, faults, crashes, seen>>

(* maybeJoinGroup, for one of the announced invitations of a loop.         *)
MaybeJoin(l, g) ==
    /\ phase = "running" /\ g \in hand[l]
    /\ hand' = [hand EXCEPT ![l] = @ \ {g}]
    /\ \/ /\ IsConfigured(g) \/ optIn
          /\ Accept(g)
       \/ /\ ~IsConfigured(g) /\ ~optIn
          /\ UNCHANGED <<facts, faults, seen>>
    /\ UNCHANGED <<world, phase, cfg, groupID, round, crashes>>

(* upkeep begins with the invitations nobody answered.                     *)
ListGroups ==
    /\ phase = "running" /\ upkeep = "idle"
    /\ \/ upkeep' = "forgetting" /\ todo' = Held /\ NoFault
       \/ upkeep' = "draining" /\ UNCHANGED todo /\ Fault
    /\ UNCHANGED <<world, facts, phase, cfg, groupID, hand, victim, crashes, joined>>

(* Bug for the checks: the retention is not asked for.                     *)
MutForgettable(g) == ~IsConfigured(g) /\ facts[g] = "invited"

(* Bug for the checks: an old invitation is one, configured or not.        *)
MutConfiguredToo(g) == facts[g] = "invited" /\ age[g] >= Retention

(* What forgetStaleInvitations lets go of.                                 *)
Forgettable(g) == ~IsConfigured(g) /\ facts[g] = "invited" /\ age[g] >= Retention

Examine(g) ==
    /\ upkeep = "forgetting" /\ victim = None /\ g \in todo
    /\ todo' = todo \ {g}
    /\ \/ /\ victim' = IF Forgettable(g) THEN g ELSE None
          /\ NoFault
       \/ /\ Fault /\ UNCHANGED victim
    /\ UNCHANGED <<world, facts, phase, cfg, groupID, hand, upkeep, crashes, joined>>

Forget ==
    /\ upkeep = "forgetting" /\ victim # None
    /\ \/ /\ facts' = [facts EXCEPT ![victim] = "none"]
          /\ NoFault
       \/ Fault /\ UNCHANGED facts
    /\ victim' = None
    /\ UNCHANGED <<world, phase, cfg, groupID, hand, upkeep, todo, crashes, joined>>

AllExamined ==
    /\ upkeep = "forgetting" /\ victim = None /\ todo = {}
    /\ upkeep' = "draining"
    /\ UNCHANGED <<world, facts, phase, cfg, groupID, hand, todo, victim, faults, crashes, seen>>

(* Bug for the checks: what is drained is counted and nothing more.        *)
MutDrain ==
    /\ upkeep = "draining"
    /\ facts' = [g \in Group |-> IF g \in Announced(mail) THEN "invited" ELSE facts[g]]
    /\ mail' \in SUBSET mail
    /\ NoFault
    /\ upkeep' = "answering"
    /\ UNCHANGED <<invited, age, phase, cfg, groupID, hand, todo, victim, crashes, joined>>

(* Drain handles everything the server holds; its results are followed up  *)
(* one by one.                                                             *)
Drain ==
    /\ upkeep = "draining"
    /\ \/ /\ facts' = [g \in Group |-> IF g \in Announced(mail) THEN "invited" ELSE facts[g]]
          /\ hand' = [hand EXCEPT !["upkeep"] = Announced(mail)]
          /\ mail' \in SUBSET mail
          /\ NoFault
       \/ /\ Fault
          /\ UNCHANGED <<facts, hand, mail>>
    /\ upkeep' = "answering"
    /\ UNCHANGED <<invited, age, phase, cfg, groupID, todo, victim, crashes, joined>>

EndRound ==
    /\ upkeep = "answering" /\ hand["upkeep"] = {}
    /\ upkeep' = "idle"
    /\ UNCHANGED <<world, facts, phase, cfg, groupID, hand, todo, victim, faults, crashes, seen>>

-----------------------------------------------------------------------------
(* The world around.                                                       *)

Invite(g) ==
    /\ g \notin invited
    /\ invited' = invited \cup {g}
    /\ mail' = mail \cup {g}
    /\ UNCHANGED <<age, facts, phase, cfg, groupID, hand, round, faults, crashes, seen>>

(* Time passes whatever the loops are doing, and an invitation may be past *)
(* the retention before the bot hears of it: the queue keeps it that long. *)
Tick ==
    /\ \E g \in invited : age[g] < Retention
    /\ age' = [g \in Group |-> IF g \in invited /\ age[g] < Retention THEN age[g] + 1 ELSE age[g]]
    /\ UNCHANGED <<mail, invited, facts, phase, cfg, groupID, hand, round, faults, crashes, seen>>

(* The daemon stops, in whatever it is doing.                              *)
Crash ==
    /\ phase # "down" /\ crashes < MaxCrashes
    /\ crashes' = crashes + 1
    /\ phase' = "down" /\ groupID' = None
    /\ hand' = [l \in Loop |-> {}]
    /\ upkeep' = "idle" /\ todo' = {} /\ victim' = None
    /\ UNCHANGED <<world, facts, cfg, faults, seen>>

StartUp == Start \/ Resolve \/ LookOnDisk \/ AcceptWaiting

UpkeepRound ==
    \/ ListGroups \/ (\E g \in Group : Examine(g)) \/ Forget \/ AllExamined
    \/ Drain \/ (\E g \in Group : MaybeJoin("upkeep", g)) \/ EndRound

Stream == \E g \in Group : Receive(g) \/ MaybeJoin("stream", g)

Next ==
    \/ StartUp \/ UpkeepRound \/ Stream
    \/ (\E g \in Group : Invite(g)) \/ Tick \/ Crash

SafeSpec == Init /\ [][Next]_vars

(* A service manager starts the daemon again; the maintenance timer keeps  *)
(* the upkeep rounds coming, and each goes on to its end.                  *)
Spec == SafeSpec /\ WF_vars(StartUp) /\ WF_vars(UpkeepRound) /\ WF_vars(Stream)

-----------------------------------------------------------------------------
(* Properties.                                                             *)

(* Either order works: unless a call failed, a running bot has answered    *)
(* every invitation to its configured group whose facts it holds, or is    *)
(* about to, whichever way and in whichever run they came                  *)
(* (joinConfiguredGroupIfInvited, onReceived).                             *)
NothingLeftWaiting ==
    phase = "running" /\ ~failed =>
        \A g \in Group : facts[g] = "invited" /\ IsConfigured(g) => \E l \in Loop : g \in hand[l]

(* The completed id is read by every request and every pass for as long as *)
(* the daemon runs.  All the while the bot holds that group's facts: the   *)
(* pass over old invitations never takes them away, even where answering   *)
(* the invitation failed and it has grown old (configuredGroup,            *)
(* isConfiguredGroup in forgetStaleInvitations).                           *)
CompletedIsHeld == groupID # None => facts[groupID] # "none" /\ groupID \in Matches[setting]

(* Nobody else decides what the bot is a member of (maybeJoinGroup).       *)
JoinsOnlyWanted == optIn \/ joined \subseteq Matches[setting]

(* What forgetStaleInvitations drops is never the configured group nor     *)
(* younger than the retention.  Its look at a group and ForgetGroup are    *)
(* two steps and the stream may answer in between, so it may be a group    *)
(* that has just been joined: only by a bot that accepts every invitation, *)
(* and only one joined in this run.  What was a membership at the start    *)
(* stays one, and without the opt-in no membership is touched at all.      *)
ForgetsOnlyStale ==
    [][\A g \in Group : facts[g] # "none" /\ facts'[g] = "none" =>
        /\ age[g] >= Retention /\ ~IsConfigured(g)
        /\ facts[g] = "joined" => optIn /\ g \in joined]_vars

(* An invitation to the configured group that waits at the server or on    *)
(* disk is accepted in the end, through crashes between handling and       *)
(* answering it, unless a call failed or the operator names another group. *)
AnsweredUnlessFailed ==
    \A g \in Group : (g \in mail \/ facts[g] = "invited") /\ Matches[setting] = {g}
        ~> facts[g] = "joined" \/ failed \/ Matches[setting] # {g}

=============================================================================
