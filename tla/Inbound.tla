------------------------------ MODULE Inbound ------------------------------
(***************************************************************************)
(* What arrives: the live stream, the rounds of upkeep that drain the      *)
(* server's queue, and what the bot makes of an envelope on either path    *)
(* (cmd/bot/daemon.go: runStream, runUpkeep, upkeep, onReceived, dispatch, *)
(* reply; internal/authz).                                                 *)
(*                                                                         *)
(* The client core and the server are external.  The server keeps an       *)
(* envelope until it is acknowledged and pushes it as it arrives to a      *)
(* connected stream, never again afterwards; the core stores an envelope,  *)
(* knows the ones it has stored, and then acknowledges.  Invitations and   *)
(* the forgetting of stale ones, which share both paths, are in Groups.    *)
(***************************************************************************)
EXTENDS Integers, Sequences, FiniteSets

CONSTANTS
    Envelope,
    Account,
    Sender,         \* the account each envelope is from
    FromGroup,      \* the envelopes that came through a group
    Text,           \* the envelopes that hold text
    Slashed,        \* the envelopes whose text begins with a slash
    Word,           \* what the first word of each is: see Words
    Commander,      \* FREIZONE_BOT_COMMANDERS, resolved
    AllowGroup,     \* FREIZONE_BOT_ALLOW_GROUP_COMMANDS
    Blocked,        \* the accounts the operator has blocked
    Interval,       \* MaintenanceInterval, in ticks
    Spacing,        \* minUpkeepSpacing, in ticks
    NoEnvelope,
    MaxEvents,      \* bound: events on the way while the link changes
    MaxStops,       \* bound: SIGTERMs
    MaxCrashes,     \* bound: kills
    MaxFaults       \* bound: calls of the core that fail

(* No word, none that names an action, an action whose parameters are      *)
(* refused, and an action that is carried out.                             *)
Words == {"none", "unknown", "refused", "action"}

ASSUME InboundAssumption ==
    /\ Sender \in [Envelope -> Account]
    /\ FromGroup \subseteq Envelope /\ Text \subseteq Envelope
    /\ Slashed \subseteq Text
    /\ Word \in [Envelope -> Words]
    /\ Commander \subseteq Account /\ Blocked \subseteq Account
    /\ AllowGroup \in BOOLEAN
    /\ Interval \in Nat \ {0} /\ Spacing \in Nat \ {0}
    /\ Envelope \cap {"connected", "dropped"} = {} /\ NoEnvelope \notin Envelope
    /\ MaxEvents \in Nat /\ MaxStops \in Nat /\ MaxCrashes \in Nat /\ MaxFaults \in Nat

Loop == {"stream", "upkeep"}

(* Upkeep looks at the queue again at its latest after that many ticks.    *)
Longest == Interval + Spacing

VARIABLES
    sent,           \* envelopes that have been sent to the bot
    mail,           \* those the server still holds
    waits,          \* ticks of this run an envelope has been at the server
    link,           \* whether the server has a stream to push to
    events,         \* the stream's channel
    stored,         \* envelopes the core has on disk
    phase,          \* "up", "stopping", "down"
    connected,      \* d.connected
    wanted,         \* the token that asks for a round of upkeep
    ticker, clock,  \* the maintenance ticker, and its phase
    since,          \* ticks since the last round, no more than Spacing
    pc,             \* where each loop is
    cur,            \* the envelope it has in hand
    todo,           \* the queue as a drain has read it
    results,        \* handled and not followed up: <<envelope, Duplicate>>
    ran,            \* how often an envelope's command was carried out
    answered,       \* envelopes answered in their chat
    followed,       \* envelopes onReceived is done with
    cut,            \* envelopes a kill took from a loop's hands
    failed,         \* whether a call has failed
    stops, crashes, faults

server == <<sent, mail, waits, link>>
core   == <<stored>>
timing == <<ticker, clock, since>>
job    == <<pc, cur, todo, results>>
seen   == <<ran, answered, followed, cut>>
bounds == <<stops, crashes>>
luck   == <<failed, faults>>
vars   == <<server, events, core, phase, connected, wanted, timing, job, seen, luck, bounds>>

Result == Envelope \X BOOLEAN

TypeOK ==
    /\ mail \subseteq sent /\ sent \subseteq Envelope
    /\ waits \in [Envelope -> 0..Longest] /\ link \in BOOLEAN
    /\ events \in Seq(Envelope \cup {"connected", "dropped"})
    /\ stored \subseteq sent
    /\ phase \in {"up", "stopping", "down"}
    /\ connected \in BOOLEAN /\ wanted \in BOOLEAN
    /\ ticker \in BOOLEAN /\ clock \in 0..(Interval - 1) /\ since \in 0..Spacing
    /\ pc \in [Loop -> {"off", "idle", "draining", "handling", "acking", "following", "replying"}]
    /\ cur \in [Loop -> Envelope \cup {NoEnvelope}]
    /\ todo \subseteq Envelope
    /\ results \in [Loop -> SUBSET Result]
    /\ pc["stream"] # "draining"
    /\ \A l \in Loop :
        /\ cur[l] # NoEnvelope <=> pc[l] \in {"handling", "acking", "replying"}
        /\ results[l] # {} => pc[l] # "idle" /\ pc[l] # "off"
    /\ Cardinality(results["stream"]) <= 1
    /\ ran \in [Envelope -> 0..2]
    /\ answered \subseteq sent /\ followed \subseteq sent /\ cut \subseteq sent
    /\ failed \in BOOLEAN
    /\ stops \in 0..MaxStops /\ crashes \in 0..MaxCrashes /\ faults \in 0..MaxFaults

Init ==
    /\ sent = {} /\ mail = {} /\ waits = [m \in Envelope |-> 0] /\ link = FALSE
    /\ events = <<>> /\ stored = {}
    /\ phase = "up" /\ connected = FALSE /\ wanted = FALSE
    /\ ticker = FALSE /\ clock = 0 /\ since = Spacing
    /\ pc = [l \in Loop |-> "idle"] /\ cur = [l \in Loop |-> NoEnvelope]
    /\ todo = {} /\ results = [l \in Loop |-> {}]
    /\ ran = [m \in Envelope |-> 0]
    /\ answered = {} /\ followed = {} /\ cut = {} /\ failed = FALSE
    /\ stops = 0 /\ crashes = 0 /\ faults = 0

Go(l, spot) == pc' = [pc EXCEPT ![l] = spot]
Take(l, m) == cur' = [cur EXCEPT ![l] = m]

(* A call of the core fails: the network, or a context that has ended.     *)
Fault ==
    /\ failed' = TRUE
    /\ \/ phase = "stopping" /\ UNCHANGED faults
       \/ faults < MaxFaults /\ faults' = faults + 1

-----------------------------------------------------------------------------
(* The server and the connection to it.                                    *)

(* An envelope goes into the queue, and to the stream if there is one.     *)
Send(m) ==
    /\ m \notin sent
    /\ sent' = sent \cup {m} /\ mail' = mail \cup {m}
    /\ events' = IF link THEN Append(events, m) ELSE events
    /\ UNCHANGED <<waits, link, core, phase, connected, wanted, timing, job, seen, luck, bounds>>

LinkUp ==
    /\ phase = "up" /\ ~link /\ Len(events) < MaxEvents
    /\ link' = TRUE /\ events' = Append(events, "connected")
    /\ UNCHANGED <<sent, mail, waits, core, phase, connected, wanted, timing, job, seen, luck, bounds>>

LinkDown ==
    /\ phase = "up" /\ link /\ Len(events) < MaxEvents
    /\ link' = FALSE /\ events' = Append(events, "dropped")
    /\ UNCHANGED <<sent, mail, waits, core, phase, connected, wanted, timing, job, seen, luck, bounds>>

-----------------------------------------------------------------------------
(* HandleAndAck, called for one envelope by either loop.                   *)

(* Stored, or known as a duplicate.                                        *)
Store(l) ==
    /\ pc[l] = "handling"
    /\ results' = [results EXCEPT ![l] = @ \cup {<<cur[l], cur[l] \in stored>>}]
    /\ stored' = stored \cup {cur[l]}
    /\ Go(l, "acking")
    /\ UNCHANGED <<server, events, phase, connected, wanted, timing, cur, todo, seen, luck, bounds>>

(* Where a loop goes on after one envelope.                                *)
Onward(l) == IF l = "upkeep" THEN "draining" ELSE IF results[l] # {} THEN "following" ELSE "idle"

Acknowledge(l) ==
    /\ pc[l] = "acking"
    /\ mail' = mail \ {cur[l]}
    /\ Go(l, Onward(l)) /\ Take(l, NoEnvelope)
    /\ UNCHANGED <<sent, waits, link, events, core, phase, connected, wanted, timing, todo, results, seen, luck, bounds>>

(* The envelope cannot be read or stored; the core may acknowledge it all  *)
(* the same.                                                               *)
HandleFails(l) ==
    /\ pc[l] = "handling" /\ Fault
    /\ mail' = mail \/ mail' = mail \ {cur[l]}
    /\ Go(l, Onward(l)) /\ Take(l, NoEnvelope)
    /\ UNCHANGED <<sent, waits, link, events, core, phase, connected, wanted, timing, todo, results, seen, bounds>>

-----------------------------------------------------------------------------
(* onReceived: what the bot makes of an envelope that was handled.         *)

(* Policy.MayCommand.  Without commanders nobody is one, and there is no   *)
(* interpreter.                                                            *)
MayCommand(m) == (m \in FromGroup => AllowGroup) /\ Sender[m] \in Commander

(* Bug for the checks: a duplicate is a message like any other.            *)
MutConcerns(m, duplicate) == Sender[m] \notin Blocked /\ m \in Text /\ MayCommand(m)

(* dispatch's checks, before the text is interpreted.                      *)
Concerns(m, duplicate) ==
    ~duplicate /\ Sender[m] \notin Blocked /\ m \in Text /\ MayCommand(m)

(* Interpret: in a group only what begins with a slash is for the bot.     *)
Interpret(m) == IF m \in FromGroup \ Slashed THEN "none" ELSE Word[m]

(* Execute, up to its result or refusal.                                   *)
Execute(m) ==
    ran' = IF Interpret(m) = "action" /\ ran[m] < 2 THEN [ran EXCEPT ![m] = @ + 1] ELSE ran

(* dispatch, one result at a time, up to the answer.                       *)
Dispatch(l, m, duplicate) ==
    /\ pc[l] = "following" /\ <<m, duplicate>> \in results[l]
    /\ results' = [results EXCEPT ![l] = @ \ {<<m, duplicate>>}]
    /\ IF Concerns(m, duplicate) /\ Interpret(m) # "none"
       THEN /\ Execute(m)
            /\ Go(l, "replying") /\ Take(l, m)
            /\ UNCHANGED followed
       ELSE /\ followed' = IF duplicate THEN followed ELSE followed \cup {m}
            /\ UNCHANGED <<ran, pc, cur>>
    /\ UNCHANGED <<server, events, core, phase, connected, wanted, timing, todo, answered, cut, luck, bounds>>

(* reply sends past the outbox, once; a failure is logged.                 *)
Answer(l) ==
    /\ pc[l] = "replying"
    /\ followed' = followed \cup {cur[l]}
    /\ \/ answered' = answered \cup {cur[l]} /\ UNCHANGED luck
       \/ Fault /\ UNCHANGED answered
    /\ Go(l, "following") /\ Take(l, NoEnvelope)
    /\ UNCHANGED <<server, events, core, phase, connected, wanted, timing, todo, results, ran, cut, bounds>>

FollowedUp(l) ==
    /\ pc[l] = "following" /\ results[l] = {}
    /\ Go(l, "idle")
    /\ UNCHANGED <<server, events, core, phase, connected, wanted, timing, cur, todo, results, seen, luck, bounds>>

OnReceived(l) ==
    \/ \E r \in results[l] : Dispatch(l, r[1], r[2])
    \/ Answer(l) \/ FollowedUp(l)

-----------------------------------------------------------------------------
(* runStream: one event after another.                                     *)

NextEvent ==
    /\ pc["stream"] = "idle" /\ events # <<>>
    /\ events' = Tail(events)

StreamConnected ==
    /\ NextEvent /\ Head(events) = "connected"
    /\ connected' = TRUE /\ wanted' = TRUE
    /\ UNCHANGED <<server, core, phase, timing, job, seen, luck, bounds>>

StreamDisconnected ==
    /\ NextEvent /\ Head(events) = "dropped"
    /\ connected' = FALSE
    /\ UNCHANGED <<server, core, phase, wanted, timing, job, seen, luck, bounds>>

StreamMessage ==
    /\ NextEvent /\ Head(events) \in Envelope
    /\ Go("stream", "handling") /\ Take("stream", Head(events))
    /\ UNCHANGED <<server, core, phase, connected, wanted, timing, todo, results, seen, luck, bounds>>

(* The core closes the channel when the context ends.                      *)
StreamEnds ==
    /\ phase = "stopping" /\ pc["stream"] = "idle"
    /\ Go("stream", "off")
    /\ connected' = FALSE /\ link' = FALSE /\ events' = <<>>
    /\ UNCHANGED <<sent, mail, waits, core, phase, wanted, timing, cur, todo, results, seen, luck, bounds>>

-----------------------------------------------------------------------------
(* runUpkeep and upkeep.                                                   *)

Asked ==
    /\ pc["upkeep"] = "idle"
    /\ \/ wanted /\ wanted' = FALSE /\ UNCHANGED ticker
       \/ ticker /\ ticker' = FALSE /\ UNCHANGED wanted

(* Bug for the checks: the time of a skipped round is taken for a round's. *)
MutSkipRound ==
    /\ Asked /\ since < Spacing
    /\ since' = 0
    /\ UNCHANGED <<server, events, core, phase, connected, clock, job, seen, luck, bounds>>

(* A round asked for too soon after the last is skipped, for good.         *)
SkipRound ==
    /\ Asked /\ since < Spacing
    /\ UNCHANGED <<server, events, core, phase, connected, clock, since, job, seen, luck, bounds>>

(* Drain reads the queue ...                                               *)
BeginRound ==
    /\ Asked /\ since = Spacing
    /\ since' = 0
    /\ todo' = mail /\ Go("upkeep", "draining")
    /\ UNCHANGED <<server, events, core, phase, connected, clock, cur, results, seen, luck, bounds>>

(* ... or fails to.                                                        *)
RoundFails ==
    /\ Asked /\ since = Spacing
    /\ since' = 0
    /\ Fault
    /\ UNCHANGED <<server, events, core, phase, connected, clock, job, seen, bounds>>

Fetch(m) ==
    /\ pc["upkeep"] = "draining" /\ m \in todo
    /\ todo' = todo \ {m}
    /\ Go("upkeep", "handling") /\ Take("upkeep", m)
    /\ UNCHANGED <<server, events, core, phase, connected, wanted, timing, results, seen, luck, bounds>>

(* Bug for the checks: what was drained is counted and left at that.       *)
MutDrained ==
    /\ pc["upkeep"] = "draining" /\ todo = {}
    /\ Go("upkeep", "following")
    /\ results' = [results EXCEPT !["upkeep"] = {}]
    /\ UNCHANGED <<server, events, core, phase, connected, wanted, timing, cur, todo, seen, luck, bounds>>

(* The report, whose results get the follow-up the live stream gives one.  *)
Drained ==
    /\ pc["upkeep"] = "draining" /\ todo = {}
    /\ Go("upkeep", "following")
    /\ UNCHANGED <<server, events, core, phase, connected, wanted, timing, cur, todo, results, seen, luck, bounds>>

UpkeepEnds ==
    /\ phase = "stopping" /\ pc["upkeep"] = "idle"
    /\ Go("upkeep", "off")
    /\ UNCHANGED <<server, events, core, phase, connected, wanted, timing, cur, todo, results, seen, luck, bounds>>

-----------------------------------------------------------------------------
(* The process and time.                                                   *)

Signal ==
    /\ phase = "up" /\ stops < MaxStops
    /\ phase' = "stopping" /\ stops' = stops + 1
    /\ UNCHANGED <<server, events, core, connected, wanted, timing, job, seen, luck, crashes>>

(* The process ends; whatever its loops had in hand goes with it.          *)
InHand == {r[1] : r \in {s \in UNION {results[l] : l \in Loop} : ~s[2]}}
          \cup {cur[l] : l \in {k \in Loop : pc[k] = "replying"}}

Halt ==
    /\ phase' = "down"
    /\ link' = FALSE /\ events' = <<>>
    /\ connected' = FALSE /\ wanted' = FALSE /\ ticker' = FALSE /\ clock' = 0
    /\ since' = Spacing
    /\ waits' = [m \in Envelope |-> 0]
    /\ pc' = [l \in Loop |-> "off"] /\ cur' = [l \in Loop |-> NoEnvelope]
    /\ todo' = {} /\ results' = [l \in Loop |-> {}]
    /\ UNCHANGED <<sent, mail, core, ran, answered, followed, luck>>

(* main waits for both loops.                                              *)
Exit ==
    /\ phase = "stopping" /\ \A l \in Loop : pc[l] = "off"
    /\ Halt /\ UNCHANGED <<cut, bounds>>

Crash ==
    /\ phase # "down" /\ crashes < MaxCrashes
    /\ Halt
    /\ cut' = cut \cup InHand /\ crashes' = crashes + 1
    /\ UNCHANGED stops

Restart ==
    /\ phase = "down"
    /\ phase' = "up" /\ pc' = [l \in Loop |-> "idle"]
    /\ UNCHANGED <<server, events, core, connected, wanted, timing, cur, todo, results, seen, luck, bounds>>

(* The daemon has nothing to do but wait.                                  *)
Quiet ==
    /\ phase = "up" /\ events = <<>> /\ ~wanted /\ ~ticker
    /\ \A l \in Loop : pc[l] = "idle"

Least(a, b) == IF a < b THEN a ELSE b

(* A tick is minutes: what the loops have to do is done by then.           *)
Tick ==
    /\ Quiet
    /\ clock' = (clock + 1) % Interval
    /\ ticker' = (clock' = 0)
    /\ since' = Least(since + 1, Spacing)
    /\ waits' = [m \in Envelope |-> IF m \in mail THEN Least(waits[m] + 1, Longest) ELSE 0]
    /\ UNCHANGED <<sent, mail, link, events, core, phase, connected, wanted, job, seen, luck, bounds>>

-----------------------------------------------------------------------------
Handle(l) == Store(l) \/ Acknowledge(l) \/ HandleFails(l)

Stream ==
    \/ StreamConnected \/ StreamDisconnected \/ StreamMessage \/ StreamEnds
    \/ Handle("stream") \/ OnReceived("stream")

Upkeep ==
    \/ SkipRound \/ BeginRound \/ RoundFails
    \/ \E m \in todo : Fetch(m)
    \/ Drained \/ UpkeepEnds
    \/ Handle("upkeep") \/ OnReceived("upkeep")

Next ==
    \/ \E m \in Envelope : Send(m)
    \/ LinkUp \/ LinkDown
    \/ Stream \/ Upkeep
    \/ Signal \/ Exit \/ Crash \/ Restart \/ Tick

Spec == Init /\ [][Next]_vars

-----------------------------------------------------------------------------
(* Properties.                                                             *)

(* A command is carried out once at the most, though the stream and the    *)
(* drain may both get hold of its envelope and a kill between storing and  *)
(* acknowledging it makes the server hand it out again (dispatch).         *)
RunsOnce == \A m \in Envelope : ran[m] <= 1

(* What was stored as new is followed up by one of the paths, or was in a  *)
(* loop's hands when the process was killed: a shutdown leaves nothing of  *)
(* that kind, nor does a drain (onReceived's comment).                     *)
EverythingFollowed == stored \subseteq followed \cup cut \cup InHand

(* What waits at the server is looked at within the maintenance interval   *)
(* and the spacing of rounds, whatever the connection does: reconnections  *)
(* that come too soon put no round off (runUpkeep).                        *)
FetchedInTime == ~failed => \A m \in mail : waits[m] < Longest

-----------------------------------------------------------------------------
(* What the documents say and the code does not do.                        *)

(* "Drains the queue and does the periodic maintenance, on every           *)
(* reconnect": a bot that is connected and has nothing to do has nothing   *)
(* waiting at the server.                                                  *)
DrainedOnReconnect == Quiet /\ connected /\ ~failed => mail = {}
=============================================================================
