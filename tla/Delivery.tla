------------------------------ MODULE Delivery ------------------------------
(***************************************************************************)
(* From accepting a message to having delivered or dropped it: the request *)
(* handlers of the two ingresses, the delivery loop, the shutdown sequence *)
(* of the main goroutine, and the outbox they share (cmd/bot/daemon.go,    *)
(* internal/outbox).                                                       *)
(*                                                                         *)
(* Three kinds of worker read the outbox's due entries into a slice of     *)
(* their own and attempt them one by one while holding no lock: a handler  *)
(* whose caller asked to wait (deliverNow), the loop (runOutbox) and, on   *)
(* the way out, main (flush).  An attempt sends first and records the      *)
(* result afterwards, so anything may happen in between.                   *)
(*                                                                         *)
(* A message stands for the one request that carries it: pc[m] is where    *)
(* its handler is.  What accept decides before Enqueue (routes, duplicates,*)
(* the rate) is not part of this module.                                   *)
(***************************************************************************)
EXTENDS Outbox

CONSTANTS
    WaitFor,        \* the requests made with -wait
    ByWebhook,      \* the requests that came in over HTTP
    Loop, Main,     \* the delivery loop and the main goroutine
    NoId,           \* not an entry
    MaxStops,       \* bound: SIGTERMs in a behaviour
    MaxCrashes,     \* bound: kills in a behaviour
    MaxFaults,      \* bound: file operations that fail in a behaviour
    LostAcks        \* whether a send may arrive and still report an error

ASSUME DeliveryAssumption ==
    /\ WaitFor \subseteq Message
    /\ ByWebhook \subseteq Message \ WaitFor
    /\ Loop \notin Message
    /\ Main \notin Message \cup {Loop}
    /\ NoId \notin Id
    /\ MaxStops \in Nat /\ MaxCrashes \in Nat /\ MaxFaults \in Nat
    /\ LostAcks \in BOOLEAN

Worker == Message \cup {Loop, Main}

(* Copies past the second tell no property anything new.                   *)
CopiesCap == 2

VARIABLES
    pc,             \* where each worker is
    todo,           \* Enqueue's loop: the destinations still to write
    due,            \* a worker's slice of due entries, without the current
    cur,            \* the entry a worker is attempting
    answer,         \* what the caller of a request was told
    said,           \* the delivered count of a request that waits
    phase,          \* where the process is in its life
    expired,        \* the shutdown grace has run out
    notify,         \* the outbox's channel of depth one
    ticker,         \* the loop's ticker has fired
    copies,         \* how often an entry arrived at its destination
    dropped,        \* the entries given up on
    stops, crashes, faults

jobVars == <<pc, due, cur>>
askVars == <<todo, answer, said>>
runVars == <<phase, expired, notify, ticker>>
endVars == <<copies, dropped>>
bounds  == <<stops, crashes, faults>>
vars    == <<boxVars, jobVars, askVars, runVars, endVars, bounds>>

Phase == {"up", "signalled", "closing", "flushing", "joining", "down"}
Spot == {"new", "accepted", "writing", "queued", "end",
         "off", "idle", "scan", "pass", "sending", "sent", "failed"}
Reply == {"none", "queued", "full", "error", "waited", "lost"}

(* The waits of the outbox stay below the backoff's ceiling, the attempt   *)
(* counts are bounded, and every worker is where its code can be.          *)
TypeOK ==
    /\ BoxTypeOK
    /\ pc \in [Worker -> Spot]
    /\ todo \in [Message -> SUBSET Destination]
    /\ due \in [Worker -> SUBSET Id]
    /\ cur \in [Worker -> Id \cup {NoId}]
    /\ answer \in [Message -> Reply]
    /\ said \in [Message -> Nat]
    /\ phase \in Phase
    /\ expired \in BOOLEAN /\ notify \in BOOLEAN /\ ticker \in BOOLEAN
    /\ copies \in [Id -> 0..CopiesCap]
    /\ dropped \subseteq Id
    /\ stops \in 0..MaxStops /\ crashes \in 0..MaxCrashes /\ faults \in 0..MaxFaults

Init ==
    /\ BoxInit
    /\ pc = [w \in Worker |-> IF w = Loop THEN "idle" ELSE IF w = Main THEN "off" ELSE "new"]
    /\ todo = [m \in Message |-> {}]
    /\ due = [w \in Worker |-> {}]
    /\ cur = [w \in Worker |-> NoId]
    /\ answer = [m \in Message |-> "none"]
    /\ said = [m \in Message |-> 0]
    /\ phase = "up"
    /\ expired = FALSE /\ notify = FALSE /\ ticker = FALSE
    /\ copies = [id \in Id |-> 0]
    /\ dropped = {}
    /\ stops = 0 /\ crashes = 0 /\ faults = 0

(* The outbox's mutex.  Only Enqueue takes more than one step under it.    *)
LockFree == \A m \in Message : pc[m] # "writing"

Go(w, spot) == pc' = [pc EXCEPT ![w] = spot]

Fault == faults < MaxFaults /\ faults' = faults + 1
NoFault == UNCHANGED faults

-----------------------------------------------------------------------------
(* A request, from the connection to the answer.                           *)

(* Both ingresses accept until main closes them.                           *)
Connect(m) ==
    /\ pc[m] = "new" /\ phase \in {"up", "signalled"}
    /\ Go(m, "accepted")
    /\ UNCHANGED <<boxVars, due, cur, askVars, runVars, endVars, bounds>>

(* The handler returns and the answer is written to the connection.        *)
Tell(m, reply) ==
    /\ Go(m, "end")
    /\ answer' = [answer EXCEPT ![m] = reply]

EnqueueRefused(m) ==
    /\ pc[m] = "accepted" /\ LockFree
    /\ ~HasRoom(m)
    /\ Tell(m, "full")
    /\ UNCHANGED <<boxVars, due, cur, todo, said, runVars, endVars, bounds>>

(* The directory cannot be listed.                                         *)
EnqueueListFails(m) ==
    /\ pc[m] = "accepted" /\ LockFree
    /\ Fault
    /\ Tell(m, "error")
    /\ UNCHANGED <<boxVars, due, cur, todo, said, runVars, endVars, stops, crashes>>

EnqueueBegin(m) ==
    /\ pc[m] = "accepted" /\ LockFree
    /\ HasRoom(m)
    /\ Go(m, "writing")
    /\ todo' = [todo EXCEPT ![m] = DestsOf[m]]
    /\ UNCHANGED <<boxVars, due, cur, answer, said, runVars, endVars, bounds>>

EnqueueWrite(m, d) ==
    /\ pc[m] = "writing" /\ d \in todo[m]
    /\ WriteEntry(<<m, d>>, Blank)
    /\ todo' = [todo EXCEPT ![m] = @ \ {d}]
    /\ UNCHANGED <<jobVars, answer, said, runVars, endVars, bounds>>

(* Bug for the checks: the bound is met in the middle of the writes.       *)
MutEnqueueWriteFails(m) ==
    /\ pc[m] = "writing" /\ todo[m] # {}
    /\ Fault
    /\ Tell(m, "full")
    /\ todo' = [todo EXCEPT ![m] = {}]
    /\ UNCHANGED <<boxVars, due, cur, said, runVars, endVars, stops, crashes>>

(* The entries written so far stay, and nobody is woken for them.          *)
EnqueueWriteFails(m) ==
    /\ pc[m] = "writing" /\ todo[m] # {}
    /\ Fault
    /\ Tell(m, "error")
    /\ todo' = [todo EXCEPT ![m] = {}]
    /\ UNCHANGED <<boxVars, due, cur, said, runVars, endVars, stops, crashes>>

(* Bug for the checks: Enqueue returns before the last write.              *)
MutEnqueueEnd(m) ==
    /\ pc[m] = "writing"
    /\ Go(m, "queued")
    /\ notify' = TRUE
    /\ UNCHANGED <<boxVars, due, cur, askVars, phase, expired, ticker, endVars, bounds>>

(* The nudge comes after the writes; a full channel is enough of one.      *)
EnqueueEnd(m) ==
    /\ pc[m] = "writing" /\ todo[m] = {}
    /\ Go(m, "queued")
    /\ notify' = TRUE
    /\ UNCHANGED <<boxVars, due, cur, askVars, phase, expired, ticker, endVars, bounds>>

Answer(m) ==
    /\ pc[m] = "queued" /\ m \notin WaitFor
    /\ Tell(m, "queued")
    /\ UNCHANGED <<boxVars, due, cur, todo, said, runVars, endVars, bounds>>

(* deliverNow's own reading of what is due.                                *)
DeliverNow(m) ==
    /\ pc[m] = "queued" /\ m \in WaitFor /\ LockFree
    /\ due' = [due EXCEPT ![m] = Due \cap Ids(m)]
    /\ Go(m, "pass")
    /\ UNCHANGED <<boxVars, cur, askVars, runVars, endVars, bounds>>

DeliverNowFails(m) ==
    /\ pc[m] = "queued" /\ m \in WaitFor /\ LockFree
    /\ Fault
    /\ Go(m, "pass")
    /\ UNCHANGED <<boxVars, due, cur, askVars, runVars, endVars, stops, crashes>>

(* Bug for the checks: the handler insists on every destination.           *)
MutAnswerWait(m) ==
    /\ pc[m] = "pass" /\ due[m] = {}
    /\ said[m] = Cardinality(DestsOf[m])
    /\ Tell(m, "waited")
    /\ UNCHANGED <<boxVars, due, cur, todo, said, runVars, endVars, bounds>>

(* "delivered to said of n", whatever said is.                             *)
AnswerWait(m) ==
    /\ pc[m] = "pass" /\ due[m] = {}
    /\ Tell(m, "waited")
    /\ UNCHANGED <<boxVars, due, cur, todo, said, runVars, endVars, bounds>>

-----------------------------------------------------------------------------
(* attempt: send one entry, then record what happened.  All workers.       *)

(* The slice is worked off oldest first.  The place of an entry that is no *)
(* longer held is not kept: it may come at any point.                      *)
IsNext(w, id) ==
    /\ id \in due[w]
    /\ id \in held => \A o \in due[w] \cap held : entry[o].age <= entry[id].age

(* Loop and main look at their context before each entry.                  *)
StartAttempt(w, id) ==
    /\ pc[w] = "pass" /\ IsNext(w, id)
    /\ w = Loop => phase = "up"
    /\ w = Main => ~expired
    /\ Go(w, "sending")
    /\ due' = [due EXCEPT ![w] = @ \ {id}]
    /\ cur' = [cur EXCEPT ![w] = id]
    /\ UNCHANGED <<boxVars, askVars, runVars, endVars, bounds>>

Arrive(id) == copies' = [copies EXCEPT ![id] = IF @ < CopiesCap THEN @ + 1 ELSE @]

SendOK(w) ==
    /\ pc[w] = "sending"
    /\ Arrive(cur[w])
    /\ Go(w, "sent")
    /\ UNCHANGED <<boxVars, due, cur, askVars, runVars, dropped, bounds>>

(* Bug for the checks: the error of the send is not looked at.             *)
MutSendFails(w) ==
    /\ pc[w] = "sending"
    /\ Go(w, "sent")
    /\ UNCHANGED <<boxVars, due, cur, askVars, runVars, endVars, bounds>>

(* The server or the connection failed, or the context ended.  Whether the *)
(* message had got through by then is not known to the sender.             *)
SendFails(w) ==
    /\ pc[w] = "sending"
    /\ Go(w, "failed")
    /\ \/ UNCHANGED copies
       \/ LostAcks /\ Arrive(cur[w])
    /\ UNCHANGED <<boxVars, due, cur, askVars, runVars, dropped, bounds>>

(* Bug for the checks: a delivered entry is left for the next pass.        *)
MutRecordSent(w) ==
    /\ pc[w] = "sent" /\ LockFree
    /\ Go(w, "pass")
    /\ cur' = [cur EXCEPT ![w] = NoId]
    /\ said' = IF w \in Message THEN [said EXCEPT ![w] = @ + 1] ELSE said
    /\ UNCHANGED <<boxVars, faults, due, todo, answer, runVars, endVars, stops, crashes>>

(* Done.  If the file cannot be removed, that is logged and the delivery   *)
(* counts all the same.                                                    *)
RecordSent(w) ==
    /\ pc[w] = "sent" /\ LockFree
    /\ \/ RemoveEntry(cur[w]) /\ NoFault
       \/ cur[w] \in held /\ Fault /\ UNCHANGED boxVars
    /\ Go(w, "pass")
    /\ cur' = [cur EXCEPT ![w] = NoId]
    /\ said' = IF w \in Message THEN [said EXCEPT ![w] = @ + 1] ELSE said
    /\ UNCHANGED <<due, todo, answer, runVars, endVars, stops, crashes>>

(* Fail: nothing for an entry that is gone, the end of one past its age    *)
(* (which only the log hears of), another wait for the rest; a file error  *)
(* leaves the entry as it was.                                             *)
GiveUp(w) ==
    /\ cur[w] \in held /\ Expired(cur[w])
    /\ RemoveEntry(cur[w])
    /\ dropped' = dropped \cup {cur[w]}
    /\ UNCHANGED faults

(* Bug for the checks: a file that is not there is written again.          *)
MutRetry(w) ==
    /\ ~Expired(cur[w])
    /\ Reschedule(cur[w])
    /\ UNCHANGED <<dropped, faults>>

Retry(w) ==
    /\ cur[w] \in held /\ ~Expired(cur[w])
    /\ Reschedule(cur[w])
    /\ UNCHANGED <<dropped, faults>>

LetBe(w) ==
    /\ \/ cur[w] \notin held /\ NoFault
       \/ cur[w] \in held /\ Fault
    /\ UNCHANGED <<boxVars, dropped>>

RecordFail(w) ==
    /\ pc[w] = "failed" /\ LockFree
    /\ GiveUp(w) \/ Retry(w) \/ LetBe(w)
    /\ Go(w, "pass")
    /\ cur' = [cur EXCEPT ![w] = NoId]
    /\ UNCHANGED <<due, askVars, runVars, copies, stops, crashes>>

Attempt(w) ==
    \/ \E id \in due[w] : StartAttempt(w, id)
    \/ SendOK(w) \/ SendFails(w)
    \/ RecordSent(w) \/ RecordFail(w)

-----------------------------------------------------------------------------
(* The delivery loop.                                                      *)

(* Bug for the checks: the loop waits for new messages only.               *)
MutLoopWake ==
    /\ pc[Loop] = "idle"
    /\ notify /\ notify' = FALSE /\ UNCHANGED ticker
    /\ Go(Loop, "scan")
    /\ UNCHANGED <<boxVars, due, cur, askVars, phase, expired, endVars, bounds>>

LoopWake ==
    /\ pc[Loop] = "idle"
    /\ \/ notify /\ notify' = FALSE /\ UNCHANGED ticker
       \/ ticker /\ ticker' = FALSE /\ UNCHANGED notify
    /\ Go(Loop, "scan")
    /\ UNCHANGED <<boxVars, due, cur, askVars, phase, expired, endVars, bounds>>

LoopScan ==
    /\ pc[Loop] = "scan" /\ LockFree
    /\ due' = [due EXCEPT ![Loop] = Due]
    /\ Go(Loop, "pass")
    /\ UNCHANGED <<boxVars, cur, askVars, runVars, endVars, bounds>>

LoopScanFails ==
    /\ pc[Loop] = "scan" /\ LockFree
    /\ Fault
    /\ Go(Loop, "idle")
    /\ UNCHANGED <<boxVars, due, cur, askVars, runVars, endVars, stops, crashes>>

LoopPassEnd ==
    /\ pc[Loop] = "pass" /\ due[Loop] = {}
    /\ Go(Loop, "idle")
    /\ UNCHANGED <<boxVars, due, cur, askVars, runVars, endVars, bounds>>

(* Bug for the checks: the context is looked at between entries only.      *)
MutLoopExit ==
    /\ phase # "up"
    /\ pc[Loop] = "pass" /\ due[Loop] # {}
    /\ Go(Loop, "off")
    /\ due' = [due EXCEPT ![Loop] = {}]
    /\ UNCHANGED <<boxVars, cur, askVars, runVars, endVars, bounds>>

(* ctx.Done in the select, or ctx.Err before an entry.                     *)
LoopExit ==
    /\ phase # "up"
    /\ \/ pc[Loop] = "idle"
       \/ pc[Loop] = "pass" /\ due[Loop] # {}
    /\ Go(Loop, "off")
    /\ due' = [due EXCEPT ![Loop] = {}]
    /\ UNCHANGED <<boxVars, cur, askVars, runVars, endVars, bounds>>

-----------------------------------------------------------------------------
(* The process: shutdown in main's order, kills, restarts, time.           *)

(* SIGTERM ends the context the loop runs under.                           *)
Signal ==
    /\ phase = "up" /\ stops < MaxStops
    /\ phase' = "signalled" /\ stops' = stops + 1
    /\ UNCHANGED <<boxVars, jobVars, askVars, expired, notify, ticker, endVars, crashes, faults>>

CloseIngress ==
    /\ phase = "signalled"
    /\ phase' = "closing"
    /\ UNCHANGED <<boxVars, jobVars, askVars, expired, notify, ticker, endVars, bounds>>

GraceExpires ==
    /\ phase \in {"closing", "flushing"} /\ ~expired
    /\ expired' = TRUE
    /\ UNCHANGED <<boxVars, jobVars, askVars, phase, notify, ticker, endVars, bounds>>

(* Shutdown waits for the handlers that Serve has counted.  A connection   *)
(* that was accepted and not counted yet is overlooked, and so is an HTTP  *)
(* request that takes longer than the five seconds of stopWebhook.         *)
HandlersQuiet == \A m \in Message \ ByWebhook : pc[m] \in {"new", "accepted", "end"}

FlushBegin ==
    /\ phase = "closing" /\ LockFree
    /\ HandlersQuiet \/ expired
    /\ phase' = "flushing"
    /\ due' = [due EXCEPT ![Main] = Due]
    /\ Go(Main, "pass")
    /\ UNCHANGED <<boxVars, cur, askVars, expired, notify, ticker, endVars, bounds>>

(* flush reads nothing, and main goes on.                                  *)
FlushFails ==
    /\ phase = "closing" /\ LockFree
    /\ HandlersQuiet \/ expired
    /\ Fault
    /\ phase' = "joining"
    /\ UNCHANGED <<boxVars, jobVars, askVars, expired, notify, ticker, endVars, stops, crashes>>

FlushEnd ==
    /\ phase = "flushing" /\ pc[Main] = "pass"
    /\ due[Main] = {} \/ expired
    /\ phase' = "joining"
    /\ Go(Main, "off")
    /\ due' = [due EXCEPT ![Main] = {}]
    /\ UNCHANGED <<boxVars, cur, askVars, expired, notify, ticker, endVars, bounds>>

(* The process ends.  The directory stays; a caller whose handler was cut  *)
(* off sees its connection close.                                          *)
InFlight(m) == pc[m] \notin {"new", "end"}

Halt ==
    /\ phase' = "down"
    /\ pc' = [w \in Worker |-> IF w \notin Message THEN "off"
                               ELSE IF InFlight(w) THEN "end" ELSE pc[w]]
    /\ answer' = [m \in Message |-> IF InFlight(m) THEN "lost" ELSE answer[m]]
    /\ todo' = [m \in Message |-> {}]
    /\ due' = [w \in Worker |-> {}]
    /\ cur' = [w \in Worker |-> NoId]
    /\ expired' = FALSE /\ notify' = FALSE /\ ticker' = FALSE
    /\ UNCHANGED <<boxVars, said, endVars, faults>>

Exit ==
    /\ phase = "joining" /\ pc[Loop] = "off"
    /\ Halt
    /\ UNCHANGED <<stops, crashes>>

Crash ==
    /\ phase # "down" /\ crashes < MaxCrashes
    /\ crashes' = crashes + 1
    /\ Halt
    /\ UNCHANGED stops

Restart ==
    /\ phase = "down"
    /\ phase' = "up"
    /\ Go(Loop, "idle")
    /\ UNCHANGED <<boxVars, due, cur, askVars, expired, notify, ticker, endVars, bounds>>

Tick ==
    /\ Elapse
    /\ ticker' = (phase # "down")
    /\ UNCHANGED <<jobVars, askVars, phase, expired, notify, endVars, bounds>>

-----------------------------------------------------------------------------
Handler(m) ==
    \/ EnqueueRefused(m) \/ EnqueueListFails(m) \/ EnqueueBegin(m)
    \/ \E d \in DestsOf[m] : EnqueueWrite(m, d)
    \/ EnqueueWriteFails(m) \/ EnqueueEnd(m)
    \/ Answer(m) \/ DeliverNow(m) \/ DeliverNowFails(m) \/ AnswerWait(m)
    \/ Attempt(m)

LoopStep == LoopWake \/ LoopScan \/ LoopScanFails \/ LoopPassEnd \/ LoopExit \/ Attempt(Loop)

MainStep == CloseIngress \/ FlushBegin \/ FlushFails \/ FlushEnd \/ Exit \/ Attempt(Main)

Next ==
    \/ \E m \in Message : Connect(m) \/ Handler(m)
    \/ LoopStep \/ MainStep
    \/ Signal \/ GraceExpires \/ Crash \/ Restart \/ Tick

SafeSpec == Init /\ [][Next]_vars

(* Every goroutine runs when it can, time passes, and the service manager  *)
(* starts the process again.  The loop's select picks among its ready      *)
(* cases at random, so it does not pass over a context that has ended for  *)
(* ever.  Nobody has to send a message, a signal or a kill.                *)
Fairness ==
    /\ \A m \in Message : WF_vars(Handler(m))
    /\ WF_vars(LoopStep) /\ SF_vars(LoopExit)
    /\ WF_vars(MainStep)
    /\ WF_vars(Restart) /\ WF_vars(Tick)

Spec == SafeSpec /\ Fairness
-----------------------------------------------------------------------------
(* Properties.                                                             *)

Told(m) == answer[m] \in {"queued", "waited"}

(* A caller who was told "queued" is never let down: for every destination *)
(* the message is still in the outbox, has arrived, or was given up on     *)
(* because it got too old (handleSend's acknowledgement point; Enqueue,    *)
(* Done, Fail).  Crashes, failing file operations and workers that race    *)
(* for the same entry do not change that.                                  *)
NothingLost ==
    \A m \in Message : Told(m) =>
        \A id \in Ids(m) : id \in held \/ copies[id] > 0 \/ id \in dropped

(* The directory never holds more than its bound, whatever the fan-out of  *)
(* concurrent requests and with Fail writing entries back (Enqueue).       *)
WithinBound == Cardinality(held) <= OutboxMax

(* What a caller is told of its message is true of what it may page.       *)
(* "full": nothing was kept that would arrive all the same (ErrFull), even *)
(* if a write failed on the way.  "delivered to k of n": at least k have   *)
(* arrived, though workers raced the handler for them (deliverNow).        *)
AnswersAreTrue ==
    \A m \in Message :
        /\ answer[m] = "full" =>
              \A id \in Ids(m) : id \notin held /\ copies[id] = 0 /\ id \notin dropped
        /\ said[m] <= Cardinality({id \in Ids(m) : copies[id] > 0})

(* An entry that was cleared is never put back by a worker that was still  *)
(* failing to send it (Fail's look at the file against a concurrent Done). *)
NoResurrection ==
    [][\A id \in held' \ held : copies[id] = 0 /\ id \notin dropped]_vars

(* Nothing but the loop has been sending, and nothing it did has failed.   *)
Undisturbed == stops = 0 /\ crashes = 0 /\ faults = 0 /\ ~LostAcks

(* An entry has one end: it arrives once, or it is given up on and never   *)
(* arrives (the duplicate page that package outbox is designed to avoid).  *)
(* Nothing reserves an entry, so that is only true as long as one worker   *)
(* has it: not of a request that waits, nor once a shutdown flushes.       *)
SettledOnce ==
    Undisturbed =>
        \A m \in Message \ WaitFor : \A id \in Ids(m) :
            copies[id] <= 1 /\ (id \in dropped => copies[id] = 0)

(* Every entry leaves the directory, through outages of the network, full  *)
(* disks, shutdowns and crashes (runOutbox's two ways to wake up).         *)
EveryEntrySettles == \A id \in Id : id \in held ~> id \notin held

(* Every request gets an answer: a handler that meets another one and the  *)
(* loop at the lock and in the outbox, finds it full or its entries cleared *)
(* by the loop, whose calls fail and whose send does, waits for none of    *)
(* them for ever (handleSend, Enqueue, deliverNow).                        *)
EveryCallerAnswered == \A m \in Message : pc[m] = "accepted" ~> pc[m] = "end"

(* A SIGTERM ends the process: the waits of main's shutdown sequence (for  *)
(* the handlers, the flush and the loop) cannot hold each other up.        *)
ShutdownEnds == phase = "signalled" ~> phase = "down"

(* The delivery path keeps what Promise states.                            *)
Fate(id) ==
    IF copies[id] > 0 THEN "delivered"
    ELSE IF id \in dropped THEN "dropped"
    ELSE IF id \in held THEN "owed" ELSE "none"

P == INSTANCE Promise WITH
        fate <- [id \in Id |-> Fate(id)], promised <- {m \in Message : Told(m)}

(* Taken on for all destinations before the caller hears of it, then       *)
(* delivered or given up, whatever crashes and races there are (handleSend *)
(* to attempt).  That this happens in time is EveryEntrySettles.           *)
ImplementsPromise == P!Spec
=============================================================================
