------------------------------ MODULE Control ------------------------------
(***************************************************************************)
(* The two ways in, and how they are closed: `send` invocations over the   *)
(* control socket with its accept loop and request goroutines              *)
(* (cmd/bot/send.go, internal/ipc, internal/control), requests over HTTP   *)
(* (internal/webhook, cmd/bot/webhook.go), and the main goroutine that     *)
(* shuts both down (the end of runDaemon).                                 *)
(*                                                                         *)
(* What a handler decides is any of its results: Delivery and Admission    *)
(* say which.  A client is one invocation with one connection, a poster    *)
(* one HTTP request.  net/http is external: it waits for the requests it   *)
(* has accepted and for no others.                                         *)
(***************************************************************************)
EXTENDS Integers, FiniteSets

CONSTANTS Client, Poster

ASSUME ControlAssumption == Client \cap Poster = {}

(* conn: a connection, from the server's side.                             *)
Conn == {"none", "backlog", "accepted", "handling", "inside", "answering", "closed"}

(* The codes a request can be refused with before and by its handler.      *)
Unserved == {"bad_request", "version_mismatch", "unknown_op"}
Refusal == {"bad_request", "no_route", "outbox_full"}
Answer == {"none", "ok", "suppressed", "internal"} \cup Unserved \cup Refusal

(* What a poster makes of the answer: 202 with its two texts, 4xx, 503 for *)
(* a message that has no route or no room, 500, or no answer at all.       *)
Verdict == {"queued", "suppressed", "refused", "unavailable", "error"}
Status == Verdict \cup {"none", "unreached", "cut"}

Running == 99   \* a client that has not ended
Code == 0..5 \cup {Running}

VARIABLES
    cli,            \* each client's exit code
    conn,           \* each connection
    reply,          \* the answer its handler came to
    hook,           \* each request over HTTP, from the server's side
    verdict,        \* the answer its handler came to
    status,         \* what its sender knows
    taken,          \* the clients and posters whose message is in the outbox
    main,           \* where the main goroutine is
    listening,
    waited,         \* Shutdown's goroutine has seen the wait group at zero
    hearing,        \* the HTTP listener is open
    quiet           \* its server has seen the last request end

socketVars == <<cli, conn, reply>>
hookVars == <<hook, verdict, status>>
serverVars == <<main, listening, waited, hearing, quiet>>
vars == <<socketVars, hookVars, taken, serverVars>>

Open == {"backlog", "accepted", "handling", "inside", "answering"}

(* The server's wait group counts the goroutines it has started.           *)
Counted == {c \in Client : conn[c] \in {"handling", "inside", "answering"}}

TypeOK ==
    /\ cli \in [Client -> Code]
    /\ conn \in [Client -> Conn]
    /\ reply \in [Client -> Answer]
    /\ \A c \in Client : conn[c] \in {"none", "backlog", "accepted", "handling", "inside"} => reply[c] = "none"
    /\ hook \in [Poster -> {"none", "serving", "answering", "over"}]
    /\ verdict \in [Poster -> Verdict \cup {"none"}]
    /\ status \in [Poster -> Status]
    /\ taken \subseteq Client \cup Poster
    /\ main \in {"up", "stopping", "draining", "closing", "waiting", "past", "gone"}
    /\ listening \in BOOLEAN /\ waited \in BOOLEAN
    /\ hearing \in BOOLEAN /\ quiet \in BOOLEAN

Init ==
    /\ cli = [c \in Client |-> Running]
    /\ conn = [c \in Client |-> "none"]
    /\ reply = [c \in Client |-> "none"]
    /\ hook = [p \in Poster |-> "none"]
    /\ verdict = [p \in Poster |-> "none"]
    /\ status = [p \in Poster |-> "none"]
    /\ taken = {}
    /\ main = "up" /\ listening = TRUE /\ waited = FALSE
    /\ hearing = TRUE /\ quiet = FALSE

-----------------------------------------------------------------------------
(* The CLI.                                                                *)

Exit(c, code) == cli' = [cli EXCEPT ![c] = code]

(* runSend's exit code for an answer.                                      *)
CodeOf(a) ==
    CASE a \in {"ok", "suppressed"} -> 0
      [] a \in Refusal -> 2
      [] OTHER -> 3

(* runSend's exit code for a read that ran into the deadline: the error of *)
(* a connection's deadline is not context.DeadlineExceeded, and wrapped as *)
(* Do wraps it os.IsTimeout does not see it.                               *)
TimeoutCode == 3

(* Whatever keeps it from a listener, one that is gone or one whose queue  *)
(* stays full until the deadline, is the same to the caller.               *)
Dial(c) ==
    /\ conn[c] = "none" /\ cli[c] = Running
    /\ \/ listening /\ conn' = [conn EXCEPT ![c] = "backlog"] /\ UNCHANGED cli
       \/ Exit(c, 4) /\ UNCHANGED conn
    /\ UNCHANGED <<reply, hookVars, taken, serverVars>>

(* The deadline passes; the connection is closed from this side.           *)
GiveUp(c) ==
    /\ conn[c] \in Open /\ cli[c] = Running
    /\ Exit(c, TimeoutCode)
    /\ UNCHANGED <<conn, reply, hookVars, taken, serverVars>>

(* The connection ended without an answer.                                 *)
EndOfFile(c) ==
    /\ conn[c] = "closed" /\ cli[c] = Running
    /\ Exit(c, 3)
    /\ UNCHANGED <<conn, reply, hookVars, taken, serverVars>>

-----------------------------------------------------------------------------
(* The server.                                                             *)

Accepting == main # "gone" /\ \A c \in Client : conn[c] # "accepted"

Accept(c) ==
    /\ Accepting /\ listening
    /\ conn[c] = "backlog"
    /\ conn' = [conn EXCEPT ![c] = "accepted"]
    /\ UNCHANGED <<cli, reply, hookVars, taken, serverVars>>

(* wg.Add and the goroutine.                                               *)
Spawn(c) ==
    /\ main # "gone" /\ conn[c] = "accepted"
    /\ conn' = [conn EXCEPT ![c] = "handling"]
    /\ UNCHANGED <<cli, reply, hookVars, taken, serverVars>>

(* The request is read; it goes to its handler, or is refused.  One that   *)
(* cannot be read, for its client is gone or two minutes have passed, is   *)
(* closed upon.                                                            *)
Read(c) ==
    /\ main # "gone" /\ conn[c] = "handling"
    /\ \/ conn' = [conn EXCEPT ![c] = "inside"] /\ UNCHANGED reply
       \/ /\ conn' = [conn EXCEPT ![c] = "answering"]
          /\ \E a \in Unserved : reply' = [reply EXCEPT ![c] = a]
       \/ conn' = [conn EXCEPT ![c] = "closed"] /\ UNCHANGED reply
    /\ UNCHANGED <<cli, hookVars, taken, serverVars>>

Take(c) == taken' = taken \cup {c}

(* Bug for the checks: the answer is not waited for the outbox.            *)
MutHandle(c) ==
    /\ main # "gone" /\ conn[c] = "inside"
    /\ conn' = [conn EXCEPT ![c] = "answering"]
    /\ reply' = [reply EXCEPT ![c] = "ok"]
    /\ UNCHANGED <<cli, hookVars, taken, serverVars>>

(* The handler: the message is in the outbox before it answers, part of it *)
(* may be where it fails.                                                  *)
Handle(c) ==
    /\ main # "gone" /\ conn[c] = "inside"
    /\ conn' = [conn EXCEPT ![c] = "answering"]
    /\ \E a \in {"ok", "suppressed", "internal"} \cup Refusal :
        /\ reply' = [reply EXCEPT ![c] = a]
        /\ \/ a \in {"ok", "internal"} /\ Take(c)
           \/ a # "ok" /\ UNCHANGED taken
    /\ UNCHANGED <<cli, hookVars, serverVars>>

(* The answer is written, to whoever is still there and unless the         *)
(* exchange has taken its two minutes.                                     *)
Reply(c) ==
    /\ main # "gone" /\ conn[c] = "answering"
    /\ conn' = [conn EXCEPT ![c] = "closed"]
    /\ \/ cli[c] = Running /\ Exit(c, CodeOf(reply[c]))
       \/ UNCHANGED cli
    /\ UNCHANGED <<reply, hookVars, taken, serverVars>>

-----------------------------------------------------------------------------
(* The webhook.                                                            *)

Tell(p, answer) == status' = [status EXCEPT ![p] = answer]

Post(p) ==
    /\ hook[p] = "none" /\ status[p] = "none"
    /\ IF hearing THEN hook' = [hook EXCEPT ![p] = "serving"] /\ UNCHANGED status
                   ELSE Tell(p, "unreached") /\ UNCHANGED hook
    /\ UNCHANGED <<socketVars, verdict, taken, serverVars>>

(* The sender's patience or the server's WriteTimeout runs out.            *)
Lose(p) ==
    /\ hook[p] # "none" /\ status[p] = "none"
    /\ Tell(p, "cut")
    /\ UNCHANGED <<socketVars, hook, verdict, taken, serverVars>>

Decide(p, answer) ==
    /\ hook' = [hook EXCEPT ![p] = "answering"]
    /\ verdict' = [verdict EXCEPT ![p] = answer]

(* Everything ServeHTTP looks at before it asks the daemon: path, method,  *)
(* token, body and labels.                                                 *)
RefusePost(p) ==
    /\ main # "gone" /\ hook[p] = "serving"
    /\ Decide(p, "refused")
    /\ UNCHANGED <<socketVars, status, taken, serverVars>>

(* Accept, over which handlers of the socket may come at any time.         *)
AcceptPost(p) ==
    /\ main # "gone" /\ hook[p] = "serving"
    /\ \/ Decide(p, "queued") /\ Take(p)
       \/ Decide(p, "suppressed") /\ UNCHANGED taken
       \/ Decide(p, "unavailable") /\ UNCHANGED taken
       \/ Decide(p, "error") /\ (Take(p) \/ UNCHANGED taken)
    /\ UNCHANGED <<socketVars, status, serverVars>>

AnswerPost(p) ==
    /\ main # "gone" /\ hook[p] = "answering"
    /\ hook' = [hook EXCEPT ![p] = "over"]
    /\ IF status[p] = "none" THEN Tell(p, verdict[p]) ELSE UNCHANGED status
    /\ UNCHANGED <<socketVars, verdict, taken, serverVars>>

InService == {p \in Poster : hook[p] \in {"serving", "answering"}}

-----------------------------------------------------------------------------
(* The end.                                                                *)

Signal ==
    /\ main = "up"
    /\ main' = "stopping"
    /\ UNCHANGED <<socketVars, hookVars, taken, listening, waited, hearing, quiet>>

(* stopWebhook comes first: its listener is closed, and then it waits for  *)
(* up to five seconds, in which the socket still takes requests.           *)
StopWebhook ==
    /\ main = "stopping"
    /\ main' = "draining" /\ hearing' = FALSE
    /\ UNCHANGED <<socketVars, hookVars, taken, listening, waited, quiet>>

HooksDone ==
    /\ main = "draining" /\ InService = {}
    /\ main' = "closing" /\ quiet' = TRUE
    /\ UNCHANGED <<socketVars, hookVars, taken, listening, waited, hearing>>

FiveSeconds ==
    /\ main = "draining"
    /\ main' = "closing"
    /\ UNCHANGED <<socketVars, hookVars, taken, listening, waited, hearing, quiet>>

(* Whoever was not accepted yet is reset.                                  *)
CloseListener ==
    /\ main = "closing"
    /\ main' = "waiting" /\ listening' = FALSE
    /\ conn' = [c \in Client |-> IF conn[c] = "backlog" THEN "closed" ELSE conn[c]]
    /\ UNCHANGED <<cli, reply, hookVars, taken, waited, hearing, quiet>>

(* Bug for the checks: the wait is not for what it counts.                 *)
MutAllDone ==
    /\ main = "waiting"
    /\ main' = "past" /\ waited' = TRUE
    /\ UNCHANGED <<socketVars, hookVars, taken, listening, hearing, quiet>>

AllDone ==
    /\ main = "waiting" /\ Counted = {}
    /\ main' = "past" /\ waited' = TRUE
    /\ UNCHANGED <<socketVars, hookVars, taken, listening, hearing, quiet>>

(* Bug for the checks: Shutdown waits for as long as it takes.             *)
MutGraceExpires == FALSE /\ UNCHANGED vars

GraceExpires ==
    /\ main = "waiting"
    /\ main' = "past"
    /\ UNCHANGED <<socketVars, hookVars, taken, listening, waited, hearing, quiet>>

(* The flush and the loops are done (Delivery); the process ends, and its  *)
(* connections with it.                                                    *)
Gone ==
    /\ main = "past"
    /\ main' = "gone"
    /\ conn' = [c \in Client |-> IF conn[c] \in Open THEN "closed" ELSE conn[c]]
    /\ UNCHANGED <<cli, reply, hookVars, taken, listening, waited, hearing, quiet>>

Ending ==
    \/ StopWebhook \/ HooksDone \/ FiveSeconds
    \/ CloseListener \/ AllDone \/ GraceExpires \/ Gone

ClientStep(c) == Dial(c) \/ GiveUp(c) \/ EndOfFile(c)

ServerStep(c) == Accept(c) \/ Spawn(c) \/ Read(c) \/ Reply(c)

HookStep(p) == Post(p) \/ Lose(p) \/ RefusePost(p) \/ AcceptPost(p) \/ AnswerPost(p)

Next ==
    \/ \E c \in Client : ClientStep(c) \/ ServerStep(c) \/ Handle(c)
    \/ \E p \in Poster : HookStep(p)
    \/ Signal \/ Ending

SafeSpec == Init /\ [][Next]_vars

(* Goroutines run, clients have a deadline and so have main's waits.  A    *)
(* handler that sends may take as long as it likes, and nobody has to post *)
(* or to be served over HTTP.                                              *)
Spec ==
    /\ SafeSpec /\ WF_vars(Ending)
    /\ \A c \in Client : WF_vars(ClientStep(c)) /\ WF_vars(ServerStep(c))

-----------------------------------------------------------------------------
(* Properties.                                                             *)

(* What a caller's script branches on is true of its message, over either  *)
(* way in and however the end of the daemon cuts across: 0 and "queued"    *)
(* are a message in the outbox, 0 and "suppressed" one that a cap          *)
(* swallowed; 2, 4, a 4xx and a 503 leave nothing behind that is sent all  *)
(* the same (the README's exit codes, ServeHTTP's status codes).           *)
CodesAreHonest ==
    /\ \A c \in Client :
        /\ cli[c] = 0 => c \in taken \/ reply[c] = "suppressed"
        /\ cli[c] \in {2, 4} => c \notin taken
    /\ \A p \in Poster :
        /\ status[p] = "queued" => p \in taken
        /\ status[p] \in {"refused", "unavailable", "unreached"} => p \notin taken

(* The flush comes after the last message is in.  Shutdown waits for the   *)
(* requests in flight; Add comes after Accept and in no order with Wait,   *)
(* so one may slip past it, the one the accept loop has in its hands, and  *)
(* never a second.  Nor does a request over HTTP, where its server has     *)
(* seen the last one end in time (Serve, Shutdown, stopWebhook).           *)
MissesAtMostOne ==
    main = "past" =>
        /\ waited => Cardinality({c \in Client : conn[c] \in Open}) <= 1
        /\ quiet => InService = {}

(* A signal ends the process, whatever the handlers are in the middle of.  *)
ShutdownEnds == main = "stopping" ~> main = "gone"
=============================================================================
