----------------------------- MODULE Lifecycle -----------------------------
(***************************************************************************)
(* Daemon processes over one state directory: who holds the account, whom  *)
(* the socket file names, what a first run has registered, and which       *)
(* goroutines still work when a process lets go of them (runDaemon,        *)
(* account.Open and EnsureRegistered, ipc's listen).                       *)
(*                                                                         *)
(* The account lock is pkg/client's: one process at a time, let go by      *)
(* Close or by the kernel when the process ends.  A socket file survives   *)
(* its process; closing a listener removes whatever file is at its path.   *)
(* Registering is one step: the core goes on with an attempt cut short.    *)
(***************************************************************************)
EXTENDS Naturals, FiniteSets

CONSTANTS Process, None

ASSUME NoneAssumption == None \notin Process

VARIABLES
    pc,          \* where each process's runDaemon is
    why,         \* what made it return early
    lock,        \* the holder of the account
    path,        \* the process whose socket the file at the path is
    work,        \* what of each process uses the account in the background
    identity,    \* what the directory holds of one
    accounts,    \* accounts made at the server, counted to two
    prekeys      \* published, or a first run was cut short before they were

stored == <<identity, accounts, prekeys>>
vars == <<pc, why, lock, path, work, stored>>

(* The account is open, up to the deferred Close.                          *)
Holding == {"opened", "naming", "named", "ready", "cleared", "bound", "serving", "up", "stopping", "closed", "awaiting", "returning"}

(* The control server's listener is open and meant to be reached.          *)
Listening == {"bound", "serving", "up", "stopping"}

TypeOK ==
    /\ pc \in [Process -> Holding \cup {"new", "released", "gone"}]
    /\ why \in [Process -> {"none", "refused", "in_use", "error", "group", "control"}]
    /\ lock \in Process \cup {None}
    /\ path \in Process \cup {None}
    /\ work \in [Process -> SUBSET {"loops", "handlers"}]
    /\ identity \in {"none", "stored"} /\ accounts \in 0..2
    /\ prekeys \in {"none", "cut short", "published"}
    /\ \A p \in Process :
        pc[p] \in {"new", "opened", "naming", "named", "ready", "cleared", "bound", "gone"} => work[p] = {}

Init ==
    /\ pc = [p \in Process |-> "new"]
    /\ why = [p \in Process |-> "none"]
    /\ lock = None /\ path = None
    /\ work = [p \in Process |-> {}]
    /\ identity = "none" /\ accounts = 0 /\ prekeys = "none"

At(p, from, to) == pc[p] = from /\ pc' = [pc EXCEPT ![p] = to]

Because(p, reason) == why' = [why EXCEPT ![p] = reason]

-----------------------------------------------------------------------------

(* Bug for the checks: a process that may not have the account goes on.    *)
MutOpen(p) ==
    /\ At(p, "new", "opened")
    /\ lock' = p
    /\ UNCHANGED <<why, path, work, stored>>

(* account.Open: refused where another process holds the account.          *)
Open(p) ==
    /\ \/ /\ lock = None /\ lock' = p
          /\ At(p, "new", "opened") /\ UNCHANGED why
       \/ /\ lock # None /\ UNCHANGED lock
          /\ At(p, "new", "gone") /\ Because(p, "refused")
    /\ UNCHANGED <<path, work, stored>>

(* Bug for the checks: an identity that cannot be read is none.            *)
MutFindIdentity(p) ==
    /\ At(p, "opened", IF identity = "none" THEN "naming" ELSE "ready") \/ At(p, "opened", "naming")
    /\ UNCHANGED <<why, lock, path, work, stored>>

(* EnsureRegistered: an identity is kept, and one that cannot be read, or  *)
(* that is of another server, ends the start.                              *)
FindIdentity(p) ==
    /\ \/ At(p, "opened", IF identity = "none" THEN "naming" ELSE "ready") /\ UNCHANGED why
       \/ At(p, "opened", "returning") /\ Because(p, "error")
    /\ UNCHANGED <<lock, path, work, stored>>

Register(p) ==
    /\ \/ /\ At(p, "naming", "named") /\ UNCHANGED why
          /\ identity' = "stored"
          /\ accounts' = IF accounts < 2 THEN accounts + 1 ELSE accounts
       \/ /\ At(p, "naming", "returning") /\ Because(p, "error")
          /\ UNCHANGED <<identity, accounts>>
    /\ UNCHANGED <<lock, path, work, prekeys>>

(* Bug for the checks: prekeys are left to the upkeep to come.             *)
MutPublish(p) ==
    /\ At(p, "named", "ready")
    /\ UNCHANGED <<why, lock, path, work, stored>>

(* RotatePrekeys and TopUpOneTimePrekeys, after registering and only then. *)
(* Either may fail, the second with the first one's prekeys published.     *)
Publish(p) ==
    /\ \/ /\ At(p, "named", "ready") /\ UNCHANGED why
          /\ prekeys' = "published"
       \/ /\ At(p, "named", "returning") /\ Because(p, "error")
          /\ prekeys' \in {"cut short", "published"}
    /\ UNCHANGED <<lock, path, work, identity, accounts>>

(* Bug for the checks: the old file is left.                               *)
MutClear(p) ==
    /\ At(p, "ready", "cleared")
    /\ UNCHANGED <<why, lock, path, work, stored>>

(* listen: the old socket file is removed ...                              *)
Clear(p) ==
    /\ At(p, "ready", "cleared")
    /\ path' = None
    /\ UNCHANGED <<why, lock, work, stored>>

(* ... and bind refuses a path that has one, or fails for its own reasons. *)
Bind(p) ==
    /\ \/ /\ path = None /\ path' = p
          /\ At(p, "cleared", "bound") /\ UNCHANGED why
       \/ /\ path # None /\ UNCHANGED path
          /\ At(p, "cleared", "returning") /\ Because(p, "in_use")
       \/ /\ UNCHANGED path
          /\ At(p, "cleared", "returning") /\ Because(p, "error")
    /\ UNCHANGED <<lock, work, stored>>

(* The modes or the owner of the socket cannot be set: it is closed.       *)
Withdraw(p) ==
    /\ At(p, "bound", "returning") /\ Because(p, "error")
    /\ path' = None
    /\ UNCHANGED <<lock, work, stored>>

Serve(p) ==
    /\ At(p, "bound", "serving")
    /\ UNCHANGED <<why, lock, path, work, stored>>

StartLoops(p) ==
    /\ At(p, "serving", "up")
    /\ work' = [work EXCEPT ![p] = @ \cup {"loops"}]
    /\ UNCHANGED <<why, lock, path, stored>>

(* No route, or the outbox, the allow-list or the webhook listener fails,  *)
(* or, with the control server already serving, the group cannot be        *)
(* resolved: runDaemon returns, and leaves the socket as it is.            *)
Fail(p) ==
    /\ \/ (At(p, "ready", "returning") \/ At(p, "bound", "returning")) /\ Because(p, "error")
       \/ At(p, "serving", "returning") /\ Because(p, "group")
    /\ UNCHANGED <<lock, path, work, stored>>

(* A request that sends and waits, from start to answer.  (Control has     *)
(* the ones that arrive while the listener is being closed.)               *)
Request(p) ==
    /\ \/ pc[p] \in {"serving", "up", "stopping"}
       \/ pc[p] \in {"returning", "released"} /\ why[p] = "group"
    /\ work' = [work EXCEPT ![p] = @ \cup {"handlers"}]
    /\ UNCHANGED <<pc, why, lock, path, stored>>

Answer(p) ==
    /\ "handlers" \in work[p]
    /\ work' = [work EXCEPT ![p] = @ \ {"handlers"}]
    /\ UNCHANGED <<pc, why, lock, path, stored>>

-----------------------------------------------------------------------------
(* The end.                                                                *)

Signal(p) ==
    /\ At(p, "up", "stopping")
    /\ UNCHANGED <<why, lock, path, work, stored>>

(* Accept failed: runDaemon returns past everything below.                 *)
ControlFails(p) ==
    /\ At(p, "up", "returning") /\ Because(p, "control")
    /\ UNCHANGED <<lock, path, work, stored>>

CloseListener(p) ==
    /\ At(p, "stopping", "closed")
    /\ path' = None
    /\ UNCHANGED <<why, lock, work, stored>>

(* The requests are answered, or the grace is over; the outbox is flushed. *)
Flush(p) ==
    /\ At(p, "closed", "awaiting")
    /\ UNCHANGED <<why, lock, path, work, stored>>

(* The context is done from the signal, or from runDaemon's return.        *)
LoopsEnd(p) ==
    /\ pc[p] \in {"stopping", "closed", "awaiting", "returning", "released"}
    /\ "loops" \in work[p]
    /\ work' = [work EXCEPT ![p] = @ \ {"loops"}]
    /\ UNCHANGED <<pc, why, lock, path, stored>>

(* Bug for the checks: the loops are not waited for.                       *)
MutJoin(p) ==
    /\ At(p, "awaiting", "returning")
    /\ UNCHANGED <<why, lock, path, work, stored>>

Join(p) ==
    /\ "loops" \notin work[p]
    /\ At(p, "awaiting", "returning")
    /\ UNCHANGED <<why, lock, path, work, stored>>

(* The deferred Close.                                                     *)
Release(p) ==
    /\ At(p, "returning", "released")
    /\ lock' = None
    /\ UNCHANGED <<why, path, work, stored>>

(* The process ends; where runDaemon has not returned it was killed.       *)
Exit(p) ==
    /\ pc[p] \notin {"new", "gone"}
    /\ pc' = [pc EXCEPT ![p] = "gone"]
    /\ lock' = IF lock = p THEN None ELSE lock
    /\ work' = [work EXCEPT ![p] = {}]
    /\ prekeys' \in IF pc[p] = "named" THEN {"cut short", "published"} ELSE {prekeys}
    /\ UNCHANGED <<why, path, identity, accounts>>

Restart(p) ==
    /\ At(p, "gone", "new") /\ Because(p, "none")
    /\ UNCHANGED <<lock, path, work, stored>>

StartUp(p) ==
    \/ Open(p) \/ FindIdentity(p) \/ Register(p) \/ Publish(p)
    \/ Clear(p) \/ Bind(p) \/ Withdraw(p) \/ Serve(p) \/ StartLoops(p) \/ Fail(p)

Background(p) == Request(p) \/ Answer(p) \/ LoopsEnd(p)

Ending(p) ==
    \/ Signal(p) \/ ControlFails(p) \/ CloseListener(p) \/ Flush(p) \/ Join(p)
    \/ Release(p) \/ Exit(p) \/ Restart(p)

Next == \E p \in Process : StartUp(p) \/ Background(p) \/ Ending(p)

Spec == Init /\ [][Next]_vars

-----------------------------------------------------------------------------
(* Properties.                                                             *)

(* The file at the path is the socket of the process that listens, and of  *)
(* no other: nobody takes a live daemon's socket (listen's comment).       *)
SocketIsMine == \A p \in Process : pc[p] \in Listening => path = p

(* A socket file left by a killed process never keeps a start from         *)
(* listening.                                                              *)
NeverInUse == \A p \in Process : why[p] # "in_use"

(* After a signal the loops of a process are over before another process   *)
(* can have the account: no two processes run them over one account.       *)
LoopsBeforeRelease ==
    \A p \in Process : "loops" \in work[p] /\ lock # p => why[p] = "control"

(* However often the daemon is started, it has one account: the operator   *)
(* has been told its address (EnsureRegistered's comment).                 *)
OneAccount == accounts <= 1

(* A bot that serves can be written to: it has published prekeys, unless a *)
(* first run was cut short, which no later start makes up for.             *)
CanBeWrittenTo ==
    \A p \in Process : pc[p] \in Listening => prekeys # "none"
=============================================================================
