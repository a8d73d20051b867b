-------------------------- MODULE LifecycleProofs --------------------------
(***************************************************************************)
(* Proofs about Lifecycle, for any set of processes.                       *)
(*                                                                         *)
(* Nobody's socket is taken because the account is held around it: Held    *)
(* says that whoever is past Open and not yet past Close is the holder, so *)
(* there is one of them, Cleared what that one may find at the path.  The  *)
(* same holds of registering: OnlyFirst says that who is about to register *)
(* has found no identity, and there is one as soon as there is an account; *)
(* Published that a first run in between is the only excuse for prekeys    *)
(* not to be there.  LoopsWhere says where the loops may still be running. *)
(***************************************************************************)
EXTENDS Lifecycle, TLAPS

(* A process that has the account open is the one the lock names.          *)
Held == \A p \in Process : pc[p] \in Holding => lock = p

(* Past the removal there is no file until bind makes the process's own.   *)
Cleared == \A p \in Process : pc[p] = "cleared" => path = None

(* Who registers found no identity; one account comes with one identity.   *)
OnlyFirst ==
    /\ \/ identity = "none" /\ accounts = 0
       \/ identity = "stored" /\ accounts = 1
    /\ \A p \in Process : pc[p] = "naming" => identity = "none"

(* Past registration, prekeys are there or a first run was cut short.      *)
Published ==
    /\ identity = "stored" /\ prekeys = "none" => lock # None /\ pc[lock] = "named"
    /\ \A p \in Process : pc[p] \in Listening \cup {"ready", "cleared"} => prekeys # "none"

Inv == TypeOK /\ Held /\ Cleared /\ SocketIsMine /\ NeverInUse /\ OnlyFirst /\ Published

LEMMA InitInv == Init => Inv
<1> SUFFICES ASSUME Init PROVE Inv
    OBVIOUS
<1> USE NoneAssumption DEF Init, Holding, Listening
<1>1. TypeOK BY DEF TypeOK
<1>2. Held /\ Cleared /\ SocketIsMine /\ NeverInUse BY DEF Held, Cleared, SocketIsMine, NeverInUse
<1>3. OnlyFirst /\ Published BY DEF OnlyFirst, Published
<1> QED BY <1>1, <1>2, <1>3 DEF Inv

(* Registering happens under the lock, where nobody has an identity yet.   *)
LEMMA RegisterInv == ASSUME Inv, NEW p \in Process, Register(p) PROVE Inv'
<1>1. pc[p] = "naming" /\ lock = p /\ identity = "none" /\ accounts = 0 /\ work[p] = {}
      BY DEF Register, At, Inv, TypeOK, Held, Holding, OnlyFirst
<1>2. CASE /\ At(p, "naming", "named") /\ UNCHANGED why
           /\ identity' = "stored"
           /\ accounts' = IF accounts < 2 THEN accounts + 1 ELSE accounts
  <2>1. /\ identity' = "stored" /\ accounts' = 1
        /\ pc' = [pc EXCEPT ![p] = "named"]
        /\ UNCHANGED <<why, lock, path, work, prekeys>>
        BY <1>1, <1>2 DEF Register, At
  <2>2. \A q \in Process : q # p => pc[q] \notin Holding
        BY <1>1 DEF Inv, Held
  <2>3. \A q \in Process : pc'[q] = IF q = p THEN "named" ELSE pc[q]
        BY <2>1 DEF Inv, TypeOK
  <2>4. TypeOK'
    <3>1. pc' \in [Process -> Holding \cup {"new", "released", "gone"}]
          BY <2>1 DEF Inv, TypeOK, Holding
    <3>2. identity' \in {"none", "stored"} /\ accounts' \in 0..2
          BY <2>1
    <3>3. \A q \in Process : work'[q] = {} \/ (q # p /\ work'[q] = work[q])
          BY <1>1, <2>1
    <3> QED BY <2>1, <2>3, <3>1, <3>2, <3>3 DEF Inv, TypeOK
  <2>5. Held' /\ Cleared' BY <1>1, <2>1, <2>2, <2>3 DEF Inv, Held, Cleared, Holding
  <2>6. SocketIsMine' /\ NeverInUse'
        BY <2>1, <2>3 DEF Inv, SocketIsMine, NeverInUse, Listening
  <2>7. OnlyFirst' BY <2>1, <2>2, <2>3 DEF Inv, OnlyFirst, Holding
  <2>8. Published' BY <1>1, <2>1, <2>2, <2>3, NoneAssumption DEF Inv, Published, Holding, Listening
  <2> QED BY <2>4, <2>5, <2>6, <2>7, <2>8 DEF Inv
<1>3. CASE At(p, "naming", "returning") /\ Because(p, "error") /\ UNCHANGED <<identity, accounts>>
      BY <1>1, <1>3, NoneAssumption
      DEF Register, At, Because, Inv, TypeOK, Held, Cleared, SocketIsMine, NeverInUse,
          OnlyFirst, Published, Holding, Listening
<1> QED BY <1>2, <1>3 DEF Register

(* Every step of start-up keeps the invariant.                             *)
LEMMA StartUpInv == ASSUME Inv, NEW p \in Process, StartUp(p) PROVE Inv'
<1> USE NoneAssumption DEF Inv, TypeOK, Held, Cleared, SocketIsMine, NeverInUse,
           OnlyFirst, Published, Holding, Listening, stored, At, Because
<1>1. CASE Open(p)
  <2>1. CASE lock = None
    <3>1. /\ pc[p] = "new" /\ pc' = [pc EXCEPT ![p] = "opened"] /\ lock' = p
          /\ UNCHANGED <<why, path, work, identity, accounts, prekeys>>
          BY <1>1, <2>1 DEF Open
    <3>2. \A q \in Process : pc[q] \notin Holding
          BY <2>1
    <3>3. \A q \in Process : pc'[q] = IF q = p THEN "opened" ELSE pc[q]
          BY <3>1
    <3>4. TypeOK' BY <3>1
    <3>5. Held' /\ Cleared' BY <3>1, <3>2, <3>3
    <3>6. SocketIsMine' /\ NeverInUse' BY <3>1, <3>2, <3>3
    <3>7. OnlyFirst' BY <3>1, <3>2, <3>3
    <3>8. Published' BY <2>1, <3>1, <3>2, <3>3
    <3> QED BY <3>4, <3>5, <3>6, <3>7, <3>8
  <2>2. CASE lock # None
    <3>1. /\ pc[p] = "new" /\ pc' = [pc EXCEPT ![p] = "gone"]
          /\ why' = [why EXCEPT ![p] = "refused"]
          /\ UNCHANGED <<lock, path, work, identity, accounts, prekeys>>
          BY <1>1, <2>2 DEF Open
    <3>2. \A q \in Process : pc'[q] = IF q = p THEN "gone" ELSE pc[q]
          BY <3>1
    <3>3. TypeOK' BY <3>1
    <3>4. Held' /\ Cleared' BY <3>1, <3>2
    <3>5. SocketIsMine' /\ NeverInUse' BY <3>1, <3>2
    <3>6. OnlyFirst' BY <3>1, <3>2
    <3>7. Published' BY <3>1, <3>2
    <3> QED BY <3>3, <3>4, <3>5, <3>6, <3>7
  <2> QED BY <2>1, <2>2
<1>2. CASE FindIdentity(p)
  <2>1. CASE At(p, "opened", IF identity = "none" THEN "naming" ELSE "ready") /\ UNCHANGED why
    <3>1. CASE identity = "none" BY <1>2, <2>1, <3>1 DEF FindIdentity
    <3>2. CASE identity # "none" BY <1>2, <2>1, <3>2 DEF FindIdentity
    <3> QED BY <3>1, <3>2
  <2>2. CASE At(p, "opened", "returning") /\ Because(p, "error")
        BY <1>2, <2>2 DEF FindIdentity
  <2> QED BY <1>2, <2>1, <2>2 DEF FindIdentity
<1>3. CASE Register(p) BY <1>3, RegisterInv DEF Inv
<1>4. CASE Publish(p) BY <1>4 DEF Publish
<1>5. CASE Clear(p) BY <1>5 DEF Clear
<1>6. CASE Bind(p) BY <1>6 DEF Bind
<1>7. CASE Withdraw(p) BY <1>7 DEF Withdraw
<1>8. CASE Serve(p) BY <1>8 DEF Serve
<1>9. CASE StartLoops(p) BY <1>9 DEF StartLoops
<1>10. CASE Fail(p) BY <1>10 DEF Fail
<1> QED BY <1>1, <1>2, <1>3, <1>4, <1>5, <1>6, <1>7, <1>8, <1>9, <1>10 DEF StartUp

LEMMA BackgroundInv == ASSUME Inv, NEW p \in Process, Background(p) PROVE Inv'
<1> USE NoneAssumption DEF Inv, TypeOK, Held, Cleared, SocketIsMine, NeverInUse,
           OnlyFirst, Published, Holding, Listening, stored
<1>1. CASE Request(p) BY <1>1 DEF Request
<1>2. CASE Answer(p) BY <1>2 DEF Answer
<1>3. CASE LoopsEnd(p) BY <1>3 DEF LoopsEnd
<1> QED BY <1>1, <1>2, <1>3 DEF Background

LEMMA EndingInv == ASSUME Inv, NEW p \in Process, Ending(p) PROVE Inv'
<1> USE NoneAssumption DEF Inv, TypeOK, Held, Cleared, SocketIsMine, NeverInUse,
           OnlyFirst, Published, Holding, Listening, stored, At, Because
<1>1. CASE Signal(p) BY <1>1 DEF Signal
<1>2. CASE ControlFails(p) BY <1>2 DEF ControlFails
<1>3. CASE CloseListener(p) BY <1>3 DEF CloseListener
<1>4. CASE Flush(p) BY <1>4 DEF Flush
<1>5. CASE Join(p) BY <1>5 DEF Join
<1>6. CASE Release(p) BY <1>6 DEF Release
<1>7. CASE Exit(p) BY <1>7 DEF Exit
<1>8. CASE Restart(p) BY <1>8 DEF Restart
<1> QED BY <1>1, <1>2, <1>3, <1>4, <1>5, <1>6, <1>7, <1>8 DEF Ending

LEMMA NextInv == Inv /\ [Next]_vars => Inv'
<1> SUFFICES ASSUME Inv, [Next]_vars PROVE Inv'
    OBVIOUS
<1>1. CASE Next
  <2>1. PICK p \in Process : StartUp(p) \/ Background(p) \/ Ending(p)
        BY <1>1 DEF Next
  <2> QED BY <2>1, StartUpInv, BackgroundInv, EndingInv
<1>2. CASE UNCHANGED vars
      BY <1>2 DEF vars, stored, Inv, TypeOK, Held, Cleared, SocketIsMine, NeverInUse, OnlyFirst, Published
<1> QED BY <1>1, <1>2

LEMMA Invariance == Spec => []Inv
<1> QED BY InitInv, NextInv, PTL DEF Spec

(* Type correctness (runDaemon, account.Open, ipc's listen).               *)
THEOREM TypeCorrect == Spec => []TypeOK
<1>1. Inv => TypeOK BY DEF Inv
<1> QED BY <1>1, Invariance, PTL

(* However many processes are started, stopped and killed over one state   *)
(* directory, the file at the socket's path is that of the one listening   *)
(* (ipc's Listen under the lock of account.Open).                          *)
THEOREM SocketIsNeverTaken == Spec => []SocketIsMine
<1>1. Inv => SocketIsMine BY DEF Inv
<1> QED BY <1>1, Invariance, PTL

(* What a killed process leaves at the path keeps no start from listening. *)
THEOREM StaleSocketIsNoObstacle == Spec => []NeverInUse
<1>1. Inv => NeverInUse BY DEF Inv
<1> QED BY <1>1, Invariance, PTL

(* No start makes a second account, over failures and kills anywhere       *)
(* (EnsureRegistered under the lock of account.Open).                      *)
THEOREM NeverTwoAccounts == Spec => []OneAccount
<1>1. Inv => OneAccount BY DEF Inv, OnlyFirst, OneAccount
<1> QED BY <1>1, Invariance, PTL

(* A daemon that listens has prekeys published, but for first runs that    *)
(* ended before they were (EnsureRegistered).                              *)
THEOREM PrekeysArePublished == Spec => []CanBeWrittenTo
<1>1. Inv => CanBeWrittenTo BY DEF Inv, Published, CanBeWrittenTo
<1> QED BY <1>1, Invariance, PTL

-----------------------------------------------------------------------------
(* The loops run where the lock is held, or past a control server that     *)
(* failed.                                                                 *)
LoopsWhere ==
    \A p \in Process : "loops" \in work[p] =>
        \/ pc[p] \in {"up", "stopping", "closed", "awaiting"}
        \/ pc[p] \in {"returning", "released"} /\ why[p] = "control"

LEMMA LoopsStep == Inv /\ LoopsWhere /\ [Next]_vars => LoopsWhere'
<1> SUFFICES ASSUME Inv, LoopsWhere, [Next]_vars PROVE LoopsWhere'
    OBVIOUS
<1> USE DEF Inv, TypeOK, Holding, LoopsWhere, stored, At, Because
<1>1. ASSUME NEW p \in Process, StartUp(p) PROVE LoopsWhere'
  <2>1. CASE Open(p) BY <2>1 DEF Open
  <2>2. CASE FindIdentity(p) BY <2>2 DEF FindIdentity
  <2>3. CASE Register(p) \/ Publish(p) BY <2>3 DEF Register, Publish
  <2>4. CASE Clear(p) \/ Bind(p) BY <2>4 DEF Clear, Bind
  <2>5. CASE Withdraw(p) \/ Serve(p) BY <2>5 DEF Withdraw, Serve
  <2>6. CASE StartLoops(p) BY <2>6 DEF StartLoops
  <2>7. CASE Fail(p) BY <2>7 DEF Fail
  <2> QED BY <1>1, <2>1, <2>2, <2>3, <2>4, <2>5, <2>6, <2>7 DEF StartUp
<1>2. ASSUME NEW p \in Process, Background(p) PROVE LoopsWhere'
  <2>1. CASE Request(p) BY <2>1 DEF Request
  <2>2. CASE Answer(p) BY <2>2 DEF Answer
  <2>3. CASE LoopsEnd(p) BY <2>3 DEF LoopsEnd
  <2> QED BY <1>2, <2>1, <2>2, <2>3 DEF Background
<1>3. ASSUME NEW p \in Process, Ending(p) PROVE LoopsWhere'
  <2>1. CASE Signal(p) \/ ControlFails(p) BY <2>1 DEF Signal, ControlFails
  <2>2. CASE CloseListener(p) \/ Flush(p) BY <2>2 DEF CloseListener, Flush
  <2>3. CASE Join(p) \/ Release(p) BY <2>3 DEF Join, Release
  <2>4. CASE Exit(p) BY <2>4 DEF Exit
  <2>5. CASE Restart(p) BY <2>5 DEF Restart
  <2> QED BY <1>3, <2>1, <2>2, <2>3, <2>4, <2>5 DEF Ending
<1>4. CASE UNCHANGED vars BY <1>4 DEF vars
<1> QED BY <1>1, <1>2, <1>3, <1>4 DEF Next

(* No two processes run the loops over one account, but for a control      *)
(* server that failed (runDaemon's waiting before the deferred Close).     *)
THEOREM LoopsEndFirst == Spec => []LoopsBeforeRelease
<1>1. Init => LoopsWhere BY DEF Init, LoopsWhere
<1>2. Inv /\ LoopsWhere => LoopsBeforeRelease
      BY DEF Inv, Held, Holding, LoopsWhere, LoopsBeforeRelease
<1> QED BY <1>1, <1>2, InitInv, NextInv, LoopsStep, PTL DEF Spec
=============================================================================
