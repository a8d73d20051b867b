---------------------------- MODULE ControlProofs ----------------------------
(* That what callers are told is true, and that a shutdown misses at most  *)
(* one connection, for any number of clients and posters.                  *)
EXTENDS Control, FiniteSetTheorems, TLAPS

(* A connection's answer, what became of its message, and what its client  *)
(* has been told.                                                          *)
Undecided(c) == conn[c] \in {"none", "backlog", "accepted", "handling", "inside"}

ClientOK(c) ==
    /\ Undecided(c) => c \notin taken
    /\ conn[c] = "answering" => reply[c] # "none"
    /\ reply[c] = "none" => c \notin taken
    /\ reply[c] = "ok" => c \in taken
    /\ reply[c] \in Unserved \cup Refusal => c \notin taken
    /\ cli[c] = 0 => reply[c] \in {"ok", "suppressed"} /\ conn[c] = "closed"
    /\ cli[c] = 2 => reply[c] \in Refusal /\ conn[c] = "closed"
    /\ cli[c] = 4 => conn[c] = "none"

(* The same of a request over HTTP.                                        *)
PosterOK(p) ==
    /\ hook[p] \in {"none", "serving"} => p \notin taken /\ verdict[p] = "none"
    /\ hook[p] \in {"answering", "over"} => verdict[p] # "none"
    /\ verdict[p] = "queued" => p \in taken
    /\ verdict[p] \in {"refused", "unavailable"} => p \notin taken
    /\ status[p] \in Verdict => hook[p] = "over" /\ status[p] = verdict[p]
    /\ status[p] = "unreached" => hook[p] = "none"
    /\ hook[p] = "none" => status[p] \in {"none", "unreached"}

(* The accept loop has one connection in its hands.                        *)
OneInHand == \A c, d \in Client : conn[c] = "accepted" /\ conn[d] = "accepted" => c = d

(* What the shutdown has established by each of its steps.                 *)
Stage ==
    /\ main \in {"draining", "closing", "waiting", "past", "gone"} => ~hearing
    /\ main \in {"waiting", "past", "gone"} =>
          ~listening /\ \A c \in Client : conn[c] # "backlog"
    /\ waited => main \in {"past", "gone"}
    /\ waited => \A c, d \in Client : conn[c] \in Open /\ conn[d] \in Open => c = d
    /\ quiet => ~hearing /\ InService = {}

IInv ==
    /\ TypeOK
    /\ \A c \in Client : ClientOK(c)
    /\ \A p \in Poster : PosterOK(p)
    /\ OneInHand
    /\ Stage

LEMMA InitInv == Init => IInv
<1> SUFFICES ASSUME Init PROVE IInv
  OBVIOUS
<1>1. TypeOK
  BY DEF Init, TypeOK, Code, Running, Conn, Answer, Unserved, Refusal, Verdict, Status
<1>2. ASSUME NEW c \in Client PROVE ClientOK(c)
  BY <1>2 DEF Init, ClientOK, Running, Undecided, Unserved, Refusal
<1>3. ASSUME NEW p \in Poster PROVE PosterOK(p)
  BY <1>3 DEF Init, PosterOK, Verdict
<1>4. OneInHand /\ Stage
  BY DEF Init, OneInHand, Stage, Open, InService
<1> QED
  BY <1>1, <1>2, <1>3, <1>4 DEF IInv

-----------------------------------------------------------------------------
(* The steps of one connection.                                            *)

SocketStep(c) == ClientStep(c) \/ ServerStep(c) \/ Handle(c)

(* What a step of a connection does to the variables of that connection    *)
(* and leaves alone of all others.                                         *)
LEMMA SocketType ==
  ASSUME IInv, NEW c \in Client, SocketStep(c)
  PROVE  TypeOK'
<1> USE DEF IInv, TypeOK, hookVars, serverVars, Exit
<1>1. CASE Dial(c) \/ GiveUp(c) \/ EndOfFile(c)
  BY <1>1 DEF Dial, GiveUp, EndOfFile, Code, Running, Conn, TimeoutCode, Open
<1>2. CASE Accept(c) \/ Spawn(c)
  BY <1>2 DEF Accept, Spawn, Conn
<1>3. CASE Read(c)
  BY <1>3 DEF Read, Conn, Answer, Unserved, Refusal
<1>4. CASE Handle(c)
  BY <1>4 DEF Handle, Conn, Answer, Unserved, Refusal, Take
<1>5. CASE Reply(c)
  <2>1. CodeOf(reply[c]) \in Code
    BY DEF CodeOf, Code
  <2> QED
    BY <1>5, <2>1 DEF Reply, Conn
<1> QED
  BY <1>1, <1>2, <1>3, <1>4, <1>5 DEF SocketStep, ClientStep, ServerStep

LEMMA SocketHonest ==
  ASSUME IInv, NEW c \in Client, SocketStep(c), NEW d \in Client
  PROVE  ClientOK(d)'
<1> USE DEF IInv, TypeOK, hookVars, serverVars, Exit
<1>0. ClientOK(c) /\ ClientOK(d)
  OBVIOUS
<1>1. CASE d # c
  BY <1>0, <1>1 DEF SocketStep, ClientStep, ServerStep, Dial, GiveUp, EndOfFile, Accept,
     Spawn, Read, Handle, Reply, Take, ClientOK, Undecided
<1>2. CASE d = c
  <2>1. CASE Dial(c)
    BY <1>0, <1>2, <2>1 DEF Dial, ClientOK, Undecided, Running
  <2>2. CASE GiveUp(c) \/ EndOfFile(c)
    BY <1>0, <1>2, <2>2 DEF GiveUp, EndOfFile, ClientOK, Undecided, TimeoutCode, Running
  <2>3. CASE Accept(c) \/ Spawn(c)
    BY <1>0, <1>2, <2>3 DEF Accept, Spawn, ClientOK, Undecided
  <2>4. CASE Read(c)
    BY <1>0, <1>2, <2>4 DEF Read, ClientOK, Undecided, Unserved, Refusal
  <2>5. CASE Handle(c)
    BY <1>0, <1>2, <2>5 DEF Handle, ClientOK, Undecided, Unserved, Refusal, Take
  <2>6. CASE Reply(c)
    BY <1>0, <1>2, <2>6 DEF Reply, ClientOK, Undecided, CodeOf, Unserved, Refusal, Running, Answer
  <2> QED
    BY <2>1, <2>2, <2>3, <2>4, <2>5, <2>6 DEF SocketStep, ClientStep, ServerStep
<1> QED
  BY <1>1, <1>2

LEMMA SocketShutdown ==
  ASSUME IInv, NEW c \in Client, SocketStep(c)
  PROVE  OneInHand' /\ Stage' /\ \A p \in Poster : PosterOK(p)'
<1> USE DEF IInv, TypeOK, hookVars, serverVars, Exit
<1>1. \A p \in Poster : PosterOK(p)'
  <2>1. UNCHANGED hookVars /\ (taken' = taken \/ taken' = taken \cup {c})
    BY DEF SocketStep, ClientStep, ServerStep, Dial, GiveUp, EndOfFile, Accept, Spawn, Read,
       Handle, Reply, Take
  <2>2. c \notin Poster
    BY ControlAssumption
  <2> QED
    BY <2>1, <2>2 DEF PosterOK
<1>2. OneInHand'
  BY DEF OneInHand, SocketStep, ClientStep, ServerStep, Dial, GiveUp, EndOfFile, Accept, Accepting,
     Spawn, Read, Handle, Reply
<1>3. UNCHANGED <<serverVars, hookVars>>
  BY DEF SocketStep, ClientStep, ServerStep, Dial, GiveUp, EndOfFile, Accept, Spawn, Read,
     Handle, Reply
<1>4. main \in {"waiting", "past", "gone"} => \A d \in Client : conn'[d] # "backlog"
  BY DEF Stage, SocketStep, ClientStep, ServerStep, Dial, GiveUp, EndOfFile, Accept, Spawn, Read,
     Handle, Reply
<1>5. waited => \A d \in Client : conn'[d] \in Open => conn[d] \in Open
  BY DEF Stage, Open, SocketStep, ClientStep, ServerStep, Dial, GiveUp, EndOfFile, Accept, Spawn,
     Read, Handle, Reply
<1>6. Stage'
  BY <1>3, <1>4, <1>5 DEF Stage, InService
<1> QED
  BY <1>1, <1>2, <1>6

-----------------------------------------------------------------------------
(* The steps of a request over HTTP, and those of the shutdown.            *)

LEMMA HookInv ==
  ASSUME IInv, NEW p \in Poster, HookStep(p)
  PROVE  IInv'
<1> USE DEF IInv, TypeOK, socketVars, serverVars, Tell, Decide, Take
<1>1. TypeOK'
  BY DEF HookStep, Post, Lose, RefusePost, AcceptPost, AnswerPost, Verdict, Status
<1>2. ASSUME NEW c \in Client PROVE ClientOK(c)'
  <2>1. UNCHANGED socketVars /\ (taken' = taken \/ taken' = taken \cup {p})
    BY DEF HookStep, Post, Lose, RefusePost, AcceptPost, AnswerPost
  <2>2. p \notin Client
    BY ControlAssumption
  <2> QED
    BY <2>1, <2>2 DEF ClientOK, Undecided
<1>3. ASSUME NEW q \in Poster PROVE PosterOK(q)'
  <2>0. PosterOK(q)
    OBVIOUS
  <2>1. CASE q # p
    BY <2>0, <2>1 DEF HookStep, Post, Lose, RefusePost, AcceptPost, AnswerPost, PosterOK
  <2>2. CASE q = p
    <3>1. CASE Post(p) \/ Lose(p)
      BY <2>0, <2>2, <3>1 DEF Post, Lose, PosterOK, Verdict
    <3>2. CASE RefusePost(p) \/ AcceptPost(p)
      BY <2>0, <2>2, <3>2 DEF RefusePost, AcceptPost, PosterOK, Verdict
    <3>3. CASE AnswerPost(p)
      BY <2>0, <2>2, <3>3 DEF AnswerPost, PosterOK, Verdict
    <3> QED
      BY <3>1, <3>2, <3>3 DEF HookStep
  <2> QED
    BY <2>1, <2>2
<1>4. OneInHand'
  BY DEF OneInHand, HookStep, Post, Lose, RefusePost, AcceptPost, AnswerPost
<1>5. Stage'
  <2>1. UNCHANGED <<conn, serverVars>>
    BY DEF HookStep, Post, Lose, RefusePost, AcceptPost, AnswerPost
  <2>2. ~hearing => InService' \subseteq InService
    BY DEF HookStep, Post, Lose, RefusePost, AcceptPost, AnswerPost, InService
  <2> QED
    BY <2>1, <2>2 DEF Stage
<1> QED
  BY <1>1, <1>2, <1>3, <1>4, <1>5

LEMMA EndingInv ==
  ASSUME IInv, Signal \/ Ending
  PROVE  IInv'
<1> USE DEF IInv, TypeOK, socketVars, hookVars
<1>1. TypeOK'
  <2>1. CASE Signal \/ StopWebhook \/ HooksDone \/ FiveSeconds
    BY <2>1 DEF Signal, StopWebhook, HooksDone, FiveSeconds
  <2>2. CASE AllDone \/ GraceExpires
    BY <2>2 DEF AllDone, GraceExpires
  <2>3. CASE CloseListener
    BY <2>3 DEF CloseListener, Conn
  <2>4. CASE Gone
    BY <2>4 DEF Gone, Conn, Open
  <2> QED
    BY <2>1, <2>2, <2>3, <2>4 DEF Ending
<1>2. ASSUME NEW c \in Client PROVE ClientOK(c)'
  <2>1. UNCHANGED <<cli, reply, taken>> /\ conn'[c] \in {conn[c], "closed"}
    BY DEF Signal, Ending, StopWebhook, HooksDone, FiveSeconds, CloseListener, AllDone,
       GraceExpires, Gone
  <2>2. conn[c] # "none" \/ conn'[c] = conn[c]
    BY DEF Signal, Ending, StopWebhook, HooksDone, FiveSeconds, CloseListener, AllDone,
       GraceExpires, Gone, Open
  <2> QED
    BY <2>1, <2>2 DEF ClientOK, Undecided
<1>3. ASSUME NEW p \in Poster PROVE PosterOK(p)'
  <2>1. UNCHANGED <<hookVars, taken>>
    BY DEF Signal, Ending, StopWebhook, HooksDone, FiveSeconds, CloseListener, AllDone,
       GraceExpires, Gone
  <2> QED
    BY <2>1 DEF PosterOK
<1>4. OneInHand'
  BY DEF OneInHand, Signal, Ending, StopWebhook, HooksDone, FiveSeconds, CloseListener, AllDone,
     GraceExpires, Gone
<1>5. Stage'
  <2>1. CASE Signal \/ StopWebhook \/ FiveSeconds \/ GraceExpires
    BY <2>1 DEF Signal, StopWebhook, FiveSeconds, GraceExpires, Stage, InService
  <2>2. CASE HooksDone
    BY <2>2 DEF HooksDone, Stage, InService
  <2>3. CASE CloseListener
    BY <2>3 DEF CloseListener, Stage, InService, Open
  <2>4. CASE AllDone
    <3>1. \A c \in Client : conn[c] \in Open => conn[c] = "accepted"
      BY <2>4 DEF AllDone, Stage, Open, Counted
    <3> QED
      BY <2>4, <3>1 DEF AllDone, Stage, InService, OneInHand
  <2>5. CASE Gone
    BY <2>5 DEF Gone, Stage, InService, Open
  <2> QED
    BY <2>1, <2>2, <2>3, <2>4, <2>5 DEF Ending
<1> QED
  BY <1>1, <1>2, <1>3, <1>4, <1>5

LEMMA NextInv == IInv /\ [Next]_vars => IInv'
<1> SUFFICES ASSUME IInv, [Next]_vars PROVE IInv'
  OBVIOUS
<1>1. ASSUME NEW c \in Client, SocketStep(c) PROVE IInv'
  BY <1>1, SocketType, SocketHonest, SocketShutdown DEF IInv
<1>2. ASSUME NEW p \in Poster, HookStep(p) PROVE IInv'
  BY <1>2, HookInv
<1>3. CASE Signal \/ Ending
  BY <1>3, EndingInv
<1>4. CASE UNCHANGED vars
  BY <1>4 DEF vars, socketVars, hookVars, serverVars, IInv, TypeOK, ClientOK, PosterOK, OneInHand,
     Stage, Undecided, InService
<1> QED
  BY <1>1, <1>2, <1>3, <1>4 DEF Next, SocketStep

-----------------------------------------------------------------------------
(* Every variable keeps its type, and no connection has an answer before   *)
(* its handler has come to one (handle).                                   *)
THEOREM TypeCorrect == SafeSpec => []TypeOK
<1>1. IInv => TypeOK
  BY DEF IInv
<1> QED
  BY <1>1, InitInv, NextInv, PTL DEF SafeSpec

(* A script that branches on its exit code, or a sender on its status, is  *)
(* told the truth of its message (runSend, handleSend, ServeHTTP).         *)
THEOREM ExitCodesAreHonest == SafeSpec => []CodesAreHonest
<1>1. IInv => CodesAreHonest
  <2> SUFFICES ASSUME IInv PROVE CodesAreHonest
    OBVIOUS
  <2>1. ASSUME NEW c \in Client
        PROVE  /\ cli[c] = 0 => c \in taken \/ reply[c] = "suppressed"
               /\ cli[c] \in {2, 4} => c \notin taken
    BY <2>1 DEF IInv, ClientOK, Undecided
  <2>2. ASSUME NEW p \in Poster
        PROVE  /\ status[p] = "queued" => p \in taken
               /\ status[p] \in {"refused", "unavailable", "unreached"} => p \notin taken
    BY <2>2 DEF IInv, PosterOK, Verdict
  <2> QED
    BY <2>1, <2>2 DEF CodesAreHonest
<1> QED
  BY <1>1, InitInv, NextInv, PTL DEF SafeSpec

(* A shutdown that has waited for everything misses at most the connection *)
(* the accept loop has in its hands (Serve, Shutdown, stopWebhook).        *)
THEOREM AtMostOneIsMissed == SafeSpec => []MissesAtMostOne
<1>1. IInv => MissesAtMostOne
  <2> SUFFICES ASSUME IInv, main = "past" PROVE MissesAtMostOne
    BY DEF MissesAtMostOne
  <2>1. ASSUME waited PROVE Cardinality({c \in Client : conn[c] \in Open}) <= 1
    <3> DEFINE S == {c \in Client : conn[c] \in Open}
    <3>1. \A c, d \in S : c = d
      BY <2>1 DEF IInv, Stage
    <3>2. S = {} \/ \E c : S = {c}
      BY <3>1
    <3>3. CASE S = {}
      BY <3>3, FS_EmptySet
    <3>4. CASE \E c : S = {c}
      <4>1. PICK c : S = {c}
        BY <3>4
      <4>2. Cardinality(S) = 1
        BY <4>1, FS_Singleton
      <4> QED
        BY <4>2
    <3> QED
      BY <3>2, <3>3, <3>4
  <2>2. quiet => InService = {}
    BY DEF IInv, Stage
  <2> QED
    BY <2>1, <2>2 DEF MissesAtMostOne
<1> QED
  BY <1>1, InitInv, NextInv, PTL DEF SafeSpec
=============================================================================
