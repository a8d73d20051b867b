--------------------------- MODULE DeliveryProofs ---------------------------
(***************************************************************************)
(* What holds of Delivery for every set of messages and destinations and   *)
(* for every bound, checked by TLAPS.                                      *)
(***************************************************************************)
EXTENDS Delivery, FiniteSetTheorems, TLAPS

(* The spots of an attempt that has an entry in hand.                      *)
InHand == {"sending", "sent", "failed"}

-----------------------------------------------------------------------------
(* Types.                                                                  *)

LEMMA IdsType == \A m \in Message : Ids(m) \subseteq Id
  BY OutboxAssumption DEF Ids, Id

(* A worker with an entry in hand has one.                                 *)
CurOK == \A w \in Worker : pc[w] \in InHand => cur[w] \in Id

TypeInv == TypeOK /\ CurOK

(* The wait after a failure is within the ceiling, whatever the count.     *)
LEMMA BackoffType == \A n : Backoff(n) \in 0..BackoffCap
  BY OutboxAssumption DEF Backoff

LEMMA BumpType == \A n \in 0..AttemptCap : Bump(n) \in 0..AttemptCap
  BY OutboxAssumption DEF Bump

LEMMA BlankType == Blank \in Entry
  BY OutboxAssumption DEF Blank, Entry

(* The operations of the outbox keep the directory well-formed.            *)
LEMMA WriteType ==
  ASSUME BoxTypeOK, NEW id \in Id, NEW e \in Entry, WriteEntry(id, e)
  PROVE  BoxTypeOK'
  BY DEF BoxTypeOK, WriteEntry

LEMMA RemoveType ==
  ASSUME BoxTypeOK, NEW id \in Id, RemoveEntry(id)
  PROVE  BoxTypeOK'
  BY BlankType DEF BoxTypeOK, RemoveEntry

LEMMA RescheduleType ==
  ASSUME BoxTypeOK, NEW id \in Id, Reschedule(id)
  PROVE  BoxTypeOK'
<1> DEFINE n == Bump(entry[id].attempts)
           e == [entry[id] EXCEPT !.attempts = n, !.wait = Backoff(n)]
<1>1. entry[id] \in Entry
  BY DEF BoxTypeOK
<1>2. n \in 0..AttemptCap /\ Backoff(n) \in 0..BackoffCap
  BY <1>1, BumpType, BackoffType DEF Entry
<1>3. e \in Entry
  BY <1>1, <1>2 DEF Entry
<1>4. WriteEntry(id, e)
  BY DEF Reschedule
<1> QED
  BY <1>3, <1>4, WriteType

LEMMA ElapseType ==
  ASSUME BoxTypeOK, Elapse
  PROVE  BoxTypeOK'
<1> DEFINE older(id) == [entry[id] EXCEPT !.age  = IF @ < MaxAge THEN @ + 1 ELSE @,
                                          !.wait = IF @ > 0 THEN @ - 1 ELSE @]
<1>1. ASSUME NEW id \in Id PROVE older(id) \in Entry
  <2>1. entry[id] \in [attempts : 0..AttemptCap, age : 0..MaxAge, wait : 0..BackoffCap]
    BY DEF BoxTypeOK, Entry
  <2> DEFINE a == IF entry[id].age < MaxAge THEN entry[id].age + 1 ELSE entry[id].age
             w == IF entry[id].wait > 0 THEN entry[id].wait - 1 ELSE entry[id].wait
  <2>2. a \in 0..MaxAge /\ w \in 0..BackoffCap
    BY <2>1, OutboxAssumption
  <2>3. older(id) = [entry[id] EXCEPT !.age = a, !.wait = w]
    OBVIOUS
  <2> HIDE DEF a, w, older
  <2>4. [entry[id] EXCEPT !.age = a, !.wait = w] \in Entry
    BY <2>1, <2>2 DEF Entry
  <2> QED
    BY <2>3, <2>4
<1>2. entry' = [id \in Id |-> IF id \in held THEN older(id) ELSE entry[id]]
  BY DEF Elapse
<1>3. entry' \in [Id -> Entry]
  BY <1>1, <1>2 DEF BoxTypeOK
<1> QED
  BY <1>3 DEF BoxTypeOK, Elapse

(* The bound on failing file operations.                                   *)
LEMMA FaultType ==
  ASSUME faults \in 0..MaxFaults, Fault \/ NoFault
  PROVE  faults' \in 0..MaxFaults
  BY DeliveryAssumption DEF Fault, NoFault

LEMMA InitType == Init => TypeInv
<1> SUFFICES ASSUME Init PROVE TypeInv
  OBVIOUS
<1>1. BoxTypeOK
  BY BlankType DEF Init, BoxInit, BoxTypeOK
<1>2. pc \in [Worker -> Spot] /\ cur \in [Worker -> Id \cup {NoId}] /\ due \in [Worker -> SUBSET Id]
  BY DEF Init, Spot
<1>3. todo \in [Message -> SUBSET Destination] /\ answer \in [Message -> Reply] /\ said \in [Message -> Nat]
  BY DEF Init, Reply
<1>4. copies \in [Id -> 0..CopiesCap]
  BY DEF Init, CopiesCap
<1>5. phase \in Phase /\ dropped \subseteq Id
  BY DEF Init, Phase
<1>6. stops \in 0..MaxStops /\ crashes \in 0..MaxCrashes /\ faults \in 0..MaxFaults
  BY DeliveryAssumption DEF Init
<1>7. CurOK
  BY DEF Init, CurOK, InHand
<1> QED
  BY <1>1, <1>2, <1>3, <1>4, <1>5, <1>6, <1>7 DEF Init, TypeInv, TypeOK

(* What a request does before and after its attempts.                      *)
LEMMA HandlerType ==
  ASSUME TypeInv, NEW m \in Message,
         \/ Connect(m) \/ EnqueueRefused(m) \/ EnqueueListFails(m) \/ EnqueueBegin(m)
         \/ \E d \in DestsOf[m] : EnqueueWrite(m, d)
         \/ EnqueueWriteFails(m) \/ EnqueueEnd(m)
         \/ Answer(m) \/ DeliverNow(m) \/ DeliverNowFails(m) \/ AnswerWait(m)
  PROVE  TypeInv'
<1> USE DEF Worker, Spot, Reply, Go, Tell, TypeInv, TypeOK, CurOK, InHand,
            boxVars, jobVars, askVars, runVars, endVars, bounds
<1>1. CASE Connect(m)
  BY <1>1 DEF Connect, BoxTypeOK
<1>2. CASE EnqueueRefused(m)
  BY <1>2 DEF EnqueueRefused, BoxTypeOK
<1>3. CASE EnqueueListFails(m)
  BY <1>3, FaultType DEF EnqueueListFails, BoxTypeOK
<1>4. CASE EnqueueBegin(m)
  <2>1. DestsOf[m] \in SUBSET Destination
    BY OutboxAssumption
  <2> QED
    BY <1>4, <2>1 DEF EnqueueBegin, BoxTypeOK
<1>5. CASE \E d \in DestsOf[m] : EnqueueWrite(m, d)
  <2>1. PICK d \in DestsOf[m] : EnqueueWrite(m, d)
    BY <1>5
  <2>2. <<m, d>> \in Id
    BY IdsType DEF Ids
  <2>3. BoxTypeOK'
    BY <2>1, <2>2, BlankType, WriteType DEF EnqueueWrite
  <2> QED
    BY <2>1, <2>3 DEF EnqueueWrite
<1>6. CASE EnqueueWriteFails(m)
  BY <1>6, FaultType DEF EnqueueWriteFails, BoxTypeOK
<1>7. CASE EnqueueEnd(m)
  BY <1>7 DEF EnqueueEnd, BoxTypeOK
<1>8. CASE Answer(m)
  BY <1>8 DEF Answer, BoxTypeOK
<1>9. CASE DeliverNow(m)
  BY <1>9 DEF DeliverNow, Due, BoxTypeOK
<1>10. CASE DeliverNowFails(m)
  BY <1>10, FaultType DEF DeliverNowFails, BoxTypeOK
<1>11. CASE AnswerWait(m)
  BY <1>11 DEF AnswerWait, BoxTypeOK
<1> QED
  BY <1>1, <1>2, <1>3, <1>4, <1>5, <1>6, <1>7, <1>8, <1>9, <1>10, <1>11

(* An attempt, by whichever worker.                                        *)
LEMMA AttemptType ==
  ASSUME TypeInv, NEW w \in Worker, Attempt(w)
  PROVE  TypeInv'
<1> USE DEF Spot, Go, TypeInv, TypeOK, CurOK, InHand,
            boxVars, jobVars, askVars, runVars, endVars, bounds
<1>1. CASE \E id \in due[w] : StartAttempt(w, id)
  BY <1>1 DEF StartAttempt, BoxTypeOK
<1>2. CASE SendOK(w)
  BY <1>2 DEF SendOK, Arrive, CopiesCap, BoxTypeOK
<1>3. CASE SendFails(w)
  BY <1>3 DEF SendFails, Arrive, CopiesCap, BoxTypeOK
<1>4. CASE RecordSent(w)
  <2>1. cur[w] \in Id
    BY <1>4 DEF RecordSent
  <2>2. BoxTypeOK'
    BY <1>4, <2>1, RemoveType DEF RecordSent, BoxTypeOK
  <2>3. said' \in [Message -> Nat]
    BY <1>4 DEF RecordSent
  <2> QED
    BY <1>4, <2>2, <2>3, FaultType DEF RecordSent
<1>5. CASE RecordFail(w)
  <2>1. cur[w] \in Id
    BY <1>5 DEF RecordFail
  <2>2. BoxTypeOK'
    BY <1>5, <2>1, RemoveType, RescheduleType DEF RecordFail, GiveUp, Retry, LetBe, BoxTypeOK
  <2> QED
    BY <1>5, <2>1, <2>2, FaultType DEF RecordFail, GiveUp, Retry, LetBe
<1> QED
  BY <1>1, <1>2, <1>3, <1>4, <1>5 DEF Attempt

(* The loop, the shutdown sequence, and what happens to the process.       *)
LEMMA ProcessType ==
  ASSUME TypeInv,
         \/ LoopWake \/ LoopScan \/ LoopScanFails \/ LoopPassEnd \/ LoopExit
         \/ CloseIngress \/ FlushBegin \/ FlushFails \/ FlushEnd \/ Exit
         \/ Signal \/ GraceExpires \/ Crash \/ Restart \/ Tick
  PROVE  TypeInv'
<1> USE DEF Worker, Spot, Phase, Go, TypeInv, TypeOK, CurOK, InHand,
            boxVars, jobVars, askVars, runVars, endVars, bounds
<1>1. CASE LoopWake \/ LoopScan \/ LoopScanFails
  <2>1. CASE LoopWake
    BY <2>1 DEF LoopWake, BoxTypeOK
  <2>2. CASE LoopScan
    BY <2>2 DEF LoopScan, Due, BoxTypeOK
  <2>3. CASE LoopScanFails
    BY <2>3, FaultType DEF LoopScanFails, BoxTypeOK
  <2> QED
    BY <1>1, <2>1, <2>2, <2>3
<1>2. CASE LoopPassEnd \/ LoopExit
  BY <1>2 DEF LoopPassEnd, LoopExit, BoxTypeOK
<1>3. CASE CloseIngress \/ GraceExpires
  BY <1>3 DEF CloseIngress, GraceExpires, BoxTypeOK
<1>4. CASE Signal
  BY <1>4, DeliveryAssumption DEF Signal, BoxTypeOK
<1>5. CASE FlushBegin \/ FlushFails \/ FlushEnd
  BY <1>5, FaultType DEF FlushBegin, FlushFails, FlushEnd, Due, BoxTypeOK
<1>6. CASE Exit \/ Crash
  <2>1. Halt
    BY <1>6 DEF Exit, Crash
  <2>2. pc' \in [Worker -> Spot] /\ answer' \in [Message -> Reply]
    BY <2>1 DEF Halt, Reply
  <2>3. CurOK'
    BY <2>1 DEF Halt, InFlight
  <2>4. stops' \in 0..MaxStops /\ crashes' \in 0..MaxCrashes
    BY <1>6, DeliveryAssumption DEF Exit, Crash
  <2> QED
    BY <2>1, <2>2, <2>3, <2>4 DEF Halt, BoxTypeOK
<1>7. CASE Restart
  BY <1>7 DEF Restart, BoxTypeOK
<1>8. CASE Tick
  BY <1>8, ElapseType DEF Tick
<1> QED
  BY <1>1, <1>2, <1>3, <1>4, <1>5, <1>6, <1>7, <1>8

LEMMA NextType == TypeInv /\ [Next]_vars => TypeInv'
<1> SUFFICES ASSUME TypeInv, [Next]_vars PROVE TypeInv'
  OBVIOUS
<1>1. CASE \E m \in Message : Connect(m) \/ Handler(m)
  BY <1>1, HandlerType, AttemptType DEF Handler, Worker
<1>2. CASE LoopStep \/ MainStep
  BY <1>2, ProcessType, AttemptType DEF LoopStep, MainStep, Worker
<1>3. CASE Signal \/ GraceExpires \/ Crash \/ Restart \/ Tick
  BY <1>3, ProcessType
<1>4. CASE UNCHANGED vars
  BY <1>4 DEF TypeInv, TypeOK, CurOK, BoxTypeOK, vars,
              boxVars, jobVars, askVars, runVars, endVars, bounds
<1> QED
  BY <1>1, <1>2, <1>3, <1>4 DEF Next

(* Every variable keeps its type: the waits stay below the backoff's       *)
(* ceiling, the counts are bounded, and no worker is anywhere its code     *)
(* cannot be, however many messages, faults, stops and crashes there are.  *)
THEOREM TypeCorrect == SafeSpec => []TypeOK
<1>1. SafeSpec => []TypeInv
  BY InitType, NextType, PTL DEF SafeSpec
<1>2. TypeInv => TypeOK
  BY DEF TypeInv
<1> QED
  BY <1>1, <1>2, PTL
-----------------------------------------------------------------------------
(* Nothing is lost.  What a request's handler has put into the outbox is   *)
(* accounted for from then on, and a handler is past Enqueue only with all *)
(* of its entries put there.                                               *)

Accounted(id) == id \in held \/ copies[id] > 0 \/ id \in dropped

(* Done is called for what has arrived.                                    *)
SentArrived == \A w \in Worker : pc[w] = "sent" => copies[cur[w]] > 0

Written(m) == \A d \in DestsOf[m] : Accounted(<<m, d>>)

PastEnqueue(m) == pc[m] \in {"queued", "pass"} \cup InHand \/ Told(m)

WrittenOK ==
    \A m \in Message :
        /\ PastEnqueue(m) => Written(m)
        /\ pc[m] = "writing" => \A d \in DestsOf[m] : d \in todo[m] \/ Accounted(<<m, d>>)

LossInv == TypeInv /\ SentArrived /\ WrittenOK

LEMMA InitLoss == Init => LossInv
<1> SUFFICES ASSUME Init PROVE SentArrived /\ WrittenOK
  BY InitType DEF LossInv
<1> QED
  BY DeliveryAssumption DEF Init, SentArrived, WrittenOK, PastEnqueue, Told, InHand, Worker

(* Copies are only ever added.                                             *)
LEMMA CopiesGrow ==
  ASSUME TypeInv, [Next]_vars, NEW id \in Id, copies[id] > 0
  PROVE  copies'[id] > 0
<1> USE DEF TypeInv, TypeOK, boxVars, jobVars, askVars, runVars, endVars, bounds
<1>1. ASSUME NEW w \in Worker, SendOK(w) \/ SendFails(w) PROVE copies'[id] > 0
  BY <1>1 DEF SendOK, SendFails, Arrive, CopiesCap
<1>2. ASSUME NEW w \in Worker, Attempt(w) PROVE copies'[id] > 0
  BY <1>1, <1>2 DEF Attempt, StartAttempt, RecordSent, RecordFail
<1>3. ASSUME NEW m \in Message, Connect(m) \/ Handler(m) PROVE copies'[id] > 0
  BY <1>2, <1>3 DEF Connect, Handler, EnqueueRefused, EnqueueListFails, EnqueueBegin,
     EnqueueWrite, EnqueueWriteFails, EnqueueEnd, Answer, DeliverNow, DeliverNowFails,
     AnswerWait, Worker
<1>4. CASE LoopStep
  BY <1>2, <1>4 DEF LoopStep, LoopWake, LoopScan, LoopScanFails, LoopPassEnd, LoopExit, Worker
<1>5. CASE MainStep
  BY <1>2, <1>5 DEF MainStep, CloseIngress, FlushBegin, FlushFails, FlushEnd, Exit, Halt, Worker
<1>6. CASE Signal \/ GraceExpires \/ Crash \/ Restart \/ Tick
  BY <1>6 DEF Signal, GraceExpires, Crash, Halt, Restart, Tick
<1>7. CASE UNCHANGED vars
  BY <1>7 DEF vars
<1> QED
  BY <1>3, <1>4, <1>5, <1>6, <1>7 DEF Next

(* What is accounted for stays so: an entry leaves the directory by Done,  *)
(* after it arrived, or by Fail, which notes the drop.                     *)
LEMMA AccountedStays ==
  ASSUME TypeInv, SentArrived, [Next]_vars, NEW id \in Id, Accounted(id)
  PROVE  Accounted(id)'
<1> USE DEF Accounted, boxVars, jobVars, askVars, runVars, endVars, bounds
<1>0. copies[id] > 0 => copies'[id] > 0
  BY CopiesGrow
<1>1. ASSUME NEW w \in Worker, RecordSent(w) PROVE Accounted(id)'
  BY <1>1 DEF RecordSent, RemoveEntry, SentArrived
<1>2. ASSUME NEW w \in Worker, RecordFail(w) PROVE Accounted(id)'
  BY <1>2 DEF RecordFail, GiveUp, Retry, LetBe, RemoveEntry, Reschedule, WriteEntry
<1>3. ASSUME NEW w \in Worker, Attempt(w) PROVE Accounted(id)'
  BY <1>0, <1>1, <1>2, <1>3 DEF Attempt, StartAttempt, SendOK, SendFails
<1>4. ASSUME NEW m \in Message, Connect(m) \/ Handler(m) PROVE Accounted(id)'
  BY <1>0, <1>3, <1>4 DEF Connect, Handler, EnqueueRefused, EnqueueListFails, EnqueueBegin,
     EnqueueWrite, WriteEntry, EnqueueWriteFails, EnqueueEnd, Answer, DeliverNow,
     DeliverNowFails, AnswerWait, Worker
<1>5. CASE LoopStep
  BY <1>3, <1>5 DEF LoopStep, LoopWake, LoopScan, LoopScanFails, LoopPassEnd, LoopExit, Worker
<1>6. CASE MainStep
  BY <1>3, <1>6 DEF MainStep, CloseIngress, FlushBegin, FlushFails, FlushEnd, Exit, Halt, Worker
<1>7. CASE Signal \/ GraceExpires \/ Crash \/ Restart \/ Tick
  BY <1>7 DEF Signal, GraceExpires, Crash, Halt, Restart, Tick, Elapse
<1>8. CASE UNCHANGED vars
  BY <1>8 DEF vars
<1> QED
  BY <1>4, <1>5, <1>6, <1>7, <1>8 DEF Next

LEMMA SentStays == TypeInv /\ SentArrived /\ [Next]_vars => SentArrived'
<1> SUFFICES ASSUME TypeInv, SentArrived, [Next]_vars,
                    NEW v \in Worker, pc'[v] = "sent"
             PROVE  copies'[cur'[v]] > 0
  BY DEF SentArrived
<1> USE DEF TypeInv, TypeOK, CurOK, InHand, Go, Tell, Worker,
            boxVars, jobVars, askVars, runVars, endVars, bounds
<1>1. ASSUME pc[v] = "sent", cur'[v] = cur[v] PROVE copies'[cur'[v]] > 0
  BY <1>1, CopiesGrow DEF SentArrived
<1>2. ASSUME NEW w \in Worker, SendOK(w) PROVE copies'[cur'[v]] > 0
  <2>1. CASE v = w
    BY <1>2, <2>1 DEF SendOK, Arrive, CopiesCap
  <2>2. CASE v # w
    BY <1>1, <1>2, <2>2 DEF SendOK
  <2> QED
    BY <2>1, <2>2
<1>3. ASSUME NEW w \in Worker, Attempt(w), ~SendOK(w) PROVE copies'[cur'[v]] > 0
  <2>1. pc[v] = "sent" /\ cur'[v] = cur[v]
    BY <1>3 DEF Attempt, StartAttempt, SendFails, RecordSent, RecordFail, GiveUp, Retry,
                LetBe
  <2> QED
    BY <1>1, <2>1
<1>4. ASSUME NEW m \in Message, Connect(m) \/ Handler(m), ~Attempt(m) PROVE copies'[cur'[v]] > 0
  <2>1. pc[v] = "sent" /\ cur'[v] = cur[v]
    BY <1>4 DEF Connect, Handler, EnqueueRefused, EnqueueListFails, EnqueueBegin,
       EnqueueWrite, EnqueueWriteFails, EnqueueEnd, Answer, DeliverNow, DeliverNowFails,
       AnswerWait
  <2> QED
    BY <1>1, <2>1
<1>5. CASE LoopStep /\ ~Attempt(Loop)
  <2>1. pc[v] = "sent" /\ cur'[v] = cur[v]
    BY <1>5 DEF LoopStep, LoopWake, LoopScan, LoopScanFails, LoopPassEnd, LoopExit
  <2> QED
    BY <1>1, <2>1
<1>6. CASE MainStep /\ ~Attempt(Main)
  <2>1. pc[v] = "sent" /\ cur'[v] = cur[v]
    <3>1. ~Exit
      BY DEF Exit, Halt, InFlight
    <3> QED
      BY <1>6, <3>1 DEF MainStep, CloseIngress, FlushBegin, FlushFails, FlushEnd
  <2> QED
    BY <1>1, <2>1
<1>7. CASE Signal \/ GraceExpires \/ Crash \/ Restart \/ Tick
  <2>1. pc[v] = "sent" /\ cur'[v] = cur[v]
    <3>1. ~Crash
      BY DEF Crash, Halt, InFlight
    <3> QED
      BY <1>7, <3>1 DEF Signal, GraceExpires, Restart, Tick
  <2> QED
    BY <1>1, <2>1
<1>8. CASE UNCHANGED vars
  BY <1>1, <1>8 DEF vars
<1> QED
  BY <1>2, <1>3, <1>4, <1>5, <1>6, <1>7, <1>8 DEF Next, Handler, LoopStep, MainStep

LEMMA WrittenStays == LossInv /\ [Next]_vars => WrittenOK'
<1> SUFFICES ASSUME LossInv, [Next]_vars, NEW n \in Message
             PROVE  /\ PastEnqueue(n)' => Written(n)'
                    /\ pc'[n] = "writing" =>
                          \A d \in DestsOf[n] : d \in todo'[n] \/ Accounted(<<n, d>>)'
  BY DEF WrittenOK
<1> USE DEF TypeInv, TypeOK, InHand, Go, Tell, Worker, Told,
            boxVars, jobVars, askVars, runVars, endVars, bounds
<1>0. TypeInv
  BY DEF LossInv
<1>1. \A d \in DestsOf[n] : <<n, d>> \in Id /\ (Accounted(<<n, d>>) => Accounted(<<n, d>>)')
  BY IdsType, AccountedStays DEF Ids, LossInv
<1>2. Written(n) => Written(n)'
  BY <1>1 DEF Written
(* Most steps leave a request where it is, or behind Enqueue.              *)
<1>3. ASSUME PastEnqueue(n)' => PastEnqueue(n),
             pc'[n] = "writing" => pc[n] = "writing" /\ todo'[n] = todo[n]
      PROVE  /\ PastEnqueue(n)' => Written(n)'
             /\ pc'[n] = "writing" => \A d \in DestsOf[n] : d \in todo'[n] \/ Accounted(<<n, d>>)'
  BY <1>1, <1>2, <1>3 DEF LossInv, WrittenOK
<1>4. ASSUME NEW w \in Worker, Attempt(w)
      PROVE  /\ PastEnqueue(n)' => PastEnqueue(n)
             /\ pc'[n] = "writing" => pc[n] = "writing" /\ todo'[n] = todo[n]
  BY <1>0, <1>4 DEF Attempt, StartAttempt, SendOK, SendFails, RecordSent, RecordFail, GiveUp, Retry,
              LetBe, PastEnqueue
<1>5. ASSUME NEW m \in Message,
             \/ Connect(m) \/ EnqueueRefused(m) \/ EnqueueListFails(m) \/ EnqueueWriteFails(m)
             \/ Answer(m) \/ DeliverNow(m) \/ DeliverNowFails(m) \/ AnswerWait(m)
      PROVE  /\ PastEnqueue(n)' => PastEnqueue(n)
             /\ pc'[n] = "writing" => pc[n] = "writing" /\ todo'[n] = todo[n]
  BY <1>0, <1>5 DEF Connect, EnqueueRefused, EnqueueListFails, EnqueueWriteFails, Answer, DeliverNow,
              DeliverNowFails, AnswerWait, PastEnqueue
<1>6. ASSUME NEW m \in Message, EnqueueBegin(m)
      PROVE  /\ PastEnqueue(n)' => PastEnqueue(n)
             /\ pc'[n] = "writing" => (pc[n] = "writing" /\ todo'[n] = todo[n])
                                      \/ todo'[n] = DestsOf[n]
  BY <1>0, <1>6 DEF EnqueueBegin, PastEnqueue
<1>7. ASSUME NEW m \in Message, NEW d \in DestsOf[m], EnqueueWrite(m, d)
      PROVE  /\ PastEnqueue(n)' => PastEnqueue(n)
             /\ pc'[n] = "writing" => /\ pc[n] = "writing"
                                      /\ \A e \in todo[n] : e \in todo'[n] \/ Accounted(<<n, e>>)'
  BY <1>0, <1>7 DEF EnqueueWrite, WriteEntry, PastEnqueue, Accounted
<1>8. ASSUME NEW m \in Message, EnqueueEnd(m)
      PROVE  /\ PastEnqueue(n)' => PastEnqueue(n) \/ (pc[n] = "writing" /\ todo[n] = {})
             /\ pc'[n] = "writing" => pc[n] = "writing" /\ todo'[n] = todo[n]
  BY <1>0, <1>8 DEF EnqueueEnd, PastEnqueue
<1>9. ASSUME \/ LoopStep /\ ~Attempt(Loop)
             \/ MainStep /\ ~Attempt(Main)
             \/ Signal \/ GraceExpires \/ Crash \/ Restart \/ Tick \/ UNCHANGED vars
      PROVE  /\ PastEnqueue(n)' => PastEnqueue(n)
             /\ pc'[n] = "writing" => pc[n] = "writing" /\ todo'[n] = todo[n]
  <2>1. CASE LoopStep /\ ~Attempt(Loop)
    BY <1>0, <2>1, DeliveryAssumption
       DEF LoopStep, LoopWake, LoopScan, LoopScanFails, LoopPassEnd, LoopExit, PastEnqueue
  <2>2. CASE CloseIngress \/ FlushBegin \/ FlushFails \/ FlushEnd
    BY <1>0, <2>2, DeliveryAssumption DEF CloseIngress, FlushBegin, FlushFails, FlushEnd, PastEnqueue
  <2>3. CASE Exit \/ Crash
    BY <1>0, <2>3 DEF Exit, Crash, Halt, InFlight, PastEnqueue
  <2>4. CASE Signal \/ GraceExpires \/ Restart \/ Tick
    BY <1>0, <2>4, DeliveryAssumption DEF Signal, GraceExpires, Restart, Tick, PastEnqueue
  <2>5. CASE UNCHANGED vars
    BY <1>0, <2>5 DEF vars, PastEnqueue
  <2> QED
    BY <1>9, <2>1, <2>2, <2>3, <2>4, <2>5 DEF MainStep
<1>10. CASE \E m \in Message : Connect(m) \/ Handler(m)
  <2>1. PICK m \in Message : Connect(m) \/ Handler(m)
    BY <1>10
  <2>2. CASE EnqueueBegin(m)
    BY <1>1, <1>2, <1>6, <2>2 DEF LossInv, WrittenOK
  <2>3. CASE \E d \in DestsOf[m] : EnqueueWrite(m, d)
    BY <1>1, <1>2, <1>7, <2>3 DEF LossInv, WrittenOK
  <2>4. CASE EnqueueEnd(m)
    BY <1>1, <1>2, <1>8, <2>4 DEF LossInv, WrittenOK, Written
  <2> QED
    BY <1>3, <1>4, <1>5, <2>1, <2>2, <2>3, <2>4 DEF Handler
<1> QED
  BY <1>3, <1>4, <1>9, <1>10 DEF Next, LoopStep, MainStep

LEMMA LossInvariant == SafeSpec => []LossInv
<1>1. LossInv /\ [Next]_vars => LossInv'
  BY NextType, SentStays, WrittenStays DEF LossInv
<1> QED
  BY <1>1, InitLoss, PTL DEF SafeSpec

(* A caller who was told that its message is queued is not let down,       *)
(* whatever crashes, fails or races.                                       *)
THEOREM NothingIsLost == SafeSpec => []NothingLost
<1>1. LossInv => NothingLost
  BY DEF LossInv, WrittenOK, PastEnqueue, Written, Accounted, NothingLost, Ids
<1> QED
  BY <1>1, LossInvariant, PTL
-----------------------------------------------------------------------------
(* The bound.  What counts is what is held and what the handler under the  *)
(* lock has still to write: one begins only with the lock free, when that  *)
(* is what is held, and everything else leaves it or takes from it.        *)

Claimed == held \cup {id \in Id : pc[id[1]] = "writing" /\ id[2] \in todo[id[1]]}

BoundInv == IsFiniteSet(Claimed) /\ Cardinality(Claimed) <= OutboxMax

LEMMA ClaimedBegins ==
  ASSUME TypeInv, NEW m \in Message, EnqueueBegin(m)
  PROVE  Claimed' \subseteq held \cup Ids(m) /\ Claimed = held /\ HasRoom(m)
  BY DEF EnqueueBegin, Claimed, LockFree, Ids, Id, Go, TypeInv, TypeOK, Worker, boxVars

LEMMA ClaimedShrinks ==
  ASSUME TypeInv, [Next]_vars, \A m \in Message : ~EnqueueBegin(m)
  PROVE  Claimed' \subseteq Claimed
<1> SUFFICES ASSUME NEW id \in Claimed' PROVE id \in Claimed
  OBVIOUS
<1> USE DEF Claimed, Id, Go, Tell, TypeInv, TypeOK, BoxTypeOK, Worker,
            boxVars, jobVars, askVars, runVars, endVars, bounds
<1>1. ASSUME NEW w \in Worker, Attempt(w) PROVE id \in Claimed
  <2>1. CASE (\E o \in due[w] : StartAttempt(w, o)) \/ SendOK(w) \/ SendFails(w)
    BY <2>1 DEF StartAttempt, SendOK, SendFails
  <2>2. CASE RecordSent(w)
    BY <2>2 DEF RecordSent, RemoveEntry
  <2>3. CASE RecordFail(w)
    BY <2>3 DEF RecordFail, GiveUp, Retry, LetBe, RemoveEntry, Reschedule, WriteEntry
  <2> QED
    BY <1>1, <2>1, <2>2, <2>3 DEF Attempt
<1>2. ASSUME NEW m \in Message, NEW d \in DestsOf[m], EnqueueWrite(m, d) PROVE id \in Claimed
  BY <1>2, OutboxAssumption DEF EnqueueWrite, WriteEntry
<1>3. ASSUME NEW m \in Message, Connect(m) \/ Handler(m) PROVE id \in Claimed
  BY <1>1, <1>2, <1>3 DEF Connect, Handler, EnqueueRefused, EnqueueListFails,
     EnqueueWriteFails, EnqueueEnd, Answer, DeliverNow, DeliverNowFails, AnswerWait
<1>4. CASE LoopStep
  BY <1>1, <1>4, DeliveryAssumption
     DEF LoopStep, LoopWake, LoopScan, LoopScanFails, LoopPassEnd, LoopExit
<1>5. CASE MainStep
  BY <1>1, <1>5, DeliveryAssumption
     DEF MainStep, CloseIngress, FlushBegin, FlushFails, FlushEnd, Exit, Halt
<1>6. CASE Signal \/ GraceExpires \/ Crash \/ Restart \/ Tick
  BY <1>6, DeliveryAssumption DEF Signal, GraceExpires, Crash, Halt, Restart, Tick, Elapse
<1>7. CASE UNCHANGED vars
  BY <1>7 DEF vars
<1> QED
  BY <1>3, <1>4, <1>5, <1>6, <1>7 DEF Next

(* A message has as many entries as destinations.                          *)
LEMMA IdsFinite ==
  ASSUME NEW m \in Message
  PROVE  IsFiniteSet(Ids(m)) /\ Cardinality(Ids(m)) = Cardinality(DestsOf[m])
<1> DEFINE f == [d \in DestsOf[m] |-> <<m, d>>]
<1>1. f \in Bijection(DestsOf[m], Ids(m))
  <2>1. f \in [DestsOf[m] -> Ids(m)]
    BY DEF Ids
  <2>2. \A c, d \in DestsOf[m] : f[c] = f[d] => c = d
    OBVIOUS
  <2>3. \A id \in Ids(m) : \E d \in DestsOf[m] : f[d] = id
    BY DEF Ids
  <2> QED
    BY <2>1, <2>2, <2>3 DEF Bijection, Injection, IsInjective, Surjection
<1>2. IsFiniteSet(DestsOf[m])
  BY OutboxAssumption
<1> QED
  BY <1>1, <1>2, FS_Bijection DEF ExistsBijection

LEMMA BoundStep == TypeInv /\ BoundInv /\ [Next]_vars => BoundInv'
<1> SUFFICES ASSUME TypeInv, BoundInv, [Next]_vars PROVE BoundInv'
  OBVIOUS
<1>1. ASSUME NEW m \in Message, EnqueueBegin(m) PROVE BoundInv'
  <2>1. Claimed' \subseteq held \cup Ids(m) /\ Claimed = held /\ HasRoom(m)
    BY <1>1, ClaimedBegins
  <2>2. IsFiniteSet(held) /\ IsFiniteSet(Ids(m)) /\ Cardinality(Ids(m)) = Cardinality(DestsOf[m])
    BY <2>1, IdsFinite DEF BoundInv
  <2>3. /\ IsFiniteSet(held \cup Ids(m))
        /\ Cardinality(held \cup Ids(m)) <= Cardinality(held) + Cardinality(Ids(m))
    <3>1. /\ IsFiniteSet(held \cup Ids(m)) /\ IsFiniteSet(held \cap Ids(m))
          /\ Cardinality(held \cup Ids(m))
               = Cardinality(held) + Cardinality(Ids(m)) - Cardinality(held \cap Ids(m))
      BY <2>2, FS_Union, FS_Intersection
    <3>2. Cardinality(held) \in Nat /\ Cardinality(Ids(m)) \in Nat /\ Cardinality(held \cap Ids(m)) \in Nat
      BY <2>2, <3>1, FS_CardinalityType
    <3> QED
      BY <3>1, <3>2
  <2>4. IsFiniteSet(Claimed') /\ Cardinality(Claimed') <= Cardinality(held \cup Ids(m))
    BY <2>1, <2>3, FS_Subset
  <2>5. Cardinality(held) + Cardinality(Ids(m)) <= OutboxMax
    BY <2>1, <2>2 DEF HasRoom
  <2>6. /\ Cardinality(Claimed') \in Nat /\ Cardinality(held \cup Ids(m)) \in Nat
        /\ Cardinality(held) \in Nat /\ Cardinality(Ids(m)) \in Nat
    BY <2>2, <2>3, <2>4, FS_CardinalityType
  <2> QED
    BY <2>3, <2>4, <2>5, <2>6, OutboxAssumption DEF BoundInv
<1>2. CASE \A m \in Message : ~EnqueueBegin(m)
  <2>1. IsFiniteSet(Claimed') /\ Cardinality(Claimed') <= Cardinality(Claimed)
    BY <1>2, ClaimedShrinks, FS_Subset DEF BoundInv
  <2>2. Cardinality(Claimed) \in Nat /\ Cardinality(Claimed') \in Nat
    BY <2>1, FS_CardinalityType DEF BoundInv
  <2> QED
    BY <2>1, <2>2, OutboxAssumption DEF BoundInv
<1> QED
  BY <1>1, <1>2

(* The directory never holds more than its bound, for any number of        *)
(* requests and any fan-out: one handler's look at what is held and its    *)
(* writes are not divided by another's.                                    *)
THEOREM NeverTooMany == SafeSpec => []WithinBound
<1>1. Init => BoundInv
  <2> SUFFICES ASSUME Init PROVE Claimed = {}
    BY FS_EmptySet, OutboxAssumption DEF BoundInv
  <2> QED
    BY DeliveryAssumption DEF Init, BoxInit, Claimed, Id, Worker
<1>2. BoundInv => WithinBound
  <2> SUFFICES ASSUME BoundInv PROVE WithinBound
    OBVIOUS
  <2>1. held \subseteq Claimed
    BY DEF Claimed
  <2>2. IsFiniteSet(held) /\ Cardinality(held) <= Cardinality(Claimed)
    BY <2>1, FS_Subset DEF BoundInv
  <2>3. Cardinality(held) \in Nat /\ Cardinality(Claimed) \in Nat
    BY <2>2, FS_CardinalityType DEF BoundInv
  <2> QED
    BY <2>2, <2>3, OutboxAssumption DEF BoundInv, WithinBound
<1>3. SafeSpec => [](TypeInv /\ BoundInv)
  BY <1>1, InitType, NextType, BoundStep, PTL DEF SafeSpec
<1> QED
  BY <1>2, <1>3, PTL
-----------------------------------------------------------------------------
(* Nothing comes back.  What no handler has written yet, and will not have *)
(* written once its caller was told "full", no worker has ever had.        *)

Unwritten(id) ==
    LET m == id[1]
    IN  \/ pc[m] \in {"new", "accepted"}
        \/ pc[m] = "writing" /\ id[2] \in todo[m]
        \/ answer[m] = "full"

Untouched(id) ==
    /\ id \notin held /\ copies[id] = 0 /\ id \notin dropped
    /\ \A w \in Worker : id \notin due[w] /\ (pc[w] \in InHand => cur[w] # id)

(* A request that has its answer is over.                                  *)
AnsweredEnds == \A m \in Message : answer[m] # "none" => pc[m] = "end"

FreshInv == AnsweredEnds /\ \A id \in Id : Unwritten(id) => Untouched(id)

LEMMA InitFresh == Init => FreshInv
  BY DeliveryAssumption DEF Init, BoxInit, FreshInv, AnsweredEnds, Unwritten, Untouched, InHand, Worker, Id

(* A request never goes back before its writes.                            *)
LEMMA UnwrittenBefore ==
  ASSUME TypeInv, AnsweredEnds, [Next]_vars
  PROVE  AnsweredEnds' /\ \A id \in Id : Unwritten(id)' => Unwritten(id)
<1> SUFFICES ASSUME NEW n \in Message
             PROVE  /\ answer'[n] # "none" => pc'[n] = "end"
                    /\ \A d \in Destination : Unwritten(<<n, d>>)' => Unwritten(<<n, d>>)
  BY DEF AnsweredEnds, Id
<1> DEFINE Goal == /\ answer'[n] # "none" => pc'[n] = "end"
                   /\ \A d \in Destination : Unwritten(<<n, d>>)' => Unwritten(<<n, d>>)
<1> USE DEF AnsweredEnds, Unwritten, Go, Tell, TypeInv, TypeOK, Worker, InHand,
            boxVars, jobVars, askVars, runVars, endVars, bounds
<1>1. ASSUME NEW w \in Worker, Attempt(w) PROVE Goal
  BY <1>1 DEF Attempt, StartAttempt, SendOK, SendFails, RecordSent, RecordFail, GiveUp, Retry, LetBe
<1>2. ASSUME NEW m \in Message, Connect(m) \/ EnqueueBegin(m) \/ EnqueueEnd(m) PROVE Goal
  BY <1>2 DEF Connect, EnqueueBegin, EnqueueEnd
<1>3. ASSUME NEW m \in Message, NEW d \in DestsOf[m], EnqueueWrite(m, d) PROVE Goal
  BY <1>3 DEF EnqueueWrite
<1>4. ASSUME NEW m \in Message, EnqueueRefused(m) \/ EnqueueListFails(m) \/ EnqueueWriteFails(m)
      PROVE  Goal
  BY <1>4 DEF EnqueueRefused, EnqueueListFails, EnqueueWriteFails
<1>5. ASSUME NEW m \in Message, Answer(m) \/ DeliverNow(m) \/ DeliverNowFails(m) \/ AnswerWait(m)
      PROVE  Goal
  BY <1>5 DEF Answer, DeliverNow, DeliverNowFails, AnswerWait
<1>6. CASE \E m \in Message : Connect(m) \/ Handler(m)
  BY <1>1, <1>2, <1>3, <1>4, <1>5, <1>6 DEF Handler
<1>7. CASE LoopStep
  BY <1>1, <1>7, DeliveryAssumption
     DEF LoopStep, LoopWake, LoopScan, LoopScanFails, LoopPassEnd, LoopExit
<1>8. CASE Exit \/ Crash
  BY <1>8 DEF Exit, Crash, Halt, InFlight
<1>9. CASE MainStep
  BY <1>1, <1>8, <1>9, DeliveryAssumption
     DEF MainStep, CloseIngress, FlushBegin, FlushFails, FlushEnd
<1>10. CASE Signal \/ GraceExpires \/ Restart \/ Tick
  BY <1>10, DeliveryAssumption DEF Signal, GraceExpires, Restart, Tick
<1>11. CASE UNCHANGED vars
  BY <1>11 DEF vars
<1> QED
  BY <1>6, <1>7, <1>8, <1>9, <1>10, <1>11 DEF Next

(* Only Enqueue puts an entry there that was not.                          *)
LEMMA OnlyEnqueueAdds ==
  ASSUME TypeInv, [Next]_vars, NEW id \in held', id \notin held
  PROVE  \E m \in Message : \E d \in DestsOf[m] : EnqueueWrite(m, d) /\ id = <<m, d>>
<1> USE DEF boxVars, jobVars, askVars, runVars, endVars, bounds
<1>1. ASSUME NEW w \in Worker PROVE ~Attempt(w)
  BY DEF Attempt, StartAttempt, SendOK, SendFails, RecordSent, RecordFail, GiveUp, Retry, LetBe,
         RemoveEntry, Reschedule, WriteEntry
<1>2. ~LoopStep
  BY <1>1 DEF LoopStep, LoopWake, LoopScan, LoopScanFails, LoopPassEnd, LoopExit, Worker
<1>3. ~MainStep
  BY <1>1 DEF MainStep, CloseIngress, FlushBegin, FlushFails, FlushEnd, Exit, Halt, Worker
<1>4. ~(Signal \/ GraceExpires \/ Crash \/ Restart \/ Tick)
  BY DEF Signal, GraceExpires, Crash, Halt, Restart, Tick, Elapse
<1>5. PICK m \in Message : Connect(m) \/ Handler(m)
  BY <1>2, <1>3, <1>4 DEF Next, vars
<1>6. \E d \in DestsOf[m] : EnqueueWrite(m, d)
  BY <1>1, <1>5 DEF Connect, Handler, EnqueueRefused, EnqueueListFails, EnqueueBegin,
     EnqueueWriteFails, EnqueueEnd, Answer, DeliverNow, DeliverNowFails, AnswerWait, Worker
<1> QED
  BY <1>6 DEF EnqueueWrite, WriteEntry

(* Any other step leaves an entry alone that nobody has touched.           *)
LEMMA UntouchedStays ==
  ASSUME TypeInv, [Next]_vars, NEW id \in Id, Untouched(id), id \notin held'
  PROVE  Untouched(id)'
<1> USE DEF Untouched, InHand, Go, Tell, TypeInv, TypeOK, BoxTypeOK,
            boxVars, jobVars, askVars, runVars, endVars, bounds
<1>1. ASSUME NEW w \in Worker, Attempt(w) PROVE Untouched(id)'
  <2>1. CASE \E o \in due[w] : StartAttempt(w, o)
    BY <2>1 DEF StartAttempt
  <2>2. CASE SendOK(w) \/ SendFails(w)
    BY <2>2 DEF SendOK, SendFails, Arrive
  <2>3. CASE RecordSent(w) \/ RecordFail(w)
    BY <2>3 DEF RecordSent, RecordFail, GiveUp, Retry, LetBe
  <2> QED
    BY <1>1, <2>1, <2>2, <2>3 DEF Attempt
<1>2. ASSUME NEW m \in Message, Connect(m) \/ Handler(m) PROVE Untouched(id)'
  <2>1. CASE DeliverNow(m)
    BY <2>1 DEF DeliverNow, Due, Worker
  <2> QED
    BY <1>1, <1>2, <2>1 DEF Connect, Handler, EnqueueRefused, EnqueueListFails, EnqueueBegin,
       EnqueueWrite, EnqueueWriteFails, EnqueueEnd, Answer, DeliverNowFails, AnswerWait, Worker
<1>3. CASE LoopStep
  BY <1>1, <1>3 DEF LoopStep, LoopWake, LoopScan, LoopScanFails, LoopPassEnd, LoopExit, Due, Worker
<1>4. CASE Exit \/ Crash
  BY <1>4 DEF Exit, Crash, Halt, InFlight
<1>5. CASE MainStep
  BY <1>1, <1>4, <1>5 DEF MainStep, CloseIngress, FlushBegin, FlushFails, FlushEnd, Due, Worker
<1>6. CASE Signal \/ GraceExpires \/ Restart \/ Tick
  BY <1>6 DEF Signal, GraceExpires, Restart, Tick
<1>7. CASE UNCHANGED vars
  BY <1>7 DEF vars
<1> QED
  BY <1>2, <1>3, <1>4, <1>5, <1>6, <1>7 DEF Next

LEMMA FreshStep == TypeInv /\ FreshInv /\ [Next]_vars => FreshInv'
<1> SUFFICES ASSUME TypeInv, FreshInv, [Next]_vars, NEW id \in Id, Unwritten(id)'
             PROVE  Untouched(id)'
  BY UnwrittenBefore DEF FreshInv
<1>1. Untouched(id)
  BY UnwrittenBefore DEF FreshInv
<1>2. id \notin held'
  <2> SUFFICES ASSUME id \in held' PROVE FALSE
    OBVIOUS
  <2>1. PICK m \in Message : \E d \in DestsOf[m] : EnqueueWrite(m, d) /\ id = <<m, d>>
    BY <1>1, OnlyEnqueueAdds DEF Untouched
  <2> QED
    BY <2>1 DEF EnqueueWrite, Unwritten, FreshInv, AnsweredEnds, TypeInv, TypeOK, jobVars
<1> QED
  BY <1>1, <1>2, UntouchedStays

LEMMA FreshInvariant == SafeSpec => [](TypeInv /\ FreshInv)
  BY InitType, InitFresh, NextType, FreshStep, PTL DEF SafeSpec

(* An entry that was cleared is never put back, by however many workers,   *)
(* over crashes, failing file operations and sends that lie.               *)
THEOREM NothingComesBack == SafeSpec => NoResurrection
<1> DEFINE Step == \A id \in held' \ held : copies[id] = 0 /\ id \notin dropped
<1>1. TypeInv /\ FreshInv /\ [Next]_vars => Step
  <2> SUFFICES ASSUME TypeInv, FreshInv, [Next]_vars, NEW id \in held' \ held
               PROVE  copies[id] = 0 /\ id \notin dropped
    OBVIOUS
  <2>1. PICK m \in Message : \E d \in DestsOf[m] : EnqueueWrite(m, d) /\ id = <<m, d>>
    BY OnlyEnqueueAdds
  <2>2. id \in Id /\ Unwritten(id)
    BY <2>1, IdsType DEF EnqueueWrite, Unwritten, Ids
  <2> QED
    BY <2>2 DEF FreshInv, Untouched
<1>2. SafeSpec => [][Step]_vars
  BY <1>1, FreshInvariant, PTL DEF SafeSpec
<1> QED
  BY <1>2 DEF NoResurrection
-----------------------------------------------------------------------------
(* What a waiting caller is told.  The entries its handler is through with *)
(* and that have arrived are at least as many as it has counted.           *)

Through(m) ==
    {id \in Ids(m) : /\ copies[id] > 0 /\ id \notin due[m]
                     /\ pc[m] \in InHand => cur[m] # id}

Its(m) ==
    /\ due[m] \subseteq Ids(m)
    /\ pc[m] \in InHand => cur[m] \in Ids(m) \ due[m]
    /\ pc[m] \in {"new", "accepted", "writing", "queued"} => said[m] = 0

CountOK(m) == said[m] <= Cardinality(Through(m))

CountInv == \A m \in Message : Its(m) /\ CountOK(m)

LEMMA InitCount == Init => CountInv
<1> SUFFICES ASSUME Init, NEW m \in Message PROVE Its(m) /\ CountOK(m)
  BY DEF CountInv
<1>1. Through(m) = {}
  BY IdsType DEF Init, Through
<1> QED
  BY <1>1, FS_EmptySet DEF Init, Its, CountOK, InHand, Worker

(* What a handler has in hand is of its own message.                       *)
LEMMA ItsStays ==
  ASSUME TypeInv, CountInv, [Next]_vars, NEW n \in Message
  PROVE  Its(n)'
<1> USE DEF CountInv, Its, Ids, InHand, Go, Tell, TypeInv, TypeOK, Worker,
            boxVars, jobVars, askVars, runVars, endVars, bounds
<1>1. ASSUME NEW w \in Worker, Attempt(w) PROVE Its(n)'
  <2>1. CASE \E o \in due[w] : StartAttempt(w, o)
    BY <2>1 DEF StartAttempt
  <2>2. CASE SendOK(w) \/ SendFails(w)
    BY <2>2 DEF SendOK, SendFails
  <2>3. CASE RecordSent(w)
    BY <2>3 DEF RecordSent
  <2>4. CASE RecordFail(w)
    BY <2>4 DEF RecordFail
  <2> QED
    BY <1>1, <2>1, <2>2, <2>3, <2>4 DEF Attempt
<1>2. ASSUME NEW m \in Message, Connect(m) \/ Handler(m) PROVE Its(n)'
  <2>1. CASE Connect(m) \/ EnqueueBegin(m) \/ EnqueueEnd(m) \/ \E d \in DestsOf[m] : EnqueueWrite(m, d)
    BY <2>1 DEF Connect, EnqueueBegin, EnqueueEnd, EnqueueWrite
  <2>2. CASE EnqueueRefused(m) \/ EnqueueListFails(m) \/ EnqueueWriteFails(m) \/ Answer(m) \/ AnswerWait(m)
    BY <2>2 DEF EnqueueRefused, EnqueueListFails, EnqueueWriteFails, Answer, AnswerWait
  <2>3. CASE DeliverNow(m) \/ DeliverNowFails(m)
    BY <2>3 DEF DeliverNow, DeliverNowFails
  <2> QED
    BY <1>1, <1>2, <2>1, <2>2, <2>3 DEF Handler
<1>3. CASE LoopStep
  BY <1>1, <1>3, DeliveryAssumption
     DEF LoopStep, LoopWake, LoopScan, LoopScanFails, LoopPassEnd, LoopExit
<1>4. CASE Exit \/ Crash
  BY <1>4 DEF Exit, Crash, Halt, InFlight
<1>5. CASE MainStep
  BY <1>1, <1>4, <1>5, DeliveryAssumption
     DEF MainStep, CloseIngress, FlushBegin, FlushFails, FlushEnd
<1>6. CASE Signal \/ GraceExpires \/ Restart \/ Tick
  BY <1>6, DeliveryAssumption DEF Signal, GraceExpires, Restart, Tick
<1>7. CASE UNCHANGED vars
  BY <1>7 DEF vars
<1> QED
  BY <1>2, <1>3, <1>4, <1>5, <1>6, <1>7 DEF Next

(* No step but its own reading of what is due takes an entry from those a  *)
(* handler is through with, and only Done after a send counts one.         *)
LEMMA ThroughGrows ==
  ASSUME TypeInv, CountInv, [Next]_vars, NEW n \in Message, ~DeliverNow(n), ~RecordSent(n)
  PROVE  said'[n] = said[n] /\ Through(n) \subseteq Through(n)'
<1> DEFINE Goal == /\ said'[n] = said[n] /\ due'[n] \subseteq due[n]
                   /\ pc'[n] \in InHand => \/ pc[n] \in InHand /\ cur'[n] = cur[n]
                                           \/ cur'[n] \in due[n]
<1>0. \A id \in Ids(n) : copies[id] > 0 => copies'[id] > 0
  BY CopiesGrow, IdsType
<1> SUFFICES Goal
  BY <1>0 DEF Through, Ids
<1> USE DEF InHand, Go, Tell, TypeInv, TypeOK, Worker,
            boxVars, jobVars, askVars, runVars, endVars, bounds
<1>1. ASSUME NEW w \in Worker, Attempt(w) PROVE Goal
  <2>1. CASE \E o \in due[w] : StartAttempt(w, o)
    BY <2>1 DEF StartAttempt
  <2>2. CASE SendOK(w) \/ SendFails(w)
    BY <2>2 DEF SendOK, SendFails
  <2>3. CASE RecordSent(w)
    BY <2>3 DEF RecordSent
  <2>4. CASE RecordFail(w)
    BY <2>4 DEF RecordFail
  <2> QED
    BY <1>1, <2>1, <2>2, <2>3, <2>4 DEF Attempt
<1>2. ASSUME NEW m \in Message, Connect(m) \/ Handler(m) PROVE Goal
  <2>1. CASE Connect(m) \/ EnqueueBegin(m) \/ EnqueueEnd(m) \/ \E d \in DestsOf[m] : EnqueueWrite(m, d)
    BY <2>1 DEF Connect, EnqueueBegin, EnqueueEnd, EnqueueWrite
  <2>2. CASE EnqueueRefused(m) \/ EnqueueListFails(m) \/ EnqueueWriteFails(m) \/ Answer(m) \/ AnswerWait(m)
    BY <2>2 DEF EnqueueRefused, EnqueueListFails, EnqueueWriteFails, Answer, AnswerWait
  <2>3. CASE DeliverNow(m) \/ DeliverNowFails(m)
    BY <2>3 DEF DeliverNow, DeliverNowFails
  <2> QED
    BY <1>1, <1>2, <2>1, <2>2, <2>3 DEF Handler
<1>3. CASE LoopStep
  BY <1>1, <1>3, DeliveryAssumption
     DEF LoopStep, LoopWake, LoopScan, LoopScanFails, LoopPassEnd, LoopExit
<1>4. CASE Exit \/ Crash
  BY <1>4 DEF Exit, Crash, Halt, InFlight
<1>5. CASE MainStep
  BY <1>1, <1>4, <1>5, DeliveryAssumption
     DEF MainStep, CloseIngress, FlushBegin, FlushFails, FlushEnd
<1>6. CASE Signal \/ GraceExpires \/ Restart \/ Tick
  BY <1>6, DeliveryAssumption DEF Signal, GraceExpires, Restart, Tick
<1>7. CASE UNCHANGED vars
  BY <1>7 DEF vars
<1> QED
  BY <1>2, <1>3, <1>4, <1>5, <1>6, <1>7 DEF Next

LEMMA ThroughFinite ==
  ASSUME NEW m \in Message
  PROVE  IsFiniteSet(Through(m)) /\ IsFiniteSet(Through(m)')
<1>1. Through(m) \subseteq Ids(m) /\ Through(m)' \subseteq Ids(m)
  BY DEF Through, Ids
<1> QED
  BY <1>1, IdsFinite, FS_Subset

LEMMA CountStep == TypeInv /\ SentArrived /\ CountInv /\ [Next]_vars => CountInv'
<1> SUFFICES ASSUME TypeInv, SentArrived, CountInv, [Next]_vars, NEW n \in Message
             PROVE  CountOK(n)'
  BY ItsStays DEF CountInv
<1>1. /\ IsFiniteSet(Through(n)) /\ IsFiniteSet(Through(n)')
      /\ Cardinality(Through(n)) \in Nat /\ Cardinality(Through(n)') \in Nat
  BY ThroughFinite, FS_CardinalityType
<1>2. said[n] \in Nat
  BY DEF TypeInv, TypeOK
<1>3. CASE ~DeliverNow(n) /\ ~RecordSent(n)
  <2>1. said'[n] = said[n] /\ Through(n) \subseteq Through(n)'
    BY <1>3, ThroughGrows
  <2>2. Cardinality(Through(n)) <= Cardinality(Through(n)')
    BY <1>1, <2>1, FS_Subset
  <2> QED
    BY <1>1, <1>2, <2>1, <2>2 DEF CountInv, CountOK
<1>4. CASE DeliverNow(n)
  <2>1. said'[n] = 0
    BY <1>4 DEF DeliverNow, CountInv, Its, askVars
  <2> QED
    BY <1>1, <2>1 DEF CountOK
<1>5. CASE RecordSent(n)
  <2>1. cur[n] \in Ids(n) \ due[n] /\ cur[n] \notin Through(n) /\ copies[cur[n]] > 0
    BY <1>5 DEF RecordSent, CountInv, Its, InHand, Through, SentArrived, Worker
  <2>2. Through(n) \cup {cur[n]} \subseteq Through(n)'
    BY <1>5, <2>1 DEF RecordSent, Through, InHand, Go, TypeInv, TypeOK, Worker, endVars, Ids
  <2>3. Cardinality(Through(n) \cup {cur[n]}) = Cardinality(Through(n)) + 1
    BY <1>1, <2>1, FS_AddElement
  <2>4. Cardinality(Through(n) \cup {cur[n]}) <= Cardinality(Through(n)')
    BY <1>1, <2>2, FS_Subset
  <2>5. said'[n] = said[n] + 1
    BY <1>5, <1>2 DEF RecordSent, TypeInv, TypeOK
  <2> QED
    BY <1>1, <1>2, <2>3, <2>4, <2>5 DEF CountInv, CountOK
<1> QED
  BY <1>3, <1>4, <1>5

LEMMA CountInvariant == SafeSpec => []CountInv
<1>1. LossInv /\ CountInv /\ [Next]_vars => CountInv'
  BY CountStep DEF LossInv
<1> QED
  BY <1>1, InitCount, LossInvariant, PTL DEF SafeSpec

(* What a caller is told is true: "full" leaves nothing behind that could  *)
(* still arrive, and at least as many of a waiting caller's entries have   *)
(* arrived as it is told, whoever else was sending them.                   *)
THEOREM CallersAreToldTheTruth == SafeSpec => []AnswersAreTrue
<1>1. ASSUME TypeInv, FreshInv, CountInv PROVE AnswersAreTrue
  <2> SUFFICES ASSUME NEW m \in Message
               PROVE  /\ answer[m] = "full" =>
                            \A id \in Ids(m) : id \notin held /\ copies[id] = 0 /\ id \notin dropped
                      /\ said[m] <= Cardinality({id \in Ids(m) : copies[id] > 0})
    BY DEF AnswersAreTrue
  <2>1. answer[m] = "full" => \A id \in Ids(m) : Untouched(id)
    BY <1>1, IdsType DEF FreshInv, Unwritten, Ids
  <2> DEFINE Arrived == {id \in Ids(m) : copies[id] > 0}
  <2>2. IsFiniteSet(Arrived) /\ Cardinality(Arrived) \in Nat
    BY IdsFinite, FS_Subset, FS_CardinalityType
  <2>3. Cardinality(Through(m)) <= Cardinality(Arrived)
    BY <2>2, FS_Subset DEF Through
  <2>4. Cardinality(Through(m)) \in Nat
    BY ThroughFinite, FS_CardinalityType
  <2>5. said[m] <= Cardinality(Arrived)
    BY <1>1, <2>2, <2>3, <2>4 DEF CountInv, CountOK, TypeInv, TypeOK
  <2> QED
    BY <2>1, <2>5 DEF Untouched
<1> QED
  BY <1>1, CountInvariant, FreshInvariant, PTL
-----------------------------------------------------------------------------
(* One end for each entry.  Without a disturbance only the loop has an     *)
(* entry that no handler waits for: in its slice, or in its hand, is what  *)
(* is held and has had no end yet.                                         *)

OthersIdle ==
    /\ phase = "up" /\ pc[Main] = "off"
    /\ \A m \in Message \ WaitFor : pc[m] \notin {"pass"} \cup InHand

Ahead(id) == id \in due[Loop] \/ (pc[Loop] \in {"sending", "failed"} /\ cur[Loop] = id)
Behind(id) == pc[Loop] = "sent" /\ cur[Loop] = id

NoEnd(id) == id \in held /\ copies[id] = 0 /\ id \notin dropped

Ends(id) ==
    /\ Ahead(id) => NoEnd(id)
    /\ Behind(id) => copies[id] = 1 /\ id \notin dropped
    /\ id \in held => NoEnd(id) \/ Behind(id)
    /\ copies[id] <= 1 /\ (id \in dropped => copies[id] = 0)

SoloInv ==
    Undisturbed =>
        /\ OthersIdle
        /\ pc[Loop] \in InHand => cur[Loop] \notin due[Loop]
        /\ \A id \in Id : id[1] \notin WaitFor => Ends(id)

LEMMA InitSolo == Init => SoloInv
  BY DeliveryAssumption DEF Init, BoxInit, SoloInv, OthersIdle, Ends, Ahead, Behind, NoEnd, InHand,
                            Worker, Id

(* What a step disturbs stays disturbed.                                   *)
LEMMA StillUndisturbed ==
  ASSUME TypeInv, [Next]_vars, Undisturbed'
  PROVE  Undisturbed /\ stops' = stops /\ crashes' = crashes /\ faults' = faults
<1> USE DEF Undisturbed, TypeInv, TypeOK, Fault, NoFault, boxVars, jobVars, askVars, runVars, endVars, bounds
<1>1. ASSUME NEW w \in Worker, Attempt(w)
      PROVE  stops' = stops /\ crashes' = crashes /\ faults' \in {faults, faults + 1}
  BY <1>1 DEF Attempt, StartAttempt, SendOK, SendFails, RecordSent, RecordFail, GiveUp, Retry, LetBe
<1>2. ASSUME NEW m \in Message, Connect(m) \/ Handler(m)
      PROVE  stops' = stops /\ crashes' = crashes /\ faults' \in {faults, faults + 1}
  BY <1>1, <1>2 DEF Connect, Handler, EnqueueRefused, EnqueueListFails, EnqueueBegin, EnqueueWrite,
     EnqueueWriteFails, EnqueueEnd, Answer, DeliverNow, DeliverNowFails, AnswerWait, Worker
<1>3. CASE LoopStep
  BY <1>1, <1>3 DEF LoopStep, LoopWake, LoopScan, LoopScanFails, LoopPassEnd, LoopExit, Worker
<1>4. CASE MainStep
  BY <1>1, <1>4 DEF MainStep, CloseIngress, FlushBegin, FlushFails, FlushEnd, Exit, Halt, Worker
<1>5. CASE Signal \/ GraceExpires \/ Crash \/ Restart \/ Tick
  BY <1>5 DEF Signal, GraceExpires, Crash, Halt, Restart, Tick
<1>6. CASE UNCHANGED vars
  BY <1>6 DEF vars
<1> QED
  BY <1>2, <1>3, <1>4, <1>5, <1>6 DEF Next
(* The steps there are without a disturbance, and what they are steps of.  *)
LEMMA UndisturbedSteps ==
  ASSUME TypeInv, SoloInv, [Next]_vars, Undisturbed, Undisturbed'
  PROVE  \/ \E w \in WaitFor : Attempt(w)
         \/ Attempt(Loop)
         \/ \E m \in Message :
               \/ Connect(m) \/ EnqueueRefused(m) \/ EnqueueBegin(m)
               \/ \E d \in DestsOf[m] : EnqueueWrite(m, d)
               \/ EnqueueEnd(m) \/ Answer(m) \/ DeliverNow(m) \/ AnswerWait(m)
         \/ LoopWake \/ LoopScan \/ LoopPassEnd \/ Tick \/ UNCHANGED vars
<1>1. stops' = stops /\ crashes' = crashes /\ faults' = faults
  BY StillUndisturbed
<1> USE DEF SoloInv, OthersIdle, TypeInv, TypeOK, InHand, Fault
<1>2. ASSUME NEW w \in (Message \ WaitFor) \cup {Main} PROVE ~Attempt(w)
  BY <1>2 DEF Attempt, StartAttempt, SendOK, SendFails, RecordSent, RecordFail, Worker
<1>3. \A m \in Message : ~EnqueueListFails(m) /\ ~EnqueueWriteFails(m) /\ ~DeliverNowFails(m)
  BY <1>1 DEF EnqueueListFails, EnqueueWriteFails, DeliverNowFails
<1>4. ~LoopScanFails /\ ~LoopExit
  BY <1>1 DEF LoopScanFails, LoopExit
<1>5. ~MainStep
  BY <1>2 DEF MainStep, CloseIngress, FlushBegin, FlushFails, FlushEnd, Exit
<1>6. ~Signal /\ ~GraceExpires /\ ~Crash /\ ~Restart
  BY <1>1 DEF Signal, GraceExpires, Crash, Restart
<1> QED
  BY <1>2, <1>3, <1>4, <1>5, <1>6, DeliveryAssumption DEF Next, Handler, LoopStep

LEMMA SoloStep == TypeInv /\ CountInv /\ FreshInv /\ SoloInv /\ [Next]_vars => SoloInv'
<1> SUFFICES ASSUME TypeInv, CountInv, FreshInv, SoloInv, [Next]_vars, Undisturbed'
             PROVE  /\ OthersIdle'
                    /\ pc'[Loop] \in InHand => cur'[Loop] \notin due'[Loop]
                    /\ \A id \in Id : id[1] \notin WaitFor => Ends(id)'
  BY DEF SoloInv
<1>0. Undisturbed /\ faults' = faults
  BY StillUndisturbed
<1> DEFINE Goal(id) ==
        /\ OthersIdle'
        /\ pc'[Loop] \in InHand => cur'[Loop] \notin due'[Loop]
        /\ Ends(id)'
<1> DEFINE Good(id) == /\ OthersIdle'
                       /\ pc'[Loop] \in InHand => cur'[Loop] \notin due'[Loop]
                       /\ id \in Id /\ id[1] \notin WaitFor => Ends(id)'
<1> SUFFICES ASSUME NEW id PROVE Good(id)
  OBVIOUS
<1>1. id \in Id /\ id[1] \notin WaitFor => Ends(id)
  BY <1>0 DEF SoloInv
<1>2. OthersIdle /\ (pc[Loop] \in InHand => cur[Loop] \notin due[Loop])
  BY <1>0 DEF SoloInv
<1> USE <1>1, <1>2, DeliveryAssumption
    DEF OthersIdle, Ends, Ahead, Behind, NoEnd, InHand, Go, Tell, TypeInv, TypeOK, BoxTypeOK, Worker,
        boxVars, jobVars, askVars, runVars, endVars, bounds
<1>3. ASSUME NEW w \in WaitFor, Attempt(w)
      PROVE  Good(id)
  <2>1. pc[w] \in InHand /\ id \in Id /\ id[1] \notin WaitFor => cur[w] # id
    BY DEF CountInv, Its, Ids
  <2>2. CASE \E o \in due[w] : StartAttempt(w, o)
    BY <2>2 DEF StartAttempt
  <2>3. CASE SendOK(w) \/ SendFails(w)
    BY <2>1, <2>3 DEF SendOK, SendFails, Arrive
  <2>4. CASE RecordSent(w)
    BY <2>1, <2>4 DEF RecordSent, RemoveEntry
  <2>5. CASE RecordFail(w)
    BY <2>1, <2>5 DEF RecordFail, GiveUp, Retry, LetBe, RemoveEntry, Reschedule, WriteEntry
  <2> QED
    BY <1>3, <2>2, <2>3, <2>4, <2>5 DEF Attempt
<1>4. ASSUME Attempt(Loop)
      PROVE  Good(id)
  <2>2. CASE \E o \in due[Loop] : StartAttempt(Loop, o)
    BY <2>2 DEF StartAttempt
  <2>3. CASE SendOK(Loop) \/ SendFails(Loop)
    BY <1>0, <2>3 DEF SendOK, SendFails, Arrive, Undisturbed, CopiesCap
  <2>4. CASE RecordSent(Loop)
    BY <1>0, <2>4 DEF RecordSent, RemoveEntry, Fault
  <2>5. CASE RecordFail(Loop)
    BY <1>0, <2>5 DEF RecordFail, GiveUp, Retry, LetBe, RemoveEntry, Reschedule, WriteEntry, Fault
  <2> QED
    BY <1>4, <2>2, <2>3, <2>4, <2>5 DEF Attempt
<1>5. ASSUME NEW m \in Message, NEW d \in DestsOf[m], EnqueueWrite(m, d)
      PROVE  Good(id)
  <2>1. id \in Id /\ id = <<m, d>> => Untouched(id)
    BY <1>5 DEF EnqueueWrite, FreshInv, Unwritten
  <2> QED
    BY <1>5, <2>1 DEF EnqueueWrite, WriteEntry, Untouched
<1>6. ASSUME NEW m \in Message,
             \/ Connect(m) \/ EnqueueRefused(m) \/ EnqueueBegin(m)
             \/ EnqueueEnd(m) \/ Answer(m) \/ DeliverNow(m) \/ AnswerWait(m)
      PROVE  Good(id)
  BY <1>6 DEF Connect, EnqueueRefused, EnqueueBegin, EnqueueEnd, Answer, DeliverNow, AnswerWait
<1>7. ASSUME LoopWake \/ LoopScan \/ LoopPassEnd
      PROVE  Good(id)
  BY <1>7 DEF LoopWake, LoopScan, LoopPassEnd, Due
<1>8. ASSUME Tick \/ UNCHANGED vars
      PROVE  Good(id)
  BY <1>8 DEF Tick, Elapse, vars
<1> QED
  BY <1>0, <1>3, <1>4, <1>5, <1>6, <1>7, <1>8, UndisturbedSteps

(* Undisturbed, an entry no handler waits for arrives once, or is given up *)
(* on and never arrives, with however many requests around it.             *)
THEOREM EndsOnce == SafeSpec => []SettledOnce
<1>1. TypeInv /\ CountInv /\ FreshInv /\ SoloInv /\ [Next]_vars => SoloInv'
  BY SoloStep
<1>2. ASSUME SoloInv PROVE SettledOnce
  BY <1>2, IdsType DEF SoloInv, SettledOnce, Ends, Ids
<1> QED
  BY <1>1, <1>2, InitSolo, CountInvariant, FreshInvariant, PTL DEF SafeSpec
-----------------------------------------------------------------------------
(* The promise.  Every step is one of Promise's or changes nothing of what *)
(* it speaks of.                                                           *)

(* What a worker is about is accounted for.                                *)
Work(w) == due[w] \cup (IF pc[w] \in InHand THEN {cur[w]} ELSE {})

WorkInv == \A w \in Worker : \A id \in Work(w) : Accounted(id)

LEMMA WorkComes ==
  ASSUME TypeInv, [Next]_vars, NEW v \in Worker
  PROVE  Work(v)' \subseteq Work(v) \cup held
<1> USE DEF Work, InHand, Go, Tell, Due, TypeInv, TypeOK, Worker,
            boxVars, jobVars, askVars, runVars, endVars, bounds
<1> DEFINE Goal == Work(v)' \subseteq Work(v) \cup held
<1>1. ASSUME NEW w \in Worker, Attempt(w) PROVE Goal
  BY <1>1 DEF Attempt, StartAttempt, SendOK, SendFails, RecordSent, RecordFail
<1>2. ASSUME NEW m \in Message, Connect(m) \/ Handler(m) PROVE Goal
  <2>1. CASE DeliverNow(m) \/ DeliverNowFails(m)
    BY <2>1 DEF DeliverNow, DeliverNowFails
  <2>2. CASE Answer(m) \/ AnswerWait(m)
    BY <2>2 DEF Answer, AnswerWait
  <2> QED
    BY <1>1, <1>2, <2>1, <2>2 DEF Connect, Handler, EnqueueRefused, EnqueueListFails, EnqueueBegin,
       EnqueueWrite, EnqueueWriteFails, EnqueueEnd
<1>3. CASE LoopStep
  BY <1>1, <1>3 DEF LoopStep, LoopWake, LoopScan, LoopScanFails, LoopPassEnd, LoopExit
<1>4. CASE Exit \/ Crash
  BY <1>4 DEF Exit, Crash, Halt, InFlight
<1>5. CASE MainStep
  BY <1>1, <1>4, <1>5 DEF MainStep, CloseIngress, FlushBegin, FlushFails, FlushEnd
<1>6. CASE Signal \/ GraceExpires \/ Restart \/ Tick
  BY <1>6 DEF Signal, GraceExpires, Restart, Tick
<1>7. CASE UNCHANGED vars
  BY <1>7 DEF vars
<1> QED
  BY <1>2, <1>3, <1>4, <1>5, <1>6, <1>7 DEF Next

LEMMA WorkStep == LossInv /\ WorkInv /\ [Next]_vars => WorkInv'
<1> SUFFICES ASSUME LossInv, WorkInv, [Next]_vars, NEW v \in Worker, NEW id \in Work(v)'
             PROVE  Accounted(id)'
  BY DEF WorkInv
<1>1. Accounted(id)
  BY WorkComes DEF LossInv, WorkInv, Accounted
<1>2. id \in Id
  <2>1. TypeInv'
    BY NextType DEF LossInv
  <2> QED
    BY <2>1 DEF Work, TypeInv, TypeOK, CurOK
<1> QED
  BY <1>1, <1>2, AccountedStays DEF LossInv

Fates == [id \in Id |-> Fate(id)]
Promised == {m \in Message : Told(m)}

(* A step that touches one entry, seen from what becomes of it.            *)
LEMMA OneFate ==
  ASSUME NEW id \in Id, \A o \in Id \ {id} : Fate(o)' = Fate(o)
  PROVE  Fates' = [Fates EXCEPT ![id] = Fate(id)']
  BY DEF Fates

LEMMA ArrivalKeeps ==
  ASSUME TypeInv, WorkInv, NEW w \in Worker, pc[w] \in InHand, Arrive(cur[w]),
         UNCHANGED <<held, dropped, answer>>
  PROVE  P!Next \/ UNCHANGED P!promiseVars
<1>1. PICK id \in Id : id = cur[w] /\ Accounted(id)
  BY DEF TypeInv, CurOK, WorkInv, Work
<1>2. copies'[id] > 0 /\ \A o \in Id \ {id} : copies'[o] = copies[o]
  BY <1>1 DEF Arrive, CopiesCap, TypeInv, TypeOK
<1>3. Fates' = [Fates EXCEPT ![id] = "delivered"] /\ Promised' = Promised
  <2>1. \A o \in Id \ {id} : Fate(o)' = Fate(o)
    BY <1>2 DEF Fate
  <2>2. Fate(id)' = "delivered"
    BY <1>2 DEF Fate
  <2> QED
    BY <1>1, <2>1, <2>2, OneFate DEF Promised, Told
<1>4. Fates[id] \in {"delivered", "dropped", "owed"}
  BY <1>1 DEF Fates, Fate, Accounted
<1>5. CASE Fates[id] = "delivered"
  <2>1. Fates' = Fates
    BY <1>1, <1>3, <1>5 DEF Fates
  <2> QED
    BY <1>3, <2>1 DEF P!promiseVars, Fates, Promised
<1>6. CASE Fates[id] # "delivered"
  <2>1. id \in P!Id
    BY <1>1 DEF P!Id, Id
  <2>2. P!Deliver(id) \/ P!ArriveLate(id)
    BY <1>3, <1>4, <1>6 DEF P!Deliver, P!ArriveLate, Fates, Promised
  <2> QED
    BY <2>1, <2>2 DEF P!Next
<1> QED
  BY <1>5, <1>6

LEMMA AttemptKeeps ==
  ASSUME TypeInv, SentArrived, WorkInv, NEW w \in Worker, Attempt(w)
  PROVE  P!Next \/ UNCHANGED P!promiseVars
<1> USE DEF boxVars, jobVars, askVars, runVars, endVars, bounds
<1>1. ASSUME UNCHANGED <<held, copies, dropped, answer>> PROVE UNCHANGED P!promiseVars
  BY <1>1 DEF P!promiseVars, Fate, Told
<1>2. CASE (\E id \in due[w] : StartAttempt(w, id)) \/ (SendFails(w) /\ UNCHANGED copies)
  BY <1>1, <1>2 DEF StartAttempt, SendFails
<1>3. CASE SendOK(w) \/ (SendFails(w) /\ Arrive(cur[w]))
  BY <1>3, ArrivalKeeps DEF SendOK, SendFails, InHand
<1>4. CASE RecordSent(w)
  <2>1. copies[cur[w]] > 0
    BY <1>4 DEF RecordSent, SentArrived
  <2>2. \A id \in Id : Fate(id)' = Fate(id)
    BY <1>4, <2>1 DEF RecordSent, RemoveEntry, Fate
  <2> QED
    BY <1>4, <2>2 DEF RecordSent, P!promiseVars, Told
<1>5. CASE RecordFail(w) /\ ~GiveUp(w)
  BY <1>1, <1>5 DEF RecordFail, Retry, LetBe, Reschedule, WriteEntry
<1>6. CASE RecordFail(w) /\ GiveUp(w)
  <2>1. PICK id \in Id : id = cur[w] /\ id \in P!Id
    BY <1>6 DEF RecordFail, TypeInv, CurOK, InHand, P!Id, Id
  <2>2. /\ id \in held /\ held' = held \ {id} /\ dropped' = dropped \cup {id}
        /\ copies' = copies /\ answer' = answer
    BY <1>6, <2>1 DEF RecordFail, GiveUp, RemoveEntry
  <2>3. Promised' = Promised /\ Fates' = [Fates EXCEPT ![id] = Fate(id)']
    BY <2>1, <2>2, OneFate DEF Promised, Told, Fate
  <2>4. CASE Fate(id) = "owed"
    <3>1. Fate(id)' = "dropped"
      BY <2>2, <2>4 DEF Fate
    <3>2. P!GiveUp(id)
      BY <2>1, <2>3, <2>4, <3>1 DEF P!GiveUp, Fates, Promised
    <3> QED
      BY <2>1, <3>2 DEF P!Next
  <2>5. CASE Fate(id) # "owed"
    <3>1. Fate(id)' = Fate(id)
      BY <2>2, <2>5 DEF Fate
    <3>2. Fates' = Fates
      BY <2>1, <2>3, <3>1 DEF Fates
    <3> QED
      BY <2>3, <3>2 DEF P!promiseVars, Fates, Promised
  <2> QED
    BY <2>4, <2>5
<1> QED
  BY <1>2, <1>3, <1>4, <1>5, <1>6 DEF Attempt, SendFails

LEMMA HandlerKeeps ==
  ASSUME LossInv, FreshInv, NEW m \in Message, (Connect(m) \/ Handler(m)) /\ ~Attempt(m)
  PROVE  P!Next \/ UNCHANGED P!promiseVars
<1> USE DEF boxVars, jobVars, askVars, runVars, endVars, bounds
<1>0. TypeInv /\ (pc[m] # "end" => answer[m] = "none")
  BY DEF LossInv, FreshInv, AnsweredEnds
<1>1. ASSUME UNCHANGED <<held, copies, dropped>>, \A n \in Message : Told(n)' <=> Told(n)
      PROVE  UNCHANGED P!promiseVars
  BY <1>1 DEF P!promiseVars, Fate
<1>2. CASE Connect(m) \/ EnqueueBegin(m) \/ EnqueueEnd(m) \/ DeliverNow(m) \/ DeliverNowFails(m)
  BY <1>1, <1>2 DEF Connect, EnqueueBegin, EnqueueEnd, DeliverNow, DeliverNowFails, Told
<1>3. CASE EnqueueRefused(m) \/ EnqueueListFails(m) \/ EnqueueWriteFails(m)
  BY <1>0, <1>1, <1>3
     DEF EnqueueRefused, EnqueueListFails, EnqueueWriteFails, Tell, Told, TypeInv, TypeOK
<1>4. ASSUME NEW d \in DestsOf[m], EnqueueWrite(m, d) PROVE P!Next
  <2> DEFINE id == <<m, d>>
  <2>1. id \in Id /\ id \in P!Id
    BY IdsType DEF Ids, P!Id, Id
  <2>2. Untouched(id)
    BY <1>4, <2>1 DEF EnqueueWrite, FreshInv, Unwritten
  <2>3. Fate(id) = "none" /\ Fate(id)' = "owed"
    BY <1>4, <2>2 DEF EnqueueWrite, WriteEntry, Untouched, Fate
  <2>4. Promised' = Promised /\ Fates' = [Fates EXCEPT ![id] = Fate(id)']
    BY <1>4, <2>1, OneFate DEF EnqueueWrite, WriteEntry, Promised, Told, Fate
  <2>5. P!Take(id)
    BY <2>1, <2>3, <2>4 DEF P!Take, Fates, Promised
  <2> QED
    BY <2>1, <2>5 DEF P!Next
<1>5. CASE Answer(m) \/ AnswerWait(m)
  <2>1. Written(m)
    BY <1>5 DEF Answer, AnswerWait, LossInv, WrittenOK, PastEnqueue
  <2>2. \A d \in DestsOf[m] : Fates[<<m, d>>] # "none"
    BY <2>1, IdsType DEF Written, Accounted, Fates, Fate, Ids
  <2>3. Fates' = Fates
    BY <1>5 DEF Answer, AnswerWait, Fates, Fate
  <2>4. Promised' = Promised \cup {m}
    BY <1>0, <1>5 DEF Answer, AnswerWait, Tell, Promised, Told, TypeInv, TypeOK
  <2>5. P!Tell(m)
    BY <2>2, <2>3, <2>4 DEF P!Tell, Fates, Promised
  <2> QED
    BY <2>5 DEF P!Next
<1> QED
  BY <1>2, <1>3, <1>4, <1>5 DEF Handler

LEMMA StepKeeps ==
  LossInv /\ FreshInv /\ WorkInv /\ [Next]_vars => P!Next \/ UNCHANGED P!promiseVars
<1> SUFFICES ASSUME LossInv, FreshInv, WorkInv, [Next]_vars
             PROVE  P!Next \/ UNCHANGED P!promiseVars
  OBVIOUS
<1> USE DEF boxVars, jobVars, askVars, runVars, endVars, bounds
<1>1. ASSUME NEW w \in Worker, Attempt(w) PROVE P!Next \/ UNCHANGED P!promiseVars
  BY <1>1, AttemptKeeps DEF LossInv
<1>2. CASE \E m \in Message : Connect(m) \/ Handler(m)
  BY <1>1, <1>2, HandlerKeeps DEF Worker
<1>3. ASSUME UNCHANGED <<held, copies, dropped>>, \A n \in Message : Told(n)' <=> Told(n)
      PROVE  UNCHANGED P!promiseVars
  BY <1>3 DEF P!promiseVars, Fate
<1>4. CASE LoopStep
  BY <1>1, <1>3, <1>4
     DEF LoopStep, LoopWake, LoopScan, LoopScanFails, LoopPassEnd, LoopExit, Worker, Told
<1>5. CASE Exit \/ Crash
  <2>1. \A n \in Message : InFlight(n) => answer[n] = "none"
    BY DEF FreshInv, AnsweredEnds, InFlight
  <2> QED
    BY <1>3, <1>5, <2>1 DEF Exit, Crash, Halt, Told
<1>6. CASE MainStep
  BY <1>1, <1>3, <1>5, <1>6
     DEF MainStep, CloseIngress, FlushBegin, FlushFails, FlushEnd, Worker, Told
<1>7. CASE Signal \/ GraceExpires \/ Restart \/ Tick \/ UNCHANGED vars
  BY <1>3, <1>7 DEF Signal, GraceExpires, Restart, Tick, Elapse, vars, Told
<1> QED
  BY <1>2, <1>4, <1>5, <1>6, <1>7 DEF Next

(* The delivery path implements the promise, for every fan-out and with    *)
(* any number of requests, crashes, faults and lost acknowledgements.      *)
THEOREM KeepsThePromise == SafeSpec => ImplementsPromise
<1>1. Init => P!Init /\ WorkInv
  BY DEF Init, BoxInit, P!Init, P!Id, Id, Fate, Told, WorkInv, Work, InHand
<1>2. SafeSpec => [](LossInv /\ FreshInv /\ WorkInv)
  BY <1>1, LossInvariant, FreshInvariant, WorkStep, PTL DEF SafeSpec
<1>3. SafeSpec => P!Init /\ [][P!Next]_(P!promiseVars)
  BY <1>1, <1>2, StepKeeps, PTL DEF SafeSpec
<1> QED
  BY <1>3 DEF ImplementsPromise, P!Spec
=============================================================================
