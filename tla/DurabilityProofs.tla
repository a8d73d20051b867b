-------------------------- MODULE DurabilityProofs --------------------------
(* That an entry is never half-written and that what was acknowledged      *)
(* stays, for every set of inodes and any number of writes.                *)
EXTENDS Durability, TLAPS

(* What is reachable under the entry's name holds a content, in memory and *)
(* on the disk, and nothing that is about to be truncated.                 *)
Whole(i) == i # Gone => data[i] # Half /\ dataDisk[i] # Half /\ i # dir["tmp"]

EntriesWhole == Whole(dir["entry"]) /\ Whole(dirDisk["entry"])

(* The directory on the disk is an old one: no name was in it twice.       *)
DiskDistinct == dirDisk["entry"] # Gone => dirDisk["entry"] # dirDisk["tmp"]

(* What is under way is under way on the temporary file.                   *)
WriterOnTmp ==
    /\ pc \in {"opened", "written", "synced"} => file = dir["tmp"]
    /\ pc \in {"opened", "written", "synced", "closed"} => dir["tmp"] # Gone /\ content # Half
    /\ pc = "written" => data[dir["tmp"]] # Half
    /\ pc \in {"synced", "closed"} => data[dir["tmp"]] # Half /\ dataDisk[dir["tmp"]] # Half

IInv == TypeOK /\ EntriesWhole /\ DiskDistinct /\ WriterOnTmp

(* The inductive invariant holds of an empty outbox.                       *)
LEMMA InitInv == Init => IInv
<1> SUFFICES ASSUME Init PROVE IInv
  OBVIOUS
<1>1. dark \in BOOLEAN
  BY Zenon DEF Init
<1> QED
  BY <1>1, DurabilityAssumption DEF Init, IInv, TypeOK, EntriesWhole, Whole, DiskDistinct, WriterOnTmp,
     Name, Content, Half

(* It is kept by every call of writeLocked, by the file system's own       *)
(* leisure, by a crash and by power loss.                                  *)
LEMMA NextInv == IInv /\ [Next]_vars => IInv'
<1> SUFFICES ASSUME IInv, [Next]_vars PROVE IInv'
  OBVIOUS
<1> USE DurabilityAssumption
<1> USE DEF IInv, TypeOK, EntriesWhole, Whole, DiskDistinct, WriterOnTmp, Name, Content, Half, fsVars
<1>1. CASE Open
  BY <1>1 DEF Open, Used
<1>2. CASE WriteData
  BY <1>2 DEF WriteData
<1>3. CASE Sync
  BY <1>3 DEF Sync
<1>4. CASE Close
  BY <1>4 DEF Close
<1>5. CASE Rename
  BY <1>5 DEF Rename
<1>6. CASE WriteFails
  BY <1>6 DEF WriteFails
<1>7. CASE Return
  BY <1>7 DEF Return
<1>8. ASSUME NEW i \in Inode, WriteBackData(i) PROVE IInv'
  BY <1>8 DEF WriteBackData
<1>9. CASE WriteBackDir
  BY <1>9 DEF WriteBackDir
<1>10. CASE Crash
  BY <1>10 DEF Crash
<1>11. CASE PowerFails
  BY <1>11 DEF PowerFails
<1>12. CASE UNCHANGED vars
  BY <1>12 DEF vars
<1> QED
  BY <1>1, <1>2, <1>3, <1>4, <1>5, <1>6, <1>7, <1>8, <1>9, <1>10, <1>11, <1>12 DEF Next

(* Type correctness, and no open file outside a write.                     *)
THEOREM TypeCorrect == Spec => []TypeOK
<1>1. IInv => TypeOK
  BY DEF IInv
<1> QED
  BY <1>1, InitInv, NextInv, PTL DEF Spec

(* writeLocked: whoever looks, whatever went down before, finds the old    *)
(* content or the new one.                                                 *)
THEOREM EntriesAreWhole == Spec => []NeverHalfWritten
<1>1. IInv => NeverHalfWritten
  BY DEF IInv, EntriesWhole, Whole, NeverHalfWritten
<1> QED
  BY <1>1, InitInv, NextInv, PTL DEF Spec

-----------------------------------------------------------------------------
(* While the machine is up, what a write has put into the temporary file   *)
(* is the newest content, and so is what it has renamed.                   *)
Newest ==
    /\ acked <= content
    /\ ~dark =>
          /\ acked <= Readable
          /\ pc \in {"written", "synced", "closed"} => data[dir["tmp"]] = content
          /\ pc = "renamed" => Readable = content

LEMMA NewestStep == IInv /\ Newest /\ [Next]_vars => Newest'
<1> SUFFICES ASSUME IInv, Newest, [Next]_vars PROVE Newest'
  OBVIOUS
<1> USE DurabilityAssumption
<1> USE DEF IInv, TypeOK, EntriesWhole, Whole, WriterOnTmp, Name, Content, Half, fsVars, Newest, Readable
<1>1. CASE Open
  BY <1>1 DEF Open, Used
<1>2. CASE WriteData
  BY <1>2 DEF WriteData
<1>3. CASE Sync \/ Close \/ WriteFails \/ Return \/ WriteBackDir \/ Crash
  BY <1>3 DEF Sync, Close, WriteFails, Return, WriteBackDir, Crash
<1>4. CASE Rename
  BY <1>4 DEF Rename
<1>5. ASSUME NEW i \in Inode, WriteBackData(i) PROVE Newest'
  BY <1>5 DEF WriteBackData
<1>6. CASE PowerFails
  BY <1>6 DEF PowerFails
<1>7. CASE UNCHANGED vars
  BY <1>7 DEF vars
<1> QED
  BY <1>1, <1>2, <1>3, <1>4, <1>5, <1>6, <1>7 DEF Next

(* Whatever dies or fails but the machine, what was acknowledged is read,  *)
(* or something newer (Enqueue, Fail).                                     *)
THEOREM AckedIsRead == Spec => []AckedStays
<1>1. Init => Newest
  BY DurabilityAssumption DEF Init, Newest, Readable, Half, Name
<1>2. Newest => AckedStays
  BY DEF Newest, AckedStays
<1> QED
  BY <1>1, <1>2, InitInv, NextInv, NewestStep, PTL DEF Spec
=============================================================================
