---------------------------- MODULE Durability ----------------------------
(***************************************************************************)
(* One entry's file on disk: what writeLocked does to it call by call, and *)
(* what a reader finds after the process or the machine went down          *)
(* (internal/outbox).  Successive contents are numbered; an Enqueue writes *)
(* the first, every Fail the next.                                         *)
(*                                                                         *)
(* The file system is external and modelled as far as POSIX goes: data and *)
(* directory reach the disk when they are synced, or earlier at the        *)
(* system's leisure.  A rename is atomic.  Only power loss looks at the    *)
(* disk; a process that dies leaves what the system has in memory.         *)
(***************************************************************************)
EXTENDS Integers

CONSTANTS
    Inode,
    Gone,           \* no file under a name
    MaxContent      \* bound: contents written in a behaviour

ASSUME DurabilityAssumption ==
    /\ Gone \notin Inode
    /\ MaxContent \in Nat \ {0}

(* id.json and id.json.tmp                                                 *)
Name == {"entry", "tmp"}

(* A file holds one of the contents, or something half-written.            *)
Half == 0
Content == 0..MaxContent

VARIABLES
    dir, data,          \* the names and the files, as the system has them
    dirDisk, dataDisk,  \* and as the disk has them
    pc,                 \* where writeLocked is
    file,               \* the file it has opened
    content,            \* the last content that was begun
    acked,              \* the last content whose write returned without error
    dark                \* the machine has gone down

fsVars == <<dir, data, dirDisk, dataDisk>>
vars == <<fsVars, pc, file, content, acked, dark>>

TypeOK ==
    /\ dir \in [Name -> Inode \cup {Gone}] /\ dirDisk \in [Name -> Inode \cup {Gone}]
    /\ data \in [Inode -> Content] /\ dataDisk \in [Inode -> Content]
    /\ pc \in {"idle", "opened", "written", "synced", "closed", "renamed"}
    /\ file \in Inode \cup {Gone}
    /\ file # Gone <=> pc \in {"opened", "written", "synced"}   \* no handle leaks
    /\ content \in Content /\ acked \in Content /\ dark \in BOOLEAN

Init ==
    /\ dir = [n \in Name |-> Gone] /\ dirDisk = dir
    /\ data = [i \in Inode |-> Half] /\ dataDisk = data
    /\ pc = "idle" /\ file = Gone
    /\ content = 0 /\ acked = 0 /\ dark = FALSE

(* listLocked looks at id.json only, and skips what it cannot decode.      *)
Readable == IF dir["entry"] = Gone THEN Half ELSE data[dir["entry"]]

(* Enqueue writes an id once; Fail rewrites the entry it could read.       *)
MayWrite == content = 0 \/ Readable # Half

Used == {dir[n] : n \in Name} \cup {dirDisk[n] : n \in Name}

(* O_CREATE and O_TRUNC: a temporary file left by an earlier attempt is    *)
(* emptied, otherwise there is a new one.                                  *)
Open ==
    /\ pc = "idle" /\ content < MaxContent
    /\ MayWrite
    /\ content' = content + 1
    /\ \E i \in Inode :
        /\ IF dir["tmp"] # Gone THEN i = dir["tmp"] ELSE i \notin Used
        /\ file' = i
        /\ dir' = [dir EXCEPT !["tmp"] = i]
        /\ data' = [data EXCEPT ![i] = Half]
        /\ dataDisk' = IF dir["tmp"] # Gone THEN dataDisk ELSE [dataDisk EXCEPT ![i] = Half]
    /\ pc' = "opened"
    /\ UNCHANGED <<dirDisk, acked, dark>>

WriteData ==
    /\ pc = "opened"
    /\ data' = [data EXCEPT ![file] = content]
    /\ pc' = "written"
    /\ UNCHANGED <<dir, dirDisk, dataDisk, file, content, acked, dark>>

(* Bug for the checks: the data is left to the page cache.                 *)
MutSync ==
    /\ pc = "written"
    /\ pc' = "synced"
    /\ UNCHANGED <<fsVars, file, content, acked, dark>>

Sync ==
    /\ pc = "written"
    /\ dataDisk' = [dataDisk EXCEPT ![file] = data[file]]
    /\ pc' = "synced"
    /\ UNCHANGED <<dir, data, dirDisk, file, content, acked, dark>>

Close ==
    /\ pc = "synced"
    /\ pc' = "closed" /\ file' = Gone
    /\ UNCHANGED <<fsVars, content, acked, dark>>

Rename ==
    /\ pc = "closed"
    /\ dir' = [dir EXCEPT !["entry"] = dir["tmp"], !["tmp"] = Gone]
    /\ pc' = "renamed"
    /\ UNCHANGED <<data, dirDisk, dataDisk, file, content, acked, dark>>

(* Bug for the checks: an error of one of the calls is swallowed.          *)
MutWriteFails ==
    /\ pc \in {"opened", "written", "synced", "closed"}
    /\ pc' = "idle" /\ file' = Gone
    /\ acked' = content
    /\ UNCHANGED <<fsVars, content, dark>>

(* Bug for the checks: an early return that does not close the file.       *)
MutLeak ==
    /\ pc \in {"opened", "written", "synced", "closed"}
    /\ pc' = "idle"
    /\ UNCHANGED <<fsVars, file, content, acked, dark>>

(* One of the calls fails: the temporary file stays, the entry is as it    *)
(* was, and the caller is told.                                            *)
WriteFails ==
    /\ pc \in {"opened", "written", "synced", "closed"}
    /\ pc' = "idle" /\ file' = Gone
    /\ UNCHANGED <<fsVars, content, acked, dark>>

Return ==
    /\ pc = "renamed"
    /\ pc' = "idle"
    /\ acked' = content
    /\ UNCHANGED <<fsVars, file, content, dark>>

-----------------------------------------------------------------------------
(* The system writes back what it likes, when it likes.                    *)
WriteBackData(i) ==
    /\ dataDisk' = [dataDisk EXCEPT ![i] = data[i]]
    /\ UNCHANGED <<dir, data, dirDisk, pc, file, content, acked, dark>>

WriteBackDir ==
    /\ dirDisk' = dir
    /\ UNCHANGED <<dir, data, dataDisk, pc, file, content, acked, dark>>

(* The process dies and another takes its place.                           *)
Crash ==
    /\ pc' = "idle" /\ file' = Gone
    /\ UNCHANGED <<fsVars, content, acked, dark>>

PowerFails ==
    /\ dir' = dirDisk /\ data' = dataDisk
    /\ pc' = "idle" /\ file' = Gone
    /\ dark' = TRUE
    /\ UNCHANGED <<dirDisk, dataDisk, content, acked>>

Next ==
    \/ Open \/ WriteData \/ Sync \/ Close \/ Rename \/ WriteFails \/ Return
    \/ (\E i \in Inode : WriteBackData(i)) \/ WriteBackDir
    \/ Crash \/ PowerFails

Spec == Init /\ [][Next]_vars

-----------------------------------------------------------------------------
(* Properties.                                                             *)

(* A reader sees the old file or the new one, never a half-written one,    *)
(* even where power fails between any two calls (Outbox's crash safety).   *)
NeverHalfWritten == dir["entry"] # Gone => data[dir["entry"]] # Half

(* What was acknowledged is there, or something newer, whenever anybody    *)
(* looks, processes that die and writes that fail included (Enqueue, Fail).*)
AckedStays == ~dark => acked <= Readable

-----------------------------------------------------------------------------
(* What the documents say and the code does not do.                        *)

(* "Every write is synced before this returns."                            *)
AckedSurvives == acked <= Readable
=============================================================================
