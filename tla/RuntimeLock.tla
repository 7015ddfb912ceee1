---------------------------- MODULE RuntimeLock ----------------------------
(***************************************************************************)
(* The lock file that processes of the host share (host/src/lock.ts): it   *)
(* is created exclusively, a record with the pid of its owner is written   *)
(* into it, and a process that reads a record whose pid then turns out to  *)
(* be dead removes the file and tries once more.  A pid is a process and   *)
(* is not used again.                                                      *)
(***************************************************************************)
EXTENDS FiniteSets

CONSTANT Procs

VARIABLES
    file,     \* the lock file: whose it is, and whether the record is written
    lock,     \* lock[p]: how far acquireRuntimeLock() got in p
    seen,     \* seen[p]: the file whose record p has read and not judged yet
    dead,     \* the processes whose pid is gone; lock[p] stays as they left it
    robbed    \* history: whose file somebody else removed while they lived
lockVars == <<file, lock, seen, dead, robbed>>

LockStages == {"none", "try", "inspect", "judge", "stale", "retry", "opened", "held",
               "refused", "released"}

NoFile == [exists |-> FALSE]
FileOf(p, written) == [exists |-> TRUE, owner |-> p, written |-> written]

LockFiles == {NoFile} \union {FileOf(p, FALSE) : p \in Procs} \union {FileOf(p, TRUE) : p \in Procs}

LockTypeOK ==
    /\ file \in LockFiles
    /\ lock \in [Procs -> LockStages]
    /\ seen \in [Procs -> LockFiles]
    /\ dead \subseteq Procs
    /\ robbed \subseteq Procs

LockInit ==
    /\ file = NoFile
    /\ lock = [p \in Procs |-> "none"]
    /\ seen = [p \in Procs |-> NoFile]
    /\ dead = {}
    /\ robbed = {}

Holders == {p \in Procs \ dead : lock[p] = "held"}

-----------------------------------------------------------------------------
(* acquireRuntimeLock(), one step for each call of the file system         *)

\* open(path, 'wx'): the file is new and empty, or it is there already.
OpenNew(p) ==
    /\ lock[p] \in {"try", "retry"}
    /\ ~file.exists
    /\ file' = FileOf(p, FALSE)
    /\ lock' = [lock EXCEPT ![p] = "opened"]
    /\ UNCHANGED <<seen, dead, robbed>>

\* Broken: open(path, 'w') succeeds although the file is there.
OpenAnyway(p) ==
    /\ lock[p] \in {"try", "retry"}
    /\ file' = FileOf(p, FALSE)
    /\ lock' = [lock EXCEPT ![p] = "opened"]
    /\ UNCHANGED <<seen, dead, robbed>>

Open(p) == OpenNew(p)

\* The first attempt asks whether the lock is stale, the second gives up.
OpenFails(p) ==
    /\ lock[p] \in {"try", "retry"}
    /\ file.exists
    /\ lock' = [lock EXCEPT ![p] = IF lock[p] = "try" THEN "inspect" ELSE "refused"]
    /\ UNCHANGED <<file, seen, dead, robbed>>

\* The record goes to the file p opened, wherever its name is now.
WriteRecord(p) ==
    /\ lock[p] = "opened"
    /\ lock' = [lock EXCEPT ![p] = "held"]
    /\ file' = IF file = FileOf(p, FALSE) THEN FileOf(p, TRUE) ELSE file
    /\ UNCHANGED <<seen, dead, robbed>>

\* The disk is full: the error leaves the file empty.
WriteFails(p) ==
    /\ lock[p] = "opened"
    /\ lock' = [lock EXCEPT ![p] = "refused"]
    /\ UNCHANGED <<file, seen, dead, robbed>>

\* readRuntimeLock(): a file that is gone or empty has no record.
ReadRecord(p) ==
    /\ lock[p] = "inspect"
    /\ IF file.exists /\ file.written
       THEN /\ seen' = [seen EXCEPT ![p] = file]
            /\ lock' = [lock EXCEPT ![p] = "judge"]
       ELSE /\ lock' = [lock EXCEPT ![p] = "refused"]
            /\ UNCHANGED seen
    /\ UNCHANGED <<file, dead, robbed>>

\* pidAlive() asks about the pid that was read; meanwhile its process may have
\* released the lock and ended, and the file may be another's.
JudgeOwner(p) ==
    /\ lock[p] = "judge"
    /\ lock' = [lock EXCEPT ![p] = IF seen[p].owner \in dead THEN "stale" ELSE "refused"]
    /\ seen' = [seen EXCEPT ![p] = NoFile]
    /\ UNCHANGED <<file, dead, robbed>>

\* rm(path) takes the file that has the name now.
Remove(p) ==
    /\ file' = NoFile
    /\ robbed' = IF file.exists /\ file.owner \notin dead \union {p}
                 THEN robbed \union {file.owner} ELSE robbed

RemoveStale(p) ==
    /\ lock[p] = "stale"
    /\ Remove(p)
    /\ lock' = [lock EXCEPT ![p] = "retry"]
    /\ UNCHANGED <<seen, dead>>

AcquireStep(p) ==
    \/ Open(p)
    \/ OpenFails(p)
    \/ WriteRecord(p)
    \/ ReadRecord(p)
    \/ JudgeOwner(p)
    \/ RemoveStale(p)

-----------------------------------------------------------------------------
(* Properties                                                              *)

\* Two processes hold the lock only if the file of one was removed under it,
\* and nobody is robbed before another process that had held the lock is gone,
\* by its death or after its release: the first holder is safe.  A third process
\* that read the record of the one that is gone then removes the new file.
OneUpdater ==
    /\ \A p, q \in Holders : p = q \/ p \in robbed \/ q \in robbed
    /\ \A q \in robbed : \E o \in dead \ {q} : lock[o] \in {"held", "released"}
=============================================================================
