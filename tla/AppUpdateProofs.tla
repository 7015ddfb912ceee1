--------------------------- MODULE AppUpdateProofs ---------------------------
(***************************************************************************)
(* Proofs about AppUpdate, for any processes, versions and bounds: the     *)
(* types, who holds the update lock, and that a whole version remains, the *)
(* metadata are true and a failed update brings back what it replaced.     *)
(*                                                                         *)
(* The lock needs to know whose file it is (LockInv), the files what the   *)
(* process that works on them knows of both directories (Knows) and that   *)
(* there is only one (FilesInv).                                           *)
(***************************************************************************)
EXTENDS AppUpdate, TLAPS

-----------------------------------------------------------------------------
(* The invariants                                                          *)

LockedStages == {"check", "preflight", "install", "restart", "restore", "release"}
                \union InRestore

(* What the lock and the job of a process are at each stage. *)
StageLock(p) ==
    /\ at[p] = "idle" => lock[p] = "none"
    /\ at[p] = "acquire" =>
          lock[p] \notin {"none", "held", "released"} /\ job[p].command \in {"update", "rollback"}
    /\ at[p] \in LockedStages =>
          lock[p] = "held" /\ job[p].command \in {"update", "rollback"}
    /\ at[p] = "install" => job[p].command = "update"
    /\ at[p] \in InSwap \union {"swap"} =>
          \/ job[p].command = "install" /\ lock[p] = "none"
          \/ job[p].command = "update" /\ lock[p] = "held"

StageJob(p) ==
    /\ job[p].command \in {"update", "install"} => job[p].target \in Versions
    /\ at[p] \in {"idle", "acquire", "check", "preflight", "install", "swap"} =>
          removed[p] = 0

StageInv == \A p \in Procs : StageLock(p) /\ StageJob(p)

(* A process that was not robbed owns the file.                            *)
OwnFile(p) ==
    p \notin dead \union robbed /\ lock[p] \in {"opened", "held"} =>
        file \in {FileOf(p, FALSE), FileOf(p, TRUE)}

(* A record was written by a process that held the lock then; when it is   *)
(* judged, that process may have released the lock.                        *)
HadLock(p) == lock[p] \in {"held", "released"}

SeenInv ==
    /\ \A p, o \in Procs : seen[p] = FileOf(o, TRUE) => HadLock(o)
    /\ \A p \in Procs : lock[p] = "judge" => \E o \in Procs : seen[p] = FileOf(o, TRUE)

(* A process that had the lock is gone, another than q: what it takes to   *)
(* find a file stale, and to rob q.                                        *)
HolderGone == \E o \in dead : HadLock(o)
OtherGone(q) == \E o \in dead \ {q} : HadLock(o)

LockInv ==
    /\ \A p \in dead : at[p] = "gone"
    /\ \A p \in Procs : OwnFile(p)
    /\ \A p \in Procs : file = FileOf(p, TRUE) => lock[p] = "held"
    /\ SeenInv
    /\ \A p \in Procs : lock[p] = "stale" => HolderGone
    /\ \A q \in robbed : OtherGone(q)

(* A copy in progress is where its process says. *)
CopyInv ==
    /\ current.is = "copying" => at[current.by] \in {"copyingNew", "copyingBack"}
    /\ previous.is = "copying" => at[previous.by] = "savingPrevious"

(* Process p works on the files, or has replaced `current' and may have to *)
(* restore it.                                                             *)
Busy(p) ==
    \/ at[p] \in InFiles
    \/ removed[p] # 0 /\ at[p] \in {"restart", "restore"}

Saving == {"rmPrevious", "savePrevious", "savingPrevious", "noteSaved", "rmCurrent"}
Replacing == {"copyNew", "copyingNew", "noteNew"}

(* What a busy process knows of the two directories.  That `current' is not *)
(* whole while it is saved counts as a risk.                               *)
Knows(p) ==
    /\ at[p] \in Saving => removed[p] = 0 /\ (IsWhole(current) \/ risks # {})
    /\ at[p] = "savePrevious" => previous = Absent
    /\ at[p] = "savingPrevious" /\ IsWhole(current) =>
          previous = Copying(p, current.version)
    /\ at[p] \in {"noteSaved", "rmCurrent"} /\ IsWhole(current) => previous = current
    /\ removed[p] # 0 => previous = Whole(removed[p])
    /\ at[p] \in Replacing \union InRestore /\ risks = {} => IsWhole(previous)
    /\ at[p] = "copyingBack" => ~IsWhole(current)

FilesInv ==
    ~mixed =>
        /\ \A p, q \in Procs : Busy(p) /\ Busy(q) => p = q
        /\ \A p \in Procs : Busy(p) => Knows(p)
        /\ risks = {} => IsWhole(current) \/ IsWhole(previous)

(* What the metadata say while nothing went wrong: at rest, ...            *)
AtRest ==
    /\ meta # 0 /\ current = Whole(meta)
    /\ previous = Absent \/ (prevMeta # 0 /\ previous = Whole(prevMeta))

(* ... while p installs the first version, ...                             *)
FirstInstall(p) ==
    /\ at[p] \in Replacing
    /\ previous = Absent
    /\ at[p] = "copyNew" => current = Absent
    /\ at[p] = "copyingNew" => current = Copying(p, job[p].target)
    /\ at[p] = "noteNew" => current = Whole(job[p].target)

(* ... and while p replaces a version or brings back the one before.       *)
Replaces(p) ==
    /\ at[p] \in Saving => meta # 0 /\ current = Whole(meta) /\ read[p] = meta
    /\ at[p] = "savePrevious" => previous = Absent
    /\ at[p] = "savingPrevious" => previous = Copying(p, meta)
    /\ at[p] = "noteSaved" => previous = Whole(meta)
    /\ at[p] \in {"rmCurrent"} \union Replacing \union InRestore =>
          prevMeta # 0 /\ previous = Whole(prevMeta)
    /\ at[p] \in {"copyNew", "copyBack"} => current = Absent
    /\ at[p] = "copyingNew" => current = Copying(p, job[p].target)
    /\ at[p] = "noteNew" => current = Whole(job[p].target)
    /\ at[p] = "copyingBack" => current = Copying(p, prevMeta)
    /\ at[p] = "noteBack" => current = Whole(prevMeta)

MetaInv ==
    ~mixed /\ ~torn =>
        /\ risks \subseteq {"nothing installed"}
        /\ (\A p \in Procs : at[p] \notin InFiles) =>
              IF risks = {} THEN AtRest ELSE current = Absent /\ previous = Absent
        /\ \A p \in Procs : at[p] \in InFiles =>
              IF risks = {} THEN Replaces(p) ELSE FirstInstall(p)

-----------------------------------------------------------------------------
(* Directories and lock files                                              *)

LEMMA DirFacts ==
    /\ Absent.is = "absent" /\ Broken.is = "broken"
    /\ \A v : Whole(v).is = "whole" /\ Whole(v).version = v
    /\ \A p, v : /\ Copying(p, v).is = "copying"
                 /\ Copying(p, v).by = p
                 /\ Copying(p, v).version = v
BY DEF Absent, Broken, Whole, Copying

LEMMA DirCases ==
    ASSUME NEW d \in Dirs
    PROVE  \/ d = Absent
           \/ d = Broken
           \/ d.version \in Versions /\ d = Whole(d.version)
           \/ /\ d.by \in Procs \ dead /\ d.version \in Versions
              /\ d = Copying(d.by, d.version)
BY DirFacts DEF Dirs

LEMMA DirsOf ==
    /\ Absent \in Dirs /\ Broken \in Dirs
    /\ \A v \in Versions : Whole(v) \in Dirs
    /\ \A p \in Procs \ dead, v \in Versions : Copying(p, v) \in Dirs
BY DEF Dirs

LEMMA WholeIs ==
    ASSUME NEW d \in Dirs, IsWhole(d)
    PROVE  d.version \in Versions /\ d.version # 0 /\ d = Whole(d.version)
BY DirFacts, UpdateAssumption DEF Dirs, IsWhole, Versions

LEMMA WholeFacts ==
    /\ ~IsWhole(Absent) /\ ~IsWhole(Broken)
    /\ \A v : IsWhole(Whole(v)) /\ Whole(v) # Absent /\ Whole(v) # Broken
    /\ \A p, v : ~IsWhole(Copying(p, v)) /\ Copying(p, v) # Absent
BY DirFacts DEF IsWhole

(* What copies begin and end with. *)
LEMMA CopyFacts ==
    /\ \A p, from, to : CopyBegins(p, from, to) \in {Broken, Copying(p, from.version)}
    /\ \A p, v : CopyBegins(p, Whole(v), Absent) = Copying(p, v)
    /\ \A p, from, to : CopyEnds(p, from, to) # Broken => IsWhole(from) /\ CopyEnds(p, from, to) = from
    /\ \A p, v : CopyEnds(p, Whole(v), Copying(p, v)) = Whole(v)
BY DirFacts, WholeFacts DEF CopyBegins, CopyEnds

(* A directory keeps its type when a process goes that copies nothing to it. *)
LEMMA DirsKeep ==
    ASSUME NEW d \in Dirs, NEW p, dead' \in {dead, dead \union {p}},
           dead' # dead /\ d.is = "copying" => d.by # p
    PROVE  d \in Dirs'
<1>1. CASE dead' = dead
  BY <1>1 DEF Dirs
<1>2. CASE dead' = dead \union {p} /\ dead' # dead
  <2>1. CASE d.is = "copying"
    <3>1. PICK q \in Procs \ dead, v \in Versions : d = Copying(q, v)
      BY <2>1, DirFacts DEF Dirs
    <3>2. q \in Procs \ dead'
      BY <1>2, <3>1, <2>1, DirFacts
    <3> QED BY <3>1, <3>2 DEF Dirs
  <2>2. CASE d.is # "copying"
    BY <2>2, DirCases, DirFacts DEF Dirs
  <2> QED BY <2>1, <2>2
<1> QED BY <1>1, <1>2

LEMMA FileFacts ==
    /\ ~NoFile.exists
    /\ \A p : /\ FileOf(p, TRUE).exists /\ FileOf(p, FALSE).exists
              /\ FileOf(p, TRUE).owner = p /\ FileOf(p, FALSE).owner = p
              /\ FileOf(p, TRUE).written /\ ~FileOf(p, FALSE).written
              /\ FileOf(p, TRUE) # NoFile /\ FileOf(p, FALSE) # NoFile
    /\ \A p, q : /\ FileOf(p, FALSE) # FileOf(q, TRUE)
                 /\ FileOf(p, FALSE) = FileOf(q, FALSE) => p = q
                 /\ FileOf(p, TRUE) = FileOf(q, TRUE) => p = q
BY DEF NoFile, FileOf

LEMMA FilesOf ==
    /\ NoFile \in LockFiles
    /\ \A p \in Procs : FileOf(p, TRUE) \in LockFiles /\ FileOf(p, FALSE) \in LockFiles
BY DEF LockFiles

LEMMA FileCases ==
    ASSUME LockTypeOK
    PROVE  file = NoFile \/ \E p \in Procs : file \in {FileOf(p, TRUE), FileOf(p, FALSE)}
BY DEF LockTypeOK, LockFiles

-----------------------------------------------------------------------------
(* A step of one process                                                   *)

Act(p) ==
    \/ StartLocked(p) \/ StartUnlocked(p)
    \/ Step(p)
    \/ FileFault(p) \/ LockFault(p) \/ Die(p)

(* It moves only itself, from a place where it lives.                      *)
Moves(p) ==
    /\ at[p] # "gone"
    /\ dead' = IF at'[p] = "gone" THEN dead \union {p} ELSE dead
    /\ at' \in [Procs -> Stages]
    /\ lock' \in [Procs -> LockStages]
    /\ job' \in [Procs -> Jobs]
    /\ read' \in [Procs -> 0 .. Latest]
    /\ removed' \in [Procs -> 0 .. Latest]
    /\ \A q \in Procs \ {p} :
          /\ at'[q] = at[q] /\ lock'[q] = lock[q] /\ job'[q] = job[q]
          /\ read'[q] = read[q] /\ removed'[q] = removed[q]

LEMMA StageSets ==
    /\ InFiles \subseteq Installing
    /\ Installing \subseteq Stages
BY DEF Stages, Installing, InFiles

LEMMA JobTypes ==
    /\ NoJob \in Jobs
    /\ JobOf("update", Latest) \in Jobs
    /\ JobOf("rollback", 0) \in Jobs
    /\ \A v \in Versions : JobOf("install", v) \in Jobs
    /\ 0 \in 0 .. Latest
BY UpdateAssumption DEF NoJob, JobOf, Jobs, Versions

(* What a step needs to know of the types. *)
ProcTypes ==
    /\ at \in [Procs -> Stages]
    /\ lock \in [Procs -> LockStages]
    /\ job \in [Procs -> Jobs]
    /\ read \in [Procs -> 0 .. Latest]
    /\ removed \in [Procs -> 0 .. Latest]

LEMMA HasProcTypes == ASSUME TypeOK PROVE ProcTypes
<1>1. LockTypeOK
  BY DEF TypeOK
<1>2. lock \in [Procs -> LockStages]
  BY <1>1 DEF LockTypeOK
<1>3. at \in [Procs -> Stages]
  BY DEF TypeOK
<1>4. job \in [Procs -> Jobs]
  BY DEF TypeOK
<1>5. read \in [Procs -> 0 .. Latest]
  BY DEF TypeOK
<1>6. removed \in [Procs -> 0 .. Latest]
  BY DEF TypeOK
<1> QED BY <1>2, <1>3, <1>4, <1>5, <1>6 DEF ProcTypes

LEMMA StageNames ==
    /\ {"rmPrevious", "savePrevious", "savingPrevious", "noteSaved", "rmCurrent",
        "copyNew", "copyingNew", "noteNew"} \subseteq Stages
    /\ {"rmCurrentBack", "copyBack", "copyingBack", "noteBack"} \subseteq Stages
    /\ {"swap", "restart", "restore"} \subseteq Stages
    /\ {"idle", "acquire", "check", "preflight", "install", "release", "gone"}
           \subseteq Stages
BY DEF Stages, Installing, InFiles, InSwap, InRestore

LEMMA GoesTo ==
    ASSUME ProcTypes, NEW p \in Procs, at[p] # "gone",
           NEW s \in Stages, s # "gone", GoTo(p, s),
           UNCHANGED <<dead, lock, job, read, removed>>
    PROVE  Moves(p)
BY DEF ProcTypes, GoTo, Moves

LEMMA GoneMoves ==
    ASSUME ProcTypes, NEW p \in Procs, at[p] # "gone", Gone(p),
           lock' \in {lock, [lock EXCEPT ![p] = "released"]}
    PROVE  Moves(p)
<1>1. lock' \in [Procs -> LockStages] /\ \A q \in Procs \ {p} : lock'[q] = lock[q]
  BY DEF LockStages, ProcTypes
<1>2. /\ at' \in [Procs -> Stages] /\ at'[p] = "gone"
      /\ \A q \in Procs \ {p} : at'[q] = at[q]
  BY StageNames DEF ProcTypes, Gone, GoTo
<1>3. job' \in [Procs -> Jobs] /\ \A q \in Procs \ {p} : job'[q] = job[q]
  BY JobTypes DEF ProcTypes, Gone
<1>4. read' \in [Procs -> 0 .. Latest] /\ \A q \in Procs \ {p} : read'[q] = read[q]
  BY JobTypes DEF ProcTypes, Gone
<1>5. /\ removed' \in [Procs -> 0 .. Latest]
      /\ \A q \in Procs \ {p} : removed'[q] = removed[q]
  BY JobTypes DEF ProcTypes, Gone
<1> QED BY <1>1, <1>2, <1>3, <1>4, <1>5 DEF Moves, Gone

LEMMA ThrowMoves ==
    ASSUME ProcTypes, NEW p \in Procs, at[p] # "gone", Throw(p)
    PROVE  Moves(p)
BY StageNames, GoesTo, GoneMoves DEF Throw, Proceed, lockVars, jobVars

LEMMA ProceedMoves ==
    ASSUME ProcTypes, NEW p \in Procs, at[p] # "gone",
           NEW s \in Stages, s # "gone", Proceed(p, s)
    PROVE  Moves(p)
BY GoesTo DEF Proceed, lockVars, jobVars

LEMMA ActMoves ==
    ASSUME TypeOK, NEW p \in Procs, Act(p)
    PROVE  Moves(p)
<1>0. ProcTypes
  BY HasProcTypes
<1>1. CASE StartLocked(p)
  <2>1. job' \in [Procs -> Jobs] /\ \A q \in Procs \ {p} : job'[q] = job[q]
    BY <1>0, <1>1, JobTypes DEF StartLocked, ProcTypes
  <2>2. lock' \in [Procs -> LockStages] /\ \A q \in Procs \ {p} : lock'[q] = lock[q]
    BY <1>0, <1>1 DEF StartLocked, ProcTypes, LockStages
  <2>3. /\ at[p] # "gone" /\ at' \in [Procs -> Stages] /\ at'[p] # "gone"
        /\ \A q \in Procs \ {p} : at'[q] = at[q]
    BY <1>0, <1>1, StageNames DEF StartLocked, ProcTypes, GoTo
  <2>4. UNCHANGED <<dead, read, removed>>
    BY <1>1 DEF StartLocked
  <2> QED BY <1>0, <2>1, <2>2, <2>3, <2>4 DEF ProcTypes, Moves
<1>2. CASE StartUnlocked(p)
  <2>1. job' \in [Procs -> Jobs] /\ \A q \in Procs \ {p} : job'[q] = job[q]
    BY <1>0, <1>2, JobTypes DEF StartUnlocked, ProcTypes
  <2>3. /\ at[p] # "gone" /\ at' \in [Procs -> Stages] /\ at'[p] # "gone"
        /\ \A q \in Procs \ {p} : at'[q] = at[q]
    BY <1>0, <1>2, StageNames DEF StartUnlocked, ProcTypes, GoTo
  <2>4. UNCHANGED <<dead, lock, read, removed>>
    BY <1>2 DEF StartUnlocked, lockVars
  <2> QED BY <1>0, <2>1, <2>3, <2>4 DEF ProcTypes, Moves
<1>3. CASE Acquire(p)
  <2>2. /\ lock' \in [Procs -> LockStages] /\ \A q \in Procs \ {p} : lock'[q] = lock[q]
        /\ dead' = dead
    BY <1>0, <1>3 DEF Acquire, ProcTypes, AcquireStep, Open, OpenNew, OpenFails,
                      WriteRecord, ReadRecord, JudgeOwner, RemoveStale, LockStages
  <2>3. /\ at[p] # "gone" /\ at' \in [Procs -> Stages] /\ at'[p] # "gone"
        /\ \A q \in Procs \ {p} : at'[q] = at[q]
    BY <1>0, <1>3, StageNames DEF Acquire, ProcTypes, GoTo
  <2>4. UNCHANGED <<job, read, removed>>
    BY <1>3 DEF Acquire, jobVars
  <2> QED BY <1>0, <2>2, <2>3, <2>4 DEF ProcTypes, Moves
<1>4. CASE Refused(p)
  BY <1>0, <1>4, GoneMoves DEF Refused
<1>5. CASE Release(p)
  BY <1>0, <1>5, GoneMoves DEF Release
<1>6. CASE Check(p)
  BY <1>0, <1>6, ThrowMoves, ProceedMoves, StageNames DEF Check
<1>7. CASE Preflight(p)
  BY <1>0, <1>7, ThrowMoves, ProceedMoves, StageNames DEF Preflight
<1>8. CASE Install(p)
  BY <1>0, <1>8, ThrowMoves, ProceedMoves, StageNames DEF Install
<1>9. CASE Swap(p)
  <2>1. read' \in [Procs -> 0 .. Latest] /\ \A q \in Procs \ {p} : read'[q] = read[q]
    <3>1. meta \in 0 .. Latest
      BY DEF TypeOK
    <3> QED BY <1>0, <1>9, <3>1 DEF Swap, ProcTypes
  <2>3. /\ at[p] # "gone" /\ at' \in [Procs -> Stages] /\ at'[p] # "gone"
        /\ \A q \in Procs \ {p} : at'[q] = at[q]
    BY <1>0, <1>9, StageNames DEF Swap, ProcTypes, GoTo
  <2>4. UNCHANGED <<dead, lock, job, removed>>
    BY <1>9 DEF Swap, lockVars
  <2> QED BY <1>0, <2>1, <2>3, <2>4 DEF ProcTypes, Moves
<1>10. CASE RemovePrevious(p)
  BY <1>0, <1>10, GoesTo, StageNames DEF RemovePrevious, lockVars, jobVars
<1>11. CASE SavePrevious(p)
  BY <1>0, <1>11, ThrowMoves, ProceedMoves, StageNames DEF SavePrevious
<1>12. CASE PreviousSaved(p)
  BY <1>0, <1>12, GoesTo, StageNames DEF PreviousSaved, lockVars, jobVars
<1>13. CASE NoteSaved(p)
  BY <1>0, <1>13, GoesTo, StageNames DEF NoteSaved, lockVars, jobVars
<1>14. CASE RemoveCurrent(p)
  <2>1. /\ removed' \in [Procs -> 0 .. Latest]
        /\ \A q \in Procs \ {p} : removed'[q] = removed[q]
    <3>1. IsWhole(current) => current.version \in 0 .. Latest
      <4>1. current \in Dirs
        BY DEF TypeOK
      <4> QED BY <4>1, WholeIs, UpdateAssumption DEF Versions
    <3> QED BY <1>0, <1>14, <3>1, JobTypes DEF RemoveCurrent, ProcTypes
  <2>3. /\ at[p] # "gone" /\ at' \in [Procs -> Stages] /\ at'[p] # "gone"
        /\ \A q \in Procs \ {p} : at'[q] = at[q]
    BY <1>0, <1>14, StageNames DEF RemoveCurrent, ProcTypes, GoTo
  <2>4. UNCHANGED <<dead, lock, job, read>>
    BY <1>14 DEF RemoveCurrent, lockVars
  <2> QED BY <1>0, <2>1, <2>3, <2>4 DEF ProcTypes, Moves
<1>15. CASE CopyNew(p)
  BY <1>0, <1>15, GoesTo, StageNames DEF CopyNew, lockVars, jobVars
<1>16. CASE NewCopied(p)
  BY <1>0, <1>16, GoesTo, StageNames DEF NewCopied, lockVars, jobVars
<1>17. CASE NoteNew(p)
  BY <1>0, <1>17, ProceedMoves, GoneMoves, StageNames DEF NoteNew
<1>18. CASE Restart(p)
  BY <1>0, <1>18, ThrowMoves, ProceedMoves, StageNames DEF Restart
<1>19. CASE Restore(p)
  BY <1>0, <1>19, GoesTo, StageNames DEF Restore, lockVars, jobVars
<1>20. CASE RemoveForRestore(p)
  BY <1>0, <1>20, GoesTo, StageNames DEF RemoveForRestore, lockVars, jobVars
<1>21. CASE CopyBack(p)
  BY <1>0, <1>21, GoesTo, StageNames DEF CopyBack, lockVars, jobVars
<1>22. CASE CopiedBack(p)
  BY <1>0, <1>22, GoesTo, StageNames DEF CopiedBack, AfterRestore, lockVars, jobVars
<1>23. CASE NoteBack(p)
  BY <1>0, <1>23, GoesTo, StageNames DEF NoteBack, AfterRestore, lockVars, jobVars
<1>24. CASE FileFault(p)
  <2>1. at[p] # "gone"
    BY <1>24 DEF FileFault, InFiles, InSwap, InRestore
  <2> QED BY <1>0, <1>24, <2>1, ThrowMoves, ProceedMoves, StageNames DEF FileFault
<1>25. CASE LockFault(p)
  <2>1. lock' \in [Procs -> LockStages] /\ \A q \in Procs \ {p} : lock'[q] = lock[q]
    BY <1>0, <1>25 DEF LockFault, WriteFails, ProcTypes, LockStages
  <2>2. UNCHANGED <<at, dead, job, read, removed>> /\ at[p] = "acquire"
    BY <1>25 DEF LockFault, WriteFails, jobVars
  <2> QED BY <1>0, <2>1, <2>2 DEF ProcTypes, Moves
<1>26. CASE Die(p)
  BY <1>0, <1>26, GoneMoves DEF Die
<1> QED BY <1>1, <1>2, <1>3, <1>4, <1>5, <1>6, <1>7, <1>8, <1>9, <1>10, <1>11, <1>12,
           <1>13, <1>14, <1>15, <1>16, <1>17, <1>18, <1>19, <1>20, <1>21, <1>22, <1>23,
           <1>24, <1>25, <1>26 DEF Act, Step

-----------------------------------------------------------------------------
(* Stages                                                                  *)

LEMMA StageStep ==
    ASSUME TypeOK, StageInv, NEW p \in Procs, Act(p)
    PROVE  StageInv'
<1>0. ProcTypes /\ Moves(p)
  BY HasProcTypes, ActMoves
<1>00. StageLock(p) /\ StageJob(p)
  BY DEF StageInv
<1> SUFFICES StageLock(p)' /\ StageJob(p)'
  <2>1. \A q \in Procs \ {p} : StageLock(q)' /\ StageJob(q)'
    BY <1>0 DEF StageInv, Moves, StageLock, StageJob
  <2> QED BY <2>1 DEF StageInv
<1> DEFINE Same == /\ lock'[p] = lock[p] /\ job'[p] = job[p] /\ removed'[p] = removed[p]
<1>a. ASSUME Gone(p) PROVE StageLock(p)' /\ StageJob(p)'
  <2>1. at'[p] = "gone" /\ job'[p] = NoJob
    BY <1>a, <1>0 DEF Gone, GoTo, ProcTypes
  <2> QED BY <2>1 DEF StageLock, StageJob, NoJob, JobOf, LockedStages, InSwap, InRestore
<1>b. ASSUME NEW s, GoTo(p, s), UNCHANGED <<lockVars, jobVars>>
      PROVE  at'[p] = s /\ Same
  BY <1>b, <1>0 DEF GoTo, ProcTypes, lockVars, jobVars
<1>c. ASSUME Throw(p), at[p] \in LockedStages \union InSwap
      PROVE  StageLock(p)' /\ StageJob(p)'
  <2>1. CASE Gone(p)
    BY <1>a, <2>1
  <2>2. CASE ~Gone(p)
    <3>1. at'[p] \in {"restore", "release"} /\ Same /\ job[p].command # "install"
      BY <1>b, <1>c, <2>2 DEF Throw, Proceed, IsUpdate
    <3> QED BY <3>1, <1>c, <1>00 DEF StageLock, StageJob, LockedStages, InSwap, InRestore
  <2> QED BY <2>1, <2>2
<1> USE DEF StageLock, StageJob, LockedStages, InSwap, InRestore
<1>1. CASE StartLocked(p)
  <2>1. /\ at'[p] = "acquire" /\ lock'[p] = "try" /\ removed'[p] = removed[p]
        /\ job'[p] \in {JobOf("update", Latest), JobOf("rollback", 0)}
        /\ at[p] = "idle"
    BY <1>0, <1>1 DEF StartLocked, GoTo, ProcTypes
  <2> QED BY <1>00, <2>1, UpdateAssumption DEF JobOf, Versions
<1>2. CASE StartUnlocked(p)
  <2>1. /\ at'[p] = "swap" /\ lock'[p] = lock[p] /\ removed'[p] = removed[p]
        /\ \E v \in Versions : job'[p] = JobOf("install", v)
        /\ at[p] = "idle"
    BY <1>0, <1>2 DEF StartUnlocked, GoTo, ProcTypes, lockVars
  <2> QED BY <1>00, <2>1 DEF JobOf
<1>3. CASE Acquire(p)
  <2>1. at[p] = "acquire" /\ job'[p] = job[p] /\ removed'[p] = removed[p]
    BY <1>3 DEF Acquire, jobVars
  <2>2. lock'[p] \notin {"none", "released"}
    BY <1>0, <1>3 DEF Acquire, ProcTypes, AcquireStep, Open, OpenNew, OpenFails,
                      WriteRecord, ReadRecord, JudgeOwner, RemoveStale
  <2>3. at'[p] = IF lock'[p] = "held" THEN "check" ELSE "acquire"
    BY <1>0, <1>3 DEF Acquire, GoTo, ProcTypes
  <2> QED BY <1>00, <2>1, <2>2, <2>3
<1>4. CASE Refused(p)
  BY <1>4, <1>a DEF Refused
<1>5. CASE Release(p)
  BY <1>5, <1>a DEF Release
<1>6. CASE Check(p)
  <2>1. CASE Throw(p)
    BY <1>6, <2>1, <1>c DEF Check
  <2>2. CASE ~Throw(p)
    <3>1. at[p] = "check" /\ at'[p] \in {"preflight", "release"} /\ Same
      BY <1>6, <2>2, <1>b DEF Check, Proceed
    <3> QED BY <3>1, <1>00
  <2> QED BY <2>1, <2>2
<1>7. CASE Preflight(p)
  <2>1. CASE Throw(p)
    BY <1>7, <2>1, <1>c DEF Preflight
  <2>2. CASE ~Throw(p)
    <3>1. at[p] = "preflight" /\ at'[p] = (IF IsUpdate(p) THEN "install" ELSE "restore") /\ Same
      BY <1>7, <2>2, <1>b DEF Preflight, Proceed
    <3> QED BY <3>1, <1>00 DEF IsUpdate
  <2> QED BY <2>1, <2>2
<1>8. CASE Install(p)
  <2>1. CASE Throw(p)
    BY <1>8, <2>1, <1>c DEF Install
  <2>2. CASE ~Throw(p)
    <3>1. at[p] = "install" /\ at'[p] \in {"swap", "restart"} /\ Same
      BY <1>8, <2>2, <1>b DEF Install, Proceed
    <3> QED BY <3>1, <1>00
  <2> QED BY <2>1, <2>2
<1>9. CASE Swap(p)
  <2>1. /\ at[p] = "swap" /\ at'[p] \in {"copyNew", "rmPrevious"} /\ Same
    BY <1>0, <1>9 DEF Swap, GoTo, ProcTypes, lockVars
  <2> QED BY <1>00, <2>1
<1>10. CASE RemovePrevious(p)
  <2>1. at[p] = "rmPrevious" /\ at'[p] = "savePrevious" /\ Same
    BY <1>10, <1>b DEF RemovePrevious
  <2> QED BY <2>1, <1>00
<1>11. CASE SavePrevious(p)
  <2>1. CASE Throw(p)
    BY <1>11, <2>1, <1>c DEF SavePrevious
  <2>2. CASE ~Throw(p)
    <3>1. at[p] = "savePrevious" /\ at'[p] = "savingPrevious" /\ Same
      BY <1>11, <2>2, <1>b DEF SavePrevious, Proceed
    <3> QED BY <3>1, <1>00
  <2> QED BY <2>1, <2>2
<1>12. CASE PreviousSaved(p)
  <2>1. at[p] = "savingPrevious" /\ at'[p] \in {"rmCurrent", "noteSaved"} /\ Same
    BY <1>12, <1>b DEF PreviousSaved
  <2> QED BY <2>1, <1>00
<1>13. CASE NoteSaved(p)
  <2>1. at[p] = "noteSaved" /\ at'[p] = "rmCurrent" /\ Same
    BY <1>13, <1>b DEF NoteSaved
  <2> QED BY <2>1, <1>00
<1>14. CASE RemoveCurrent(p)
  <2>1. /\ at[p] = "rmCurrent" /\ at'[p] = "copyNew"
        /\ lock'[p] = lock[p] /\ job'[p] = job[p]
    BY <1>0, <1>14 DEF RemoveCurrent, GoTo, ProcTypes, lockVars
  <2> QED BY <2>1, <1>00
<1>15. CASE CopyNew(p)
  <2>1. at[p] = "copyNew" /\ at'[p] = "copyingNew" /\ Same
    BY <1>15, <1>b DEF CopyNew
  <2> QED BY <2>1, <1>00
<1>16. CASE NewCopied(p)
  <2>1. at[p] = "copyingNew" /\ at'[p] = "noteNew" /\ Same
    BY <1>16, <1>b DEF NewCopied
  <2> QED BY <2>1, <1>00
<1>17. CASE NoteNew(p)
  <2>1. CASE IsUpdate(p)
    <3>1. at[p] = "noteNew" /\ at'[p] = "restart" /\ Same
      BY <1>17, <2>1, <1>b DEF NoteNew, Proceed
    <3> QED BY <3>1, <2>1, <1>00 DEF IsUpdate
  <2>2. CASE ~IsUpdate(p)
    BY <1>17, <2>2, <1>a DEF NoteNew
  <2> QED BY <2>1, <2>2
<1>18. CASE Restart(p)
  <2>1. CASE Throw(p)
    BY <1>18, <2>1, <1>c DEF Restart
  <2>2. CASE ~Throw(p)
    <3>1. at[p] = "restart" /\ at'[p] = "release" /\ Same
      BY <1>18, <2>2, <1>b DEF Restart, Proceed
    <3> QED BY <3>1, <1>00
  <2> QED BY <2>1, <2>2
<1>19. CASE Restore(p)
  <2>1. /\ at[p] = "restore" /\ at'[p] \in {"release", "copyBack", "rmCurrentBack"} /\ Same
    BY <1>19, <1>b DEF Restore
  <2> QED BY <2>1, <1>00
<1>20. CASE RemoveForRestore(p)
  <2>1. at[p] = "rmCurrentBack" /\ at'[p] = "copyBack" /\ Same
    BY <1>20, <1>b DEF RemoveForRestore
  <2> QED BY <2>1, <1>00
<1>21. CASE CopyBack(p)
  <2>1. at[p] = "copyBack" /\ at'[p] \in {"release", "copyingBack"} /\ Same
    BY <1>21, <1>b DEF CopyBack
  <2> QED BY <2>1, <1>00
<1>22. CASE CopiedBack(p)
  <2>1. /\ at[p] = "copyingBack" /\ at'[p] \in {"release", "restart", "noteBack"} /\ Same
    BY <1>22, <1>b DEF CopiedBack, AfterRestore
  <2> QED BY <2>1, <1>00
<1>23. CASE NoteBack(p)
  <2>1. at[p] = "noteBack" /\ at'[p] \in {"release", "restart"} /\ Same
    BY <1>23, <1>b DEF NoteBack, AfterRestore
  <2> QED BY <2>1, <1>00
<1>24. CASE FileFault(p)
  <2>1. CASE Throw(p)
    BY <1>24, <2>1, <1>c DEF FileFault, InFiles
  <2>2. CASE ~Throw(p)
    <3>1. at[p] \in InRestore /\ at'[p] = "release" /\ Same
      BY <1>24, <2>2, <1>b DEF FileFault, Proceed
    <3> QED BY <3>1, <1>00
  <2> QED BY <2>1, <2>2
<1>25. CASE LockFault(p)
  <2>1. /\ at[p] = "acquire" /\ at'[p] = "acquire" /\ lock'[p] = "refused"
        /\ job'[p] = job[p] /\ removed'[p] = removed[p]
    BY <1>0, <1>25 DEF LockFault, WriteFails, ProcTypes, jobVars
  <2> QED BY <1>00, <2>1
<1>26. CASE Die(p)
  BY <1>26, <1>a DEF Die
<1> QED BY <1>1, <1>2, <1>3, <1>4, <1>5, <1>6, <1>7, <1>8, <1>9, <1>10, <1>11, <1>12,
           <1>13, <1>14, <1>15, <1>16, <1>17, <1>18, <1>19, <1>20, <1>21, <1>22, <1>23,
           <1>24, <1>25, <1>26 DEF Act, Step

-----------------------------------------------------------------------------
(* The lock                                                                *)

(* A dead process is gone, so that p is none. *)
LEMMA DeathStep ==
    ASSUME LockInv, dead \subseteq Procs, NEW p \in Procs, Moves(p)
    PROVE  /\ p \notin dead
           /\ dead \subseteq dead'
           /\ \A q \in dead' : at'[q] = "gone"
           /\ HolderGone => HolderGone'
           /\ \A q : OtherGone(q) => OtherGone(q)'
<1>1. p \notin dead
  BY DEF LockInv, Moves
<1>2. dead \subseteq dead' /\ dead' \subseteq dead \union {p}
  BY DEF Moves
<1>3. \A q \in dead' : at'[q] = "gone"
  <2> SUFFICES ASSUME NEW q \in dead' PROVE at'[q] = "gone"
    OBVIOUS
  <2>1. CASE q = p
    BY <2>1, <1>1 DEF Moves
  <2>2. CASE q # p
    BY <2>2, <1>2 DEF LockInv, Moves
  <2> QED BY <2>1, <2>2
<1>4. \A o \in dead : HadLock(o) => HadLock(o)'
  BY <1>1 DEF HadLock, Moves
<1> QED BY <1>1, <1>2, <1>3, <1>4 DEF HolderGone, OtherGone

(* Who had the lock keeps having had it; so what was read stays true.      *)
LEMMA SeenKept ==
    ASSUME SeenInv, NEW p \in Procs, Moves(p), HadLock(p) => HadLock(p)',
           UNCHANGED seen, lock'[p] # "judge"
    PROVE  SeenInv'
<1>1. \A q \in Procs : HadLock(q) => HadLock(q)'
  BY DEF HadLock, Moves
<1>2. \A q \in Procs : lock'[q] = "judge" => lock[q] = "judge"
  BY DEF Moves
<1> QED BY <1>1, <1>2 DEF SeenInv

(* A step that leaves the file alone, and what p may make of its own stage. *)
LEMMA LockKept ==
    ASSUME LockInv, SeenInv', dead \subseteq Procs, NEW p \in Procs, Moves(p),
           UNCHANGED <<file, robbed>>,
           lock'[p] \in {"opened", "held"} => lock'[p] = lock[p],
           lock'[p] = "stale" => lock[p] = "stale" \/ HolderGone,
           lock[p] = "held" => lock'[p] = "held"
    PROVE  LockInv'
<1>1. /\ p \notin dead /\ dead \subseteq dead'
      /\ \A q \in dead' : at'[q] = "gone"
      /\ HolderGone => HolderGone'
      /\ \A q : OtherGone(q) => OtherGone(q)'
  BY DeathStep
<1>2. \A q \in Procs : OwnFile(q)'
  BY <1>1 DEF LockInv, OwnFile, Moves
<1>3. \A q \in Procs : file' = FileOf(q, TRUE) => lock'[q] = "held"
  BY DEF LockInv, Moves
<1>4. \A q \in Procs : lock'[q] = "stale" => HolderGone'
  BY <1>1 DEF LockInv, Moves
<1>5. \A q \in robbed' : OtherGone(q)'
  BY <1>1 DEF LockInv
<1> QED BY <1>1, <1>2, <1>3, <1>4, <1>5 DEF LockInv

(* A step that takes the file away, by a process that judged a record or   *)
(* holds the lock.  The first takes the file of a living process only      *)
(* after another had had the lock and is gone; the second takes a file of  *)
(* another only if it was robbed itself.                                   *)
LEMMA LockRemoved ==
    ASSUME LockInv, LockTypeOK, NEW p \in Procs, Moves(p), Remove(p), UNCHANGED seen,
           \/ lock[p] = "stale" /\ lock'[p] = "retry"
           \/ lock[p] = "held" /\ lock'[p] = "released"
    PROVE  LockInv'
<1>0. dead \subseteq Procs
  BY DEF LockTypeOK
<1>1. /\ p \notin dead /\ dead \subseteq dead'
      /\ \A q \in dead' : at'[q] = "gone"
      /\ HolderGone => HolderGone'
      /\ \A q : OtherGone(q) => OtherGone(q)'
  BY <1>0, DeathStep
<1>2. \A q \in Procs : OwnFile(q)'
  <2> SUFFICES ASSUME NEW q \in Procs, q \notin dead' \union robbed',
                      lock'[q] \in {"opened", "held"}
               PROVE  FALSE
    BY DEF OwnFile
  <2>1. q # p /\ lock'[q] = lock[q]
    BY DEF Moves
  <2>2. q \notin dead \union robbed
    BY <1>1 DEF Remove
  <2>3. file \in {FileOf(q, FALSE), FileOf(q, TRUE)}
    BY <2>1, <2>2 DEF LockInv, OwnFile
  <2>4. file.exists /\ file.owner = q
    BY <2>3, FileFacts
  <2> QED BY <2>1, <2>2, <2>4 DEF Remove
<1>3. \A q \in Procs : file' # FileOf(q, TRUE)
  BY FileFacts DEF Remove
<1>4. \A q \in Procs : lock'[q] = "stale" => HolderGone'
  BY <1>1 DEF LockInv, Moves
<1>5. SeenInv'
  BY SeenKept DEF LockInv, HadLock
<1>6. \A q \in robbed' : OtherGone(q)'
  <2> SUFFICES ASSUME NEW q \in robbed' \ robbed PROVE OtherGone(q)
    BY <1>1 DEF LockInv
  <2>1. file.exists /\ q = file.owner /\ q \notin dead \union {p}
    BY DEF Remove
  <2>2. CASE lock[p] = "stale"
    <3>1. HolderGone
      BY <2>2 DEF LockInv
    <3> QED BY <2>1, <3>1 DEF HolderGone, OtherGone
  <2>3. CASE lock[p] = "held" /\ p \notin robbed
    <3>1. file \in {FileOf(p, FALSE), FileOf(p, TRUE)}
      BY <1>1, <2>3 DEF LockInv, OwnFile
    <3> QED BY <2>1, <3>1, FileFacts
  <2>4. CASE p \in robbed
    <3>1. OtherGone(p)
      BY <2>4 DEF LockInv
    <3> QED BY <2>1, <3>1 DEF OtherGone
  <2> QED BY <2>2, <2>3, <2>4
<1> QED BY <1>1, <1>2, <1>3, <1>4, <1>5, <1>6 DEF LockInv

LEMMA LockStep ==
    ASSUME TypeOK, StageInv, LockInv, NEW p \in Procs, Act(p)
    PROVE  LockInv'
<1>0. ProcTypes /\ Moves(p) /\ StageLock(p)
  BY HasProcTypes, ActMoves DEF StageInv
<1>00. LockTypeOK /\ dead \subseteq Procs
  <2>1. LockTypeOK
    BY DEF TypeOK
  <2> QED BY <2>1 DEF LockTypeOK
<1>s. ASSUME UNCHANGED seen, HadLock(p) => HadLock(p)', lock'[p] # "judge" PROVE SeenInv'
  BY <1>0, <1>s, SeenKept DEF LockInv
<1>a. ASSUME UNCHANGED <<file, robbed, lock, seen>> PROVE LockInv'
  <2>1. SeenInv'
    BY <1>a DEF LockInv, SeenInv, HadLock
  <2> QED BY <1>0, <1>00, <1>a, <2>1, LockKept
<1>b. ASSUME Throw(p) PROVE LockInv'
  BY <1>a, <1>b DEF Throw, Proceed, lockVars
<1>1. CASE StartLocked(p)
  <2>1. lock[p] = "none" /\ lock'[p] = "try" /\ UNCHANGED <<file, robbed, seen>>
    BY <1>0, <1>1 DEF StartLocked, ProcTypes, StageLock
  <2>2. SeenInv'
    BY <1>s, <2>1 DEF HadLock
  <2> QED BY <1>0, <1>00, <2>1, <2>2, LockKept
<1>2. CASE StartUnlocked(p)
  BY <1>2, <1>a DEF StartUnlocked, lockVars
<1>3. CASE Acquire(p)
  <2>1. CASE OpenNew(p)
    <3>1. /\ lock'[p] = "opened" /\ file' = FileOf(p, FALSE) /\ file = NoFile
          /\ UNCHANGED <<seen, dead, robbed>> /\ lock[p] \in {"try", "retry"}
      BY <1>0, <1>00, <2>1, FileCases, FileFacts DEF OpenNew, ProcTypes
    <3>2. \A q \in Procs : OwnFile(q)'
      BY <1>0, <3>1, FileFacts DEF LockInv, OwnFile, Moves
    <3>3. \A q \in Procs : file' # FileOf(q, TRUE)
      BY <3>1, FileFacts
    <3>4. (HolderGone => HolderGone') /\ (\A q : OtherGone(q) => OtherGone(q)')
      BY <1>0, <1>00, DeathStep
    <3>5. \A q \in dead' : at'[q] = "gone"
      BY <1>0, <1>00, DeathStep
    <3>6. \A q \in Procs : lock'[q] = "stale" => HolderGone'
      BY <1>0, <3>1, <3>4 DEF LockInv, Moves
    <3>7. \A q \in robbed' : OtherGone(q)'
      BY <3>1, <3>4 DEF LockInv
    <3>8. SeenInv'
      BY <1>s, <3>1 DEF HadLock
    <3> QED BY <3>1, <3>2, <3>3, <3>4, <3>5, <3>6, <3>7, <3>8 DEF LockInv
  <2>2. CASE OpenFails(p)
    <3>1. /\ lock[p] \in {"try", "retry"} /\ lock'[p] \in {"inspect", "refused"}
          /\ UNCHANGED <<file, seen, robbed>>
      BY <1>0, <2>2 DEF OpenFails, ProcTypes
    <3>2. SeenInv'
      BY <1>s, <3>1 DEF HadLock
    <3> QED BY <1>0, <1>00, <3>1, <3>2, LockKept
  <2>3. CASE WriteRecord(p)
    <3>1. /\ lock[p] = "opened" /\ lock'[p] = "held" /\ UNCHANGED <<seen, dead, robbed>>
          /\ file' = IF file = FileOf(p, FALSE) THEN FileOf(p, TRUE) ELSE file
      BY <1>0, <2>3 DEF WriteRecord, ProcTypes
    <3>2. \A q \in Procs : OwnFile(q)'
      <4>1. ASSUME NEW q \in Procs \ {p} PROVE OwnFile(q)'
        <5>1. OwnFile(q) /\ lock'[q] = lock[q] /\ q # p
          BY <1>0 DEF LockInv, Moves
        <5>2. file \in {FileOf(q, FALSE), FileOf(q, TRUE)} => file' = file
          BY ZenonT(40), <3>1, <5>1, FileFacts
        <5> QED BY <3>1, <5>1, <5>2 DEF OwnFile
      <4>2. OwnFile(p)'
        BY <3>1 DEF LockInv, OwnFile
      <4> QED BY <4>1, <4>2
    <3>3. ASSUME NEW q \in Procs, file' = FileOf(q, TRUE) PROVE lock'[q] = "held"
      <4>1. CASE file = FileOf(p, FALSE)
        <5>1. q = p
          BY ZenonT(40), <3>1, <3>3, <4>1, FileFacts
        <5> QED BY <3>1, <5>1
      <4>2. CASE file # FileOf(p, FALSE)
        <5>1. lock[q] = "held"
          BY <3>1, <3>3, <4>2 DEF LockInv
        <5> QED BY <1>0, <3>1, <5>1 DEF Moves
      <4> QED BY <4>1, <4>2
    <3>4. (HolderGone => HolderGone') /\ (\A q : OtherGone(q) => OtherGone(q)')
      BY <1>0, <1>00, DeathStep
    <3>5. \A q \in dead' : at'[q] = "gone"
      BY <1>0, <1>00, DeathStep
    <3>6. \A q \in Procs : lock'[q] = "stale" => HolderGone'
      BY <1>0, <3>1, <3>4 DEF LockInv, Moves
    <3>7. \A q \in robbed' : OtherGone(q)'
      BY <3>1, <3>4 DEF LockInv
    <3>8. SeenInv'
      BY <1>s, <3>1 DEF HadLock
    <3> QED BY <3>1, <3>2, <3>3, <3>4, <3>5, <3>6, <3>7, <3>8 DEF LockInv
  <2>4. CASE ReadRecord(p)
    <3>1. CASE file.exists /\ file.written
      <4>1. /\ lock[p] = "inspect" /\ lock'[p] = "judge" /\ UNCHANGED <<file, robbed>>
            /\ seen'[p] = file /\ \A q \in Procs \ {p} : seen'[q] = seen[q]
        BY <1>0, <1>00, <2>4, <3>1 DEF ReadRecord, ProcTypes, LockTypeOK
      <4>2. PICK o \in Procs : file = FileOf(o, TRUE)
        BY <1>00, <3>1, FileCases, FileFacts
      <4>3. HadLock(o)
        BY <4>2 DEF LockInv, HadLock
      <4>4. \A q \in Procs : HadLock(q) => HadLock(q)'
        BY <1>0, <4>1 DEF HadLock, Moves
      <4>5. ASSUME NEW q \in Procs, NEW r \in Procs, seen'[q] = FileOf(r, TRUE)
            PROVE  HadLock(r)'
        <5>1. CASE q = p
          <6>1. r = o
            <7>1. FileOf(r, TRUE) = FileOf(o, TRUE)
              BY <4>1, <4>2, <4>5, <5>1
            <7> QED BY <7>1, FileFacts
          <6> QED BY <4>3, <4>4, <6>1
        <5>2. CASE q # p
          BY <4>1, <4>4, <4>5, <5>2 DEF LockInv, SeenInv
        <5> QED BY <5>1, <5>2
      <4>6. ASSUME NEW q \in Procs, lock'[q] = "judge"
            PROVE  \E r \in Procs : seen'[q] = FileOf(r, TRUE)
        <5>1. CASE q = p
          BY <4>1, <4>2, <5>1
        <5>2. CASE q # p
          BY <1>0, <4>1, <4>6, <5>2 DEF LockInv, SeenInv, Moves
        <5> QED BY <5>1, <5>2
      <4>7. SeenInv'
        BY <4>5, <4>6 DEF SeenInv
      <4> QED BY <1>0, <1>00, <4>1, <4>7, LockKept
    <3>2. CASE ~(file.exists /\ file.written)
      <4>1. /\ lock[p] = "inspect" /\ lock'[p] = "refused" /\ UNCHANGED <<file, seen, robbed>>
        BY <1>0, <2>4, <3>2 DEF ReadRecord, ProcTypes
      <4>2. SeenInv'
        BY <1>s, <4>1 DEF HadLock
      <4> QED BY <1>0, <1>00, <4>1, <4>2, LockKept
    <3> QED BY <3>1, <3>2
  <2>5. CASE JudgeOwner(p)
    <3>1. /\ lock[p] = "judge" /\ UNCHANGED <<file, robbed>>
          /\ lock'[p] = IF seen[p].owner \in dead THEN "stale" ELSE "refused"
          /\ seen'[p] = NoFile /\ \A q \in Procs \ {p} : seen'[q] = seen[q]
      BY <1>0, <1>00, <2>5 DEF JudgeOwner, ProcTypes, LockTypeOK
    <3>2. PICK o \in Procs : seen[p] = FileOf(o, TRUE) /\ HadLock(o)
      BY <3>1 DEF LockInv, SeenInv
    <3>3. lock'[p] = "stale" => HolderGone
      <4>1. seen[p].owner = o
        BY <3>2, FileFacts
      <4> QED BY <3>1, <3>2, <4>1 DEF HolderGone
    <3>4. \A q \in Procs : HadLock(q) => HadLock(q)'
      BY <1>0, <3>1 DEF HadLock, Moves
    <3>5. ASSUME NEW q \in Procs, NEW r \in Procs, seen'[q] = FileOf(r, TRUE)
          PROVE  HadLock(r)'
      <4>1. q # p
        BY <3>1, <3>5, FileFacts
      <4> QED BY <3>1, <3>4, <3>5, <4>1 DEF LockInv, SeenInv
    <3>6. ASSUME NEW q \in Procs, lock'[q] = "judge"
          PROVE  \E r \in Procs : seen'[q] = FileOf(r, TRUE)
      <4>1. q # p
        BY <3>1, <3>6
      <4> QED BY <1>0, <3>1, <3>6, <4>1 DEF LockInv, SeenInv, Moves
    <3>7. SeenInv'
      BY <3>5, <3>6 DEF SeenInv
    <3> QED BY <1>0, <1>00, <3>1, <3>3, <3>7, LockKept
  <2>6. CASE RemoveStale(p)
    <3>1. lock[p] = "stale" /\ lock'[p] = "retry" /\ Remove(p) /\ UNCHANGED seen
      BY <1>0, <2>6 DEF RemoveStale, ProcTypes
    <3> QED BY <1>0, <1>00, <3>1, LockRemoved
  <2> QED BY <1>3, <2>1, <2>2, <2>3, <2>4, <2>5, <2>6 DEF Acquire, AcquireStep, Open
<1>4. CASE Refused(p)
  BY <1>4, <1>a DEF Refused
<1>5. CASE Release(p)
  <2>1. lock[p] = "held" /\ lock'[p] = "released" /\ Remove(p) /\ UNCHANGED seen
    BY <1>0, <1>5 DEF Release, StageLock, ProcTypes, LockedStages
  <2> QED BY <1>0, <1>00, <2>1, LockRemoved
<1>6. CASE Check(p) \/ Preflight(p) \/ Install(p) \/ Restart(p)
  BY <1>6, <1>a, <1>b DEF Check, Preflight, Install, Restart, Proceed, lockVars
<1>7. CASE Swap(p) \/ RemovePrevious(p) \/ SavePrevious(p) \/ PreviousSaved(p) \/ NoteSaved(p)
  BY <1>7, <1>a, <1>b DEF Swap, RemovePrevious, SavePrevious, PreviousSaved, NoteSaved,
                          Proceed, lockVars
<1>8. CASE RemoveCurrent(p) \/ CopyNew(p) \/ NewCopied(p) \/ NoteNew(p)
  BY <1>8, <1>a DEF RemoveCurrent, CopyNew, NewCopied, NoteNew, Proceed, lockVars
<1>9. CASE Restore(p) \/ RemoveForRestore(p) \/ CopyBack(p) \/ CopiedBack(p) \/ NoteBack(p)
  BY <1>9, <1>a DEF Restore, RemoveForRestore, CopyBack, CopiedBack, NoteBack, lockVars
<1>10. CASE FileFault(p) \/ Die(p)
  BY <1>10, <1>a, <1>b DEF FileFault, Die, Proceed, lockVars
<1>11. CASE LockFault(p)
  <2>1. lock[p] = "opened" /\ lock'[p] = "refused" /\ UNCHANGED <<file, seen, robbed>>
    BY <1>0, <1>11 DEF LockFault, WriteFails, ProcTypes
  <2>2. SeenInv'
    BY <1>s, <2>1 DEF HadLock
  <2> QED BY <1>0, <1>00, <2>1, <2>2, LockKept
<1> QED BY <1>1, <1>2, <1>3, <1>4, <1>5, <1>6, <1>7, <1>8, <1>9, <1>10, <1>11 DEF Act, Step

-----------------------------------------------------------------------------
(* Types                                                                   *)

(* What becomes of a directory, and of the process that copies to it while *)
(* it is at one of the stages S.                                           *)
LEMMA DirNext ==
    ASSUME NEW p \in Procs, Moves(p), p \notin dead,
           NEW S, "gone" \notin S,
           NEW d \in Dirs, d.is = "copying" => at[d.by] \in S,
           NEW e,
           \/ e = d /\ (at[p] \notin S \/ d.is # "copying" \/ d.by # p)
           \/ e \in {Absent, Broken}
           \/ \E v \in Versions : e = Whole(v)
           \/ at'[p] \in S /\ \E v \in Versions : e = Copying(p, v)
    PROVE  e \in Dirs' /\ (e.is = "copying" => at'[e.by] \in S)
<1>0. dead' \in {dead, dead \union {p}}
  BY DEF Moves
<1>1. CASE e = d /\ (at[p] \notin S \/ d.is # "copying" \/ d.by # p)
  <2>1. d.is = "copying" => d.by # p
    BY <1>1
  <2>2. e \in Dirs'
    BY <1>0, <1>1, <2>1, DirsKeep
  <2>3. d.is = "copying" => d.by \in Procs
    BY DirFacts DEF Dirs
  <2>4. d.is = "copying" => at'[d.by] = at[d.by]
    BY <2>1, <2>3 DEF Moves
  <2> QED BY <1>1, <2>2, <2>4
<1>2. CASE e \in {Absent, Broken}
  BY <1>2, DirFacts DEF Dirs
<1>3. CASE \E v \in Versions : e = Whole(v)
  BY <1>3, DirFacts DEF Dirs
<1>4. CASE at'[p] \in S /\ \E v \in Versions : e = Copying(p, v)
  <2>1. p \in Procs \ dead'
    BY <1>4 DEF Moves
  <2>2. e.is = "copying" /\ e.by = p
    BY <1>4, DirFacts
  <2>3. e \in Dirs'
    BY <1>4, <2>1 DEF Dirs
  <2> QED BY <1>4, <2>2, <2>3
<1> QED BY <1>1, <1>2, <1>3, <1>4

LEMMA CopyTypes ==
    ASSUME NEW p, NEW from \in Dirs, NEW to
    PROVE  /\ \/ CopyBegins(p, from, to) = Broken
              \/ \E v \in Versions : CopyBegins(p, from, to) = Copying(p, v)
           /\ \/ CopyEnds(p, from, to) = Broken
              \/ \E v \in Versions : CopyEnds(p, from, to) = Whole(v)
BY WholeIs DEF CopyBegins, CopyEnds

LEMMA LeftTypes ==
    ASSUME NEW p, NEW d, NEW removals, NEW e \in Left(d, p, removals)
    PROVE  e = Broken \/ (e = d /\ (d.is # "copying" \/ d.by # p))
BY DEF Left

LEMMA DirStep ==
    ASSUME TypeOK, StageInv, LockInv, CopyInv, NEW p \in Procs, Act(p)
    PROVE  current' \in Dirs' /\ previous' \in Dirs' /\ CopyInv'
<1>0. ProcTypes /\ Moves(p) /\ StageLock(p) /\ StageJob(p) /\ current \in Dirs /\ previous \in Dirs
  BY HasProcTypes, ActMoves DEF StageInv, TypeOK
<1>00. p \notin dead
  BY <1>0 DEF LockInv, Moves
<1> DEFINE AtCurrent == {"copyingNew", "copyingBack"}
           AtPrevious == {"savingPrevious"}
           Becomes(d, e, S) ==
              \/ e = d /\ (at[p] \notin S \/ d.is # "copying" \/ d.by # p)
              \/ e \in {Absent, Broken}
              \/ \E v \in Versions : e = Whole(v)
              \/ at'[p] \in S /\ \E v \in Versions : e = Copying(p, v)
<1> SUFFICES Becomes(current, current', AtCurrent) /\ Becomes(previous, previous', AtPrevious)
  <2>1. current' \in Dirs' /\ (current'.is = "copying" => at'[current'.by] \in AtCurrent)
    <3>1. "gone" \notin AtCurrent /\ (current.is = "copying" => at[current.by] \in AtCurrent)
      BY DEF CopyInv
    <3> QED BY <1>0, <1>00, <3>1, DirNext
  <2>2. previous' \in Dirs' /\ (previous'.is = "copying" => at'[previous'.by] \in AtPrevious)
    <3>1. "gone" \notin AtPrevious /\ (previous.is = "copying" => at[previous.by] \in AtPrevious)
      BY DEF CopyInv
    <3> QED BY <1>0, <1>00, <3>1, DirNext
  <2> QED BY <2>1, <2>2 DEF CopyInv
<1>1. CASE StartLocked(p) \/ StartUnlocked(p)
  BY <1>1 DEF StartLocked, StartUnlocked, fileVars
<1>2. CASE Acquire(p) \/ Refused(p) \/ Release(p) \/ LockFault(p)
  BY <1>2 DEF Acquire, Refused, Release, LockFault, fileVars
<1>3. CASE Check(p) \/ Preflight(p) \/ Install(p) \/ Restart(p)
  BY <1>3 DEF Check, Preflight, Install, Restart, fileVars
<1>4. CASE Swap(p) \/ Restore(p)
  BY <1>4 DEF Swap, Restore, fileVars
<1>5. CASE NoteSaved(p) \/ NoteNew(p) \/ NoteBack(p)
  BY <1>5 DEF NoteSaved, NoteNew, NoteBack
<1>6. CASE RemovePrevious(p) \/ RemoveCurrent(p) \/ RemoveForRestore(p)
  BY <1>6 DEF RemovePrevious, RemoveCurrent, RemoveForRestore
<1>7. CASE SavePrevious(p)
  <2>1. CASE current = Absent
    BY <1>7, <2>1 DEF SavePrevious
  <2>2. CASE current # Absent
    <3>1. at[p] = "savePrevious" /\ current' = current /\ previous' = CopyBegins(p, current, previous)
      BY <1>7, <2>2 DEF SavePrevious
    <3>2. at'[p] = "savingPrevious"
      BY <1>0, <1>7, <2>2 DEF SavePrevious, Proceed, GoTo, ProcTypes
    <3> QED BY <1>0, <3>1, <3>2, CopyTypes
  <2> QED BY <2>1, <2>2
<1>8. CASE PreviousSaved(p)
  <2>1. at[p] = "savingPrevious" /\ current' = current /\ previous' = CopyEnds(p, current, previous)
    BY <1>8 DEF PreviousSaved
  <2> QED BY <1>0, <2>1, CopyTypes
<1>9. CASE CopyNew(p)
  <2>1. /\ at[p] = "copyNew" /\ previous' = previous
        /\ current' = CopyBegins(p, Whole(job[p].target), current)
    BY <1>9 DEF CopyNew
  <2>2. at'[p] = "copyingNew"
    BY <1>0, <1>9 DEF CopyNew, GoTo, ProcTypes
  <2>3. Whole(job[p].target) \in Dirs
    BY <1>0, <2>1, DirsOf DEF StageLock, StageJob, InSwap
  <2> QED BY <2>1, <2>2, <2>3, CopyTypes
<1>10. CASE NewCopied(p)
  <2>1. /\ at[p] = "copyingNew" /\ previous' = previous
        /\ current' = CopyEnds(p, Whole(job[p].target), current)
    BY <1>10 DEF NewCopied
  <2>2. Whole(job[p].target) \in Dirs
    BY <1>0, <2>1, DirsOf DEF StageLock, StageJob, InSwap
  <2> QED BY <2>1, <2>2, CopyTypes
<1>11. CASE CopyBack(p)
  <2>1. CASE previous = Absent
    BY <1>11, <2>1 DEF CopyBack
  <2>2. CASE previous # Absent
    <3>1. /\ at[p] = "copyBack" /\ previous' = previous
          /\ current' = CopyBegins(p, previous, current)
      BY <1>11, <2>2 DEF CopyBack
    <3>2. at'[p] = "copyingBack"
      BY <1>0, <1>11, <2>2 DEF CopyBack, GoTo, ProcTypes
    <3> QED BY <1>0, <3>1, <3>2, CopyTypes
  <2> QED BY <2>1, <2>2
<1>12. CASE CopiedBack(p)
  <2>1. /\ at[p] = "copyingBack" /\ previous' = previous
        /\ current' = CopyEnds(p, previous, current)
    BY <1>12 DEF CopiedBack
  <2> QED BY <1>0, <2>1, CopyTypes
<1>13. CASE FileFault(p) \/ Die(p)
  <2>1. /\ current' \in Left(current, p, {"rmCurrent", "rmCurrentBack"})
        /\ previous' \in Left(previous, p, {"rmPrevious"})
    BY <1>13 DEF FileFault, Die, BreaksOff
  <2> QED BY <2>1, LeftTypes
<1> QED BY <1>1, <1>2, <1>3, <1>4, <1>5, <1>6, <1>7, <1>8, <1>9, <1>10, <1>11, <1>12,
           <1>13 DEF Act, Step

LEMMA LockTypes ==
    ASSUME TypeOK, NEW p \in Procs, Act(p)
    PROVE  LockTypeOK'
<1>0. ProcTypes /\ Moves(p) /\ LockTypeOK
  BY HasProcTypes, ActMoves DEF TypeOK
<1>1. lock' \in [Procs -> LockStages] /\ dead' \subseteq Procs
  BY <1>0 DEF Moves, LockTypeOK
<1>2. ASSUME file' \in {file, NoFile, FileOf(p, TRUE), FileOf(p, FALSE)},
             robbed' = robbed \/ Remove(p),
             seen' = seen \/ \E f \in LockFiles : seen' = [seen EXCEPT ![p] = f]
      PROVE  LockTypeOK'
  <2>1. file' \in LockFiles
    BY <1>0, <1>2, FilesOf DEF LockTypeOK
  <2>2. robbed' \subseteq Procs
    <3>1. robbed \subseteq Procs
      BY <1>0 DEF LockTypeOK
    <3>2. file.exists => file.owner \in Procs
      BY <1>0, FileCases, FileFacts
    <3> QED BY <1>2, <3>1, <3>2 DEF Remove
  <2>3. seen' \in [Procs -> LockFiles]
    BY <1>0, <1>2 DEF LockTypeOK
  <2> QED BY <1>1, <2>1, <2>2, <2>3 DEF LockTypeOK
<1>a. ASSUME Throw(p) PROVE LockTypeOK'
  BY <1>2, <1>a DEF Throw, Proceed, lockVars
<1>3. CASE StartLocked(p) \/ StartUnlocked(p)
  BY <1>2, <1>3 DEF StartLocked, StartUnlocked, lockVars
<1>4. CASE Acquire(p)
  <2>1. file \in LockFiles /\ NoFile \in LockFiles
    BY <1>0, FilesOf DEF LockTypeOK
  <2>2. CASE ReadRecord(p)
    BY <1>2, <2>1, <2>2 DEF ReadRecord
  <2>3. CASE JudgeOwner(p)
    BY <1>2, <2>1, <2>3 DEF JudgeOwner
  <2>4. CASE OpenNew(p) \/ OpenFails(p) \/ WriteRecord(p) \/ RemoveStale(p)
    BY <1>2, <2>4 DEF OpenNew, OpenFails, WriteRecord, RemoveStale, Remove
  <2> QED BY <1>4, <2>2, <2>3, <2>4 DEF Acquire, AcquireStep, Open
<1>5. CASE Refused(p) \/ Release(p) \/ LockFault(p)
  BY <1>2, <1>5 DEF Refused, Release, LockFault, WriteFails, Remove
<1>6. CASE Check(p) \/ Preflight(p) \/ Install(p) \/ Restart(p)
  BY <1>2, <1>6, <1>a DEF Check, Preflight, Install, Restart, Proceed, lockVars
<1>7. CASE Swap(p) \/ RemovePrevious(p) \/ SavePrevious(p) \/ PreviousSaved(p) \/ NoteSaved(p)
  BY <1>2, <1>7, <1>a DEF Swap, RemovePrevious, SavePrevious, PreviousSaved, NoteSaved,
                          Proceed, lockVars
<1>8. CASE RemoveCurrent(p) \/ CopyNew(p) \/ NewCopied(p) \/ NoteNew(p)
  BY <1>2, <1>8 DEF RemoveCurrent, CopyNew, NewCopied, NoteNew, Proceed, lockVars
<1>9. CASE Restore(p) \/ RemoveForRestore(p) \/ CopyBack(p) \/ CopiedBack(p) \/ NoteBack(p)
  BY <1>2, <1>9 DEF Restore, RemoveForRestore, CopyBack, CopiedBack, NoteBack, lockVars
<1>10. CASE FileFault(p) \/ Die(p)
  BY <1>2, <1>10, <1>a DEF FileFault, Die, Proceed, lockVars
<1> QED BY <1>3, <1>4, <1>5, <1>6, <1>7, <1>8, <1>9, <1>10 DEF Act, Step

(* The counts and the history. *)
CountTypes ==
    /\ meta \in 0 .. Latest /\ prevMeta \in 0 .. Latest
    /\ installs \in 0 .. MaxInstalls /\ faults \in 0 .. MaxFaults /\ deaths \in 0 .. MaxDeaths
    /\ risks \subseteq {"nothing installed", "rebuild", "restoreBroken"}
    /\ torn \in BOOLEAN /\ mixed \in BOOLEAN

LEMMA CountStep ==
    ASSUME TypeOK, StageInv, NEW p \in Procs, Act(p)
    PROVE  CountTypes'
<1>0. CountTypes
  BY DEF CountTypes, TypeOK
<1>00. ProcTypes /\ StageLock(p) /\ StageJob(p)
  BY HasProcTypes DEF StageInv
<1>a. ASSUME UNCHANGED <<meta, prevMeta, installs, faults, deaths, risks, torn, mixed>>
      PROVE  CountTypes'
  BY <1>0, <1>a DEF CountTypes
<1>1. CASE StartLocked(p)
  BY <1>1, <1>a DEF StartLocked, fileVars, countVars
<1>b. ASSUME NEW n \in Nat, NEW c \in 0 .. n, c < n PROVE c + 1 \in 0 .. n
  BY <1>b
<1>2. CASE StartUnlocked(p)
  <2>1. installs' \in 0 .. MaxInstalls
    BY <1>2, <1>0, <1>b, UpdateAssumption DEF StartUnlocked, CountTypes
  <2>2. UNCHANGED <<meta, prevMeta, faults, deaths, risks, torn, mixed>>
    BY <1>2 DEF StartUnlocked, fileVars
  <2> QED BY <1>0, <2>1, <2>2 DEF CountTypes
<1>3. CASE Acquire(p) \/ Refused(p) \/ Release(p)
  BY <1>3, <1>a DEF Acquire, Refused, Release, fileVars, countVars
<1>4. CASE Check(p) \/ Preflight(p) \/ Install(p) \/ Restart(p)
  BY <1>4, <1>a DEF Check, Preflight, Install, Restart, fileVars, countVars
<1>5. CASE Swap(p) \/ Restore(p)
  BY <1>5, <1>0 DEF Swap, Restore, fileVars, countVars, CountTypes
<1>6. CASE RemovePrevious(p) \/ SavePrevious(p) \/ PreviousSaved(p)
  BY <1>6, <1>a DEF RemovePrevious, SavePrevious, PreviousSaved, countVars
<1>7. CASE NoteSaved(p)
  BY <1>7, <1>0, <1>00 DEF NoteSaved, countVars, CountTypes, ProcTypes
<1>8. CASE RemoveCurrent(p) \/ CopyNew(p) \/ NewCopied(p)
  BY <1>8, <1>a DEF RemoveCurrent, CopyNew, NewCopied, countVars
<1>9. CASE NoteNew(p)
  <2>1. job[p].target \in 0 .. Latest
    BY <1>9, <1>00, UpdateAssumption DEF NoteNew, StageLock, StageJob, InSwap, Versions
  <2> QED BY <1>9, <1>0, <2>1 DEF NoteNew, countVars, CountTypes
<1>10. CASE RemoveForRestore(p) \/ CopyBack(p) \/ CopiedBack(p)
  BY <1>10, <1>a DEF RemoveForRestore, CopyBack, CopiedBack, countVars
<1>11. CASE NoteBack(p)
  BY <1>11, <1>0 DEF NoteBack, countVars, CountTypes
<1>12. CASE FileFault(p)
  <2>1. faults' \in 0 .. MaxFaults
    BY <1>12, <1>0, <1>b, UpdateAssumption DEF FileFault, CountTypes
  <2>2. torn' \in BOOLEAN /\ UNCHANGED <<meta, prevMeta, installs, deaths, risks, mixed>>
    BY <1>12 DEF FileFault, BreaksOff
  <2> QED BY <1>0, <2>1, <2>2 DEF CountTypes
<1>13. CASE LockFault(p)
  <2>1. faults' \in 0 .. MaxFaults
    BY <1>13, <1>0, <1>b, UpdateAssumption DEF LockFault, CountTypes
  <2>2. UNCHANGED <<meta, prevMeta, installs, deaths, risks, torn, mixed>>
    BY <1>13 DEF LockFault, fileVars
  <2> QED BY <1>0, <2>1, <2>2 DEF CountTypes
<1>14. CASE Die(p)
  <2>1. deaths' \in 0 .. MaxDeaths
    BY <1>14, <1>0, <1>b, UpdateAssumption DEF Die, CountTypes
  <2>2. torn' \in BOOLEAN /\ UNCHANGED <<meta, prevMeta, installs, faults, risks, mixed>>
    BY <1>14 DEF Die, BreaksOff
  <2> QED BY <1>0, <2>1, <2>2 DEF CountTypes
<1> QED BY <1>1, <1>2, <1>3, <1>4, <1>5, <1>6, <1>7, <1>8, <1>9, <1>10, <1>11, <1>12,
           <1>13, <1>14 DEF Act, Step

LEMMA TypeStep ==
    ASSUME TypeOK, StageInv, LockInv, CopyInv, NEW p \in Procs, Act(p)
    PROVE  TypeOK'
<1>1. LockTypeOK' /\ CountTypes' /\ current' \in Dirs' /\ previous' \in Dirs'
  BY LockTypes, CountStep, DirStep
<1>2. /\ at' \in [Procs -> Stages] /\ job' \in [Procs -> Jobs]
      /\ read' \in [Procs -> 0 .. Latest] /\ removed' \in [Procs -> 0 .. Latest]
  BY ActMoves DEF Moves
<1> QED BY <1>1, <1>2 DEF TypeOK, CountTypes

-----------------------------------------------------------------------------
(* The files                                                               *)

(* A step that leaves the files alone. *)
LEMMA FilesQuiet ==
    ASSUME FilesInv, NEW p \in Procs, Moves(p),
           UNCHANGED <<current, previous, risks>>, mixed => mixed',
           at'[p] \notin InFiles,
           at'[p] \in {"restart", "restore"} => removed'[p] = 0 \/ (Busy(p) /\ removed'[p] = removed[p])
    PROVE  FilesInv'
<1> SUFFICES ASSUME ~mixed'
             PROVE  /\ \A q, r \in Procs : Busy(q)' /\ Busy(r)' => q = r
                    /\ \A q \in Procs : Busy(q)' => Knows(q)'
                    /\ risks = {} => IsWhole(current) \/ IsWhole(previous)
  BY DEF FilesInv
<1>1. ASSUME NEW q \in Procs \ {p} PROVE Busy(q)' = Busy(q) /\ Knows(q)' = Knows(q)
  BY <1>1 DEF Moves, Busy, Knows
<1>2. Busy(p)' => Busy(p) /\ removed'[p] = removed[p] /\ at'[p] \in {"restart", "restore"}
  BY DEF Busy
<1>3. Busy(p)' => Knows(p)'
  <2> SUFFICES ASSUME Busy(p)' PROVE Knows(p)'
    OBVIOUS
  <2>1. removed[p] # 0 => previous = Whole(removed[p])
    BY <1>2 DEF FilesInv, Knows
  <2> QED BY <1>2, <2>1 DEF Knows, Saving, Replacing, InRestore
<1> QED BY <1>1, <1>2, <1>3 DEF FilesInv

(* A step of the only process that works on them. *)
LEMMA FilesAlone ==
    ASSUME FilesInv, NEW p \in Procs, Moves(p),
           \/ mixed'
           \/ /\ ~mixed
              /\ \A q \in Procs \ {p} : ~Busy(q)
              /\ Busy(p)' => Knows(p)'
              /\ risks' = {} => IsWhole(current') \/ IsWhole(previous')
    PROVE  FilesInv'
<1> SUFFICES ASSUME ~mixed'
             PROVE  /\ \A q, r \in Procs : Busy(q)' /\ Busy(r)' => q = r
                    /\ \A q \in Procs : Busy(q)' => Knows(q)'
                    /\ risks' = {} => IsWhole(current') \/ IsWhole(previous')
  BY DEF FilesInv
<1>1. \A q \in Procs \ {p} : ~Busy(q)'
  BY DEF Moves, Busy
<1> QED BY <1>1

LEMMA GoneEffect ==
    ASSUME ProcTypes, NEW p \in Procs, Gone(p)
    PROVE  at'[p] = "gone" /\ removed'[p] = 0
BY DEF ProcTypes, Gone, GoTo

LEMMA ThrowEffect ==
    ASSUME ProcTypes, NEW p \in Procs, Throw(p)
    PROVE  \/ at'[p] = "gone"
           \/ at'[p] \in {"restore", "release"} /\ removed'[p] = removed[p]
BY GoneEffect DEF ProcTypes, Throw, Proceed, GoTo, jobVars

LEMMA ProceedEffect ==
    ASSUME ProcTypes, NEW p \in Procs, NEW s, Proceed(p, s)
    PROVE  at'[p] = s /\ removed'[p] = removed[p] /\ read'[p] = read[p] /\ job'[p] = job[p]
BY DEF ProcTypes, Proceed, GoTo, jobVars

(* What is known to have gone wrong stays known. *)
LEMMA HistoryStep ==
    ASSUME TypeOK, NEW p \in Procs, Act(p)
    PROVE  (mixed => mixed') /\ (torn => torn')
<1>0. mixed \in BOOLEAN /\ torn \in BOOLEAN
  BY DEF TypeOK
<1>1. CASE StartLocked(p) \/ StartUnlocked(p)
  BY <1>0, <1>1 DEF StartLocked, StartUnlocked
<1>2. CASE Acquire(p) \/ Refused(p) \/ Release(p) \/ LockFault(p)
  BY <1>0, <1>2 DEF Acquire, Refused, Release, LockFault
<1>3. CASE Check(p) \/ Preflight(p) \/ Install(p) \/ Restart(p)
  BY <1>0, <1>3 DEF Check, Preflight, Install, Restart
<1>4. CASE Swap(p) \/ RemovePrevious(p) \/ SavePrevious(p) \/ PreviousSaved(p) \/ NoteSaved(p)
  BY <1>0, <1>4 DEF Swap, RemovePrevious, SavePrevious, PreviousSaved, NoteSaved
<1>5. CASE RemoveCurrent(p) \/ CopyNew(p) \/ NewCopied(p) \/ NoteNew(p)
  BY <1>0, <1>5 DEF RemoveCurrent, CopyNew, NewCopied, NoteNew
<1>6. CASE Restore(p) \/ RemoveForRestore(p) \/ CopyBack(p) \/ CopiedBack(p) \/ NoteBack(p)
  BY <1>0, <1>6 DEF Restore, RemoveForRestore, CopyBack, CopiedBack, NoteBack
<1>7. CASE FileFault(p) \/ Die(p)
  BY <1>0, <1>7 DEF FileFault, Die, BreaksOff
<1> QED BY <1>1, <1>2, <1>3, <1>4, <1>5, <1>6, <1>7 DEF Act, Step

(* A directory that nobody copies to and p does not remove stays. *)
LEMMA LeftAlone ==
    ASSUME NEW p, NEW d, NEW removals, NEW e \in Left(d, p, removals),
           d.is = "copying" => d.by # p, at[p] \notin removals
    PROVE  e = d
BY DEF Left

LEMMA FilesStep ==
    ASSUME TypeOK, StageInv, LockInv, CopyInv, FilesInv, NEW p \in Procs, Act(p)
    PROVE  FilesInv'
<1>0. ProcTypes /\ Moves(p) /\ StageLock(p) /\ StageJob(p) /\ current \in Dirs /\ previous \in Dirs
  BY HasProcTypes, ActMoves DEF StageInv, TypeOK
<1>m. CASE mixed
  BY <1>m, <1>0, HistoryStep, FilesAlone
<1> SUFFICES ASSUME ~mixed PROVE FilesInv'
  BY <1>m
<1>w. ASSUME at[p] \in InFiles PROVE Knows(p) /\ \A q \in Procs \ {p} : ~Busy(q)
  BY <1>w DEF FilesInv, Busy
<1>v. IsWhole(current) => current.version # 0 /\ current = Whole(current.version)
  BY <1>0, WholeIs
<1> USE DEF StageLock, StageJob, LockedStages, InFiles, InSwap, InRestore
<1> DEFINE Quiet == /\ UNCHANGED <<current, previous, risks>>
                    /\ at'[p] \notin InFiles
                    /\ at'[p] \in {"restart", "restore"} =>
                          removed'[p] = 0 \/ (Busy(p) /\ removed'[p] = removed[p])
           Mine == /\ Busy(p)' => Knows(p)'
                   /\ risks' = {} => IsWhole(current') \/ IsWhole(previous')
<1>q. ASSUME Quiet PROVE FilesInv'
  BY <1>q, <1>0, HistoryStep, FilesQuiet
<1>f. ASSUME at[p] \in InFiles, mixed' = mixed, Mine PROVE FilesInv'
  BY <1>f, <1>0, <1>w, FilesAlone
<1>1. CASE StartLocked(p) \/ StartUnlocked(p)
  <2>1. UNCHANGED <<current, previous, risks, mixed>> /\ at'[p] \in {"acquire", "swap"}
    BY <1>0, <1>1 DEF StartLocked, StartUnlocked, fileVars, GoTo, ProcTypes
  <2> QED BY <1>q, <2>1
<1>2. CASE Acquire(p) \/ LockFault(p)
  <2>1. UNCHANGED <<current, previous, risks, mixed>> /\ at'[p] \in {"acquire", "check"}
    BY <1>0, <1>2 DEF Acquire, LockFault, fileVars, GoTo, ProcTypes
  <2> QED BY <1>q, <2>1
<1>3. CASE Refused(p) \/ Release(p)
  <2>1. UNCHANGED <<current, previous, risks, mixed>> /\ at'[p] = "gone"
    BY <1>0, <1>3, GoneEffect DEF Refused, Release, fileVars
  <2> QED BY <1>q, <2>1
<1>4. CASE Check(p) \/ Preflight(p) \/ Install(p)
  <2>1. UNCHANGED <<current, previous, risks, mixed>> /\ removed[p] = 0
    BY <1>0, <1>4 DEF Check, Preflight, Install, fileVars
  <2>2. \/ at'[p] = "gone"
        \/ /\ at'[p] \in {"preflight", "install", "swap", "restart", "restore", "release"}
           /\ removed'[p] = removed[p]
    BY <1>0, <1>4, ThrowEffect, ProceedEffect DEF Check, Preflight, Install
  <2> QED BY <1>q, <2>1, <2>2
<1>5. CASE Restart(p)
  <2>1. UNCHANGED <<current, previous, risks, mixed>> /\ at[p] = "restart"
    BY <1>5 DEF Restart, fileVars
  <2>2. \/ at'[p] = "gone"
        \/ at'[p] \in {"restore", "release"} /\ removed'[p] = removed[p]
    BY <1>0, <1>5, ThrowEffect, ProceedEffect DEF Restart
  <2> QED BY <1>q, <2>1, <2>2 DEF Busy
<1>6. CASE Swap(p)
  <2>1. /\ at[p] = "swap" /\ UNCHANGED <<current, previous>> /\ removed'[p] = 0
        /\ at'[p] = IF current = Absent THEN "copyNew" ELSE "rmPrevious"
        /\ risks' = risks \union (IF current = Absent \/ IsWhole(current) THEN {} ELSE {"rebuild"})
        /\ ~mixed' => Alone(p)
    BY <1>0, <1>6 DEF Swap, fileVars, GoTo, ProcTypes
  <2>2. ~mixed' => \A q \in Procs \ {p} : ~Busy(q)
    BY <2>1 DEF Alone, Busy, Installing
  <2>3. risks = {} => IsWhole(current) \/ IsWhole(previous)
    BY DEF FilesInv
  <2>4. risks' = {} => risks = {} /\ (current = Absent \/ IsWhole(current))
    BY <2>1
  <2>5. risks' = {} => IsWhole(current') \/ IsWhole(previous')
    BY <2>1, <2>3, <2>4
  <2>6. Knows(p)'
    BY <2>1, <2>3, <2>4, WholeFacts DEF Knows, Saving, Replacing
  <2> QED BY <1>0, <2>2, <2>5, <2>6, FilesAlone
<1>7. CASE RemovePrevious(p)
  <2>1. /\ at[p] = "rmPrevious" /\ at'[p] = "savePrevious" /\ removed'[p] = removed[p]
        /\ previous' = Absent /\ UNCHANGED <<current, risks, mixed>>
    BY <1>0, <1>7 DEF RemovePrevious, GoTo, ProcTypes, jobVars
  <2>2. removed[p] = 0 /\ (IsWhole(current) \/ risks # {})
    BY <1>w, <2>1 DEF Knows, Saving
  <2>3. Knows(p)'
    BY <2>1, <2>2 DEF Knows, Saving, Replacing
  <2> QED BY <1>f, <2>1, <2>2, <2>3
<1>8. CASE SavePrevious(p)
  <2>0. at[p] = "savePrevious" /\ UNCHANGED <<current, risks, mixed>>
    BY <1>8 DEF SavePrevious
  <2>1. /\ removed[p] = 0 /\ (IsWhole(current) \/ risks # {})
        /\ previous = Absent
    BY <1>w, <2>0 DEF Knows, Saving
  <2>2. CASE current = Absent
    <3>1. risks # {}
      BY <2>1, <2>2, WholeFacts
    <3>2. \/ at'[p] = "gone"
          \/ at'[p] \in {"restore", "release"} /\ removed'[p] = 0
      BY <1>0, <1>8, <2>1, <2>2, ThrowEffect DEF SavePrevious
    <3>3. ~Busy(p)'
      BY <3>2 DEF Busy
    <3> QED BY <1>f, <2>0, <3>1, <3>3
  <2>3. CASE current # Absent
    <3>1. /\ at'[p] = "savingPrevious" /\ removed'[p] = 0
          /\ previous' = CopyBegins(p, current, Absent)
      BY <1>0, <1>8, <2>1, <2>3, ProceedEffect DEF SavePrevious
    <3>2. IsWhole(current) => previous' = Copying(p, current.version)
      BY <3>1 DEF CopyBegins
    <3>3. Knows(p)'
      BY <2>0, <2>1, <3>1, <3>2 DEF Knows, Saving, Replacing
    <3> QED BY <1>f, <2>0, <2>1, <3>3
  <2> QED BY <2>2, <2>3
<1>9. CASE PreviousSaved(p)
  <2>1. /\ at[p] = "savingPrevious" /\ at'[p] \in {"rmCurrent", "noteSaved"}
        /\ removed'[p] = removed[p]
        /\ previous' = CopyEnds(p, current, previous) /\ UNCHANGED <<current, risks, mixed>>
    BY <1>0, <1>9 DEF PreviousSaved, GoTo, ProcTypes, jobVars
  <2>2. /\ removed[p] = 0 /\ (IsWhole(current) \/ risks # {})
        /\ IsWhole(current) => previous = Copying(p, current.version)
    BY <1>w, <2>1 DEF Knows, Saving
  <2>3. IsWhole(current) => previous' = current
    BY <2>1, <2>2 DEF CopyEnds
  <2>4. Knows(p)'
    BY <2>1, <2>2, <2>3 DEF Knows, Saving, Replacing
  <2> QED BY <1>f, <2>1, <2>2, <2>4
<1>10. CASE NoteSaved(p)
  <2>1. /\ at[p] = "noteSaved" /\ at'[p] = "rmCurrent" /\ removed'[p] = removed[p]
        /\ UNCHANGED <<current, previous, risks, mixed>>
    BY <1>0, <1>10 DEF NoteSaved, GoTo, ProcTypes, jobVars
  <2>2. /\ removed[p] = 0 /\ (IsWhole(current) \/ risks # {})
        /\ IsWhole(current) => previous = current
    BY <1>w, <2>1 DEF Knows, Saving
  <2>3. Knows(p)'
    BY <2>1, <2>2 DEF Knows, Saving, Replacing
  <2> QED BY <1>f, <2>1, <2>2, <2>3
<1>11. CASE RemoveCurrent(p)
  <2>1. /\ at[p] = "rmCurrent" /\ at'[p] = "copyNew"
        /\ removed'[p] = IF IsWhole(current) THEN current.version ELSE 0
        /\ current' = Absent /\ UNCHANGED <<previous, risks, mixed>>
    BY <1>0, <1>11 DEF RemoveCurrent, GoTo, ProcTypes
  <2>2. /\ IsWhole(current) \/ risks # {}
        /\ IsWhole(current) => previous = current
    BY <1>w, <2>1 DEF Knows, Saving
  <2>3. /\ removed'[p] # 0 => previous' = Whole(removed'[p])
        /\ risks = {} => IsWhole(previous)
    BY <1>v, <2>1, <2>2
  <2>4. Knows(p)'
    BY <2>1, <2>3 DEF Knows, Saving
  <2> QED BY <1>f, <2>1, <2>3, <2>4
<1>12. CASE CopyNew(p) \/ NewCopied(p)
  <2>1. /\ at[p] \in {"copyNew", "copyingNew"} /\ at'[p] \in {"copyingNew", "noteNew"}
        /\ removed'[p] = removed[p] /\ UNCHANGED <<previous, risks, mixed>>
    BY <1>0, <1>12 DEF CopyNew, NewCopied, GoTo, ProcTypes, jobVars
  <2>2. /\ removed[p] # 0 => previous = Whole(removed[p])
        /\ risks = {} => IsWhole(previous)
    BY <1>w, <2>1 DEF Knows, Replacing
  <2>3. Knows(p)'
    BY <2>1, <2>2 DEF Knows, Saving
  <2> QED BY <1>f, <2>1, <2>2, <2>3
<1>13. CASE NoteNew(p)
  <2>1. /\ at[p] = "noteNew" /\ UNCHANGED <<current, previous, mixed>>
        /\ risks' = IF IsWhole(current) THEN {} ELSE risks
    BY <1>13 DEF NoteNew
  <2>2. \/ at'[p] = "gone"
        \/ at'[p] = "restart" /\ removed'[p] = removed[p]
    BY <1>0, <1>13, GoneEffect, ProceedEffect DEF NoteNew
  <2>3. /\ removed[p] # 0 => previous = Whole(removed[p])
        /\ risks = {} => IsWhole(previous)
    BY <1>w, <2>1 DEF Knows, Replacing
  <2>4. Busy(p)' => Knows(p)'
    BY <2>1, <2>2, <2>3 DEF Busy, Knows, Saving, Replacing
  <2> QED BY <1>f, <2>1, <2>3, <2>4
<1>14. CASE Restore(p)
  <2>1. /\ at[p] = "restore" /\ UNCHANGED <<current, previous>> /\ removed'[p] = removed[p]
        /\ at'[p] = IF previous = Absent THEN "release"
                    ELSE IF current = Absent THEN "copyBack" ELSE "rmCurrentBack"
        /\ risks' = IF previous = Absent THEN risks
                    ELSE risks \union (IF IsWhole(previous) THEN {} ELSE {"restoreBroken"})
        /\ ~mixed' => previous = Absent \/ Alone(p)
    BY <1>0, <1>14 DEF Restore, fileVars, GoTo, ProcTypes, jobVars
  <2>2. CASE previous = Absent
    BY <1>q, <2>1, <2>2
  <2>3. CASE previous # Absent
    <3>1. ~mixed' => \A q \in Procs \ {p} : ~Busy(q)
      BY <2>1, <2>3 DEF Alone, Busy, Installing
    <3>2. risks' = {} => IsWhole(previous)
      BY <2>1, <2>3
    <3>3. removed[p] # 0 => previous = Whole(removed[p])
      BY <2>1 DEF Busy, FilesInv, Knows
    <3>4. Knows(p)'
      BY <2>1, <2>3, <3>2, <3>3 DEF Knows, Saving, Replacing
    <3> QED BY <1>0, <2>1, <3>1, <3>2, <3>4, FilesAlone
  <2> QED BY <2>2, <2>3
<1>15. CASE RemoveForRestore(p) \/ CopyBack(p) \/ CopiedBack(p) \/ NoteBack(p)
  <2>1. /\ at[p] \in InRestore /\ UNCHANGED <<previous, risks, mixed>>
        /\ removed'[p] = removed[p]
        /\ at'[p] \in {"copyBack", "copyingBack", "noteBack", "release", "restart"}
    BY <1>0, <1>15 DEF RemoveForRestore, CopyBack, CopiedBack, NoteBack, AfterRestore,
                       GoTo, ProcTypes, jobVars
  <2>2. /\ removed[p] # 0 => previous = Whole(removed[p])
        /\ risks = {} => IsWhole(previous)
    BY <1>w, <2>1 DEF Knows
  <2>3. at'[p] = "copyingBack" => ~IsWhole(current')
    <3> SUFFICES ASSUME at'[p] = "copyingBack" PROVE ~IsWhole(current')
      OBVIOUS
    <3>1. current' = CopyBegins(p, previous, current)
      BY <1>0, <1>15 DEF RemoveForRestore, CopyBack, CopiedBack, NoteBack, AfterRestore,
                         GoTo, ProcTypes
    <3> QED BY <3>1, CopyFacts, WholeFacts
  <2>4. Knows(p)'
    BY <2>1, <2>2, <2>3 DEF Knows, Saving, Replacing
  <2> QED BY <1>f, <2>1, <2>2, <2>4
<1>16. CASE FileFault(p) \/ Die(p)
  <2>1. /\ current' \in Left(current, p, {"rmCurrent", "rmCurrentBack"})
        /\ previous' \in Left(previous, p, {"rmPrevious"})
        /\ UNCHANGED <<risks, mixed>>
    BY <1>16 DEF FileFault, Die, BreaksOff
  <2>2. \/ at'[p] = "gone"
        \/ at'[p] \in {"restore", "release"} /\ removed'[p] = removed[p] /\ at[p] \in InFiles
    BY <1>0, <1>16, ThrowEffect, ProceedEffect, GoneEffect DEF FileFault, Die
  <2>3. IsWhole(current) /\ at[p] \notin {"rmCurrent", "rmCurrentBack"} => current' = current
    BY <2>1, LeftAlone DEF IsWhole
  <2>4. IsWhole(previous) /\ at[p] # "rmPrevious" => previous' = previous
    BY <2>1, LeftAlone DEF IsWhole
  <2>5. CASE at[p] \in InFiles
    <3>1. /\ at[p] \in Saving => removed[p] = 0 /\ (IsWhole(current) \/ risks # {})
          /\ at[p] = "rmCurrent" /\ IsWhole(current) => previous = current
          /\ removed[p] # 0 => previous = Whole(removed[p])
          /\ at[p] \in Replacing \union InRestore /\ risks = {} => IsWhole(previous)
      BY <1>w, <2>5 DEF Knows
    <3>2. removed[p] # 0 => previous' = previous /\ previous = Whole(removed[p])
      BY <2>4, <3>1, WholeFacts DEF Saving
    <3>3. Busy(p)' => Knows(p)'
      BY <2>2, <3>2 DEF Busy, Knows, Saving, Replacing
    <3>4. risks = {} => IsWhole(current') \/ IsWhole(previous')
      BY <2>3, <2>4, <2>5, <3>1 DEF Saving, Replacing
    <3> QED BY <1>f, <2>1, <2>5, <3>3, <3>4
  <2>6. CASE at[p] \notin InFiles
    <3>1. current' = current
      BY <2>1, <2>6, LeftAlone DEF CopyInv
    <3>2. previous' = previous
      BY <2>1, <2>6, LeftAlone DEF CopyInv
    <3> QED BY <1>q, <2>1, <2>2, <2>6, <3>1, <3>2
  <2> QED BY <2>5, <2>6
<1> QED BY <1>1, <1>2, <1>3, <1>4, <1>5, <1>6, <1>7, <1>8, <1>9, <1>10, <1>11, <1>12,
           <1>13, <1>14, <1>15, <1>16 DEF Act, Step

-----------------------------------------------------------------------------
(* The metadata                                                            *)

(* A step outside of the files. *)
LEMMA MetaQuiet ==
    ASSUME MetaInv, NEW p \in Procs, Moves(p),
           UNCHANGED <<fileVars, risks>>, mixed => mixed', torn => torn',
           at[p] \notin InFiles, at'[p] \notin InFiles
    PROVE  MetaInv'
<1> SUFFICES ASSUME ~mixed', ~torn'
             PROVE  /\ risks \subseteq {"nothing installed"}
                    /\ (\A q \in Procs : at'[q] \notin InFiles) =>
                          IF risks = {} THEN AtRest ELSE current = Absent /\ previous = Absent
                    /\ \A q \in Procs : at'[q] \in InFiles =>
                          IF risks = {} THEN Replaces(q)' ELSE FirstInstall(q)'
  BY DEF MetaInv, AtRest, fileVars
<1>1. \A q \in Procs : at'[q] \in InFiles <=> at[q] \in InFiles
  BY DEF Moves
<1>2. ASSUME NEW q \in Procs, at'[q] \in InFiles
      PROVE  Replaces(q)' = Replaces(q) /\ FirstInstall(q)' = FirstInstall(q)
  BY <1>2 DEF Moves, Replaces, FirstInstall, fileVars
<1> QED BY <1>1, <1>2 DEF MetaInv

(* A step of the only process that works on them. *)
LEMMA MetaAlone ==
    ASSUME NEW p \in Procs, Moves(p),
           \A q \in Procs \ {p} : at[q] \notin InFiles,
           IF at'[p] \in InFiles
           THEN \/ risks' = {} /\ Replaces(p)'
                \/ risks' = {"nothing installed"} /\ FirstInstall(p)'
           ELSE risks' = {} /\ AtRest'
    PROVE  MetaInv'
<1>1. \A q \in Procs \ {p} : at'[q] \notin InFiles
  BY DEF Moves
<1> QED BY <1>1 DEF MetaInv

LEMMA MetaStep ==
    ASSUME TypeOK, StageInv, LockInv, CopyInv, FilesInv, MetaInv, NEW p \in Procs, Act(p)
    PROVE  MetaInv'
<1>0. ProcTypes /\ Moves(p) /\ StageLock(p) /\ StageJob(p) /\ current \in Dirs /\ previous \in Dirs
  BY HasProcTypes, ActMoves DEF StageInv, TypeOK
<1>h. (mixed => mixed') /\ (torn => torn')
  BY HistoryStep
<1> SUFFICES ASSUME ~mixed', ~torn' PROVE MetaInv'
  BY DEF MetaInv
<1>n. /\ risks \subseteq {"nothing installed"}
      /\ (\A q \in Procs : at[q] \notin InFiles) =>
            IF risks = {} THEN AtRest ELSE current = Absent /\ previous = Absent
      /\ \A q \in Procs : at[q] \in InFiles =>
            IF risks = {} THEN Replaces(q) ELSE FirstInstall(q)
  BY <1>h DEF MetaInv
<1>w. ASSUME at[p] \in InFiles
      PROVE  /\ \A q \in Procs \ {p} : at[q] \notin InFiles
             /\ risks = {} => Replaces(p)
             /\ risks # {} => risks = {"nothing installed"} /\ FirstInstall(p)
  BY <1>w, <1>h, <1>n DEF FilesInv, Busy
<1> DEFINE Quiet == UNCHANGED <<fileVars, risks>> /\ at[p] \notin InFiles /\ at'[p] \notin InFiles
           Mine == IF at'[p] \in InFiles
                   THEN \/ risks' = {} /\ Replaces(p)'
                        \/ risks' = {"nothing installed"} /\ FirstInstall(p)'
                   ELSE risks' = {} /\ AtRest'
<1>q. ASSUME Quiet PROVE MetaInv'
  BY <1>q, <1>0, <1>h, MetaQuiet
<1>f. ASSUME at[p] \in InFiles, Mine PROVE MetaInv'
  BY <1>f, <1>0, <1>w, MetaAlone
<1> USE DEF InFiles, InSwap, InRestore
<1>1. CASE StartLocked(p) \/ StartUnlocked(p)
  <2>1. UNCHANGED <<fileVars, risks>> /\ at[p] = "idle" /\ at'[p] \in {"acquire", "swap"}
    BY <1>0, <1>1 DEF StartLocked, StartUnlocked, GoTo, ProcTypes
  <2> QED BY <1>q, <2>1
<1>2. CASE Acquire(p) \/ LockFault(p)
  <2>1. UNCHANGED <<fileVars, risks>> /\ at[p] = "acquire" /\ at'[p] \in {"acquire", "check"}
    BY <1>0, <1>2 DEF Acquire, LockFault, GoTo, ProcTypes
  <2> QED BY <1>q, <2>1
<1>3. CASE Refused(p) \/ Release(p)
  <2>1. UNCHANGED <<fileVars, risks>> /\ at[p] \in {"acquire", "release"} /\ at'[p] = "gone"
    BY <1>0, <1>3, GoneEffect DEF Refused, Release
  <2> QED BY <1>q, <2>1
<1>4. CASE Check(p) \/ Preflight(p) \/ Install(p) \/ Restart(p)
  <2>1. UNCHANGED <<fileVars, risks>> /\ at[p] \in {"check", "preflight", "install", "restart"}
    BY <1>4 DEF Check, Preflight, Install, Restart
  <2>2. at'[p] \in {"gone", "preflight", "install", "swap", "restart", "restore", "release"}
    BY <1>0, <1>4, ThrowEffect, ProceedEffect DEF Check, Preflight, Install, Restart
  <2> QED BY <1>q, <2>1, <2>2
<1>5. CASE Swap(p)
  <2>1. /\ at[p] = "swap" /\ UNCHANGED <<current, previous, meta, prevMeta>> /\ read'[p] = meta
        /\ at'[p] = IF current = Absent THEN "copyNew" ELSE "rmPrevious"
        /\ risks' = risks \union (IF current = Absent \/ IsWhole(current) THEN {} ELSE {"rebuild"})
        /\ Alone(p)
    BY <1>0, <1>5 DEF Swap, fileVars, GoTo, ProcTypes
  <2>2. \A q \in Procs \ {p} : at[q] \notin InFiles
    BY <2>1 DEF Alone, Installing
  <2>3. \A q \in Procs : at[q] \notin InFiles
    BY <2>1, <2>2
  <2>4. CASE risks = {}
    <3>1. meta # 0 /\ current = Whole(meta)
      BY <1>n, <2>3, <2>4 DEF AtRest
    <3>2. at'[p] = "rmPrevious" /\ risks' = {}
      BY <2>1, <2>4, <3>1, WholeFacts
    <3>3. Replaces(p)'
      BY <2>1, <3>1, <3>2 DEF Replaces, Saving, Replacing
    <3> QED BY <1>0, <2>2, <3>2, <3>3, MetaAlone
  <2>5. CASE risks # {}
    <3>1. current = Absent /\ previous = Absent /\ risks = {"nothing installed"}
      BY <1>n, <2>3, <2>5
    <3>2. at'[p] = "copyNew" /\ risks' = {"nothing installed"}
      BY <2>1, <3>1
    <3>3. FirstInstall(p)'
      BY <2>1, <3>1, <3>2 DEF FirstInstall, Replacing
    <3> QED BY <1>0, <2>2, <3>2, <3>3, MetaAlone
  <2> QED BY <2>4, <2>5
<1>6. CASE RemovePrevious(p)
  <2>1. /\ at[p] = "rmPrevious" /\ at'[p] = "savePrevious" /\ read'[p] = read[p]
        /\ previous' = Absent /\ UNCHANGED <<current, meta, prevMeta, risks>>
    BY <1>0, <1>6 DEF RemovePrevious, GoTo, ProcTypes, jobVars
  <2>2. risks = {} /\ meta # 0 /\ current = Whole(meta) /\ read[p] = meta
    BY <1>w, <2>1 DEF Replaces, FirstInstall, Saving, Replacing
  <2>3. Replaces(p)'
    BY <2>1, <2>2 DEF Replaces, Saving, Replacing
  <2> QED BY <1>f, <2>1, <2>2, <2>3
<1>7. CASE SavePrevious(p)
  <2>1. at[p] = "savePrevious" /\ UNCHANGED <<current, meta, prevMeta, risks>>
    BY <1>7 DEF SavePrevious
  <2>2. /\ risks = {} /\ meta # 0 /\ current = Whole(meta) /\ read[p] = meta
        /\ previous = Absent
    BY <1>w, <2>1 DEF Replaces, FirstInstall, Saving, Replacing
  <2>3. /\ at'[p] = "savingPrevious" /\ read'[p] = meta
        /\ previous' = CopyBegins(p, Whole(meta), Absent)
    BY <1>0, <1>7, <2>2, WholeFacts, ProceedEffect DEF SavePrevious
  <2>4. previous' = Copying(p, meta)
    BY <2>3, CopyFacts
  <2>5. Replaces(p)'
    BY <2>1, <2>2, <2>3, <2>4 DEF Replaces, Saving, Replacing
  <2> QED BY <1>f, <2>1, <2>2, <2>3, <2>5
<1>8. CASE PreviousSaved(p)
  <2>1. /\ at[p] = "savingPrevious" /\ read'[p] = read[p]
        /\ at'[p] = IF read[p] = 0 THEN "rmCurrent" ELSE "noteSaved"
        /\ previous' = CopyEnds(p, current, previous)
        /\ UNCHANGED <<current, meta, prevMeta, risks>>
    BY <1>0, <1>8 DEF PreviousSaved, GoTo, ProcTypes, jobVars
  <2>2. /\ risks = {} /\ meta # 0 /\ current = Whole(meta) /\ read[p] = meta
        /\ previous = Copying(p, meta)
    BY <1>w, <2>1 DEF Replaces, FirstInstall, Saving, Replacing
  <2>3. previous' = Whole(meta)
    BY <2>1, <2>2, CopyFacts
  <2>4. Replaces(p)'
    BY <2>1, <2>2, <2>3 DEF Replaces, Saving, Replacing
  <2> QED BY <1>f, <2>1, <2>2, <2>4
<1>9. CASE NoteSaved(p)
  <2>1. /\ at[p] = "noteSaved" /\ at'[p] = "rmCurrent" /\ read'[p] = read[p]
        /\ prevMeta' = read[p] /\ UNCHANGED <<current, previous, meta, risks>>
    BY <1>0, <1>9 DEF NoteSaved, GoTo, ProcTypes, jobVars
  <2>2. /\ risks = {} /\ meta # 0 /\ current = Whole(meta) /\ read[p] = meta
        /\ previous = Whole(meta)
    BY <1>w, <2>1 DEF Replaces, FirstInstall, Saving, Replacing
  <2>3. Replaces(p)'
    BY <2>1, <2>2 DEF Replaces, Saving, Replacing
  <2> QED BY <1>f, <2>1, <2>2, <2>3
<1>10. CASE RemoveCurrent(p)
  <2>1. /\ at[p] = "rmCurrent" /\ at'[p] = "copyNew"
        /\ current' = Absent /\ UNCHANGED <<previous, meta, prevMeta, risks>>
    BY <1>0, <1>10 DEF RemoveCurrent, GoTo, ProcTypes
  <2>2. risks = {} /\ prevMeta # 0 /\ previous = Whole(prevMeta)
    BY <1>w, <2>1 DEF Replaces, FirstInstall, Replacing
  <2>3. Replaces(p)'
    BY <2>1, <2>2 DEF Replaces, Saving, Replacing
  <2> QED BY <1>f, <2>1, <2>2, <2>3
<1>11. CASE CopyNew(p)
  <2>1. /\ at[p] = "copyNew" /\ at'[p] = "copyingNew" /\ job'[p] = job[p]
        /\ current' = CopyBegins(p, Whole(job[p].target), current)
        /\ UNCHANGED <<previous, meta, prevMeta, risks>>
    BY <1>0, <1>11 DEF CopyNew, GoTo, ProcTypes, jobVars
  <2>2. /\ current = Absent
        /\ risks = {} => prevMeta # 0 /\ previous = Whole(prevMeta)
        /\ risks # {} => risks = {"nothing installed"} /\ previous = Absent
    BY <1>w, <2>1 DEF Replaces, FirstInstall, Replacing
  <2>3. current' = Copying(p, job[p].target)
    BY <2>1, <2>2, CopyFacts
  <2>4. risks = {} => Replaces(p)'
    BY <2>1, <2>2, <2>3 DEF Replaces, Saving, Replacing
  <2>5. risks # {} => FirstInstall(p)'
    BY <2>1, <2>2, <2>3 DEF FirstInstall, Replacing
  <2> QED BY <1>f, <2>1, <2>2, <2>4, <2>5
<1>12. CASE NewCopied(p)
  <2>1. /\ at[p] = "copyingNew" /\ at'[p] = "noteNew" /\ job'[p] = job[p]
        /\ current' = CopyEnds(p, Whole(job[p].target), current)
        /\ UNCHANGED <<previous, meta, prevMeta, risks>>
    BY <1>0, <1>12 DEF NewCopied, GoTo, ProcTypes, jobVars
  <2>2. /\ current = Copying(p, job[p].target)
        /\ risks = {} => prevMeta # 0 /\ previous = Whole(prevMeta)
        /\ risks # {} => risks = {"nothing installed"} /\ previous = Absent
    BY <1>w, <2>1 DEF Replaces, FirstInstall, Replacing
  <2>3. current' = Whole(job[p].target)
    BY <2>1, <2>2, CopyFacts
  <2>4. risks = {} => Replaces(p)'
    BY <2>1, <2>2, <2>3 DEF Replaces, Saving, Replacing
  <2>5. risks # {} => FirstInstall(p)'
    BY <2>1, <2>2, <2>3 DEF FirstInstall, Replacing
  <2> QED BY <1>f, <2>1, <2>2, <2>4, <2>5
<1>13. CASE NoteNew(p)
  <2>1. /\ at[p] = "noteNew" /\ UNCHANGED <<current, previous, prevMeta>>
        /\ meta' = job[p].target
        /\ risks' = IF IsWhole(current) THEN {} ELSE risks
    BY <1>13 DEF NoteNew
  <2>2. at'[p] \in {"gone", "restart"}
    BY <1>0, <1>13, GoneEffect, ProceedEffect DEF NoteNew
  <2>3. /\ current = Whole(job[p].target)
        /\ previous = Absent \/ (prevMeta # 0 /\ previous = Whole(prevMeta))
    BY <1>w, <2>1 DEF Replaces, FirstInstall, Replacing
  <2>4. job[p].target # 0
    BY <1>0, <2>1, UpdateAssumption DEF StageLock, StageJob, Versions
  <2>5. risks' = {}
    BY <2>1, <2>3, WholeFacts
  <2>6. AtRest'
    BY <2>1, <2>3, <2>4 DEF AtRest
  <2> QED BY <1>f, <2>1, <2>2, <2>5, <2>6
<1>14. CASE Restore(p)
  <2>1. /\ at[p] = "restore" /\ UNCHANGED <<current, previous, meta, prevMeta>>
        /\ at'[p] = IF previous = Absent THEN "release"
                    ELSE IF current = Absent THEN "copyBack" ELSE "rmCurrentBack"
        /\ risks' = IF previous = Absent THEN risks
                    ELSE risks \union (IF IsWhole(previous) THEN {} ELSE {"restoreBroken"})
        /\ previous = Absent \/ Alone(p)
    BY <1>0, <1>14 DEF Restore, fileVars, GoTo, ProcTypes
  <2>2. CASE previous = Absent
    BY <1>q, <2>1, <2>2 DEF fileVars
  <2>3. CASE previous # Absent
    <3>1. \A q \in Procs \ {p} : at[q] \notin InFiles
      BY <2>1, <2>3 DEF Alone, Installing
    <3>2. \A q \in Procs : at[q] \notin InFiles
      BY <2>1, <3>1
    <3>3. /\ risks = {} /\ current = Whole(meta)
          /\ prevMeta # 0 /\ previous = Whole(prevMeta)
      BY <1>n, <2>3, <3>2 DEF AtRest
    <3>4. at'[p] = "rmCurrentBack" /\ risks' = {}
      BY <2>1, <3>3, WholeFacts
    <3>5. Replaces(p)'
      BY <2>1, <3>3, <3>4 DEF Replaces, Saving, Replacing
    <3> QED BY <1>0, <3>1, <3>4, <3>5, MetaAlone
  <2> QED BY <2>2, <2>3
<1>15. CASE RemoveForRestore(p)
  <2>1. /\ at[p] = "rmCurrentBack" /\ at'[p] = "copyBack"
        /\ current' = Absent /\ UNCHANGED <<previous, meta, prevMeta, risks>>
    BY <1>0, <1>15 DEF RemoveForRestore, GoTo, ProcTypes
  <2>2. risks = {} /\ prevMeta # 0 /\ previous = Whole(prevMeta)
    BY <1>w, <2>1 DEF Replaces, FirstInstall, Replacing
  <2>3. Replaces(p)'
    BY <2>1, <2>2 DEF Replaces, Saving, Replacing
  <2> QED BY <1>f, <2>1, <2>2, <2>3
<1>16. CASE CopyBack(p)
  <2>1. at[p] = "copyBack" /\ UNCHANGED <<previous, meta, prevMeta, risks>>
    BY <1>16 DEF CopyBack
  <2>2. /\ risks = {} /\ prevMeta # 0 /\ previous = Whole(prevMeta) /\ current = Absent
    BY <1>w, <2>1 DEF Replaces, FirstInstall, Replacing
  <2>3. /\ at'[p] = "copyingBack"
        /\ current' = CopyBegins(p, Whole(prevMeta), Absent)
    BY <1>0, <1>16, <2>2, WholeFacts DEF CopyBack, GoTo, ProcTypes
  <2>4. current' = Copying(p, prevMeta)
    BY <2>3, CopyFacts
  <2>5. Replaces(p)'
    BY <2>1, <2>2, <2>3, <2>4 DEF Replaces, Saving, Replacing
  <2> QED BY <1>f, <2>1, <2>2, <2>3, <2>5
<1>17. CASE CopiedBack(p)
  <2>1. /\ at[p] = "copyingBack"
        /\ prevMeta # 0 => at'[p] = "noteBack"
        /\ current' = CopyEnds(p, previous, current)
        /\ UNCHANGED <<previous, meta, prevMeta, risks>>
    BY <1>0, <1>17 DEF CopiedBack, GoTo, ProcTypes
  <2>2. /\ risks = {} /\ prevMeta # 0 /\ previous = Whole(prevMeta)
        /\ current = Copying(p, prevMeta)
    BY <1>w, <2>1 DEF Replaces, FirstInstall, Replacing
  <2>3. current' = Whole(prevMeta)
    BY <2>1, <2>2, CopyFacts
  <2>4. Replaces(p)'
    BY <2>1, <2>2, <2>3 DEF Replaces, Saving, Replacing
  <2> QED BY <1>f, <2>1, <2>2, <2>4
<1>18. CASE NoteBack(p)
  <2>1. /\ at[p] = "noteBack" /\ at'[p] \in {"release", "restart"}
        /\ meta' = prevMeta /\ UNCHANGED <<current, previous, prevMeta, risks>>
    BY <1>0, <1>18 DEF NoteBack, AfterRestore, GoTo, ProcTypes
  <2>2. /\ risks = {} /\ prevMeta # 0 /\ previous = Whole(prevMeta)
        /\ current = Whole(prevMeta)
    BY <1>w, <2>1 DEF Replaces, FirstInstall, Replacing
  <2>3. AtRest'
    BY <2>1, <2>2 DEF AtRest
  <2> QED BY <1>f, <2>1, <2>2, <2>3
<1>19. CASE FileFault(p) \/ Die(p)
  <2>1. /\ current' \in Left(current, p, {"rmCurrent", "rmCurrentBack"})
        /\ previous' \in Left(previous, p, {"rmPrevious"})
        /\ UNCHANGED <<meta, prevMeta, risks>>
        /\ at[p] \notin InFiles
    BY <1>19 DEF FileFault, Die, BreaksOff
  <2>2. at'[p] = "gone"
    BY <1>0, <1>19, <2>1, GoneEffect DEF FileFault, Die
  <2>3. current' = current
    BY <2>1, LeftAlone DEF CopyInv
  <2>4. previous' = previous
    BY <2>1, LeftAlone DEF CopyInv
  <2> QED BY <1>q, <2>1, <2>2, <2>3, <2>4 DEF fileVars
<1> QED BY <1>1, <1>2, <1>3, <1>4, <1>5, <1>6, <1>7, <1>8, <1>9, <1>10, <1>11, <1>12,
           <1>13, <1>14, <1>15, <1>16, <1>17, <1>18, <1>19 DEF Act, Step

-----------------------------------------------------------------------------
(* Theorems                                                                *)

Inv == TypeOK /\ StageInv /\ LockInv /\ CopyInv /\ FilesInv /\ MetaInv

LEMMA InitInv == Init => Inv
<1> SUFFICES ASSUME Init PROVE Inv
  OBVIOUS
<1>1. /\ file = NoFile /\ lock = [p \in Procs |-> "none"] /\ dead = {} /\ robbed = {}
      /\ seen = [p \in Procs |-> NoFile]
      /\ at = [p \in Procs |-> "idle"] /\ job = [p \in Procs |-> NoJob]
      /\ read = [p \in Procs |-> 0] /\ removed = [p \in Procs |-> 0]
      /\ installs = 0 /\ faults = 0 /\ deaths = 0
      /\ torn = FALSE /\ mixed = FALSE
  BY DEF Init, LockInit
<1>2. \/ /\ current = Absent /\ previous = Absent /\ meta = 0 /\ prevMeta = 0
         /\ risks = {"nothing installed"}
      \/ /\ risks = {} /\ meta \in Versions /\ current = Whole(meta)
         /\ \/ previous = Absent /\ prevMeta = 0
            \/ prevMeta \in Versions /\ previous = Whole(prevMeta)
  BY DEF Init
<1>3. TypeOK
  <2>1. LockTypeOK
    BY <1>1, FilesOf DEF LockTypeOK, LockStages
  <2>2. current \in Dirs /\ previous \in Dirs
    BY <1>2, DirsOf
  <2>3. CountTypes
    <3>1. meta \in 0 .. Latest /\ prevMeta \in 0 .. Latest
      <4>1. Versions \subseteq 0 .. Latest /\ 0 \in 0 .. Latest
        BY UpdateAssumption DEF Versions
      <4> QED BY <1>2, <4>1
    <3>2. installs \in 0 .. MaxInstalls /\ faults \in 0 .. MaxFaults /\ deaths \in 0 .. MaxDeaths
      BY <1>1, UpdateAssumption
    <3>3. risks \subseteq {"nothing installed", "rebuild", "restoreBroken"}
      BY <1>2
    <3> QED BY <1>1, <3>1, <3>2, <3>3 DEF CountTypes
  <2>4. /\ at \in [Procs -> Stages] /\ job \in [Procs -> Jobs]
        /\ read \in [Procs -> 0 .. Latest] /\ removed \in [Procs -> 0 .. Latest]
    BY <1>1, JobTypes, StageNames
  <2> QED BY <2>1, <2>2, <2>3, <2>4 DEF TypeOK, CountTypes
<1>4. StageInv
  BY <1>1 DEF StageInv, StageLock, StageJob, NoJob, JobOf, LockedStages, InSwap, InRestore
<1>5. LockInv
  BY <1>1, FileFacts DEF LockInv, OwnFile, SeenInv
<1>6. CopyInv
  BY <1>2, DirFacts DEF CopyInv
<1>7. \A p \in Procs : ~Busy(p) /\ at[p] \notin InFiles
  BY <1>1 DEF Busy, InFiles, InSwap, InRestore
<1>8. FilesInv
  BY <1>2, <1>7, WholeFacts DEF FilesInv
<1>9. MetaInv
  <2>1. 0 \notin Versions
    BY DEF Versions
  <2>2. IF risks = {} THEN AtRest ELSE current = Absent /\ previous = Absent
    BY <1>2, <2>1 DEF AtRest
  <2>3. risks \subseteq {"nothing installed"}
    BY <1>2
  <2> QED BY <1>7, <2>2, <2>3 DEF MetaInv
<1> QED BY <1>3, <1>4, <1>5, <1>6, <1>8, <1>9 DEF Inv

LEMMA NextInv == Inv /\ [Next]_vars => Inv'
<1> SUFFICES ASSUME Inv, [Next]_vars PROVE Inv'
  OBVIOUS
<1>1. CASE Next
  <2>1. PICK p \in Procs : Act(p)
    BY <1>1 DEF Next, Act
  <2> QED BY <2>1, TypeStep, StageStep, LockStep, DirStep, FilesStep, MetaStep DEF Inv
<1>2. CASE UNCHANGED vars
  <2>1. /\ UNCHANGED <<file, lock, seen, dead, robbed>> /\ UNCHANGED <<current, previous, meta, prevMeta>>
        /\ UNCHANGED <<at, job, read, removed>> /\ UNCHANGED <<installs, faults, deaths>>
        /\ UNCHANGED <<risks, torn, mixed>>
    BY <1>2 DEF vars, lockVars, fileVars, jobVars, countVars
  <2>2. TypeOK'
    <3>0. LockTypeOK
      BY DEF Inv, TypeOK
    <3>1. LockTypeOK' /\ Dirs' = Dirs
      BY <2>1, <3>0 DEF LockTypeOK, Dirs
    <3> QED BY <2>1, <3>1 DEF Inv, TypeOK
  <2>3. StageInv'
    BY <2>1 DEF Inv, StageInv, StageLock, StageJob
  <2>4. LockInv'
    BY <2>1 DEF Inv, LockInv, OwnFile, SeenInv, HadLock, HolderGone, OtherGone
  <2>5. CopyInv'
    BY <2>1 DEF Inv, CopyInv
  <2>6. FilesInv'
    BY <2>1 DEF Inv, FilesInv, Busy, Knows
  <2>7. MetaInv'
    BY <2>1 DEF Inv, MetaInv, AtRest, Replaces, FirstInstall
  <2> QED BY <2>2, <2>3, <2>4, <2>5, <2>6, <2>7 DEF Inv
<1> QED BY <1>1, <1>2 DEF vars

LEMMA InvHolds == Spec => []Inv
BY InitInv, NextInv, PTL DEF Spec

(* The variables have their types in every reachable state.                *)
THEOREM TypeCorrect == Spec => []TypeOK
<1>1. Inv => TypeOK
  BY DEF Inv
<1> QED BY <1>1, InvHolds, PTL

(* acquireRuntimeLock(): two living processes hold the update lock only    *)
(* when the file of one was removed under it, and that happens to a process *)
(* only after another one that had held the lock is gone.                  *)
THEOREM LockCorrect == Spec => []OneUpdater
<1>1. Inv => OneUpdater
  <2> SUFFICES ASSUME Inv PROVE OneUpdater
    OBVIOUS
  <2>1. ASSUME NEW p \in Holders, NEW q \in Holders, p \notin robbed, q \notin robbed
        PROVE  p = q
    <3>1. /\ file \in {FileOf(p, FALSE), FileOf(p, TRUE)}
          /\ file \in {FileOf(q, FALSE), FileOf(q, TRUE)}
      BY <2>1 DEF Inv, LockInv, OwnFile, Holders
    <3> QED BY <3>1, FileFacts
  <2>2. \A q \in robbed : \E o \in dead \ {q} : lock[o] \in {"held", "released"}
    BY DEF Inv, LockInv, OtherGone, HadLock
  <2> QED BY <2>1, <2>2 DEF OneUpdater
<1> QED BY <1>1, InvHolds, PTL

(* swapApp(), restorePreviousApp(): one of the directories holds a whole   *)
(* version wherever processes die and copies break off, with the listed    *)
(* exceptions.                                                             *)
THEOREM WholeVersion == Spec => []WholeVersionRemains
<1>1. Inv => WholeVersionRemains
  BY DEF Inv, FilesInv, WholeVersionRemains
<1> QED BY <1>1, InvHolds, PTL

(* The metadata are true whenever nobody works on the files and no work    *)
(* broke off.                                                              *)
THEOREM MetadataCorrect == Spec => []MetadataIsTrue
<1>1. Inv => MetadataIsTrue
  BY WholeFacts DEF Inv, MetaInv, AtRest, MetadataIsTrue
<1> QED BY <1>1, InvHolds, PTL

(* runUpdate(): an update that fails after it removed a version brings     *)
(* back that version.                                                      *)
THEOREM NoDowngrade == Spec => UpdateNeverDowngrades
<1> DEFINE Brings(p) == /\ IsUpdate(p) /\ at[p] = "copyingBack" /\ at'[p] \in {"noteBack", "release"}
                        /\ IsWhole(current')
           Kept(p) == current'.version >= removed[p] \/ risks # {} \/ mixed
<1>1. ASSUME Inv, [Next]_vars PROVE [\A p \in Procs : Brings(p) => Kept(p)]_vars
  <2> SUFFICES ASSUME Next, NEW p \in Procs, Brings(p), ~mixed PROVE current'.version >= removed[p]
    BY <1>1
  <2>1. PICK q \in Procs : Act(q)
    BY DEF Next, Act
  <2>2. Moves(q) /\ ProcTypes /\ current' \in Dirs'
    BY <1>1, <2>1, ActMoves, HasProcTypes, DirStep DEF Inv
  <2>3. q = p
    BY <2>2 DEF Moves
  <2>4. ~IsWhole(current) /\ (removed[p] # 0 => previous = Whole(removed[p]))
    BY <1>1 DEF Inv, FilesInv, Busy, Knows, InFiles, InRestore
  <2>5. CASE CopiedBack(p)
    <3>1. current' = CopyEnds(p, previous, current) /\ current' # Broken
      BY <2>5, WholeFacts DEF CopiedBack
    <3>2. current' = previous /\ IsWhole(previous)
      BY <3>1, CopyFacts
    <3>3. previous \in Dirs
      BY <1>1 DEF Inv, TypeOK
    <3>4. previous.version \in Nat /\ (removed[p] # 0 => previous.version = removed[p])
      BY <2>4, <3>2, <3>3, WholeIs, DirFacts DEF Versions
    <3>5. removed[p] \in Nat
      BY <2>2, UpdateAssumption DEF ProcTypes
    <3> QED BY <3>2, <3>4, <3>5
  <2>6. CASE FileFault(p)
    <3>1. current' \in Left(current, p, {"rmCurrent", "rmCurrentBack"})
      BY <2>6 DEF FileFault, BreaksOff
    <3>2. ~IsWhole(current')
      BY <2>4, <3>1, LeftTypes, WholeFacts
    <3> QED BY <3>2
  <2>7. CASE Die(p)
    BY <2>2, <2>7, GoneEffect DEF Die
  <2>8. \/ CopiedBack(p) \/ FileFault(p) \/ Die(p)
    <3>1. ~(StartLocked(p) \/ StartUnlocked(p) \/ LockFault(p) \/ Acquire(p) \/ Refused(p) \/ Release(p))
      BY DEF StartLocked, StartUnlocked, LockFault, Acquire, Refused, Release
    <3>2. ~(Check(p) \/ Preflight(p) \/ Install(p) \/ Restart(p) \/ Restore(p))
      BY DEF Check, Preflight, Install, Restart, Restore
    <3>3. ~(Swap(p) \/ RemovePrevious(p) \/ SavePrevious(p) \/ PreviousSaved(p) \/ NoteSaved(p))
      BY DEF Swap, RemovePrevious, SavePrevious, PreviousSaved, NoteSaved
    <3>4. ~(RemoveCurrent(p) \/ CopyNew(p) \/ NewCopied(p) \/ NoteNew(p))
      BY DEF RemoveCurrent, CopyNew, NewCopied, NoteNew
    <3>5. ~(RemoveForRestore(p) \/ CopyBack(p) \/ NoteBack(p))
      BY DEF RemoveForRestore, CopyBack, NoteBack
    <3> QED BY <2>1, <2>3, <3>1, <3>2, <3>3, <3>4, <3>5 DEF Act, Step
  <2> QED BY <2>5, <2>6, <2>7, <2>8
<1> QED BY <1>1, InvHolds, PTL DEF Spec, UpdateNeverDowngrades
=============================================================================
