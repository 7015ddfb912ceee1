----------------------------- MODULE AppUpdate -----------------------------
(***************************************************************************)
(* How versions of the app are installed (host/src): the update engine     *)
(* with its rollback, under the update lock, and the installation of what  *)
(* a launcher brings along, without it.  The files are the directories     *)
(* `current' and `previous', each with its metadata.  A copy of a tree is  *)
(* not atomic: between its begin and its end the process may die or the    *)
(* copy break off, and what is there then is no version.  Every process    *)
(* carries out one command.                                                *)
(***************************************************************************)
EXTENDS RuntimeLock, Naturals

CONSTANTS
    Latest,       \* the version the release manifest names; 1 .. Latest are all
    Commands,     \* subset of {"update", "rollback", "seed", "payload"}
    MaxInstalls,  \* how many installations there are without the lock
    MaxFaults,    \* how many file operations may fail
    MaxDeaths     \* how many processes may die

ASSUME UpdateAssumption ==
    /\ Latest \in Nat \ {0}
    /\ Commands \subseteq {"update", "rollback", "seed", "payload"}
    /\ MaxInstalls \in Nat
    /\ MaxFaults \in Nat
    /\ MaxDeaths \in Nat

VARIABLES
    current,    \* ~/.zleap/app/current
    previous,   \* ~/.zleap/app/previous
    meta,       \* the version in metadata.json, 0 without the file
    prevMeta,   \* the version in metadata.previous.json
    at,         \* at[p]: the next step of process p
    job,        \* job[p]: its command and the version it installs
    read,       \* read[p]: the version in metadata.json when it began to swap
    removed,    \* history: removed[p]: the whole version it removed (0: none)
    installs,   \* counts
    faults,
    deaths,
    risks,      \* history: how the only whole copy came to be at risk
    torn,       \* history: work on the files broke off
    mixed       \* history: two processes were installing or restoring at once

fileVars == <<current, previous, meta, prevMeta>>
jobVars == <<job, read, removed>>
countVars == <<installs, faults, deaths>>
vars == <<lockVars, fileVars, at, jobVars, countVars, risks, torn, mixed>>

Versions == 1 .. Latest

Absent == [is |-> "absent"]
Broken == [is |-> "broken"]
Whole(v) == [is |-> "whole", version |-> v]
Copying(p, v) == [is |-> "copying", by |-> p, version |-> v]

IsWhole(dir) == dir.is = "whole"

InSwap == {"rmPrevious", "savePrevious", "savingPrevious", "noteSaved", "rmCurrent",
           "copyNew", "copyingNew", "noteNew"}
InRestore == {"rmCurrentBack", "copyBack", "copyingBack", "noteBack"}
InFiles == InSwap \union InRestore
Installing == InFiles \union {"swap", "restart", "restore"}
Stages == Installing \union {"idle", "acquire", "check", "preflight", "install",
                             "release", "gone"}

JobOf(command, target) == [command |-> command, target |-> target]
NoJob == JobOf("none", 0)

\* The app is not installed yet, freshly installed, or was updated before.
Init ==
    /\ LockInit
    /\ \/ /\ current = Absent /\ previous = Absent
          /\ meta = 0 /\ prevMeta = 0
          /\ risks = {"nothing installed"}
       \/ \E v \in Versions \ {Latest} :
             /\ current = Whole(v) /\ meta = v /\ risks = {}
             /\ \/ previous = Absent /\ prevMeta = 0
                \/ \E u \in Versions : u < v /\ previous = Whole(u) /\ prevMeta = u
    /\ at = [p \in Procs |-> "idle"]
    /\ job = [p \in Procs |-> NoJob]
    /\ read = [p \in Procs |-> 0] /\ removed = [p \in Procs |-> 0]
    /\ installs = 0 /\ faults = 0 /\ deaths = 0
    /\ torn = FALSE
    /\ mixed = FALSE

GoTo(p, stage) == at' = [at EXCEPT ![p] = stage]
Proceed(p, stage) == GoTo(p, stage) /\ UNCHANGED <<lockVars, jobVars>>

Alone(p) == \A q \in Procs \ {p} : at[q] \notin Installing

-----------------------------------------------------------------------------
(* Commands                                                                *)

\* ensureAppUpToDate() and runRollback() go for the update lock.
StartLocked(p) ==
    /\ at[p] = "idle"
    /\ \/ "update" \in Commands /\ meta < Latest
          /\ job' = [job EXCEPT ![p] = JobOf("update", Latest)]
       \/ "rollback" \in Commands
          /\ job' = [job EXCEPT ![p] = JobOf("rollback", 0)]
    /\ lock' = [lock EXCEPT ![p] = "try"]
    /\ GoTo(p, "acquire")
    /\ UNCHANGED <<file, seen, dead, robbed, fileVars, read, removed, countVars, risks, torn, mixed>>

\* seedAppFromBundle() and installPayload() swap without the lock; only the
\* first refuses an older version.
StartUnlocked(p) ==
    /\ at[p] = "idle" /\ installs < MaxInstalls
    /\ \E v \in Versions :
        /\ \/ "seed" \in Commands /\ v >= meta
           \/ "payload" \in Commands /\ (meta # v \/ ~IsWhole(current))
        /\ job' = [job EXCEPT ![p] = JobOf("install", v)]
    /\ installs' = installs + 1
    /\ GoTo(p, "swap")
    /\ UNCHANGED <<lockVars, fileVars, read, removed, faults, deaths, risks, torn, mixed>>

Gone(p) ==
    /\ GoTo(p, "gone")
    /\ dead' = dead \union {p}
    /\ job' = [job EXCEPT ![p] = NoJob]
    /\ read' = [read EXCEPT ![p] = 0]
    /\ removed' = [removed EXCEPT ![p] = 0]

Acquire(p) ==
    /\ at[p] = "acquire"
    /\ AcquireStep(p)
    /\ IF lock'[p] = "held" THEN GoTo(p, "check") ELSE UNCHANGED at
    /\ UNCHANGED <<fileVars, jobVars, countVars, risks, torn, mixed>>

Refused(p) ==
    /\ at[p] = "acquire" /\ lock[p] = "refused"
    /\ Gone(p)
    /\ UNCHANGED <<file, lock, seen, robbed, fileVars, countVars, risks, torn, mixed>>

\* Every other way out of a locked command passes the `finally' block.  That the
\* process then ends is part of the step: who asks for its pid in between learns
\* what it would have learned before the release.
Release(p) ==
    /\ at[p] = "release"
    /\ Remove(p)
    /\ lock' = [lock EXCEPT ![p] = "released"]
    /\ Gone(p)
    /\ UNCHANGED <<seen, fileVars, countVars, risks, torn, mixed>>

IsUpdate(p) == job[p].command = "update"

\* Where an exception leads: runUpdate() restores the previous app whatever
\* went wrong, unless the error cannot be logged either; a rollback gives its
\* lock back; an installation just ends.
Throw(p) ==
    \/ IsUpdate(p) /\ (Proceed(p, "restore") \/ Proceed(p, "release"))
    \/ job[p].command = "rollback" /\ Proceed(p, "release")
    \/ job[p].command = "install" /\ Gone(p) /\ UNCHANGED <<file, lock, seen, robbed>>

\* The first look at the versions: go on, up to date, or refused (an update
\* also if the manifest cannot be had; a rollback unless downgrades are allowed).
Check(p) ==
    /\ at[p] = "check"
    /\ \/ (IsUpdate(p) => meta < job[p].target)
          /\ Proceed(p, "preflight")
       \/ IsUpdate(p) /\ meta = job[p].target
          /\ Proceed(p, "release")
       \/ Throw(p)
    /\ UNCHANGED <<fileVars, countVars, risks, torn, mixed>>

\* assertNoActiveTaskRuns(): tasks are running, or none is.
Preflight(p) ==
    /\ at[p] = "preflight"
    /\ \/ Proceed(p, IF IsUpdate(p) THEN "install" ELSE "restore")
       \/ Throw(p)
    /\ UNCHANGED <<fileVars, countVars, risks, torn, mixed>>

\* installAppFromRelease() asks again, downloads and swaps.
Install(p) ==
    /\ at[p] = "install"
    /\ \/ meta < job[p].target /\ Proceed(p, "swap")
       \/ meta = job[p].target /\ Proceed(p, "restart")
       \/ Throw(p)
    /\ UNCHANGED <<fileVars, countVars, risks, torn, mixed>>

-----------------------------------------------------------------------------
(* swapApp()                                                               *)

\* Broken: what was saved before is kept.
SwapKeepsPrevious(p) ==
    /\ at[p] = "swap"
    /\ read' = [read EXCEPT ![p] = meta]
    /\ GoTo(p, IF current = Absent THEN "copyNew"
               ELSE IF previous = Absent THEN "rmPrevious" ELSE "rmCurrent")
    /\ risks' = risks \union (IF current = Absent \/ IsWhole(current) THEN {} ELSE {"rebuild"})
    /\ mixed' = (mixed \/ ~Alone(p))
    /\ UNCHANGED <<lockVars, fileVars, job, removed, countVars, torn>>

Swap(p) ==
    /\ at[p] = "swap"
    /\ read' = [read EXCEPT ![p] = meta]
    /\ GoTo(p, IF current = Absent THEN "copyNew" ELSE "rmPrevious")
    /\ risks' = risks \union (IF current = Absent \/ IsWhole(current) THEN {} ELSE {"rebuild"})
    /\ mixed' = (mixed \/ ~Alone(p))
    /\ UNCHANGED <<lockVars, fileVars, job, removed, countVars, torn>>

RemovePrevious(p) ==
    /\ at[p] = "rmPrevious"
    /\ previous' = Absent
    /\ GoTo(p, "savePrevious")
    /\ UNCHANGED <<lockVars, current, meta, prevMeta, jobVars, countVars, risks, torn, mixed>>

\* cp(from, to) merges into what is there.  Its end leaves a version only if
\* the source was one at the begin and at the end, and nobody else wrote.
CopyBegins(p, from, to) ==
    IF to = Absent /\ IsWhole(from) THEN Copying(p, from.version) ELSE Broken
CopyEnds(p, from, to) ==
    IF IsWhole(from) /\ to = Copying(p, from.version) THEN from ELSE Broken

\* Broken: the copy is not awaited.
SavePreviousUnawaited(p) ==
    /\ at[p] = "savePrevious"
    /\ previous' = CopyBegins(p, current, previous)
    /\ GoTo(p, "noteSaved")
    /\ UNCHANGED <<lockVars, current, meta, prevMeta, jobVars, countVars, risks, torn, mixed>>

SavePrevious(p) ==
    /\ at[p] = "savePrevious"
    /\ IF current = Absent
       THEN Throw(p) /\ UNCHANGED previous
       ELSE /\ previous' = CopyBegins(p, current, previous)
            /\ Proceed(p, "savingPrevious")
    /\ UNCHANGED <<current, meta, prevMeta, countVars, risks, torn, mixed>>

PreviousSaved(p) ==
    /\ at[p] = "savingPrevious"
    /\ previous' = CopyEnds(p, current, previous)
    /\ GoTo(p, IF read[p] = 0 THEN "rmCurrent" ELSE "noteSaved")
    /\ UNCHANGED <<lockVars, current, meta, prevMeta, jobVars, countVars, risks, torn, mixed>>

NoteSaved(p) ==
    /\ at[p] = "noteSaved"
    /\ prevMeta' = read[p]
    /\ GoTo(p, "rmCurrent")
    /\ UNCHANGED <<lockVars, current, previous, meta, jobVars, countVars, risks, torn, mixed>>

RemoveCurrent(p) ==
    /\ at[p] = "rmCurrent"
    /\ current' = Absent
    /\ removed' = [removed EXCEPT ![p] = IF IsWhole(current) THEN current.version ELSE 0]
    /\ GoTo(p, "copyNew")
    /\ UNCHANGED <<lockVars, previous, meta, prevMeta, job, read, countVars, risks, torn, mixed>>

CopyNew(p) ==
    /\ at[p] = "copyNew"
    /\ current' = CopyBegins(p, Whole(job[p].target), current)
    /\ GoTo(p, "copyingNew")
    /\ UNCHANGED <<lockVars, previous, meta, prevMeta, jobVars, countVars, risks, torn, mixed>>

NewCopied(p) ==
    /\ at[p] = "copyingNew"
    /\ current' = CopyEnds(p, Whole(job[p].target), current)
    /\ GoTo(p, "noteNew")
    /\ UNCHANGED <<lockVars, previous, meta, prevMeta, jobVars, countVars, risks, torn, mixed>>

NoteNew(p) ==
    /\ at[p] = "noteNew"
    /\ meta' = job[p].target
    /\ IF IsUpdate(p) THEN Proceed(p, "restart")
                      ELSE Gone(p) /\ UNCHANGED <<file, lock, seen, robbed>>
    /\ risks' = IF IsWhole(current) THEN {} ELSE risks
    /\ UNCHANGED <<current, previous, prevMeta, countVars, torn, mixed>>

\* restartServe(): the services come up only from a whole version.
Restart(p) ==
    /\ at[p] = "restart"
    /\ \/ IsWhole(current) /\ Proceed(p, "release")
       \/ Throw(p)
    /\ UNCHANGED <<fileVars, countVars, risks, torn, mixed>>

-----------------------------------------------------------------------------
(* restorePreviousApp()                                                    *)

AfterRestore(p) == IF IsUpdate(p) THEN "release" ELSE "restart"

Restore(p) ==
    /\ at[p] = "restore"
    /\ GoTo(p, IF previous = Absent THEN "release"
               ELSE IF current = Absent THEN "copyBack" ELSE "rmCurrentBack")
    /\ risks' = IF previous = Absent THEN risks
                ELSE risks \union (IF IsWhole(previous) THEN {} ELSE {"restoreBroken"})
    /\ mixed' = (mixed \/ (previous # Absent /\ ~Alone(p)))
    /\ UNCHANGED <<lockVars, fileVars, jobVars, countVars, torn>>

RemoveForRestore(p) ==
    /\ at[p] = "rmCurrentBack"
    /\ current' = Absent
    /\ GoTo(p, "copyBack")
    /\ UNCHANGED <<lockVars, previous, meta, prevMeta, jobVars, countVars, risks, torn, mixed>>

CopyBack(p) ==
    /\ at[p] = "copyBack"
    /\ IF previous = Absent
       THEN GoTo(p, "release") /\ UNCHANGED current
       ELSE /\ current' = CopyBegins(p, previous, current)
            /\ GoTo(p, "copyingBack")
    /\ UNCHANGED <<lockVars, previous, meta, prevMeta, jobVars, countVars, risks, torn, mixed>>

\* Broken: the metadata stay those of the version that was replaced.
CopiedBackAlone(p) ==
    /\ at[p] = "copyingBack"
    /\ current' = CopyEnds(p, previous, current)
    /\ GoTo(p, AfterRestore(p))
    /\ UNCHANGED <<lockVars, previous, meta, prevMeta, jobVars, countVars, risks, torn, mixed>>

CopiedBack(p) ==
    /\ at[p] = "copyingBack"
    /\ current' = CopyEnds(p, previous, current)
    /\ GoTo(p, IF prevMeta = 0 THEN AfterRestore(p) ELSE "noteBack")
    /\ UNCHANGED <<lockVars, previous, meta, prevMeta, jobVars, countVars, risks, torn, mixed>>

NoteBack(p) ==
    /\ at[p] = "noteBack"
    /\ meta' = prevMeta
    /\ GoTo(p, AfterRestore(p))
    /\ UNCHANGED <<lockVars, current, previous, prevMeta, jobVars, countVars, risks, torn, mixed>>

-----------------------------------------------------------------------------
(* What goes wrong                                                         *)

\* Broken: the copy of a dead process goes on.
LeftCopying(dir, p, removals) ==
    IF at[p] \in removals /\ dir # Absent THEN {dir, Broken} ELSE {dir}

\* What a copy or a removal leaves that breaks off.
Left(dir, p, removals) ==
    IF dir.is = "copying" /\ dir.by = p THEN {Broken}
    ELSE IF at[p] \in removals /\ dir # Absent THEN {dir, Broken} ELSE {dir}

BreaksOff(p) ==
    /\ current' \in Left(current, p, {"rmCurrent", "rmCurrentBack"})
    /\ previous' \in Left(previous, p, {"rmPrevious"})
    /\ torn' = (torn \/ at[p] \in InFiles)
    /\ UNCHANGED <<meta, prevMeta>>

\* A file operation fails; runUpdate() swallows an error of the restore.
FileFault(p) ==
    /\ faults < MaxFaults
    /\ at[p] \in InFiles
    /\ BreaksOff(p)
    /\ faults' = faults + 1
    /\ IF at[p] \in InRestore
       THEN Proceed(p, "release")
       ELSE Throw(p)
    /\ UNCHANGED <<installs, deaths, risks, mixed>>

\* The disk is full when the record of the lock is written.
LockFault(p) ==
    /\ faults < MaxFaults
    /\ at[p] = "acquire"
    /\ WriteFails(p)
    /\ faults' = faults + 1
    /\ UNCHANGED <<fileVars, at, jobVars, installs, deaths, risks, torn, mixed>>

\* The process is killed, at whatever it is doing.
Die(p) ==
    /\ deaths < MaxDeaths
    /\ at[p] \notin {"idle", "gone"}
    /\ Gone(p)
    /\ BreaksOff(p)
    /\ deaths' = deaths + 1
    /\ UNCHANGED <<file, lock, seen, robbed, installs, faults, risks, mixed>>

Step(p) ==
    \/ Acquire(p) \/ Refused(p) \/ Release(p)
    \/ Check(p) \/ Preflight(p) \/ Install(p)
    \/ Swap(p) \/ RemovePrevious(p) \/ SavePrevious(p) \/ PreviousSaved(p) \/ NoteSaved(p)
    \/ RemoveCurrent(p) \/ CopyNew(p) \/ NewCopied(p) \/ NoteNew(p) \/ Restart(p)
    \/ Restore(p) \/ RemoveForRestore(p) \/ CopyBack(p) \/ CopiedBack(p) \/ NoteBack(p)

Next ==
    \E p \in Procs :
        \/ StartLocked(p) \/ StartUnlocked(p)
        \/ Step(p)
        \/ FileFault(p) \/ LockFault(p) \/ Die(p)

Spec == Init /\ [][Next]_vars

-----------------------------------------------------------------------------
(* Properties                                                              *)

\* The types; a copy in progress has a living process that makes it.
Dirs == {Absent, Broken} \union {Whole(v) : v \in Versions}
        \union {Copying(p, v) : p \in Procs \ dead, v \in Versions}
Jobs == [command : {"none", "update", "rollback", "install"}, target : 0 .. Latest]

TypeOK ==
    /\ LockTypeOK
    /\ current \in Dirs /\ previous \in Dirs
    /\ meta \in 0 .. Latest /\ prevMeta \in 0 .. Latest
    /\ at \in [Procs -> Stages]
    /\ job \in [Procs -> Jobs]
    /\ read \in [Procs -> 0 .. Latest] /\ removed \in [Procs -> 0 .. Latest]
    /\ installs \in 0 .. MaxInstalls /\ faults \in 0 .. MaxFaults /\ deaths \in 0 .. MaxDeaths
    /\ risks \subseteq {"nothing installed", "rebuild", "restoreBroken"}
    /\ torn \in BOOLEAN /\ mixed \in BOOLEAN

\* A whole version can always be had from one of the two directories, wherever
\* processes die or copies break off - unless nothing was installed yet, or a
\* process saved a broken current over the previous version (swapApp() does not
\* look at what it saves), restored a broken previous over the current one (nor
\* does restorePreviousApp()), or worked on the files beside another.
WholeVersionRemains == IsWhole(current) \/ IsWhole(previous) \/ risks # {} \/ mixed

\* While nobody works on the files, metadata.json names what is in `current', and
\* metadata.previous.json what is in `previous' - unless work on the files broke
\* off (the metadata are written last) or two processes did it at once.
MetadataIsTrue ==
    (\A p \in Procs : at[p] \notin InFiles) /\ ~torn /\ ~mixed /\ risks = {} =>
        /\ current = Whole(meta)
        /\ IsWhole(previous) => previous = Whole(prevMeta)

\* An update that fails brings back the version it replaced, and no older one -
\* unless it failed before it had removed that one: runUpdate() restores the
\* previous version all the same, which may still be the one before.
UpdateNeverDowngrades ==
    [][\A p \in Procs :
        /\ IsUpdate(p) /\ at[p] = "copyingBack" /\ at'[p] \in {"noteBack", "release"}
        /\ IsWhole(current')
        => current'.version >= removed[p] \/ risks # {} \/ mixed]_vars
=============================================================================
