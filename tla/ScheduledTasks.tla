---------------------------- MODULE ScheduledTasks ----------------------------
(***************************************************************************)
(* Scheduled tasks (packages/tasks/src): the web process manages tasks and *)
(* starts runs by hand (service.ts), the worker process reconciles the     *)
(* schedules when it starts (worker.ts, queue.ts), executes the jobs and   *)
(* writes the audit rows of their runs (execution.ts).  Every `await' on   *)
(* the store or the queue lets all the others go on.                       *)
(*                                                                         *)
(* A task is its existence and its `enabled' flag; the built-in tasks,     *)
(* which cannot be deleted, and ownership are left out.  Time is a choice: *)
(* a run may or may not be old enough to be reclaimed.                     *)
(***************************************************************************)
EXTENDS TaskQueue

CONSTANTS ListLimit,   \* how many tasks listTasks() returns; 200 in store.ts
          OpKinds,     \* which calls the web process makes
          MayAge,      \* whether active runs get old enough to be reclaimed
          MayExpire,   \* whether a handler outlasts its job
          MaxFaults,   \* bound on rejected calls to the store or the queue
          MaxCrashes   \* bound on deaths of the worker

ASSUME TasksAssumption ==
    /\ ListLimit \in Nat
    /\ OpKinds \subseteq {"create", "update", "delete", "run"}
    /\ MayAge \in BOOLEAN /\ MayExpire \in BOOLEAN
    /\ MaxFaults \in Nat /\ MaxCrashes \in Nat

VARIABLES task,     \* task[t]: the row of task t
          status,   \* status[j]: the audit row of run j
          op,       \* op[o]: where the call o is
          enabling, \* enabling[o]: whether the row o wrote is enabled
          picked,   \* picked[j]: rows that were read and are about to be failed
          work,     \* work[j]: where handleRun() of job j is
          expired,  \* jobs with an attempt that still runs though it expired
          boot,     \* where main() of the worker is
          wanted,   \* the enabled tasks main() listed
          todo,     \* tasks the current loop of reconcileAll() has yet to visit
          quiet,    \* history: no call and no job disturbed the last reconcile
          faults, crashes   \* history: how often each happened

taskVars == <<task, status, op, enabling, picked, work, expired, boot, wanted, todo, quiet, faults, crashes>>
vars == <<queueVars, taskVars>>

Unsettled == {"queued", "running"}
Settled == {"completed", "failed", "skipped"}
TaskState == {"none", "on", "off", "deleted"}
OpState == {"idle", "sync", "deleting", "reclaim", "list", "failPicked", "create",
            "enqueue", "skip", "done", "failed"}
WorkState == {"none", "read", "drop", "finalize", "ensure", "mark", "running",
              "completed", "failed", "ack"}
BootState == {"down", "list", "schedule", "read", "unschedule", "reclaim", "workRuns",
              "workLetters", "up", "failed", "deaf"}

(* Where the worker takes jobs, and what main() has done before it fails. *)
TakesJobs == {"workLetters", "up", "deaf"}
Reconciled == {"reclaim", "workRuns"} \cup TakesJobs

TypeOK ==
    /\ QueueTypeOK
    /\ task \in [Tasks -> TaskState]
    /\ status \in [Jobs -> Unsettled \cup Settled \cup {"none"}]
    /\ op \in [Ops -> OpState]
    /\ enabling \in [Ops -> BOOLEAN]
    /\ picked \in [Jobs -> SUBSET Jobs]
    /\ work \in [Jobs -> WorkState]
    /\ expired \in SUBSET Jobs
    /\ boot \in BootState
    /\ wanted \in SUBSET Tasks
    /\ todo \in SUBSET Tasks
    /\ quiet \in BOOLEAN
    /\ faults \in 0..MaxFaults
    /\ crashes \in 0..MaxCrashes

(* Some tasks exist and have the schedules they should have. *)
Init ==
    /\ QueueInit
    /\ task \in [Tasks -> {"none", "on", "off"}]
    /\ schedules = {t \in Tasks : task[t] = "on"}
    /\ status = [j \in Jobs |-> "none"]
    /\ op = [o \in Ops |-> "idle"]
    /\ enabling = [o \in Ops |-> FALSE]
    /\ picked = [j \in Jobs |-> {}]
    /\ work = [j \in Jobs |-> "none"]
    /\ expired = {}
    /\ boot = "down"
    /\ wanted = {} /\ todo = {}
    /\ quiet = FALSE
    /\ faults = 0 /\ crashes = 0

Exists(t) == task[t] \in {"on", "off"}

(* Runs of task t whose row is in one of these states. *)
RunsOf(t, states) == {j \in Jobs : taskOf[j] = t /\ status[j] \in states}

(* Any of these runs may have been active for too long. *)
Aged(runs) == IF MayAge THEN SUBSET runs ELSE {{}}

Fail(runs) == status' = [j \in Jobs |-> IF j \in runs THEN "failed" ELSE status[j]]
SetStatus(j, s) == status' = [status EXCEPT ![j] = s]

Fault == /\ faults < MaxFaults
         /\ faults' = faults + 1

-----------------------------------------------------------------------------
(* TaskManagementService.  Between two stages of a call is an await.       *)
OpGoes(o, from, to) ==
    /\ op[o] = from
    /\ op' = [op EXCEPT ![o] = to]
    /\ quiet' = FALSE

workerVars == <<work, expired, boot, wanted, todo, crashes>>

(* createTask(), and then updateTask() of an existing task: the row ... *)
WriteTask(o, t, enabled) ==
    /\ OpGoes(o, "idle", "sync")
    /\ \/ "create" \in OpKinds /\ task[t] = "none"
       \/ "update" \in OpKinds /\ Exists(t)
    /\ task' = [task EXCEPT ![t] = IF enabled THEN "on" ELSE "off"]
    /\ enabling' = [enabling EXCEPT ![o] = enabled]
    /\ taskOf' = [taskOf EXCEPT ![o] = t]
    /\ UNCHANGED <<schedules, job, key, tries, letter, workerVars, status, picked, faults>>

(* deleteTask() finds the task ... *)
FindTask(o, t) ==
    /\ "delete" \in OpKinds
    /\ OpGoes(o, "idle", "deleting")
    /\ Exists(t)
    /\ taskOf' = [taskOf EXCEPT ![o] = t]
    /\ UNCHANGED <<schedules, job, key, tries, letter, workerVars, task, status,
                   enabling, picked, faults>>

(* ... and marks the row deleted and disabled, if nobody did before. *)
SoftDelete(o) ==
    /\ OpGoes(o, "deleting", "sync")
    /\ task' = [task EXCEPT ![taskOf[o]] = "deleted"]
    /\ enabling' = [enabling EXCEPT ![o] = FALSE]
    /\ UNCHANGED <<queueVars, workerVars, status, picked, faults>>

(* ... then, in all three, the schedule that the written row asks for. *)
Sync(o) ==
    /\ OpGoes(o, "sync", "done")
    /\ SyncSchedule(taskOf[o], enabling[o])
    /\ UNCHANGED <<job, taskOf, key, tries, letter, workerVars, task, status, enabling,
                   picked, faults>>

(* runNow(): the task exists, ... *)
RunNow(o, t) ==
    /\ "run" \in OpKinds
    /\ OpGoes(o, "idle", "reclaim")
    /\ Exists(t)
    /\ taskOf' = [taskOf EXCEPT ![o] = t]
    /\ UNCHANGED <<schedules, job, key, tries, letter, workerVars, task, status,
                   enabling, picked, faults>>

(* ... reclaimStaleRuns() fails running rows of all tasks in one UPDATE, ... *)
ReclaimStaleRuns(o) ==
    /\ OpGoes(o, "reclaim", "list")
    /\ \E old \in Aged({j \in Jobs : status[j] = "running"}) : Fail(old)
    /\ UNCHANGED <<queueVars, workerVars, task, enabling, picked, faults>>

(* ... reclaimStaleActiveRuns() lists the active runs of this task ... *)
ListActiveRuns(o) ==
    /\ OpGoes(o, "list", "failPicked")
    /\ \E old \in Aged(RunsOf(taskOf[o], Unsettled)) : picked' = [picked EXCEPT ![o] = old]
    /\ UNCHANGED <<queueVars, workerVars, task, status, enabling, faults>>

(* ... and fails those that were too old when it read them, ... *)
FailPicked(o) ==
    /\ OpGoes(o, "failPicked", "create")
    /\ Fail(picked[o])
    /\ picked' = [picked EXCEPT ![o] = {}]
    /\ UNCHANGED <<queueVars, workerVars, task, enabling, faults>>

(* ... the new run gets its row, ... *)
CreateRun(o) ==
    /\ OpGoes(o, "create", "enqueue")
    /\ SetStatus(o, "queued")
    /\ UNCHANGED <<queueVars, workerVars, task, enabling, picked, faults>>

(* Broken: a call whose job was refused is answered like any other. *)
EnqueueSilently(o) ==
    /\ OpGoes(o, "enqueue", "done")
    /\ \/ EnqueueRun(o, taskOf[o])
       \/ EnqueueRefused(taskOf[o]) /\ UNCHANGED queueVars
    /\ UNCHANGED <<workerVars, task, status, enabling, picked, faults>>

(* ... and its job, or it is skipped because another job is waiting. *)
Enqueue(o) ==
    \/ /\ OpGoes(o, "enqueue", "done")
       /\ EnqueueRun(o, taskOf[o])
       /\ UNCHANGED <<workerVars, task, status, enabling, picked, faults>>
    \/ /\ OpGoes(o, "enqueue", "skip")
       /\ EnqueueRefused(taskOf[o])
       /\ UNCHANGED <<queueVars, workerVars, task, status, enabling, picked, faults>>

SkipRun(o) ==
    /\ OpGoes(o, "skip", "done")
    /\ SetStatus(o, "skipped")
    /\ UNCHANGED <<queueVars, workerVars, task, enabling, picked, faults>>

(* A call to the store or the queue rejects, or the web process dies: what *)
(* was written stays, and the rest of the call does not happen.            *)
OpFault(o) ==
    /\ Fault
    /\ \E s \in OpState \ {"idle", "done", "failed"} : OpGoes(o, s, "failed")
    /\ UNCHANGED <<queueVars, workerVars, task, status, enabling, picked>>

OpStep(o) ==
    \/ SoftDelete(o) \/ Sync(o) \/ ReclaimStaleRuns(o) \/ ListActiveRuns(o)
    \/ FailPicked(o) \/ CreateRun(o) \/ Enqueue(o) \/ SkipRun(o)

-----------------------------------------------------------------------------
(* TaskExecutionService.handleRun(), called by the worker for a job.       *)
opVars == <<task, op, enabling, picked, boot, wanted, todo, crashes>>

WorkGoes(j, from, to) ==
    /\ work[j] = from
    /\ work' = [work EXCEPT ![j] = to]

FetchJob(j) ==
    /\ boot \in TakesJobs
    /\ WorkGoes(j, "none", "read")
    /\ Fetch(j)
    /\ UNCHANGED <<opVars, status, expired, quiet, faults>>

(* The task is gone, or disabled and the job a scheduled one. *)
Orphaned(j) ==
    \/ ~Exists(taskOf[j])
    \/ j \in Occurrences /\ task[taskOf[j]] = "off"

ReadTask(j) ==
    /\ WorkGoes(j, "read", IF Orphaned(j) THEN "drop" ELSE "ensure")
    /\ UNCHANGED <<queueVars, opVars, status, expired, quiet, faults>>

(* Broken: the job of an orphaned schedule ends and leaves the schedule. *)
KeepSchedule(j) ==
    /\ WorkGoes(j, "drop", "finalize")
    /\ UNCHANGED <<queueVars, opVars, status, expired, quiet, faults>>

(* dropOrphanSchedule(): removes the schedule; a failure is swallowed. *)
DropSchedule(j) ==
    /\ WorkGoes(j, "drop", "finalize")
    /\ \/ schedules' = schedules \ {taskOf[j]} /\ quiet' = FALSE /\ UNCHANGED faults
       \/ Fault /\ UNCHANGED <<schedules, quiet>>
    /\ UNCHANGED <<job, taskOf, key, tries, letter, opVars, status, expired>>

(* finalizeExistingRun(): whatever the row says, it is skipped now. *)
FinalizeRun(j) ==
    /\ WorkGoes(j, "finalize", "ack")
    /\ SetStatus(j, IF status[j] = "none" THEN "none" ELSE "skipped")
    /\ UNCHANGED <<queueVars, opVars, expired, quiet, faults>>

(* ensureRun(): the existing row, in whatever state, or a new one. *)
EnsureRun(j) ==
    /\ WorkGoes(j, "ensure", "mark")
    /\ SetStatus(j, IF status[j] = "none" THEN "queued" ELSE status[j])
    /\ UNCHANGED <<queueVars, opVars, expired, quiet, faults>>

(* No handler is registered for the type of the task, or the run begins. *)
MarkRun(j) ==
    /\ \/ WorkGoes(j, "mark", "ack") /\ SetStatus(j, "failed")
       \/ WorkGoes(j, "mark", "running") /\ SetStatus(j, "running")
    /\ UNCHANGED <<queueVars, opVars, expired, quiet, faults>>

(* The task's handler returns its result, or throws. *)
HandlerEnds(j) ==
    /\ \E result \in {"completed", "failed"} : WorkGoes(j, "running", result)
    /\ UNCHANGED <<queueVars, opVars, status, expired, quiet, faults>>

WriteResult(j) ==
    /\ \E result \in {"completed", "failed"} :
          WorkGoes(j, result, "ack") /\ SetStatus(j, result)
    /\ UNCHANGED <<queueVars, opVars, expired, quiet, faults>>

Acknowledge(j) ==
    /\ WorkGoes(j, "ack", "none")
    /\ Complete(j)
    /\ UNCHANGED <<opVars, status, expired, quiet, faults>>

(* A call to the store rejects, and with it handleRun(). *)
WorkFault(j) ==
    /\ Fault
    /\ \E s \in WorkState \ {"none", "drop", "running", "ack"} : WorkGoes(j, s, "none")
    /\ JobFails(j)
    /\ UNCHANGED <<opVars, status, expired, quiet>>

(* The job expires under its handler, which goes on without it ... *)
Expire(j) ==
    /\ MayExpire
    /\ WorkGoes(j, "running", "none")
    /\ expired' = expired \cup {j}
    /\ JobFails(j)
    /\ UNCHANGED <<opVars, status, quiet, faults>>

(* ... and writes the row when it ends, whoever has it by then. *)
LateResult(j) ==
    /\ j \in expired
    /\ expired' = expired \ {j}
    /\ \E result \in {"completed", "failed"} : SetStatus(j, result)
    /\ UNCHANGED <<queueVars, opVars, work, quiet, faults>>

(* pg-boss finds an active job whose worker is dead. *)
HeartbeatLost(j) ==
    /\ boot # "down"
    /\ work[j] = "none"
    /\ JobFails(j)
    /\ UNCHANGED <<opVars, status, work, expired, quiet, faults>>

(* The worker's pg-boss fires a schedule.  The row of the last occurrence  *)
(* stays in the store, but nothing refers to it any more.                  *)
FireSchedule(t) ==
    /\ boot # "down"
    /\ \E j \in Occurrences :
          /\ j \notin expired
          /\ Fire(j, t)
          /\ SetStatus(j, "none")
          /\ picked' = [i \in Jobs |-> picked[i] \ {j}]
    /\ UNCHANGED <<task, op, enabling, boot, wanted, todo, crashes, work, expired, quiet, faults>>

WorkStep(j) ==
    \/ FetchJob(j) \/ ReadTask(j) \/ DropSchedule(j) \/ FinalizeRun(j) \/ EnsureRun(j)
    \/ MarkRun(j) \/ HandlerEnds(j) \/ WriteResult(j) \/ Acknowledge(j)
    \/ LateResult(j) \/ HeartbeatLost(j)

-----------------------------------------------------------------------------
(* Dead letters, as the worker handles them. *)
letterVars == <<task, op, enabling, boot, wanted, todo, crashes, work, expired, quiet,
                schedules, job, taskOf, key, tries>>

LetterGoes(j, from, to) ==
    /\ boot = "up"
    /\ letter[j] = from
    /\ letter' = [letter EXCEPT ![j] = to]

PickRuns(j, runs) == picked' = [picked EXCEPT ![j] = runs]

(* Broken: only the running rows of the task are looked at. *)
RecordRunningOnly(j) ==
    /\ \/ /\ LetterGoes(j, "sent", "failRunning")
          /\ PickRuns(j, RunsOf(taskOf[j], {"running"}))
          /\ UNCHANGED status
       \/ /\ LetterGoes(j, "failRunning", "done")
          /\ Fail(picked[j]) /\ PickRuns(j, {})
    /\ UNCHANGED <<letterVars, faults>>

(* recordDeadLetter(): the run of the letter is failed if it is active and *)
(* then every running row of the task.  The letter of a scheduled job is a *)
(* job of its own, under whose id there is no row.                         *)
RecordDeadLetter(j) ==
    /\ \/ /\ LetterGoes(j, "sent", "failOwn")
          /\ PickRuns(j, IF j \in Ops /\ status[j] \in Unsettled THEN {j} ELSE {})
          /\ UNCHANGED status
       \/ /\ LetterGoes(j, "failOwn", "list")
          /\ Fail(picked[j]) /\ PickRuns(j, {})
       \/ /\ LetterGoes(j, "list", "failRunning")
          /\ PickRuns(j, RunsOf(taskOf[j], {"running"}))
          /\ UNCHANGED status
       \/ /\ LetterGoes(j, "failRunning", "done")
          /\ Fail(picked[j]) /\ PickRuns(j, {})
    /\ UNCHANGED <<letterVars, faults>>

(* The dead-letter queue does not retry. *)
LetterFault(j) ==
    /\ Fault
    /\ \E s \in {"sent", "failOwn", "list", "failRunning"} : LetterGoes(j, s, "lost")
    /\ PickRuns(j, {})
    /\ UNCHANGED <<letterVars, status>>

-----------------------------------------------------------------------------
(* main() of the worker.                                                   *)
bootVars == <<task, op, enabling, picked, work, expired, crashes, faults>>

BootGoes(from, to) ==
    /\ boot = from
    /\ boot' = to

StartWorker ==
    /\ BootGoes("down", "list")
    /\ UNCHANGED <<queueVars, bootVars, status, wanted, todo, quiet>>

(* listTasks({enabled: true}): no more than ListLimit; which of them, the  *)
(* order by updated_at decides, which is left open here.                   *)
ListTasks ==
    /\ BootGoes("list", "schedule")
    /\ \E listed \in SUBSET {t \in Tasks : task[t] = "on"} :
          /\ Cardinality(listed) <= ListLimit
          /\ \/ Cardinality(listed) = ListLimit
             \/ listed = {t \in Tasks : task[t] = "on"}
          /\ wanted' = listed
          /\ todo' = listed
    /\ quiet' = (\A o \in Ops : op[o] \in {"idle", "done", "failed"})
    /\ UNCHANGED <<queueVars, bootVars, status>>

(* Broken: one-way, nothing is removed. *)
ReconcileOneWay ==
    \/ /\ boot = "schedule"
       /\ \E t \in todo : SyncSchedule(t, TRUE) /\ todo' = todo \ {t}
       /\ UNCHANGED <<job, taskOf, key, tries, letter, bootVars, status, boot, wanted, quiet>>
    \/ /\ BootGoes("schedule", "reclaim") /\ todo = {}
       /\ UNCHANGED <<queueVars, bootVars, status, wanted, todo, quiet>>

(* reconcileAll(): every listed task is scheduled, one after the other, *)
Reconcile ==
    \/ /\ boot = "schedule"
       /\ \E t \in todo : SyncSchedule(t, TRUE) /\ todo' = todo \ {t}
       /\ UNCHANGED <<job, taskOf, key, tries, letter, bootVars, status, boot, wanted, quiet>>
    \/ /\ BootGoes("schedule", "read") /\ todo = {}
       /\ UNCHANGED <<queueVars, bootVars, status, wanted, todo, quiet>>
    (* then the schedules are read and those nobody listed removed. *)
    \/ /\ BootGoes("read", "unschedule")
       /\ todo' = schedules \ wanted
       /\ UNCHANGED <<queueVars, bootVars, status, wanted, quiet>>
    \/ /\ boot = "unschedule"
       /\ \E t \in todo : SyncSchedule(t, FALSE) /\ todo' = todo \ {t}
       /\ UNCHANGED <<job, taskOf, key, tries, letter, bootVars, status, boot, wanted, quiet>>
    \/ /\ BootGoes("unschedule", "reclaim") /\ todo = {}
       /\ UNCHANGED <<queueVars, bootVars, status, wanted, todo, quiet>>

(* Stale rows are reclaimed, ... *)
ReclaimAtStart ==
    /\ BootGoes("reclaim", "workRuns")
    /\ \E old \in Aged({j \in Jobs : status[j] = "running"}) : Fail(old)
    /\ UNCHANGED <<queueVars, bootVars, wanted, todo, quiet>>

(* ... then the worker takes jobs, and then dead letters. *)
Work ==
    /\ BootGoes("workRuns", "workLetters") \/ BootGoes("workLetters", "up")
    /\ UNCHANGED <<queueVars, bootVars, status, wanted, todo, quiet>>

(* A rejected call ends main(), but not the process: main().catch() sets   *)
(* the exit code, and the timers of pg-boss, which queue.start() has       *)
(* started, keep it alive.  It fires schedules and looks after heartbeats, *)
(* and takes no jobs, or no dead letters.  (Before pg-boss is started the  *)
(* process ends, and is started again: no step here.  A failure in         *)
(* ensureQueues() leaves what one in listTasks() leaves.)                  *)
BootFails ==
    /\ Fault
    /\ \/ BootGoes("workLetters", "deaf") /\ UNCHANGED <<wanted, todo, quiet>>
       \/ /\ \E s \in {"list", "schedule", "read", "unschedule", "reclaim", "workRuns"} :
                BootGoes(s, "failed")
          /\ wanted' = {} /\ todo' = {} /\ quiet' = FALSE
    /\ UNCHANGED <<queueVars, status, task, op, enabling, picked, work, expired, crashes>>

(* The process is killed, at whatever it is doing; the supervisor sees its *)
(* exit and starts it again.                                               *)
Crash ==
    /\ boot # "down"
    /\ crashes < MaxCrashes
    /\ crashes' = crashes + 1
    /\ boot' = "down"
    /\ wanted' = {} /\ todo' = {} /\ quiet' = FALSE
    /\ work' = [j \in Jobs |-> "none"]
    /\ expired' = {}
    /\ letter' = [j \in Jobs |-> IF letter[j] \in {"failOwn", "list", "failRunning"}
                                 THEN "lost" ELSE letter[j]]
    /\ picked' = [j \in Jobs |-> IF letter'[j] = "lost" THEN {} ELSE picked[j]]
    /\ UNCHANGED <<schedules, job, taskOf, key, tries, task, op, enabling, status, faults>>

BootStep == StartWorker \/ ListTasks \/ Reconcile \/ ReclaimAtStart \/ Work

(* Nothing is running or asked for, and nobody is there who would go on: a *)
(* system at rest.                                                         *)
Rest ==
    /\ \A o \in Ops : op[o] \in {"idle", "done", "failed"}
    /\ expired = {}
    /\ \/ boot = "failed"
       \/ /\ boot = "deaf"
          /\ \A j \in Jobs : job[j] \notin {"created", "retry", "active"}
       \/ /\ boot = "up" /\ schedules = {}
          /\ \A j \in Jobs : /\ job[j] \notin {"created", "retry", "active"}
                            /\ letter[j] \in {"none", "done", "lost"}
    /\ UNCHANGED vars

Next ==
    \/ \E o \in Ops, t \in Tasks :
          \/ \E enabled \in BOOLEAN : WriteTask(o, t, enabled)
          \/ FindTask(o, t)
          \/ RunNow(o, t)
    \/ \E o \in Ops : OpStep(o) \/ OpFault(o)
    \/ \E t \in Tasks : FireSchedule(t)
    \/ \E j \in Jobs : WorkStep(j) \/ WorkFault(j) \/ Expire(j)
    \/ \E j \in Jobs : RecordDeadLetter(j) \/ LetterFault(j)
    \/ BootStep \/ BootFails
    \/ Crash
    \/ Rest

Spec == Init /\ [][Next]_vars

(* Calls and handlers go on, a worker that is gone is started again (one   *)
(* whose main() has failed is not gone), schedules                         *)
(* come due again and again, and pg-boss hands out jobs and dead letters,  *)
(* the oldest job first: no job is passed over again and again.            *)
FairSpec ==
    /\ Spec
    /\ \A o \in Ops : WF_vars(OpStep(o))
    /\ \A t \in Tasks : WF_vars(FireSchedule(t))
    /\ \A j \in Jobs : /\ WF_vars(WorkStep(j)) /\ SF_vars(FetchJob(j))
                      /\ WF_vars(RecordDeadLetter(j))
    /\ WF_vars(BootStep)

-----------------------------------------------------------------------------
(* One run of a task at a time: manual and scheduled jobs share the task's *)
(* key, so no two are worked on together - an attempt that has expired but *)
(* goes on excepted.                                                       *)
OneRunAtATime ==
    \A i, j \in Jobs :
        work[i] # "none" /\ work[j] # "none" /\ taskOf[i] = taskOf[j] => i = j

(* An active row of a manual run belongs to somebody who will settle it:   *)
(* the call that made it, its job, or the dead letter of its job - unless  *)
(* that call or that letter broke off.  The web shows such a row as active *)
(* until somebody does.                                                    *)
NoRunForgotten ==
    \A o \in Ops :
        status[o] \in Unsettled =>
            \/ op[o] \in {"enqueue", "skip", "failed"}
            \/ job[o] \in {"created", "retry", "active"}
            \/ letter[o] \in {"sent", "failOwn", "list", "failRunning", "lost"}

(* After a reconcile that nothing disturbed, the schedules are those of    *)
(* the enabled tasks, whatever failed calls and crashes left behind.  The  *)
(* doc of reconcileAll: "Schedule every enabled task; remove any schedule  *)
(* whose task is gone/disabled."                                           *)
ReconcileRepairs ==
    boot \in Reconciled /\ quiet => schedules = {t \in Tasks : task[t] = "on"}

(* A manual run whose runNow() was answered ends and stays ended, through  *)
(* retries, crashes and dead letters - unless the handling of its dead     *)
(* letter broke off, or the worker is alive but its main() has failed: then *)
(* nobody takes jobs, or nobody takes the dead letter.                     *)
AnsweredRunSettles ==
    \A o \in Ops :
        op[o] = "done" ~> [](\/ status[o] \notin Unsettled
                            \/ letter[o] = "lost"
                            \/ boot = "failed"
                            \/ (boot = "deaf" /\ letter[o] = "sent"))

(* A task that is disabled or deleted for good loses its schedule for good *)
(* even when calls race or break off: the schedule fires, and the job that *)
(* finds no task to run drops it - unless the worker is alive but its      *)
(* main() has failed before it took jobs.                                  *)
OrphanScheduleGoes ==
    \A t \in Tasks : <>[](task[t] # "on") => <>[](t \notin schedules \/ boot = "failed")
=============================================================================
