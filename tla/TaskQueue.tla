------------------------------ MODULE TaskQueue ------------------------------
(***************************************************************************)
(* The queue of scheduled tasks: PgBossTaskQueue (packages/tasks/src/      *)
(* queue.ts) over pg-boss.  A schedule is kept per task; the worker's      *)
(* pg-boss turns schedules into jobs, runNow() of the web process sends    *)
(* jobs of its own.  All of it is in the database and outlives a process.  *)
(*                                                                         *)
(* The run queue is `stately' and every job carries the task's schedule    *)
(* key as singletonKey: of one key, at most one job is created, one waits  *)
(* for a retry and one is active.  A job that fails past its retries is    *)
(* copied to the dead-letter queue.                                        *)
(*                                                                         *)
(* A job and the audit row of its run share one name: a manual job carries *)
(* the id of the row runNow() created - here the name of that call - and a *)
(* scheduled job's own id becomes the id of its row.                       *)
(***************************************************************************)
EXTENDS Integers, FiniteSets

CONSTANTS Tasks,       \* the ids of the scheduled tasks
          Ops,         \* the calls of TaskManagementService; each runs once
          Occurrences, \* the scheduled jobs; a finished one is used again
          None,        \* the absent value
          RetryLimit   \* retries of a failed job; 2 in queue.ts

ASSUME QueueAssumption ==
    /\ Ops \cap Occurrences = {}
    /\ None \notin Tasks
    /\ RetryLimit \in Nat

Jobs == Ops \cup Occurrences

VARIABLES schedules,  \* the tasks that have a schedule in pg-boss
          job,        \* job[j]: the state of job j
          taskOf,     \* taskOf[j]: the task a job or a call is about
          key,        \* key[j]: the singletonKey of job j
          tries,      \* tries[j]: how often j was retried
          letter      \* letter[j]: how far the dead letter of j is handled

queueVars == <<schedules, job, taskOf, key, tries, letter>>

JobState == {"none", "created", "retry", "active", "completed", "failed"}
LetterState == {"none", "sent", "failOwn", "list", "failRunning", "done", "lost"}

QueueTypeOK ==
    /\ schedules \in SUBSET Tasks
    /\ job \in [Jobs -> JobState]
    /\ taskOf \in [Jobs -> Tasks \cup {None}]
    /\ key \in [Jobs -> Tasks \cup {None}]
    /\ tries \in [Jobs -> 0..RetryLimit]
    /\ letter \in [Jobs -> LetterState]

QueueInit ==
    /\ job = [j \in Jobs |-> "none"]
    /\ taskOf = [j \in Jobs |-> None]
    /\ key = [j \in Jobs |-> None]
    /\ tries = [j \in Jobs |-> 0]
    /\ letter = [j \in Jobs |-> "none"]

(* Some job of this singletonKey is in this state. *)
Taken(k, state) == k # None /\ \E j \in Jobs : key[j] = k /\ job[j] = state

-----------------------------------------------------------------------------
(* syncSchedule(): a schedule for an enabled task, none for another one. *)
SyncSchedule(t, enabled) ==
    schedules' = IF enabled THEN schedules \cup {t} ELSE schedules \ {t}

(* boss.send(): the job j, or nothing when one of its key is created. *)
Send(j, t, k) ==
    /\ ~Taken(k, "created")
    /\ job' = [job EXCEPT ![j] = "created"]
    /\ taskOf' = [taskOf EXCEPT ![j] = t]
    /\ key' = [key EXCEPT ![j] = k]
    /\ tries' = [tries EXCEPT ![j] = 0]
    /\ letter' = [letter EXCEPT ![j] = "none"]
    /\ UNCHANGED schedules

(* Broken: the job has no singletonKey. *)
EnqueueUnkeyed(j, t) == Send(j, t, None)

(* enqueueRun(): runNow()'s job; send() returns null when it is a second. *)
EnqueueRun(j, t) == Send(j, t, t)
EnqueueRefused(t) == Taken(t, "created")

(* A job that ended, and of whose dead letter nothing is left to do. *)
Reusable(j) ==
    job[j] \in {"none", "completed"} \/ letter[j] \in {"done", "lost"}

(* The cron of a schedule comes due. *)
Fire(j, t) ==
    /\ t \in schedules
    /\ Reusable(j)
    /\ Send(j, t, t)

(* work(): a worker fetches a job, unless one of its key is active. *)
Fetch(j) ==
    /\ job[j] \in {"created", "retry"}
    /\ ~Taken(key[j], "active")
    /\ job' = [job EXCEPT ![j] = "active"]
    /\ UNCHANGED <<schedules, taskOf, key, tries, letter>>

(* The handler's promise resolved. *)
Complete(j) ==
    /\ job[j] = "active"
    /\ job' = [job EXCEPT ![j] = "completed"]
    /\ UNCHANGED <<schedules, taskOf, key, tries, letter>>

(* Broken: the retries are not counted against the limit. *)
JobFailsAgain(j) ==
    /\ job[j] = "active"
    /\ job' = [job EXCEPT ![j] = "retry"]
    /\ tries' = [tries EXCEPT ![j] = @ + 1]
    /\ UNCHANGED <<schedules, taskOf, key, letter>>

(* It rejected, or the job expired, or its worker's heartbeat stopped: the *)
(* job is tried again, or fails for good and leaves a dead letter.         *)
JobFails(j) ==
    /\ job[j] = "active"
    /\ IF tries[j] < RetryLimit /\ ~Taken(key[j], "retry")
       THEN /\ job' = [job EXCEPT ![j] = "retry"]
            /\ tries' = [tries EXCEPT ![j] = @ + 1]
            /\ UNCHANGED letter
       ELSE /\ job' = [job EXCEPT ![j] = "failed"]
            /\ letter' = [letter EXCEPT ![j] = "sent"]
            /\ UNCHANGED tries
    /\ UNCHANGED <<schedules, taskOf, key>>
=============================================================================
