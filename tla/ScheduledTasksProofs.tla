------------------------- MODULE ScheduledTasksProofs -------------------------
(***************************************************************************)
(* Proofs about ScheduledTasks, for any tasks, calls, scheduled jobs and   *)
(* bounds: no two runs of a task are worked on together, an active row of  *)
(* a manual run belongs to somebody who will settle it, and an undisturbed *)
(* reconcile leaves the schedules of the enabled tasks.                    *)
(*                                                                         *)
(* The worker looks at its own place only, the queue at keys and states of *)
(* jobs, the store at rows.  The first two claims need what ties the three *)
(* together: who is being worked on is active in the queue                 *)
(* (WorkedOnIsActive), active jobs have different keys (OneActivePerKey),  *)
(* a live job has its task's key (LiveIsKeyed), a call has no job before   *)
(* it sent one (CallBeforeJob), and a dead letter is of a failed job       *)
(* (LetterIsOfFailed).  The third follows the reconcile through its stages *)
(* (ReconcileKnows).                                                       *)
(***************************************************************************)
EXTENDS ScheduledTasks, FiniteSetTheorems, TLAPS

Live == {"created", "retry", "active"}

WorkedOnIsActive == \A j \in Jobs : work[j] # "none" => job[j] = "active"

LiveIsKeyed ==
    \A j \in Jobs : job[j] \in Live => key[j] = taskOf[j] /\ key[j] \in Tasks

OneActivePerKey ==
    \A i, j \in Jobs :
        job[i] = "active" /\ job[j] = "active" /\ key[i] = key[j] => i = j

CallBeforeJob ==
    \A o \in Ops :
        /\ op[o] # "idle" => taskOf[o] \in Tasks
        /\ op[o] \notin {"done", "failed"} => job[o] = "none"

LetterIsOfFailed == \A j \in Jobs : letter[j] # "none" => job[j] = "failed"

(* What the queue, the worker and the calls know of one another. *)
QueueInv ==
    /\ WorkedOnIsActive /\ LiveIsKeyed /\ OneActivePerKey
    /\ CallBeforeJob /\ LetterIsOfFailed

(* Who is about to acknowledge its job has settled the row. *)
AckIsSettled == \A j \in Jobs : work[j] = "ack" => status[j] \notin Unsettled

(* The letter of a manual run fails its row before it goes on. *)
LetterSettles ==
    \A o \in Ops :
        /\ letter[o] = "failOwn" /\ status[o] \in Unsettled => o \in picked[o]
        /\ letter[o] \in {"list", "failRunning", "done"} => status[o] \notin Unsettled

RowInv == AckIsSettled /\ LetterSettles /\ NoRunForgotten

Enabled == {t \in Tasks : task[t] = "on"}

(* How far an undisturbed reconcile has come. *)
ReconcileKnows ==
    quiet =>
        /\ boot \in {"schedule", "read", "unschedule"} \cup Reconciled => wanted = Enabled
        /\ boot = "schedule" => todo \subseteq wanted /\ wanted \ todo \subseteq schedules
        /\ boot = "read" => wanted \subseteq schedules
        /\ boot = "unschedule" => /\ wanted \subseteq schedules
                                  /\ todo = schedules \ wanted
        /\ boot \in Reconciled => schedules = wanted

-----------------------------------------------------------------------------
(* A row is failed, or set to s: the rows stay rows. *)
RowState == Unsettled \cup Settled \cup {"none"}

LEMMA RowsStayRows ==
    ASSUME TypeOK
    PROVE  /\ \A runs : Fail(runs) => status' \in [Jobs -> RowState]
           /\ \A j \in Jobs, s \in RowState : SetStatus(j, s) => status' \in [Jobs -> RowState]
  <1>1. status \in [Jobs -> RowState]
    BY DEF TypeOK, RowState
  <1>2. \A runs : Fail(runs) => status' \in [Jobs -> RowState]
    BY <1>1 DEF Fail, RowState, Settled, Unsettled
  <1>3. \A j \in Jobs, s \in RowState : SetStatus(j, s) => status' \in [Jobs -> RowState]
    BY <1>1 DEF SetStatus
  <1>4. QED
    BY <1>2, <1>3

(* What the types of the variables are, one by one. *)
Types ==
    /\ job \in [Jobs -> JobState]
    /\ taskOf \in [Jobs -> Tasks \cup {None}]
    /\ key \in [Jobs -> Tasks \cup {None}]
    /\ letter \in [Jobs -> LetterState]
    /\ status \in [Jobs -> RowState]
    /\ op \in [Ops -> OpState]
    /\ picked \in [Jobs -> SUBSET Jobs]
    /\ work \in [Jobs -> WorkState]
    /\ Ops \subseteq Jobs
    /\ Occurrences \subseteq Jobs
    /\ Ops \cap Occurrences = {}

LEMMA TypesKnown == TypeOK => Types
  <1> SUFFICES ASSUME TypeOK PROVE Types
    OBVIOUS
  <1>1. QueueTypeOK
    BY DEF TypeOK
  <1>2. Ops \subseteq Jobs /\ Occurrences \subseteq Jobs /\ Ops \cap Occurrences = {}
    BY QueueAssumption DEF Jobs
  <1>3. status \in [Jobs -> RowState]
    BY DEF TypeOK, RowState
  <1>4. op \in [Ops -> OpState] /\ picked \in [Jobs -> SUBSET Jobs] /\ work \in [Jobs -> WorkState]
    BY DEF TypeOK
  <1>5. /\ job \in [Jobs -> JobState]
        /\ taskOf \in [Jobs -> Tasks \cup {None}]
        /\ key \in [Jobs -> Tasks \cup {None}]
        /\ letter \in [Jobs -> LetterState]
    BY <1>1 DEF QueueTypeOK
  <1>6. QED
    BY <1>2, <1>3, <1>4, <1>5 DEF Types

-----------------------------------------------------------------------------
(* The queue keeps its types when it sends, fetches, completes or fails. *)
LEMMA SendKeepsTypes ==
    ASSUME QueueTypeOK, NEW j \in Jobs, NEW t \in Tasks, Send(j, t, t)
    PROVE  QueueTypeOK'
  BY QueueAssumption DEF QueueTypeOK, Send, JobState, LetterState

LEMMA FailingKeepsTypes ==
    ASSUME QueueTypeOK, NEW j \in Jobs, JobFails(j)
    PROVE  QueueTypeOK'
  <1>1. CASE tries[j] < RetryLimit /\ ~Taken(key[j], "retry")
    <2>1. /\ job' = [job EXCEPT ![j] = "retry"]
          /\ tries' = [tries EXCEPT ![j] = tries[j] + 1]
          /\ UNCHANGED <<letter, schedules, taskOf, key>>
      BY <1>1 DEF JobFails
    <2>2. tries[j] + 1 \in 0..RetryLimit
      BY <1>1, QueueAssumption DEF QueueTypeOK
    <2>3. QED
      BY <2>1, <2>2 DEF QueueTypeOK, JobState
  <1>2. CASE ~(tries[j] < RetryLimit /\ ~Taken(key[j], "retry"))
    <2>1. /\ job' = [job EXCEPT ![j] = "failed"]
          /\ letter' = [letter EXCEPT ![j] = "sent"]
          /\ UNCHANGED <<tries, schedules, taskOf, key>>
      BY <1>2 DEF JobFails
    <2>2. QED
      BY <2>1 DEF QueueTypeOK, JobState, LetterState
  <1>3. QED
    BY <1>1, <1>2

LEMMA FetchingKeepsTypes ==
    ASSUME QueueTypeOK, NEW j \in Jobs, Fetch(j) \/ Complete(j)
    PROVE  QueueTypeOK'
  BY DEF QueueTypeOK, Fetch, Complete, JobState

(* A fault is counted and the count stays within its bound. *)
LEMMA FaultsAreBounded ==
    ASSUME TypeOK, Fault
    PROVE  faults' \in 0..MaxFaults
  BY TasksAssumption DEF TypeOK, Fault

(* The types but those of the queue. *)
TaskTypeOK ==
    /\ task \in [Tasks -> TaskState]
    /\ status \in [Jobs -> RowState]
    /\ op \in [Ops -> OpState]
    /\ enabling \in [Ops -> BOOLEAN]
    /\ picked \in [Jobs -> SUBSET Jobs]
    /\ work \in [Jobs -> WorkState]
    /\ expired \in SUBSET Jobs
    /\ boot \in BootState
    /\ wanted \in SUBSET Tasks
    /\ todo \in SUBSET Tasks
    /\ quiet \in BOOLEAN
    /\ faults \in 0..MaxFaults
    /\ crashes \in 0..MaxCrashes

LEMMA TypeParts ==
    /\ TypeOK <=> QueueTypeOK /\ TaskTypeOK
    /\ TypeOK' <=> QueueTypeOK' /\ TaskTypeOK'
  BY DEF TypeOK, TaskTypeOK, RowState

LEMMA QueueStaysTyped ==
    ASSUME QueueTypeOK, UNCHANGED queueVars
    PROVE  QueueTypeOK'
  BY DEF QueueTypeOK, queueVars

LEMMA NamesOfRows ==
    /\ {"queued", "running", "completed", "failed", "skipped", "none"} \subseteq RowState
    /\ Unsettled \subseteq RowState
  BY DEF RowState, Unsettled, Settled

(* A call that goes on keeps the types. *)
LEMMA CallStepKeepsTypes ==
    ASSUME TypeOK, CallBeforeJob, NEW o \in Ops, OpStep(o) \/ OpFault(o)
    PROVE  TypeOK'
  <1>0. QueueTypeOK /\ TaskTypeOK /\ o \in Jobs
    BY TypeParts DEF Jobs
  <1>1. CASE SoftDelete(o)
    <2>1. QueueTypeOK'
      BY <1>0, <1>1, QueueStaysTyped DEF SoftDelete
    <2>2. TaskTypeOK'
      BY <1>0, <1>1 DEF SoftDelete, TaskTypeOK, OpGoes, OpState, workerVars, TaskState
    <2>3. QED
      BY <2>1, <2>2, TypeParts
  <1>2. CASE Sync(o)
    <2>1. QueueTypeOK'
      BY <1>0, <1>2 DEF Sync, OpGoes, CallBeforeJob, SyncSchedule, QueueTypeOK
    <2>2. TaskTypeOK'
      BY <1>0, <1>2 DEF Sync, TaskTypeOK, OpGoes, OpState, workerVars
    <2>3. QED
      BY <2>1, <2>2, TypeParts
  <1>3. CASE ReclaimStaleRuns(o)
    <2>1. QueueTypeOK'
      BY <1>0, <1>3, QueueStaysTyped DEF ReclaimStaleRuns
    <2>2. status' \in [Jobs -> RowState]
      BY <1>3, RowsStayRows DEF ReclaimStaleRuns
    <2>3. TaskTypeOK'
      BY <1>0, <1>3, <2>2 DEF ReclaimStaleRuns, TaskTypeOK, OpGoes, OpState, workerVars
    <2>4. QED
      BY <2>1, <2>3, TypeParts
  <1>4. CASE ListActiveRuns(o)
    <2>1. QueueTypeOK'
      BY <1>0, <1>4, QueueStaysTyped DEF ListActiveRuns
    <2>2. TaskTypeOK'
      BY ZenonT(40), <1>0, <1>4 DEF ListActiveRuns, TaskTypeOK, OpGoes, OpState, workerVars, Aged, RunsOf
    <2>3. QED
      BY <2>1, <2>2, TypeParts
  <1>5. CASE FailPicked(o)
    <2>1. QueueTypeOK'
      BY <1>0, <1>5, QueueStaysTyped DEF FailPicked
    <2>2. status' \in [Jobs -> RowState]
      BY <1>5, RowsStayRows DEF FailPicked
    <2>3. TaskTypeOK'
      BY <1>0, <1>5, <2>2 DEF FailPicked, TaskTypeOK, OpGoes, OpState, workerVars
    <2>4. QED
      BY <2>1, <2>3, TypeParts
  <1>6. CASE CreateRun(o)
    <2>1. QueueTypeOK'
      BY <1>0, <1>6, QueueStaysTyped DEF CreateRun
    <2>2. status' \in [Jobs -> RowState]
      BY <1>0, <1>6, RowsStayRows, NamesOfRows DEF CreateRun
    <2>3. TaskTypeOK'
      BY <1>0, <1>6, <2>2 DEF CreateRun, TaskTypeOK, OpGoes, OpState, workerVars
    <2>4. QED
      BY <2>1, <2>3, TypeParts
  <1>7. CASE Enqueue(o)
    <2>1. op[o] # "idle" /\ taskOf[o] \in Tasks
      BY <1>7 DEF Enqueue, OpGoes, CallBeforeJob
    <2>2. QueueTypeOK'
      BY <1>0, <1>7, <2>1, SendKeepsTypes, QueueStaysTyped DEF Enqueue, EnqueueRun
    <2>3. TaskTypeOK'
      BY <1>0, <1>7 DEF Enqueue, TaskTypeOK, OpGoes, OpState, workerVars
    <2>4. QED
      BY <2>2, <2>3, TypeParts
  <1>8. CASE SkipRun(o)
    <2>1. QueueTypeOK'
      BY <1>0, <1>8, QueueStaysTyped DEF SkipRun
    <2>2. status' \in [Jobs -> RowState]
      BY <1>0, <1>8, RowsStayRows, NamesOfRows DEF SkipRun
    <2>3. TaskTypeOK'
      BY <1>0, <1>8, <2>2 DEF SkipRun, TaskTypeOK, OpGoes, OpState, workerVars
    <2>4. QED
      BY <2>1, <2>3, TypeParts
  <1>9. CASE OpFault(o)
    <2>1. QueueTypeOK'
      BY <1>0, <1>9, QueueStaysTyped DEF OpFault
    <2>2. faults' \in 0..MaxFaults
      BY <1>9, FaultsAreBounded DEF OpFault
    <2>3. TaskTypeOK'
      BY <1>0, <1>9, <2>2 DEF OpFault, TaskTypeOK, OpGoes, OpState, workerVars
    <2>4. QED
      BY <2>1, <2>3, TypeParts
  <1>10. QED
    BY <1>1, <1>2, <1>3, <1>4, <1>5, <1>6, <1>7, <1>8, <1>9 DEF OpStep

(* A call that begins keeps the types. *)
LEMMA CallStartKeepsTypes ==
    ASSUME TypeOK, NEW o \in Ops, NEW t \in Tasks, NEW enabled \in BOOLEAN,
           WriteTask(o, t, enabled) \/ FindTask(o, t) \/ RunNow(o, t)
    PROVE  TypeOK'
  <1>0. QueueTypeOK /\ TaskTypeOK /\ o \in Jobs
    BY TypeParts DEF Jobs
  <1>1. CASE WriteTask(o, t, enabled)
    <2>1. QueueTypeOK'
      BY <1>0, <1>1 DEF WriteTask, QueueTypeOK
    <2>2. TaskTypeOK'
      BY <1>0, <1>1 DEF WriteTask, OpGoes, OpState, workerVars, TaskState, TaskTypeOK
    <2>3. QED
      BY <2>1, <2>2, TypeParts
  <1>2. CASE FindTask(o, t)
    <2>1. QueueTypeOK'
      BY <1>0, <1>2 DEF FindTask, QueueTypeOK
    <2>2. TaskTypeOK'
      BY <1>0, <1>2 DEF FindTask, OpGoes, OpState, workerVars, TaskTypeOK
    <2>3. QED
      BY <2>1, <2>2, TypeParts
  <1>3. CASE RunNow(o, t)
    <2>1. QueueTypeOK'
      BY <1>0, <1>3 DEF RunNow, QueueTypeOK
    <2>2. TaskTypeOK'
      BY <1>0, <1>3 DEF RunNow, OpGoes, OpState, workerVars, TaskTypeOK
    <2>3. QED
      BY <2>1, <2>2, TypeParts
  <1>4. QED
    BY <1>1, <1>2, <1>3

(* The worker keeps the types. *)
LEMMA WorkKeepsTypes ==
    ASSUME TypeOK, NEW j \in Jobs, WorkStep(j) \/ WorkFault(j) \/ Expire(j)
    PROVE  TypeOK'
  <1>0. QueueTypeOK /\ TaskTypeOK
    BY TypeParts
  <1>1. CASE FetchJob(j)
    <2>1. QueueTypeOK'
      BY <1>0, <1>1, FetchingKeepsTypes DEF FetchJob
    <2>2. TaskTypeOK'
      BY <1>0, <1>1 DEF FetchJob, WorkGoes, WorkState, opVars, TaskTypeOK
    <2>3. QED
      BY <2>1, <2>2, TypeParts
  <1>2. CASE ReadTask(j)
    <2>1. QueueTypeOK'
      BY <1>0, <1>2, QueueStaysTyped DEF ReadTask
    <2>2. TaskTypeOK'
      BY <1>0, <1>2 DEF ReadTask, WorkGoes, WorkState, opVars, TaskTypeOK
    <2>3. QED
      BY <2>1, <2>2, TypeParts
  <1>3. CASE DropSchedule(j)
    <2>1. faults' \in 0..MaxFaults
      BY <1>0, <1>3, FaultsAreBounded DEF DropSchedule, TaskTypeOK
    <2>2. QueueTypeOK'
      BY <1>0, <1>3 DEF DropSchedule, QueueTypeOK
    <2>3. TaskTypeOK'
      BY <1>0, <1>3, <2>1 DEF DropSchedule, WorkGoes, WorkState, opVars, TaskTypeOK
    <2>4. QED
      BY <2>2, <2>3, TypeParts
  <1>4. CASE FinalizeRun(j)
    <2>1. (IF status[j] = "none" THEN "none" ELSE "skipped") \in RowState
      BY <1>0, NamesOfRows DEF TaskTypeOK
    <2>2. status' \in [Jobs -> RowState]
      BY <1>4, <2>1, RowsStayRows DEF FinalizeRun
    <2>3. QueueTypeOK'
      BY <1>0, <1>4, QueueStaysTyped DEF FinalizeRun
    <2>4. TaskTypeOK'
      BY <1>0, <1>4, <2>1, <2>2 DEF FinalizeRun, WorkGoes, WorkState, opVars, TaskTypeOK
    <2>5. QED
      BY <2>3, <2>4, TypeParts
  <1>5. CASE EnsureRun(j)
    <2>1. (IF status[j] = "none" THEN "queued" ELSE status[j]) \in RowState
      BY <1>0, NamesOfRows DEF TaskTypeOK
    <2>2. status' \in [Jobs -> RowState]
      BY <1>5, <2>1, RowsStayRows DEF EnsureRun
    <2>3. QueueTypeOK'
      BY <1>0, <1>5, QueueStaysTyped DEF EnsureRun
    <2>4. TaskTypeOK'
      BY <1>0, <1>5, <2>1, <2>2 DEF EnsureRun, WorkGoes, WorkState, opVars, TaskTypeOK
    <2>5. QED
      BY <2>3, <2>4, TypeParts
  <1>6. CASE MarkRun(j)
    <2>1. status' \in [Jobs -> RowState]
      BY <1>0, <1>6, RowsStayRows, NamesOfRows DEF MarkRun
    <2>2. QueueTypeOK'
      BY <1>0, <1>6, QueueStaysTyped DEF MarkRun
    <2>3. TaskTypeOK'
      BY <1>0, <1>6, <2>1 DEF MarkRun, WorkGoes, WorkState, opVars, TaskTypeOK
    <2>4. QED
      BY <2>2, <2>3, TypeParts
  <1>7. CASE HandlerEnds(j)
    <2>1. QueueTypeOK'
      BY <1>0, <1>7, QueueStaysTyped DEF HandlerEnds
    <2>2. TaskTypeOK'
      BY <1>0, <1>7 DEF HandlerEnds, WorkGoes, WorkState, opVars, TaskTypeOK
    <2>3. QED
      BY <2>1, <2>2, TypeParts
  <1>8. CASE WriteResult(j)
    <2>1. status' \in [Jobs -> RowState]
      BY <1>0, <1>8, RowsStayRows, NamesOfRows DEF WriteResult
    <2>2. QueueTypeOK'
      BY <1>0, <1>8, QueueStaysTyped DEF WriteResult
    <2>3. TaskTypeOK'
      BY <1>0, <1>8, <2>1 DEF WriteResult, WorkGoes, WorkState, opVars, TaskTypeOK
    <2>4. QED
      BY <2>2, <2>3, TypeParts
  <1>9. CASE Acknowledge(j)
    <2>1. QueueTypeOK'
      BY <1>0, <1>9, FetchingKeepsTypes DEF Acknowledge
    <2>2. TaskTypeOK'
      BY <1>0, <1>9 DEF Acknowledge, WorkGoes, WorkState, opVars, TaskTypeOK
    <2>3. QED
      BY <2>1, <2>2, TypeParts
  <1>10. CASE LateResult(j)
    <2>1. status' \in [Jobs -> RowState]
      BY <1>0, <1>10, RowsStayRows, NamesOfRows DEF LateResult
    <2>2. QueueTypeOK'
      BY <1>0, <1>10, QueueStaysTyped DEF LateResult
    <2>3. TaskTypeOK'
      BY <1>0, <1>10, <2>1 DEF LateResult, WorkGoes, WorkState, opVars, TaskTypeOK
    <2>4. QED
      BY <2>2, <2>3, TypeParts
  <1>11. CASE HeartbeatLost(j)
    <2>1. QueueTypeOK'
      BY <1>0, <1>11, FailingKeepsTypes DEF HeartbeatLost
    <2>2. TaskTypeOK'
      BY <1>0, <1>11 DEF HeartbeatLost, WorkGoes, WorkState, opVars, TaskTypeOK
    <2>3. QED
      BY <2>1, <2>2, TypeParts
  <1>12. CASE WorkFault(j)
    <2>1. faults' \in 0..MaxFaults
      BY <1>12, FaultsAreBounded DEF WorkFault
    <2>2. QueueTypeOK'
      BY <1>0, <1>12, FailingKeepsTypes DEF WorkFault
    <2>3. TaskTypeOK'
      BY <1>0, <1>12, <2>1 DEF WorkFault, WorkGoes, WorkState, opVars, TaskTypeOK
    <2>4. QED
      BY <2>2, <2>3, TypeParts
  <1>13. CASE Expire(j)
    <2>1. QueueTypeOK'
      BY <1>0, <1>13, FailingKeepsTypes DEF Expire
    <2>2. TaskTypeOK'
      BY <1>0, <1>13 DEF Expire, WorkGoes, WorkState, opVars, TaskTypeOK
    <2>3. QED
      BY <2>1, <2>2, TypeParts
  <1>14. QED
    BY <1>1, <1>2, <1>3, <1>4, <1>5, <1>6, <1>7, <1>8, <1>9, <1>10, <1>11, <1>12, <1>13 DEF WorkStep

(* A dead letter and a schedule keep the types. *)
LEMMA LetterKeepsTypes ==
    ASSUME TypeOK, NEW j \in Jobs, RecordDeadLetter(j) \/ LetterFault(j)
    PROVE  TypeOK'
  <1>0. QueueTypeOK /\ TaskTypeOK
    BY TypeParts
  <1>1. CASE RecordDeadLetter(j)
    <2>1. letter' \in [Jobs -> LetterState]
      BY <1>0, <1>1 DEF RecordDeadLetter, LetterGoes, QueueTypeOK, LetterState
    <2>2. picked' \in [Jobs -> SUBSET Jobs]
      BY <1>0, <1>1 DEF RecordDeadLetter, PickRuns, RunsOf, TaskTypeOK
    <2>3. status' \in [Jobs -> RowState]
      BY <1>0, <1>1, RowsStayRows DEF RecordDeadLetter, TaskTypeOK
    <2>4. QueueTypeOK'
      BY <1>0, <1>1, <2>1 DEF RecordDeadLetter, letterVars, QueueTypeOK
    <2>5. TaskTypeOK'
      BY <1>0, <1>1, <2>1, <2>2, <2>3 DEF RecordDeadLetter, letterVars, TaskTypeOK
    <2>6. QED
      BY <2>4, <2>5, TypeParts
  <1>2. CASE LetterFault(j)
    <2>1. letter' \in [Jobs -> LetterState]
      BY <1>0, <1>2 DEF LetterFault, LetterGoes, QueueTypeOK, LetterState
    <2>2. picked' \in [Jobs -> SUBSET Jobs]
      BY <1>0, <1>2 DEF LetterFault, PickRuns, RunsOf, TaskTypeOK
    <2>3. faults' \in 0..MaxFaults
      BY <1>2, FaultsAreBounded DEF LetterFault
    <2>4. QueueTypeOK'
      BY <1>0, <1>2, <2>1 DEF LetterFault, letterVars, QueueTypeOK
    <2>5. TaskTypeOK'
      BY <1>0, <1>2, <2>1, <2>2, <2>3 DEF LetterFault, letterVars, TaskTypeOK
    <2>6. QED
      BY <2>4, <2>5, TypeParts
  <1>3. QED
    BY <1>1, <1>2

LEMMA FireKeepsTypes ==
    ASSUME TypeOK, NEW t \in Tasks, FireSchedule(t)
    PROVE  TypeOK'
  <1>0. QueueTypeOK /\ TaskTypeOK
    BY TypeParts
  <1>1. PICK j \in Occurrences : /\ Fire(j, t) /\ SetStatus(j, "none")
                                /\ picked' = [i \in Jobs |-> picked[i] \ {j}]
    BY DEF FireSchedule
  <1>2. j \in Jobs
    BY DEF Jobs
  <1>3. QueueTypeOK'
    BY <1>0, <1>1, <1>2, SendKeepsTypes DEF Fire
  <1>4. status' \in [Jobs -> RowState]
    BY <1>1, <1>2, RowsStayRows, NamesOfRows
  <1>5. TaskTypeOK'
    BY <1>0, <1>1, <1>4 DEF FireSchedule, TaskTypeOK
  <1>6. QED
    BY <1>3, <1>5, TypeParts

(* The start of the worker and its death keep the types. *)
LEMMA BootKeepsTypes ==
    ASSUME TypeOK, BootStep \/ BootFails \/ Crash
    PROVE  TypeOK'
  <1>0. QueueTypeOK /\ TaskTypeOK
    BY TypeParts
  <1>1. CASE StartWorker
    <2>1. QueueTypeOK'
      BY <1>0, <1>1, QueueStaysTyped DEF StartWorker
    <2>2. TaskTypeOK'
      BY <1>0, <1>1 DEF StartWorker, BootGoes, BootState, bootVars, TaskTypeOK
    <2>3. QED
      BY <2>1, <2>2, TypeParts
  <1>2. CASE ListTasks
    <2>1. QueueTypeOK'
      BY <1>0, <1>2, QueueStaysTyped DEF ListTasks
    <2>2. TaskTypeOK'
      BY <1>0, <1>2 DEF ListTasks, BootGoes, BootState, bootVars, TaskTypeOK
    <2>3. QED
      BY <2>1, <2>2, TypeParts
  <1>3. CASE Reconcile
    <2>1. QueueTypeOK'
      BY <1>0, <1>3 DEF Reconcile, SyncSchedule, QueueTypeOK, TaskTypeOK, queueVars
    <2>2. TaskTypeOK'
      BY <1>0, <1>3 DEF Reconcile, QueueTypeOK, SyncSchedule, BootGoes, BootState, bootVars, TaskTypeOK
    <2>3. QED
      BY <2>1, <2>2, TypeParts
  <1>4. CASE ReclaimAtStart \/ Work
    <2>1. status' \in [Jobs -> RowState]
      BY <1>0, <1>4, RowsStayRows, NamesOfRows DEF ReclaimAtStart, Work, TaskTypeOK
    <2>2. QueueTypeOK'
      BY <1>0, <1>4, QueueStaysTyped DEF ReclaimAtStart, Work
    <2>3. TaskTypeOK'
      BY <1>0, <1>4, <2>1 DEF ReclaimAtStart, Work, BootGoes, BootState, bootVars, TaskTypeOK
    <2>4. QED
      BY <2>2, <2>3, TypeParts
  <1>5. CASE Crash
    <2>1. letter' = [j \in Jobs |-> IF letter[j] \in {"failOwn", "list", "failRunning"} THEN "lost" ELSE letter[j]]
      BY <1>5 DEF Crash
    <2>2. crashes' \in 0..MaxCrashes
      BY <1>0, <1>5, TasksAssumption DEF Crash, TaskTypeOK
    <2>3. QueueTypeOK'
      BY <1>0, <1>5, <2>1 DEF Crash, QueueTypeOK, LetterState
    <2>4. TaskTypeOK'
      BY <1>0, <1>5, <2>1, <2>2 DEF Crash, WorkState, BootState, TaskTypeOK
    <2>5. QED
      BY <2>3, <2>4, TypeParts
  <1>6. CASE BootFails
    <2>1. QueueTypeOK'
      BY <1>0, <1>6, QueueStaysTyped DEF BootFails
    <2>2. faults' \in 0..MaxFaults
      BY <1>0, <1>6, TasksAssumption DEF BootFails, Fault, TaskTypeOK
    <2>3. TaskTypeOK'
      BY <1>0, <1>6, <2>2 DEF BootFails, BootGoes, BootState, TaskTypeOK
    <2>4. QED
      BY <2>1, <2>3, TypeParts
  <1>7. QED
    BY <1>1, <1>2, <1>3, <1>4, <1>5, <1>6 DEF BootStep

LEMMA StutterKeepsTypes ==
    ASSUME TypeOK, UNCHANGED vars
    PROVE  TypeOK'
  <1>0. QueueTypeOK /\ TaskTypeOK
    BY TypeParts
  <1>1. QueueTypeOK'
    BY <1>0, QueueStaysTyped DEF vars
  <1>2. UNCHANGED taskVars
    BY DEF vars
  <1>3. TaskTypeOK'
    BY <1>0, <1>2 DEF taskVars, TaskTypeOK
  <1>4. QED
    BY <1>1, <1>3, TypeParts

-----------------------------------------------------------------------------
(* What ties queue, worker and calls together speaks of these only. *)
queueInvVars == <<job, taskOf, key, letter, work, op>>

LEMMA QueueInvQuiet ==
    ASSUME QueueInv, UNCHANGED queueInvVars
    PROVE  QueueInv'
  BY DEF QueueInv, WorkedOnIsActive, LiveIsKeyed, OneActivePerKey, CallBeforeJob,
         LetterIsOfFailed, queueInvVars

(* The worker goes from one place to another, never out of its job. *)
LEMMA WorkGoingOnKeepsQueueInv ==
    ASSUME Types, QueueInv, NEW j \in Jobs, work[j] # "none",
           NEW to \in WorkState, work' = [work EXCEPT ![j] = to],
           UNCHANGED <<job, taskOf, key, letter, op>>
    PROVE  QueueInv'
  <1>1. WorkedOnIsActive'
    BY DEF Types, QueueInv, WorkedOnIsActive
  <1>2. (LiveIsKeyed /\ OneActivePerKey /\ CallBeforeJob /\ LetterIsOfFailed)'
    BY DEF QueueInv, LiveIsKeyed, OneActivePerKey, CallBeforeJob, LetterIsOfFailed
  <1>3. QED
    BY <1>1, <1>2 DEF QueueInv

(* A call goes from one place to another and sends nothing. *)
LEMMA CallGoingOnKeepsQueueInv ==
    ASSUME Types, QueueInv, NEW o \in Ops, op[o] # "idle",
           NEW to \in OpState, op' = [op EXCEPT ![o] = to],
           op[o] \in {"done", "failed"} => to \in {"done", "failed"},
           UNCHANGED <<job, taskOf, key, letter, work>>
    PROVE  QueueInv'
  <1>1. CallBeforeJob'
    BY DEF Types, QueueInv, CallBeforeJob
  <1>2. (WorkedOnIsActive /\ LiveIsKeyed /\ OneActivePerKey /\ LetterIsOfFailed)'
    BY DEF QueueInv, LiveIsKeyed, OneActivePerKey, WorkedOnIsActive, LetterIsOfFailed
  <1>3. QED
    BY <1>1, <1>2 DEF QueueInv

(* A call that begins learns its task; it has no job to confuse with. *)
LEMMA CallStartKeepsQueueInv ==
    ASSUME Types, QueueInv, NEW o \in Ops, NEW t \in Tasks, op[o] = "idle",
           NEW to \in OpState, op' = [op EXCEPT ![o] = to],
           to \notin {"idle", "done", "failed"},
           taskOf' = [taskOf EXCEPT ![o] = t],
           UNCHANGED <<job, key, letter, work>>
    PROVE  QueueInv'
  <1>0. job[o] = "none" /\ o \in Jobs
    BY DEF Types, QueueInv, CallBeforeJob
  <1>1. CallBeforeJob'
    BY DEF Types, QueueInv, CallBeforeJob
  <1>2. LiveIsKeyed'
    BY <1>0 DEF Types, QueueInv, LiveIsKeyed, Live
  <1>3. (WorkedOnIsActive /\ OneActivePerKey /\ LetterIsOfFailed)'
    BY DEF QueueInv, OneActivePerKey, WorkedOnIsActive, LetterIsOfFailed
  <1>4. QED
    BY <1>1, <1>2, <1>3 DEF QueueInv

(* A job that is not live is sent with its task's key. *)
LEMMA SendingKeepsQueueInv ==
    ASSUME Types, QueueInv, NEW j \in Jobs, NEW t \in Tasks, Send(j, t, t),
           job[j] \notin Live,
           j \in Ops => taskOf[j] = t /\ op'[j] \in {"done", "failed"},
           \A o \in Ops : o # j => op'[o] = op[o],
           UNCHANGED work
    PROVE  QueueInv'
  <1>1. /\ job' = [job EXCEPT ![j] = "created"]
        /\ taskOf' = [taskOf EXCEPT ![j] = t]
        /\ key' = [key EXCEPT ![j] = t]
        /\ letter' = [letter EXCEPT ![j] = "none"]
    BY DEF Send
  <1>2. work[j] = "none"
    BY DEF QueueInv, WorkedOnIsActive, Live
  <1>3. WorkedOnIsActive'
    BY <1>1, <1>2 DEF Types, QueueInv, WorkedOnIsActive
  <1>4. LiveIsKeyed'
    BY <1>1 DEF Types, QueueInv, LiveIsKeyed
  <1>5. OneActivePerKey'
    BY <1>1 DEF Types, QueueInv, OneActivePerKey
  <1>6. CallBeforeJob'
    BY <1>1 DEF Types, QueueInv, CallBeforeJob
  <1>7. LetterIsOfFailed'
    BY <1>1 DEF Types, QueueInv, LetterIsOfFailed
  <1>8. QED
    BY <1>3, <1>4, <1>5, <1>6, <1>7 DEF QueueInv

(* Nobody fetches a job while another one of its key is active. *)
LEMMA FetchingKeepsQueueInv ==
    ASSUME Types, QueueInv, NEW j \in Jobs, Fetch(j), work[j] = "none",
           work' = [work EXCEPT ![j] = "read"], UNCHANGED op
    PROVE  QueueInv'
  <1>1. /\ job[j] \in {"created", "retry"}
        /\ job' = [job EXCEPT ![j] = "active"]
        /\ UNCHANGED <<taskOf, key, letter>>
    BY DEF Fetch
  <1>2. key[j] = taskOf[j] /\ key[j] \in Tasks
    BY <1>1 DEF QueueInv, LiveIsKeyed, Live
  <1>3. \A i \in Jobs : ~(key[i] = key[j] /\ job[i] = "active")
    BY <1>2, QueueAssumption DEF Fetch, Taken
  <1>4. letter[j] = "none" /\ j \in Ops => op[j] \in {"done", "failed"}
    BY <1>1 DEF QueueInv, CallBeforeJob
  <1>5. WorkedOnIsActive'
    BY <1>1 DEF Types, QueueInv, WorkedOnIsActive
  <1>6. LiveIsKeyed'
    BY <1>1, <1>2 DEF Types, QueueInv, LiveIsKeyed
  <1>7. OneActivePerKey'
    BY <1>1, <1>3 DEF Types, QueueInv, OneActivePerKey
  <1>8. CallBeforeJob'
    BY <1>1 DEF Types, QueueInv, CallBeforeJob
  <1>9. LetterIsOfFailed'
    BY <1>1 DEF Types, QueueInv, LetterIsOfFailed
  <1>10. QED
    BY <1>5, <1>6, <1>7, <1>8, <1>9 DEF QueueInv

(* An active job that nobody works on any more completes, is retried or    *)
(* fails.                                                                  *)
LEMMA LeavingKeepsQueueInv ==
    ASSUME Types, QueueInv, NEW j \in Jobs, Complete(j) \/ JobFails(j),
           work' = [work EXCEPT ![j] = "none"], UNCHANGED op
    PROVE  QueueInv'
  <1>1. PICK s \in {"completed", "retry", "failed"} :
           /\ job' = [job EXCEPT ![j] = s]
           /\ \/ UNCHANGED letter
              \/ s = "failed" /\ letter' = [letter EXCEPT ![j] = "sent"]
    BY DEF Complete, JobFails
  <1>2. job[j] = "active" /\ UNCHANGED <<taskOf, key>>
    BY DEF Complete, JobFails
  <1>3. letter[j] = "none"
    BY <1>2 DEF QueueInv, LetterIsOfFailed
  <1>4. WorkedOnIsActive'
    BY <1>1 DEF Types, QueueInv, WorkedOnIsActive
  <1>5. LiveIsKeyed'
    BY <1>1, <1>2 DEF Types, QueueInv, LiveIsKeyed, Live
  <1>6. OneActivePerKey'
    BY <1>1, <1>2 DEF Types, QueueInv, OneActivePerKey
  <1>7. CallBeforeJob'
    BY <1>1, <1>2 DEF Types, QueueInv, CallBeforeJob
  <1>8. LetterIsOfFailed'
    BY <1>1, <1>3 DEF Types, QueueInv, LetterIsOfFailed
  <1>9. QED
    BY <1>4, <1>5, <1>6, <1>7, <1>8 DEF QueueInv

(* A letter that has been sent is handled further. *)
LEMMA LettersKeepQueueInv ==
    ASSUME QueueInv, \A j \in Jobs : letter[j] = "none" => letter'[j] = "none",
           work' = work \/ \A j \in Jobs : work'[j] = "none",
           UNCHANGED <<job, taskOf, key, op>>
    PROVE  QueueInv'
  <1>1. WorkedOnIsActive'
    BY DEF QueueInv, WorkedOnIsActive
  <1>2. LetterIsOfFailed'
    BY DEF QueueInv, LetterIsOfFailed
  <1>3. (LiveIsKeyed /\ OneActivePerKey /\ CallBeforeJob)'
    BY DEF QueueInv, LiveIsKeyed, OneActivePerKey, CallBeforeJob
  <1>4. QED
    BY <1>1, <1>2, <1>3 DEF QueueInv

(* The steps of Next, by who takes them. *)
CallActs(o) ==
    \/ OpStep(o) \/ OpFault(o)
    \/ \E t \in Tasks : \/ FindTask(o, t) \/ RunNow(o, t)
                        \/ \E enabled \in BOOLEAN : WriteTask(o, t, enabled)
WorkActs(j) == WorkStep(j) \/ WorkFault(j) \/ Expire(j)
OtherActs ==
    \/ \E t \in Tasks : FireSchedule(t)
    \/ \E j \in Jobs : RecordDeadLetter(j) \/ LetterFault(j)
    \/ BootStep \/ BootFails \/ Crash \/ UNCHANGED vars

(* A call sends its job, if any, when it has none. *)
LEMMA CallsKeepQueueInv ==
    ASSUME Types, QueueInv, NEW o \in Ops, CallActs(o)
    PROVE  QueueInv'
  <1>1. CASE \/ SoftDelete(o) \/ Sync(o) \/ ReclaimStaleRuns(o) \/ ListActiveRuns(o)
             \/ FailPicked(o) \/ CreateRun(o) \/ SkipRun(o) \/ OpFault(o)
    <2>1. UNCHANGED <<job, taskOf, key, letter, work>>
      BY <1>1 DEF SoftDelete, Sync, ReclaimStaleRuns, ListActiveRuns, FailPicked, CreateRun,
                  SkipRun, OpFault, queueVars, workerVars
    <2>2. \E from \in OpState \ {"idle", "done", "failed"}, to \in OpState : OpGoes(o, from, to)
      BY <1>1 DEF SoftDelete, Sync, ReclaimStaleRuns, ListActiveRuns, FailPicked, CreateRun,
                  SkipRun, OpFault, OpState
    <2>3. QED
      BY <2>1, <2>2, CallGoingOnKeepsQueueInv DEF OpGoes
  <1>2. CASE \E t \in Tasks : \/ FindTask(o, t) \/ RunNow(o, t)
                              \/ \E enabled \in BOOLEAN : WriteTask(o, t, enabled)
    <2>1. PICK t \in Tasks : taskOf' = [taskOf EXCEPT ![o] = t]
      BY <1>2 DEF FindTask, RunNow, WriteTask
    <2>2. \E to \in OpState \ {"idle", "done", "failed"} : OpGoes(o, "idle", to)
      BY <1>2 DEF FindTask, RunNow, WriteTask, OpState
    <2>3. UNCHANGED <<job, key, letter, work>>
      BY <1>2 DEF FindTask, RunNow, WriteTask, workerVars
    <2>4. QED
      BY <2>1, <2>2, <2>3, CallStartKeepsQueueInv DEF OpGoes
  <1>3. CASE Enqueue(o)
    <2>1. op[o] = "enqueue" /\ o \in Jobs
      BY <1>3 DEF Enqueue, OpGoes, Types
    <2>2. taskOf[o] \in Tasks /\ job[o] = "none"
      BY <2>1 DEF QueueInv, CallBeforeJob
    <2>3. CASE OpGoes(o, "enqueue", "done") /\ EnqueueRun(o, taskOf[o]) /\ UNCHANGED workerVars
      <3>1. op' = [op EXCEPT ![o] = "done"] /\ UNCHANGED work
        BY <2>3 DEF OpGoes, workerVars
      <3>2. Send(o, taskOf[o], taskOf[o])
        BY <2>3 DEF EnqueueRun
      <3>3. op'[o] = "done" /\ \A q \in Ops : q # o => op'[q] = op[q]
        BY <3>1 DEF Types
      <3>4. job[o] \notin Live
        BY <2>2 DEF Live
      <3>5. QED
        BY <2>1, <2>2, <3>1, <3>2, <3>3, <3>4, SendingKeepsQueueInv
    <2>4. CASE OpGoes(o, "enqueue", "skip") /\ UNCHANGED <<queueVars, workerVars>>
      BY <2>4, CallGoingOnKeepsQueueInv DEF OpGoes, OpState, queueVars, workerVars
    <2>5. QED
      BY <1>3, <2>3, <2>4 DEF Enqueue
  <1>4. QED
    BY <1>1, <1>2, <1>3 DEF CallActs, OpStep

LEMMA WorkKeepsQueueInv ==
    ASSUME Types, QueueInv, NEW j \in Jobs, WorkActs(j)
    PROVE  QueueInv'
  <1>1. CASE \/ ReadTask(j) \/ DropSchedule(j) \/ FinalizeRun(j) \/ EnsureRun(j)
             \/ MarkRun(j) \/ HandlerEnds(j) \/ WriteResult(j)
    <2>1. UNCHANGED <<job, taskOf, key, letter, op>>
      BY <1>1 DEF ReadTask, DropSchedule, FinalizeRun, EnsureRun, MarkRun, HandlerEnds,
                  WriteResult, queueVars, opVars
    <2>2. \E from \in WorkState \ {"none"}, to \in WorkState : WorkGoes(j, from, to)
      BY <1>1 DEF ReadTask, DropSchedule, FinalizeRun, EnsureRun, MarkRun, HandlerEnds,
                  WriteResult, WorkState
    <2>3. QED
      BY <2>1, <2>2, WorkGoingOnKeepsQueueInv DEF WorkGoes
  <1>2. CASE FetchJob(j)
    BY <1>2, FetchingKeepsQueueInv DEF FetchJob, WorkGoes, opVars
  <1>3. CASE Acknowledge(j) \/ WorkFault(j) \/ Expire(j) \/ HeartbeatLost(j)
    <2>1. (Complete(j) \/ JobFails(j)) /\ UNCHANGED op
      BY <1>3 DEF Acknowledge, WorkFault, Expire, HeartbeatLost, opVars
    <2>2. work' = [work EXCEPT ![j] = "none"]
      BY <1>3 DEF Acknowledge, WorkFault, Expire, HeartbeatLost, WorkGoes, Types
    <2>3. QED
      BY <2>1, <2>2, LeavingKeepsQueueInv
  <1>4. CASE LateResult(j)
    BY <1>4, QueueInvQuiet DEF LateResult, queueVars, opVars, queueInvVars
  <1>5. QED
    BY <1>1, <1>2, <1>3, <1>4 DEF WorkActs, WorkStep

LEMMA OthersKeepQueueInv ==
    ASSUME Types, QueueInv, OtherActs
    PROVE  QueueInv'
  <1>1. CASE \E t \in Tasks : FireSchedule(t)
    <2>1. PICK t \in Tasks, j \in Occurrences : Fire(j, t) /\ UNCHANGED <<op, work>>
      BY <1>1 DEF FireSchedule
    <2>2. j \in Jobs /\ j \notin Ops
      BY DEF Types
    <2>3. Send(j, t, t) /\ Reusable(j)
      BY <2>1 DEF Fire
    <2>4. job[j] \notin Live
      BY <2>2, <2>3 DEF Reusable, QueueInv, LetterIsOfFailed, Live
    <2>5. QED
      BY <2>1, <2>2, <2>3, <2>4, SendingKeepsQueueInv
  <1>2. CASE \E j \in Jobs : RecordDeadLetter(j) \/ LetterFault(j)
    <2>1. PICK j \in Jobs : RecordDeadLetter(j) \/ LetterFault(j)
      BY <1>2
    <2>2. \E from \in LetterState \ {"none"}, to \in LetterState : LetterGoes(j, from, to)
      BY <2>1 DEF RecordDeadLetter, LetterFault, LetterState
    <2>3. \A i \in Jobs : letter[i] = "none" => letter'[i] = "none"
      BY <2>2 DEF LetterGoes, Types
    <2>4. UNCHANGED <<job, taskOf, key, op, work>>
      BY <2>1 DEF RecordDeadLetter, LetterFault, letterVars
    <2>5. QED
      BY <2>3, <2>4, LettersKeepQueueInv
  <1>3. CASE BootStep \/ BootFails
    <2>1. UNCHANGED <<job, taskOf, key, letter, work, op>>
      BY <1>3 DEF BootStep, StartWorker, ListTasks, Reconcile, ReclaimAtStart, Work, BootFails,
                  queueVars, bootVars
    <2>2. QED
      BY <2>1, QueueInvQuiet DEF queueInvVars
  <1>4. CASE Crash
    <2>1. \A i \in Jobs : letter[i] = "none" => letter'[i] = "none"
      BY <1>4 DEF Crash
    <2>2. \A j \in Jobs : work'[j] = "none"
      BY <1>4 DEF Crash
    <2>3. UNCHANGED <<job, taskOf, key, op>>
      BY <1>4 DEF Crash
    <2>4. QED
      BY <2>1, <2>2, <2>3, LettersKeepQueueInv
  <1>5. CASE UNCHANGED vars
    BY <1>5, QueueInvQuiet DEF vars, queueVars, taskVars, queueInvVars
  <1>6. QED
    BY <1>1, <1>2, <1>3, <1>4, <1>5 DEF OtherActs

-----------------------------------------------------------------------------
LEMMA WhoActs ==
    ASSUME [Next]_vars
    PROVE  \/ \E o \in Ops : CallActs(o)
           \/ \E j \in Jobs : WorkActs(j)
           \/ OtherActs
  <1>1. CASE UNCHANGED vars
    BY <1>1 DEF OtherActs
  <1>2. CASE \E o \in Ops, t \in Tasks :
                \/ \E enabled \in BOOLEAN : WriteTask(o, t, enabled)
                \/ FindTask(o, t)
                \/ RunNow(o, t)
    BY <1>2, Zenon DEF CallActs
  <1>3. CASE \E o \in Ops : OpStep(o) \/ OpFault(o)
    BY <1>3 DEF CallActs
  <1>4. CASE \E j \in Jobs : WorkStep(j) \/ WorkFault(j) \/ Expire(j)
    BY <1>4 DEF WorkActs
  <1>5. CASE \/ \E t \in Tasks : FireSchedule(t)
             \/ \E j \in Jobs : RecordDeadLetter(j) \/ LetterFault(j)
             \/ BootStep \/ BootFails \/ Crash
    BY <1>5 DEF OtherActs
  <1>6. CASE Rest
    BY <1>6, <1>1 DEF Rest
  <1>7. QED
    BY <1>1, <1>2, <1>3, <1>4, <1>5, <1>6 DEF Next

QInv == TypeOK /\ QueueInv

LEMMA QInvInit ==
    ASSUME Init
    PROVE  QInv
  <1>1. QueueTypeOK
    BY QueueAssumption DEF Init, QueueInit, QueueTypeOK, JobState, LetterState
  <1>2. TaskTypeOK
    <2>1. task \in [Tasks -> TaskState] /\ status \in [Jobs -> RowState]
      BY NamesOfRows DEF Init, TaskState
    <2>2. op \in [Ops -> OpState] /\ picked \in [Jobs -> SUBSET Jobs] /\ work \in [Jobs -> WorkState]
      BY DEF Init, OpState, WorkState
    <2>3. enabling \in [Ops -> BOOLEAN] /\ quiet \in BOOLEAN
      BY DEF Init
    <2>4. faults \in 0..MaxFaults /\ crashes \in 0..MaxCrashes
      BY TasksAssumption DEF Init
    <2>5. boot \in BootState /\ expired = {} /\ wanted = {} /\ todo = {}
      BY DEF Init, BootState
    <2>6. QED
      BY <2>1, <2>2, <2>3, <2>4, <2>5 DEF TaskTypeOK
  <1>3. QueueInv
    BY DEF Init, QueueInit, QueueInv, WorkedOnIsActive, LiveIsKeyed, OneActivePerKey,
           CallBeforeJob, LetterIsOfFailed, Jobs, Live
  <1>4. QED
    BY <1>1, <1>2, <1>3, TypeParts DEF QInv

LEMMA QInvStep ==
    ASSUME QInv, [Next]_vars
    PROVE  QInv'
  <1>0. TypeOK /\ Types /\ QueueInv /\ CallBeforeJob
    BY TypesKnown DEF QInv, QueueInv
  <1>1. CASE \E o \in Ops : CallActs(o)
    <2>1. PICK o \in Ops : CallActs(o)
      BY <1>1
    <2>2. TypeOK'
      BY <1>0, <2>1, CallStepKeepsTypes, CallStartKeepsTypes DEF CallActs
    <2>3. QueueInv'
      BY <1>0, <2>1, CallsKeepQueueInv
    <2>4. QED
      BY <2>2, <2>3 DEF QInv
  <1>2. CASE \E j \in Jobs : WorkActs(j)
    BY <1>0, <1>2, WorkKeepsTypes, WorkKeepsQueueInv DEF WorkActs, QInv
  <1>3. CASE OtherActs
    <2>1. TypeOK'
      BY <1>0, <1>3, FireKeepsTypes, LetterKeepsTypes, BootKeepsTypes, StutterKeepsTypes
      DEF OtherActs
    <2>2. QueueInv'
      BY <1>0, <1>3, OthersKeepQueueInv
    <2>3. QED
      BY <2>1, <2>2 DEF QInv
  <1>4. QED
    BY <1>1, <1>2, <1>3, WhoActs

(* The variables stay in their ranges, and what ties queue, worker and     *)
(* calls together holds: QInv is inductive.                                *)
THEOREM QInvHolds == Spec => []QInv
  <1>1. Init => QInv
    BY QInvInit
  <1>2. QInv /\ [Next]_vars => QInv'
    BY QInvStep
  <1>3. QED
    BY <1>1, <1>2, PTL DEF Spec

(* The variables of ScheduledTasks stay in their ranges: no call or job is *)
(* at a place the code does not have, and no bound is overrun.             *)
THEOREM TypesHold == Spec => []TypeOK
  <1>1. QInv => TypeOK
    BY DEF QInv
  <1>2. QED
    BY <1>1, QInvHolds, PTL

(* Manual and scheduled jobs of one task are never worked on together,     *)
(* whatever is retried, expires or crashes.                                *)
THEOREM OneRunHolds == Spec => []OneRunAtATime
  <1>1. QInv => OneRunAtATime
    BY DEF QInv, QueueInv, WorkedOnIsActive, LiveIsKeyed, OneActivePerKey, OneRunAtATime, Live
  <1>2. QED
    BY <1>1, QInvHolds, PTL

-----------------------------------------------------------------------------
(* No row becomes active. *)
OnlySettles == \A j \in Jobs : status'[j] \in Unsettled => status[j] \in Unsettled

(* A row is failed, or gets a settled state: none becomes active. *)
LEMMA FailingSettles ==
    ASSUME Types, NEW runs, Fail(runs)
    PROVE  OnlySettles /\ \A j \in Jobs : j \in runs => status'[j] \notin Unsettled
  BY DEF Types, Fail, OnlySettles, Unsettled

LEMMA SettlingSettles ==
    ASSUME Types, NEW j \in Jobs, NEW s \in RowState \ Unsettled, SetStatus(j, s)
    PROVE  OnlySettles /\ status'[j] \notin Unsettled
  BY DEF Types, SetStatus, OnlySettles

LEMMA RowInvQuiet ==
    ASSUME RowInv, Types, OnlySettles, UNCHANGED <<op, job, letter, picked, work>>
    PROVE  RowInv'
  <1>1. AckIsSettled'
    BY DEF RowInv, AckIsSettled, OnlySettles
  <1>2. LetterSettles'
    BY DEF RowInv, Types, LetterSettles, OnlySettles
  <1>3. NoRunForgotten'
    BY DEF RowInv, Types, NoRunForgotten, OnlySettles
  <1>4. QED
    BY <1>1, <1>2, <1>3 DEF RowInv

(* A call that has sent no job yet has no letter and nobody works for it. *)
LEMMA EarlyCall ==
    ASSUME Types, QueueInv, RowInv, NEW o \in Ops, op[o] \notin {"done", "failed"}
    PROVE  /\ job[o] = "none" /\ letter[o] = "none" /\ work[o] = "none"
           /\ op[o] \notin {"enqueue", "skip"} => status[o] \notin Unsettled
  <1>1. job[o] = "none" /\ o \in Jobs
    BY DEF QueueInv, CallBeforeJob, Types
  <1>2. letter[o] = "none" /\ work[o] = "none"
    BY <1>1 DEF QueueInv, LetterIsOfFailed, WorkedOnIsActive
  <1>3. op[o] \notin {"enqueue", "skip"} => status[o] \notin Unsettled
    BY <1>1, <1>2 DEF RowInv, NoRunForgotten
  <1>4. QED
    BY <1>1, <1>2, <1>3

(* A call that goes on before or after its job: its row is settled, or it *)
(* is at a place where it will settle it, or it broke off.                 *)
LEMMA CallKeepsRowInv ==
    ASSUME Types, QueueInv, RowInv, NEW o \in Ops, op[o] \notin {"done", "failed"},
           NEW to \in OpState, op' = [op EXCEPT ![o] = to],
           status'[o] \in Unsettled => to \in {"enqueue", "skip", "failed"},
           \A j \in Jobs \ {o} : /\ status'[j] \in Unsettled => status[j] \in Unsettled
                                 /\ picked'[j] = picked[j],
           UNCHANGED <<job, letter, work>>
    PROVE  RowInv'
  <1>0. job[o] = "none" /\ letter[o] = "none" /\ work[o] = "none"
    BY EarlyCall
  <1>1. AckIsSettled'
    BY <1>0 DEF RowInv, AckIsSettled
  <1>2. LetterSettles'
    BY <1>0 DEF RowInv, Types, LetterSettles
  <1>3. NoRunForgotten'
    BY <1>0 DEF RowInv, Types, NoRunForgotten
  <1>4. QED
    BY <1>1, <1>2, <1>3 DEF RowInv

LEMMA CallsKeepRowInv ==
    ASSUME Types, QueueInv, RowInv, NEW o \in Ops, CallActs(o)
    PROVE  RowInv'
  <1>0. o \in Jobs
    BY DEF Types
  <1>1. CASE \/ SoftDelete(o) \/ Sync(o)
             \/ \E t \in Tasks : \/ FindTask(o, t) \/ RunNow(o, t)
                                 \/ \E enabled \in BOOLEAN : WriteTask(o, t, enabled)
    <2>1. \E from \in {"idle", "deleting", "sync"}, to \in OpState : OpGoes(o, from, to)
      BY <1>1 DEF SoftDelete, Sync, FindTask, RunNow, WriteTask, OpState
    <2>2. UNCHANGED <<status, picked, job, letter, work>>
      BY <1>1 DEF SoftDelete, Sync, FindTask, RunNow, WriteTask, queueVars, workerVars
    <2>3. op[o] \notin {"done", "failed", "enqueue", "skip"}
      BY <2>1 DEF OpGoes
    <2>4. status[o] \notin Unsettled
      BY <2>3, EarlyCall
    <2>5. QED
      BY <2>1, <2>2, <2>3, <2>4, CallKeepsRowInv DEF OpGoes
  <1>2. CASE ReclaimStaleRuns(o) \/ ListActiveRuns(o) \/ FailPicked(o)
    <2>1. \E from \in {"reclaim", "list", "failPicked"}, to \in OpState : OpGoes(o, from, to)
      BY <1>2 DEF ReclaimStaleRuns, ListActiveRuns, FailPicked, OpState
    <2>2. UNCHANGED <<job, letter, work>>
      BY <1>2 DEF ReclaimStaleRuns, ListActiveRuns, FailPicked, queueVars, workerVars
    <2>3. OnlySettles
      <3>1. CASE UNCHANGED status
        BY <3>1 DEF OnlySettles
      <3>2. CASE \E runs : Fail(runs)
        BY <3>2, FailingSettles
      <3>3. QED
        BY <1>2, <3>1, <3>2 DEF ReclaimStaleRuns, ListActiveRuns, FailPicked
    <2>4. \A j \in Jobs \ {o} : picked'[j] = picked[j]
      BY <1>2 DEF ReclaimStaleRuns, ListActiveRuns, FailPicked, Types
    <2>5. op[o] \notin {"done", "failed", "enqueue", "skip"}
      BY <2>1 DEF OpGoes
    <2>6. status'[o] \notin Unsettled
      BY <1>0, <2>3, <2>5, EarlyCall DEF OnlySettles
    <2>7. \A j \in Jobs \ {o} : status'[j] \in Unsettled => status[j] \in Unsettled
      BY <2>3 DEF OnlySettles
    <2>8. PICK to \in OpState : op' = [op EXCEPT ![o] = to]
      BY <2>1 DEF OpGoes
    <2>9. QED
      BY <2>2, <2>4, <2>5, <2>6, <2>7, <2>8, CallKeepsRowInv
  <1>3. CASE CreateRun(o) \/ SkipRun(o) \/ OpFault(o)
    <2>1. PICK to \in OpState :
             /\ op[o] \notin {"done", "failed"} /\ op' = [op EXCEPT ![o] = to]
             /\ status'[o] \in Unsettled => to \in {"enqueue", "failed"}
             /\ \A j \in Jobs \ {o} : status'[j] = status[j]
      BY <1>0, <1>3 DEF CreateRun, SkipRun, OpFault, OpGoes, SetStatus, OpState, Types, Unsettled
    <2>2. UNCHANGED <<job, letter, work, picked>>
      BY <1>3 DEF CreateRun, SkipRun, OpFault, queueVars, workerVars
    <2>3. QED
      BY <2>1, <2>2, CallKeepsRowInv
  <1>4. CASE Enqueue(o)
    <2>1. CASE OpGoes(o, "enqueue", "done") /\ EnqueueRun(o, taskOf[o]) /\ UNCHANGED <<workerVars, status, picked>>
      <3>1. /\ job' = [job EXCEPT ![o] = "created"]
            /\ letter' = [letter EXCEPT ![o] = "none"]
        BY <2>1 DEF EnqueueRun, Send
      <3>2. op' = [op EXCEPT ![o] = "done"] /\ UNCHANGED <<work, status, picked>>
        BY <2>1 DEF OpGoes, workerVars
      <3>3. AckIsSettled'
        BY <3>2 DEF RowInv, AckIsSettled
      <3>4. LetterSettles'
        BY <3>1, <3>2, <1>0 DEF RowInv, Types, LetterSettles
      <3>5. NoRunForgotten'
        BY <3>1, <3>2, <1>0 DEF RowInv, Types, NoRunForgotten
      <3>6. QED
        BY <3>3, <3>4, <3>5 DEF RowInv
    <2>2. CASE OpGoes(o, "enqueue", "skip") /\ UNCHANGED <<queueVars, workerVars, status, picked>>
      BY <2>2, CallKeepsRowInv DEF OpGoes, OpState, queueVars, workerVars
    <2>3. QED
      BY <1>4, <2>1, <2>2 DEF Enqueue
  <1>5. QED
    BY <1>1, <1>2, <1>3, <1>4 DEF CallActs, OpStep

(* Who works on an active job writes its row, and settles it before it     *)
(* acknowledges the job.                                                   *)
LEMMA WorkWritesKeepRowInv ==
    ASSUME Types, QueueInv, RowInv, NEW j \in Jobs, job'[j] = "active",
           job[j] = "active" \/ UNCHANGED status,
           \A i \in Jobs \ {j} : job'[i] = job[i],
           letter[j] = "none",
           NEW to \in WorkState, work' = [work EXCEPT ![j] = to],
           to = "ack" => status'[j] \notin Unsettled,
           \A i \in Jobs \ {j} : status'[i] = status[i],
           UNCHANGED <<op, letter, picked>>
    PROVE  RowInv'
  <1>1. AckIsSettled'
    BY DEF RowInv, Types, AckIsSettled
  <1>2. LetterSettles'
    BY DEF RowInv, Types, LetterSettles
  <1>3. NoRunForgotten'
    BY DEF RowInv, Types, NoRunForgotten
  <1>4. QED
    BY <1>1, <1>2, <1>3 DEF RowInv

LEMMA WorkKeepsRowInv ==
    ASSUME Types, QueueInv, RowInv, NEW j \in Jobs, WorkActs(j)
    PROVE  RowInv'
  <1>1. CASE \/ ReadTask(j) \/ DropSchedule(j) \/ HandlerEnds(j)
             \/ FinalizeRun(j) \/ EnsureRun(j) \/ MarkRun(j) \/ WriteResult(j)
    <2>1. UNCHANGED <<job, letter, op, picked>>
      BY <1>1 DEF ReadTask, DropSchedule, HandlerEnds, FinalizeRun, EnsureRun, MarkRun,
                  WriteResult, queueVars, opVars
    <2>2. PICK to \in WorkState :
             /\ work[j] # "none" /\ work' = [work EXCEPT ![j] = to]
             /\ to = "ack" => status'[j] \notin Unsettled
             /\ \A i \in Jobs \ {j} : status'[i] = status[i]
      <3>1. CASE ReadTask(j) \/ DropSchedule(j) \/ HandlerEnds(j)
        BY <3>1 DEF ReadTask, DropSchedule, HandlerEnds, WorkGoes, WorkState, opVars
      <3>2. CASE FinalizeRun(j) \/ EnsureRun(j) \/ MarkRun(j) \/ WriteResult(j)
        BY <3>2 DEF FinalizeRun, EnsureRun, MarkRun, WriteResult, WorkGoes, WorkState,
                    SetStatus, Types, Unsettled
      <3>3. QED
        BY <1>1, <3>1, <3>2
    <2>3. job[j] = "active" /\ letter[j] = "none"
      BY <2>2 DEF QueueInv, WorkedOnIsActive, LetterIsOfFailed
    <2>4. QED
      BY <2>1, <2>2, <2>3, WorkWritesKeepRowInv
  <1>2. CASE FetchJob(j)
    <2>1. /\ job[j] \in {"created", "retry"} /\ job' = [job EXCEPT ![j] = "active"]
          /\ work' = [work EXCEPT ![j] = "read"]
          /\ UNCHANGED <<status, op, letter, picked>>
      BY <1>2 DEF FetchJob, Fetch, WorkGoes, opVars
    <2>2. letter[j] = "none"
      BY <2>1 DEF QueueInv, LetterIsOfFailed
    <2>3. job'[j] = "active" /\ "read" \in WorkState /\ \A i \in Jobs \ {j} : job'[i] = job[i]
      BY <2>1 DEF Types, WorkState
    <2>4. QED
      BY <2>1, <2>2, <2>3, WorkWritesKeepRowInv
  <1>3. CASE Acknowledge(j) \/ WorkFault(j) \/ Expire(j) \/ HeartbeatLost(j)
    <2>1. UNCHANGED <<status, op, picked>>
      BY <1>3 DEF Acknowledge, WorkFault, Expire, HeartbeatLost, opVars
    <2>2. work' = [work EXCEPT ![j] = "none"]
      BY <1>3 DEF Acknowledge, WorkFault, Expire, HeartbeatLost, WorkGoes, Types
    <2>3. \/ /\ job' = [job EXCEPT ![j] = "completed"] /\ UNCHANGED letter
             /\ work[j] = "ack"
          \/ job' = [job EXCEPT ![j] = "retry"] /\ UNCHANGED letter
          \/ /\ job' = [job EXCEPT ![j] = "failed"]
             /\ letter' = [letter EXCEPT ![j] = "sent"]
      BY <1>3 DEF Acknowledge, WorkFault, Expire, HeartbeatLost, Complete, JobFails, WorkGoes
    <2>4. AckIsSettled'
      BY <2>1, <2>2 DEF RowInv, Types, AckIsSettled
    <2>5. LetterSettles'
      BY <2>1, <2>3 DEF RowInv, Types, LetterSettles
    <2>6. work[j] = "ack" => status[j] \notin Unsettled
      BY DEF RowInv, AckIsSettled
    <2>7. NoRunForgotten'
      BY <2>1, <2>3, <2>6 DEF RowInv, Types, NoRunForgotten
    <2>8. QED
      BY <2>4, <2>5, <2>7 DEF RowInv
  <1>4. CASE LateResult(j)
    <2>1. PICK s \in {"completed", "failed"} : SetStatus(j, s)
      BY <1>4 DEF LateResult
    <2>2. s \in RowState \ Unsettled
      BY DEF RowState, Settled, Unsettled
    <2>3. UNCHANGED <<op, job, letter, picked, work>>
      BY <1>4 DEF LateResult, queueVars, opVars
    <2>4. QED
      BY <2>1, <2>2, <2>3, SettlingSettles, RowInvQuiet
  <1>5. QED
    BY <1>1, <1>2, <1>3, <1>4 DEF WorkActs, WorkStep

(* The letter of a run goes its way: its own row first. *)
LEMMA LettersKeepRowInv ==
    ASSUME Types, RowInv, NEW j \in Jobs, RecordDeadLetter(j) \/ LetterFault(j)
    PROVE  RowInv'
  <1>1. UNCHANGED <<op, work, job>>
    BY DEF RecordDeadLetter, LetterFault, letterVars
  <1>2. OnlySettles
    <2>1. UNCHANGED status \/ \E runs : Fail(runs)
      BY DEF RecordDeadLetter, LetterFault
    <2>2. QED
      BY <2>1, FailingSettles DEF OnlySettles
  <1>3. PICK from \in {"sent", "failOwn", "list", "failRunning"},
             to \in LetterState \ {"none", "sent"} :
           letter[j] = from /\ letter' = [letter EXCEPT ![j] = to]
    BY DEF RecordDeadLetter, LetterFault, LetterGoes, LetterState
  <1>4. \A i \in Jobs \ {j} : letter'[i] = letter[i] /\ picked'[i] = picked[i]
    BY <1>3 DEF RecordDeadLetter, LetterFault, PickRuns, Types
  <1>5. AckIsSettled'
    BY <1>1, <1>2 DEF RowInv, AckIsSettled, OnlySettles
  <1>6. ASSUME j \in Ops
        PROVE  /\ letter'[j] = "failOwn" /\ status'[j] \in Unsettled => j \in picked'[j]
               /\ letter'[j] \in {"list", "failRunning", "done"} => status'[j] \notin Unsettled
    <2>1. CASE LetterGoes(j, "sent", "failOwn")
               /\ PickRuns(j, IF j \in Ops /\ status[j] \in Unsettled THEN {j} ELSE {})
               /\ UNCHANGED status
      BY <1>6, <2>1 DEF LetterGoes, PickRuns, Types
    <2>2. CASE LetterGoes(j, "failOwn", "list") /\ Fail(picked[j])
      <3>1. letter[j] = "failOwn" /\ letter'[j] = "list"
        BY <2>2 DEF LetterGoes, Types
      <3>2. j \in picked[j] \/ status[j] \notin Unsettled
        BY <1>6, <3>1 DEF RowInv, LetterSettles
      <3>3. status'[j] \notin Unsettled
        BY <2>2, <3>2, <1>2, FailingSettles DEF OnlySettles
      <3>4. QED
        BY <3>1, <3>3
    <2>3. CASE LetterGoes(j, "list", "failRunning") \/ LetterGoes(j, "failRunning", "done")
      <3>1. letter[j] \in {"list", "failRunning"} /\ letter'[j] # "failOwn"
        BY <2>3 DEF LetterGoes, Types
      <3>2. status[j] \notin Unsettled
        BY <1>6, <3>1 DEF RowInv, LetterSettles
      <3>3. QED
        BY <3>1, <3>2, <1>2 DEF OnlySettles
    <2>4. CASE LetterFault(j)
      BY <2>4 DEF LetterFault, LetterGoes, Types
    <2>5. QED
      BY <2>1, <2>2, <2>3, <2>4 DEF RecordDeadLetter
  <1>7. LetterSettles'
    BY <1>2, <1>4, <1>6 DEF RowInv, Types, LetterSettles, OnlySettles
  <1>8. letter'[j] \in {"failOwn", "list", "failRunning", "lost"} \/ letter'[j] = "done"
    BY <1>3 DEF Types, LetterState
  <1>9. NoRunForgotten'
    <2> SUFFICES ASSUME NEW o \in Ops, status'[o] \in Unsettled
                 PROVE  \/ op'[o] \in {"enqueue", "skip", "failed"}
                        \/ job'[o] \in {"created", "retry", "active"}
                        \/ letter'[o] \in {"sent", "failOwn", "list", "failRunning", "lost"}
      BY DEF NoRunForgotten
    <2>1. CASE o = j
      BY <1>6, <1>8, <2>1
    <2>2. CASE o # j
      <3>1. letter'[o] = letter[o] /\ status[o] \in Unsettled
        BY <1>2, <1>4, <2>2 DEF Types, OnlySettles
      <3>2. QED
        BY <1>1, <3>1 DEF RowInv, NoRunForgotten
    <2>3. QED
      BY <2>1, <2>2
  <1>10. QED
    BY <1>5, <1>7, <1>9 DEF RowInv

LEMMA OthersKeepRowInv ==
    ASSUME Types, QueueInv, RowInv, OtherActs
    PROVE  RowInv'
  <1>1. CASE \E t \in Tasks : FireSchedule(t)
    <2>1. PICK t \in Tasks, j \in Occurrences :
             /\ Fire(j, t) /\ SetStatus(j, "none") /\ UNCHANGED <<op, work>>
             /\ picked' = [i \in Jobs |-> picked[i] \ {j}]
      BY <1>1 DEF FireSchedule
    <2>2. j \in Jobs /\ j \notin Ops
      BY DEF Types
    <2>3. /\ job' = [job EXCEPT ![j] = "created"]
          /\ letter' = [letter EXCEPT ![j] = "none"]
      BY <2>1 DEF Fire, Send
    <2>4. \A o \in Ops : /\ job'[o] = job[o] /\ letter'[o] = letter[o]
                         /\ status'[o] = status[o]
                         /\ o \in picked[o] => o \in picked'[o]
      BY <2>1, <2>2, <2>3 DEF Types, SetStatus
    <2>5. AckIsSettled'
      BY <2>1, <2>2 DEF RowInv, Types, AckIsSettled, SetStatus, Unsettled
    <2>6. LetterSettles'
      BY <2>4 DEF RowInv, LetterSettles
    <2>7. NoRunForgotten'
      BY <2>1, <2>4 DEF RowInv, NoRunForgotten
    <2>8. QED
      BY <2>5, <2>6, <2>7 DEF RowInv
  <1>2. CASE \E j \in Jobs : RecordDeadLetter(j) \/ LetterFault(j)
    BY <1>2, LettersKeepRowInv
  <1>3. CASE BootStep \/ BootFails
    <2>1. UNCHANGED <<op, job, letter, picked, work>>
      BY <1>3 DEF BootStep, StartWorker, ListTasks, Reconcile, ReclaimAtStart, Work, BootFails,
                  queueVars, bootVars
    <2>2. UNCHANGED status \/ \E runs : Fail(runs)
      BY <1>3 DEF BootStep, StartWorker, ListTasks, Reconcile, ReclaimAtStart, Work, BootFails
    <2>3. OnlySettles
      BY <2>2, FailingSettles DEF OnlySettles
    <2>4. QED
      BY <2>1, <2>3, RowInvQuiet
  <1>4. CASE Crash
    <2>1. /\ UNCHANGED <<job, op, status>>
          /\ \A j \in Jobs : work'[j] = "none"
          /\ \A j \in Jobs : \/ letter'[j] = "lost" /\ letter[j] \in {"failOwn", "list", "failRunning"}
                             \/ letter'[j] = letter[j] /\ letter[j] \notin {"failOwn", "list", "failRunning"}
      BY <1>4 DEF Crash
    <2>2. AckIsSettled'
      BY <2>1 DEF AckIsSettled
    <2>3. LetterSettles'
      BY <2>1 DEF RowInv, Types, LetterSettles
    <2>4. NoRunForgotten'
      BY <2>1 DEF RowInv, Types, NoRunForgotten
    <2>5. QED
      BY <2>2, <2>3, <2>4 DEF RowInv
  <1>5. CASE UNCHANGED vars
    BY <1>5, RowInvQuiet DEF vars, queueVars, taskVars, OnlySettles
  <1>6. QED
    BY <1>1, <1>2, <1>3, <1>4, <1>5 DEF OtherActs

(* An active row of a manual run always belongs to the call that made it,  *)
(* to its job or to its job's dead letter, unless one of them broke off.   *)
THEOREM NoRunForgottenHolds == Spec => []NoRunForgotten
  <1>1. Init => RowInv
    BY DEF Init, QueueInit, RowInv, AckIsSettled, LetterSettles, NoRunForgotten, Jobs, Unsettled
  <1>2. QInv /\ RowInv /\ [Next]_vars => RowInv'
    <2> SUFFICES ASSUME QInv, RowInv, [Next]_vars PROVE RowInv'
      OBVIOUS
    <2>1. Types /\ QueueInv
      BY TypesKnown DEF QInv
    <2>2. QED
      BY <2>1, WhoActs, CallsKeepRowInv, WorkKeepsRowInv, OthersKeepRowInv
  <1>3. RowInv => NoRunForgotten
    BY DEF RowInv
  <1>4. QED
    BY <1>1, <1>2, <1>3, QInvHolds, PTL DEF Spec

-----------------------------------------------------------------------------
(* With no more tasks than listTasks() returns, it returns those enabled. *)
LEMMA AllEnabledAreListed ==
    ASSUME IsFiniteSet(Tasks), Cardinality(Tasks) <= ListLimit,
           NEW listed \in SUBSET Enabled,
           Cardinality(listed) = ListLimit \/ listed = Enabled
    PROVE  listed = Enabled
  <1>1. Enabled \subseteq Tasks /\ listed \subseteq Tasks
    BY DEF Enabled
  <1>2. CASE Cardinality(listed) = ListLimit
    <2>1. /\ Cardinality(listed) \in Nat /\ Cardinality(Tasks) \in Nat
          /\ Cardinality(listed) <= Cardinality(Tasks)
          /\ Cardinality(listed) = Cardinality(Tasks) => listed = Tasks
      BY <1>1, FS_Subset, FS_CardinalityType
    <2>2. listed = Tasks
      BY <1>2, <2>1
    <2>3. QED
      BY <1>1, <2>2
  <1>3. QED
    BY <1>2

(* Whoever writes a task or a schedule is heard by the reconcile; nobody   *)
(* else touches what the reconcile knows.                                  *)
LEMMA OnlyTheReconcileIsQuiet ==
    ASSUME [Next]_vars
    PROVE  \/ BootStep \/ BootFails
           \/ quiet' = FALSE
           \/ UNCHANGED <<schedules, task, boot, wanted, todo, quiet>>
  <1>1. CASE \E o \in Ops : CallActs(o)
    BY <1>1 DEF CallActs, OpStep, SoftDelete, Sync, ReclaimStaleRuns, ListActiveRuns, FailPicked,
                CreateRun, Enqueue, SkipRun, OpFault, FindTask, RunNow, WriteTask, OpGoes
  <1>2. CASE \E j \in Jobs : WorkActs(j)
    BY <1>2 DEF WorkActs, WorkStep, FetchJob, Fetch, ReadTask, DropSchedule, FinalizeRun,
                EnsureRun, MarkRun, HandlerEnds, WriteResult, Acknowledge, Complete, LateResult,
                HeartbeatLost, JobFails, WorkFault, Expire, queueVars, opVars
  <1>3. CASE OtherActs
    <2>1. CASE \E t \in Tasks : FireSchedule(t)
      BY <2>1 DEF FireSchedule, Fire, Send
    <2>2. CASE \E j \in Jobs : RecordDeadLetter(j) \/ LetterFault(j)
      BY <2>2 DEF RecordDeadLetter, LetterFault, letterVars
    <2>3. CASE Crash
      BY <2>3 DEF Crash
    <2>4. CASE UNCHANGED vars
      BY <2>4 DEF vars, queueVars, taskVars
    <2>5. QED
      BY <1>3, <2>1, <2>2, <2>3, <2>4 DEF OtherActs
  <1>4. QED
    BY <1>1, <1>2, <1>3, WhoActs

LEMMA ReconcileGoesOn ==
    ASSUME IsFiniteSet(Tasks), Cardinality(Tasks) <= ListLimit,
           ReconcileKnows, [Next]_vars
    PROVE  ReconcileKnows'
  <1>1. CASE quiet' = FALSE
    BY <1>1 DEF ReconcileKnows
  <1>2. CASE UNCHANGED <<schedules, task, boot, wanted, todo, quiet>>
    BY <1>2 DEF ReconcileKnows, Enabled
  <1>3. CASE StartWorker
    BY <1>3 DEF StartWorker, BootGoes, ReconcileKnows, Reconciled, TakesJobs
  <1>4. CASE ListTasks
    <2>1. /\ boot' = "schedule" /\ wanted' = todo' /\ UNCHANGED task
          /\ \E listed \in SUBSET Enabled :
                /\ Cardinality(listed) = ListLimit \/ listed = Enabled
                /\ wanted' = listed
      BY <1>4 DEF ListTasks, BootGoes, bootVars, Enabled
    <2>2. wanted' = Enabled /\ Enabled' = Enabled
      BY <2>1, AllEnabledAreListed DEF Enabled
    <2>3. QED
      BY <2>1, <2>2 DEF ReconcileKnows, Reconciled, TakesJobs
  <1>5. CASE Reconcile
    <2>0. UNCHANGED <<task, wanted, quiet>> /\ Enabled' = Enabled
      BY <1>5 DEF Reconcile, bootVars, Enabled
    <2>1. CASE /\ boot = "schedule" /\ UNCHANGED boot
               /\ \E t \in todo : SyncSchedule(t, TRUE) /\ todo' = todo \ {t}
      BY <2>0, <2>1 DEF ReconcileKnows, Reconciled, TakesJobs, SyncSchedule
    <2>2. CASE BootGoes("schedule", "read") /\ todo = {} /\ UNCHANGED queueVars
      BY <2>0, <2>2 DEF ReconcileKnows, Reconciled, TakesJobs, BootGoes, queueVars
    <2>3. CASE BootGoes("read", "unschedule") /\ todo' = schedules \ wanted /\ UNCHANGED queueVars
      BY <2>0, <2>3 DEF ReconcileKnows, Reconciled, TakesJobs, BootGoes, queueVars
    <2>4. CASE /\ boot = "unschedule" /\ UNCHANGED boot
               /\ \E t \in todo : SyncSchedule(t, FALSE) /\ todo' = todo \ {t}
      BY <2>0, <2>4 DEF ReconcileKnows, Reconciled, TakesJobs, SyncSchedule
    <2>5. CASE BootGoes("unschedule", "reclaim") /\ todo = {} /\ UNCHANGED queueVars
      BY <2>0, <2>5 DEF ReconcileKnows, Reconciled, TakesJobs, BootGoes, queueVars
    <2>6. QED
      BY <1>5, <2>1, <2>2, <2>3, <2>4, <2>5 DEF Reconcile
  <1>6. CASE ReclaimAtStart \/ Work \/ (BootFails /\ quiet' # FALSE)
    <2>1. UNCHANGED <<schedules, task, wanted, quiet>> /\ Enabled' = Enabled
      BY <1>6 DEF ReclaimAtStart, Work, BootFails, bootVars, queueVars, Enabled
    <2>2. boot \in Reconciled /\ boot' \in Reconciled
      BY <1>6 DEF ReclaimAtStart, Work, BootFails, BootGoes, Reconciled, TakesJobs
    <2>3. QED
      BY <2>1, <2>2 DEF ReconcileKnows, Reconciled, TakesJobs
  <1>7. QED
    BY <1>1, <1>2, <1>3, <1>4, <1>5, <1>6, OnlyTheReconcileIsQuiet DEF BootStep

(* When there are no more tasks than listTasks() returns, the schedules    *)
(* are those of the enabled tasks after every reconcile that no call and   *)
(* no job disturbed.  The hypothesis is what the code relies on: with more *)
(* tasks it removes the schedules of those it did not list.                *)
THEOREM ReconcileRepairsHolds ==
    ASSUME IsFiniteSet(Tasks), Cardinality(Tasks) <= ListLimit
    PROVE  Spec => []ReconcileRepairs
  <1>1. Init => ReconcileKnows
    BY DEF Init, ReconcileKnows, Reconciled, TakesJobs
  <1>2. ReconcileKnows /\ [Next]_vars => ReconcileKnows'
    BY ReconcileGoesOn
  <1>3. ReconcileKnows => ReconcileRepairs
    BY DEF ReconcileKnows, ReconcileRepairs, Enabled
  <1>4. QED
    BY <1>1, <1>2, <1>3, PTL DEF Spec

==============================================================================
