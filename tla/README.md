# A TLA+ model of Zleap Agent

Zleap Agent is a personal-agent platform: a web application, an IM gateway and a worker
process share one PostgreSQL store and let an LLM agent answer messages, run scheduled tasks
and keep durable conversations. This directory models the parts of it whose correctness
depends on order: who holds what when, what is written after what, and what is left after a
crash. Every definition is translated from the code under `src/`; `PROJECT.json` gives, for
each, the lines it stands for.

## 1. The system

| Component (source) | State | Operations | Interacts with |
|---|---|---|---|
| Conversation locks (`agent/src/conversation/mutex.ts`) | `KeyedMutex.tails` (promise chain per key), `Semaphore.available`, `waiters` | `acquire`, `release` | conversation service |
| Conversation service (`agent/src/conversation/service.ts`) | `engines`, `epochs`, `activeRuns` | `handle`, `/stop`, `/new`, commands, `run` | web routes, gateway, scheduled tasks; engine; store |
| Chat engine (`agent/src/engine`, `kernel`, `workspaces`) | one active reply, delta queue, approvals, summaries | `reply`, tool loop, dispatch to work spaces, compaction | providers, run persistence, memory |
| Run persistence (`agent/src/persistence/runBridge.ts`) | active reply, open steps, last parent per session | `beginReply`, `persistEvent`, `endReply` | event log of the core runtime; store |
| Core runtime (`core/src/runtime.ts` ...) | runs, works, steps; sessions; hooks; events | `dispatch`, `work`, `runStep`, `callTool` | engine, observers |
| Memory, compaction, caches (`core/src/memory`, `agent/src/session-history.ts` ...) | facts, summaries, dream lock | recall, write, dream, compact | engine, store |
| Store (`store/src`) | threads, sessions and their entries, tasks, runs, approvals ... | one SQL statement per call, few transactions | everybody |
| Scheduled tasks (`tasks/src`) | task rows, audit rows of runs; pg-boss schedules, jobs, dead letters | create, update, delete, run now; reconcile; execute; dead letter | web (manages), worker (executes), pg-boss |
| Gateway (`gateway/src`) | running adapter, sender and tool policy of each channel, command nonces; per adapter token, cursor, seen message ids; rows for configuration, session, shown state and command | reconcile, attach, detach, dispatch command, log in, poll, deduplicate | IM platforms, web (same rows), conversation service, store |
| Host (`host/src`) | runtime lock file, installed versions, child processes | acquire, reclaim, start/stop, update, rollback | file system, services |
| AI providers (`ai/src`) | none that outlives a request | replay a conversation, stream | turn loop |
| Live approvals (`web/lib/server/liveApprovals.ts`) | pending waits with timer and abort listener, write chain, a file of records | wait, decide, expire, abort, clear | turn loop (`confirm`), decision route |
| Web, CLI, desktop, avatar | user interface | routes, streaming | all of the above |

Two processes write the same rows (web and worker), and inside each of them a JavaScript event
loop interleaves calls at every `await`. What is hard:

- **conversation layer**: calls that queue for two locks; a reply whose consumer leaves while the
  run goes on; read-modify-write on thread rows from two processes; a crash between memory and
  store. Correct means: one turn per conversation, in order of arrival, at most *n* in all; a
  `/stop` hits the turn in progress and no other; a turn sees what the turns before it left; a
  `/new` that was answered stays in force; every message is answered.
- **scheduled tasks**: row, schedule and job of a task are three writes; jobs are retried, expire
  while their handler still works, and end as dead letters; the worker repairs at start what
  earlier processes left. Correct means: one run of a task at a time; no audit row stays active
  for ever; a disabled task does not keep a schedule; reconciling leaves exactly the schedules of
  the enabled tasks.
- **gateway**: configuration polled while adapters come and go, commands with nonces, a session
  row that is read, merged and written back, events delivered at least once. Correct means: at
  most one adapter polls a channel, messages are handled under the policy of the configuration
  that is attached, the session row holds the token in use and none that was logged out, a command
  is executed at most once, the configuration takes effect in the end.
- **host**: a lock file shared by processes that may die; versions that are swapped by copying and
  removing directories, by the update engine under the lock and by installers without it. Correct
  means: one process updates at a time; wherever a process dies or a copy breaks off, a whole
  version is left; the metadata say which; a failed update ends with the version it began with.
- **turn loop, core runtime, dispatch**: three layers that share one abort signal, tool calls in
  parallel, a control call in the middle of a turn, handoffs from space to space. Correct means:
  every request to a provider is legal and holds the results of the calls before it; nothing
  starts after an abort or after the exit of a space; inner layers end before outer ones; a task
  counts as completed only if its space said so; a reply ends.
- **live approvals**: timer, abort and decision race for one wait, keys are reused, and the record
  is written before the wait is settled. Correct means: a yes reaches only the call the user saw,
  the first decision counts, every wait ends, the record agrees.

`PROJECT.json` lists all components with their status and, under `hazards`, the places in the
code where these things bite.

## 2. The modules

```
ConversationCalls          the constants: calls, conversations (keys), None
  KeyedMutex               mutex.ts, KeyedMutex        -- LockProofs
  Semaphore                mutex.ts, Semaphore         -- LockProofs
  ReplyPersistence         runBridge.ts, engine reply()
    Conversation           service.ts, composes the three -- ConversationProofs
      MCConversation       symmetry, for TLC
TurnTaking                 what callers may rely on; Conversation refines it
TaskQueue                  queue.ts and pg-boss as far as queue.ts uses it
  ScheduledTasks           service.ts, execution.ts, worker.ts -- ScheduledTasksProofs
ProviderReplay             providerReplay.ts, pure; with the reference definition Legal -- ProviderReplayProofs
  AgentTurn                runtime.ts, turnLoop.ts, dispatch and handoffs of engine/index.ts -- AgentTurnProofs
    MCAgentTurn            the history main starts from, for TLC
LiveApprovals              liveApprovals.ts      -- LiveApprovalsProofs
  MCLiveApprovals          the calls that ask, for TLC
WeChatAdapter              platforms/wechat/index.ts, session.ts
  Gateway                  supervisor.ts, runner.ts, connections.ts, the web's writes -- GatewayProofs
RuntimeLock                host/src/lock.ts
  AppUpdate                update-engine.ts, upgrade.ts, install.ts, seed-app.ts, payload.ts -- AppUpdateProofs
    MCAppUpdate            symmetry, for TLC
```

Operators marked `Broken:` are plausible mistakes in the code beside them. No specification uses
them; each is there to show that a property fails once it replaces the definition that follows.

### Conversation layer

- **KeyedMutex**. `acquire` chains every call to the `tails` entry of its key: `prev[p]` is the
  call p waits for, `lock[p]` how far it got. `Enqueue` is the part of `acquire` before the
  `await`, `Grant` the continuation, `Release` the release function with its test whether the
  caller is still the tail. `arrival` is a history variable.
- **Semaphore**. `AcquirePermit` takes a permit or joins the `waiters`; `ReleasePermit` hands the
  permit to the first waiter or returns it. `Limit = 0` means no semaphore, as in the code.
- **ReplyPersistence**. A session is a tree of entries with a leaf, and only the path to the leaf
  is ever read, so an entry is represented by its path: `branch[t]` is the path to the leaf of
  thread t. `ReadLeaf`/`BeginReply` are the two halves of `beginReply`, `Recalled` is
  `activeDurableProviderContext` (the run reads the branch again before it calls the model),
  `EnterSpace`/`ExitSpace` the buffered reply of the main space, `FinishRun`/`EndReply` the end of
  the background run. `EngineOf` says whose bridge is used: one per thread for the gateway, a new
  one for each call of the web.
- **Conversation**. `handle()` is cut at its `await`s: `Arrive`, `TakeLock`, `Enter`, then either
  `AnswerOnly` (commands, or no model), or `ResetEpoch`, `PersistEpoch` (`/new`), or `LoadEpoch`,
  `LoadHistory`, `StartReply`, `Dispatch`, `StopStreaming`; and `Leave`, the `finally` blocks.
  `Throw` is an exception on the way, `Stop` a `/stop`, `Signal` an abort by the caller,
  `RunStep` the background run, `ArchiveRead`/`ArchiveWrite` the status change made by the web
  process, `Crash` the death of the worker, which keeps the store and loses everything else.
- **TurnTaking** is the abstract specification: a message is away, waiting, inside or gone; it
  enters when no earlier message of its conversation is waiting or inside and a place is free.

### Scheduled tasks

- **TaskQueue**. Schedules, jobs with a singleton key under pg-boss's `stately` policy (one
  waiting, one active job per key), retries, expiry, dead letters. It is what `queue.ts` uses of
  pg-boss; operators that model pg-boss itself are marked external in `PROJECT.json`.
- **ScheduledTasks**. The calls of the web process (`op[o]`), the handler of each job (`work[j]`),
  the dead-letter handler (`letter[j]`) and the start of the worker (`boot`), each with one stage
  per `await`; any call may be rejected (`OpFault`, `WorkFault`, `LetterFault`, `BootFails`), the
  worker may die at any moment (`Crash`), and a job may expire while its handler goes on
  (`Expire`). A crash ends the process, which its supervisor starts again. A rejected call of
  `main()` does not: `main().catch()` sets the exit code, pg-boss keeps the process alive, and the
  worker stays as it is, without handlers (`boot = "failed"`) or without the one for dead letters
  (`"deaf"`), until it is killed.

### A reply: model turns, tool calls, dispatches

- **ProviderReplay**. `PrepareMessages` is `prepareMessages()`: `Rounds` is its loop, what there
  is of output and open calls after each message, as a recursive function; `Take` is one round. `Legal` says independently of it what a provider accepts.
- **AgentTurn**. A frame is a space with its current run; main is one, each work space another.
  `at[f]` is the place of its code, `run`, `work`, `step` are the statuses of the core runtime,
  `loop[f]` the locals of `runTurnLoop`, `call[f][i]` the i-th tool call of the current turn.
  `StartRun`, `StartStep`, `EnterSpace`, `EndStep`, `EndWork`, `EndRun` are `run`, `work` and
  `runStep` cut at their abort checks; `ModelCalls`, `ModelIsNudged`, `ModelForgetsExit`,
  `ModelStops`, `ModelFails`, `WrapUp` what a model turn may bring; `ExecuteCalls`, `ExitSpace`,
  `AppendResults`, `EndTurn` the loop over the calls of a turn, and `Approve`, `Deny`,
  `StartHandler`, `RejectCall`, `HandlerReturns` one call, each concurrent with the others of its
  batch. `Dispatch`, `DispatchAgain`, `FollowHandoff`, `EndDispatch` are main's `switchWorkspace`.
  `Abort` may come at any point. A request is recomputed from `loop[f].messages` whenever the
  frame is about to ask the model.

### Live approvals

- **LiveApprovals**. `memory` is what the process holds of the waits: the entry of each key, the
  timers, the abort listeners, the outcome of each promise. `queue` is the chain of writes and
  `file` the record of each key. `Ask`, `Expire`, `Stop` (the abort of a request), `Decide`,
  `ReadRecord` and `WriteFile` are the code between two awaits; `Finish` is `finish()` with its
  lookup by key. An abort calls the listeners of its request one after the other; `Stop` states
  what they leave: of each key the oldest takes the entry, whoever's it is. `Restart` and `ClearApprovalQueue` lose the waits. Keys are the same for two
  calls of a conversation if the provider numbers its calls anew in every turn.

### Gateway

- **WeChatAdapter**. Each adapter has its fields and the place of its `pollLoop()`: `PollReturns`,
  `TokenExpires`, `Login`, `ScanGoesOn`, `ScanConfirmed`, `Close`. A save of the session is two
  steps, `SaveStarts` (the row is read) and `SaveEnds` (it is written), and several may be in
  flight, since the save of the cursor is not awaited. `loggedOut`, `overtaken` and `trouble` are
  history variables.
- **Gateway**. `pass[p]` is a pass of the supervisor with what it has read: `Tick`, `Reconcile`,
  `Detached`, `PublishDisabled`, `Attached`, `ReadCommand`, `Logout`, `ClearCommand`. Beside it
  run the adapters' loops, the web (`SaveConfig`, `RequestCommand`, `DeleteIntegration`, one row
  after the other), `Stop`, and `Crash` and `Start` of the process.

### Host

- **RuntimeLock**. `file` is the lock file: whose it is and whether its record is written.
  `lock[p]` is how far `acquireRuntimeLock()` got in process p, one step for each call of the file
  system: `Open` (exclusive), `OpenFails`, `WriteRecord`, `WriteFails`, and the reclaim of a stale
  lock: `ReadRecord` reads the record, `JudgeOwner` asks whether the pid that was read is alive, and
  `RemoveStale` removes whatever file has the name by then. `seen[p]` is the record between the
  first two. A process that released the lock keeps `lock[p] = "released"`; its pid is gone
  (`dead`) once it has ended, as that of a process that was killed. `robbed` is a history variable:
  whose file another removed.
- **AppUpdate**. `current` and `previous` are absent, whole, being copied by a process, or broken;
  `meta` and `prevMeta` are their metadata files. `at[p]` runs through the update engine (`Acquire`,
  `Check`, `Preflight`, `Install`, `Restart`, `Release`), `swapApp()` (`Swap` to `NoteNew`) and
  `restorePreviousApp()` (`Restore` to `NoteBack`). `StartUnlocked` is an install by a launcher
  (`seedAppFromBundle`, `installPayload`), which swaps without the lock. A copy has a begin and an
  end, and what is there between is no version. `FileFault` is an operation that fails, `Die` a
  process that is killed, `Throw` where an exception leads: an update restores the previous version,
  or goes on to release the lock at once if the log cannot be written, a rollback releases the lock,
  an installer ends. `risks`, `torn` and `mixed` are
  history variables that name the exceptions of the properties.

## 3. What is checked

| Run | Instance | Question and answer |
|---|---|---|
| `conv_safety` | 3 calls, 2 conversations, 1 permit, turns and `/stop`, failing store, 1 crash; 1.2 M states | The map of the lock holds exactly the keys in use (`TailsMatchCalls`), permits are neither lost nor made (`PermitAccounting`), `activeRuns` names exactly the turns in progress (`ActiveRunIsCurrent`), and the whole service refines `TurnTaking` (`TurnsAreSerial`): turns of a conversation exclude each other and nobody overtakes. |
| `conv_history` | 4 calls, 1 conversation, fresh engines, `/new`, 1 crash; 0.9 M states | While nobody aborts and the store works, a model is called with everything earlier turns recorded (`NoStaleHistory`), no recorded reply leaves the branch (`RepliesKept`), and a `/new` stays in force over the crash (`AckedResetIsKept`). |
| `conv_live` | 2 calls, 2 conversations, 1 permit, turns, all commands, aborts, 1 status change; fair, 0.2 M states | Every message that queued is answered (`EveryCallAnswered`). |
| `conv_stale_history` | 3 calls, `/stop` | **Violated**: `NoStaleHistory`, see below. |
| `conv_lost_reply` | 3 calls on a shared engine | **Violated**: `RepliesKept`. |
| `conv_reset_lost` | 3 calls, 1 status change, 1 crash | **Violated**: `AckedResetIsKept`. |
| `tasks_runs` | 1 task, 1 call of any kind, 1 scheduled occurrence, 1 retry, 2 faults, 1 crash; fair, 0.3 M states | Jobs of a task never run together (`OneRunAtATime`), the active row of a manual run always belongs to somebody who will settle it (`NoRunForgotten`), and it ends (`AnsweredRunSettles`). |
| `tasks_schedules` | 1 task, 2 calls that race, 2 retries, 2 faults, 1 crash; fair, 0.4 M states | A reconcile that nobody disturbs repairs whatever failures left (`ReconcileRepairs`); a task that stays disabled loses its schedule for good (`OrphanScheduleGoes`). |
| `agent_turn` | main and 2 work spaces, 2 turns with up to 2 calls, step limit 3, 1 reminder, 1 nudge, 1 handoff, an interrupted turn in the history, abort at any point; fair, 0.5 M states | Every request is legal (`RequestsAreLegal`) and holds the results of the calls before it (`ResultsReachTheModel`); one work space at a time and none twice in a chain (`OneSpaceAtATime`); a run ends after its work, step and calls (`RunsEndInsideOut`); a task is completed on purpose (`CompletedOnPurpose`); nothing starts after an exit or an abort (`NoHandlerAfterExit`, `AbortStops`); the reply ends (`ReplyEnds`). |
| `approvals` | 2 waits with one key, of 1 or 2 requests and contents, 2 decisions, 1 fault; fair, 0.8 M states | Entries and timers belong to live waits (`EntriesAreLive`); a grant is for the call the user saw (`GrantIsForThisCall`); the first decision on a wait counts (`FirstDecisionWins`); the record follows (`RecordSettles`); waits end (`WaitsSettle`). |
| `gateway` | 2 adapter objects, 2 configurations, 2 logins, 1 command, 1 rare event of 5; fair, 0.3 M states | One adapter polls (`OnePoller`); the policy is that of the registered adapter (`PolicyIsOfTheAdapter`); the shown state does not outlive the adapter (`ShownStateIsTrue`); the session row is true (`SessionIsTrue`); commands run once per process (`CommandsAtMostOnce`); configuration and commands take effect (`RequestsAreFollowed`). |
| `app_update` | 3 processes, 3 versions, update, rollback and 1 install without the lock, 1 failing file operation, 1 death; 2.8 M states | Two processes hold the update lock only if the file of one was removed, and nobody is robbed before another holder is gone (`OneUpdater`); a whole version remains (`WholeVersionRemains`); at rest the metadata are true (`MetadataIsTrue`); a failed update does not end below the version it replaced (`UpdateNeverDowngrades`). |

### What the properties except

Some promises hold only with an exception, and the exception is a behaviour of the code worth
knowing. Each is a disjunct of the property that a reader can delete to see the trace.

- `ResultsReachTheModel`: what a dispatched space said is put after the results of its batch, as
  messages of main. Results of later calls of the same turn come after those messages, and the
  replay answers them with "did not produce a result", although they were executed.
- `WaitsSettle`, `RecordSettles`: if a second wait takes over a key, the abort listener of the
  first stays; when its request is stopped, it takes the entry and the timer of the second wait,
  which then no longer times out, although the route says that a wait "still resolves false by
  timeout/abort" (`web/app/api/chat/route.ts:339`). A yes may also be written to the record
  of a wait that has timed out meanwhile. `Overlapped`, the exception, is wider than that: the model
  keeps no times, so it also exempts a wait whose key had a click or a displaced wait long before.
- `AnsweredRunSettles`, `OrphanScheduleGoes`: a rejected call of `main()` after `queue.start()` ends
  `main()` but not the process (`worker.ts:354`). The supervisor restarts a worker that exits, and
  the health check calls a worker ok while its pid is alive, so the worker stays as it is: it has not
  reconciled and takes no jobs, or no dead letters. What waits for it waits until somebody kills it.
- `ShownStateIsTrue`: a crash, a stop or a failed write leaves a row that says enabled, and a later
  pass that finds the channel disabled with no adapter writes nothing.
- `SessionIsTrue`: a save that has read the row before a login or a logout wrote it puts the old
  token back.
- `CommandsAtMostOnce`: a command whose row could not be deleted is carried out again by the next
  process, which no longer knows its nonce.
- `RequestsAreFollowed`: a command that is replaced, or deleted unread with the one before it, is
  not carried out.
- `OneUpdater`: a process that has read the record of an owner that is gone by the time it asks for
  the pid removes the file, even if it is another's by then, and opens one of its own; then both hold
  the lock. It takes no death: the owner may have released the lock and ended, and a successor come
  after it, although the test of the lock calls it atomic (`state-lock.test.ts:55`). What
  holds is that the first holder is safe. A lock file without a record, left by a process that could
  not write it or died first, is never reclaimed.
- `WholeVersionRemains`: `swapApp()` saves whatever is in `current`, so a repeated install over a
  broken one overwrites the good previous version before the new one is there. A restore after a
  broken-off save copies a broken `previous` over a `current` that was whole. An install by a launcher takes no lock and may
  meet an update in the middle.
- `UpdateNeverDowngrades` speaks of updates that had removed the current version. One that fails
  before - the manifest cannot be had, the preflight refuses because tasks are running - restores
  the previous version all the same, although nothing was wrong with the current one; its caller is
  told that nothing was updated.
- `ReconcileRepairs` is checked with fewer tasks than `listTasks()` returns. The reconcile at worker
  start lists the enabled tasks without a limit of its own and so gets 200; the schedules of all
  others are removed, although the comment on `reconcileAll()` speaks of every enabled task.

### Where code and documentation disagree

- *Stale history.* `reply()` returns as soon as its signal is aborted, `handle()` releases the
  lock, and the run, which nobody awaits, may record its text after the next turn has read its
  history and its leaf. The comment on `KeyedMutex` promises that load, run and persist are atomic
  for that very reason. That reply is also cut off the branch by the next turn's entry.
- *Lost reply.* `reply()` delivers `done` before `endReply()` is done. With one engine per
  conversation, the next turn can begin in between, and `endReply()` then resets the bridge under
  it: its reply is streamed and never recorded.
- *Lost reset.* The status change in the web process writes back a thread row it read before; a
  `/new` in between is lost in the store and undone by the next restart of the worker.

### Bounds

- *Calls, conversations.* Two calls of one conversation show exclusion; the third shows overtaking
  and what the release in the middle of a chain does, and a second conversation shows the permit
  passing between them. Four calls of one conversation give `/new`, a turn before, a turn after
  and one more over a crash. For the lock, the cap and the refinement the proofs remove the bound.
- *`conv_live` has two calls*: with three the liveness graph is out of reach. Each call takes a
  bounded number of steps, so a wait for ever would be a deadlock, and the safety runs check
  deadlock with three and four calls.
- *Epochs* are bounded by the number of `/new` calls of the instance, so the bound never bites; in
  `conv_safety` it is 0 because no `/new` is made there.
- *One task.* Tasks share nothing but the list limit and the worker, so one task shows everything
  but the limit. Two management calls give every pair
  of concurrent calls. A scheduled job is one of `Occurrences`, whose slot is used again once its
  job is gone.
- *Retries* are 2 in `tasks_schedules`, as in the code, and 1 in `tasks_runs`, where the second
  takes the same steps as the first. *Faults* and
  *crashes* are 2 and 1 of each instance; more only repeat them.
- *A reply.* Two work spaces give a handoff and a way back into a visited space; two calls per turn
  give a batch, a call before and after a dispatch, a denial and an exit; two turns give a second
  request with results in it. With a limit of 3 the step limit cuts a turn short and the loop also
  runs out of iterations. The reminders are 1 (the code: 2) and the nudges 1 (2), the depth of
  handoffs 1 (4). A third call or turn multiplies the states without a new kind of step.
- *Approvals.* Two waits with one key meet in every order; keys share only the write chain. The
  first wait may be about one call only, since requests and contents are interchangeable.
- *Gateway.* Adapter objects are reused once they are off, so two are enough for one that goes and
  one that comes. One save may be in flight when the cursor is saved, beside those the adapter
  awaits. Two rare events at once, or two commands, are out of reach of the liveness check.
- *Host.* Two processes that reclaim the lock of a third need three processes. Three versions give
  one to update to, one installed and one before it. One install without the lock meets an update at
  every step; one fault and one death may hit the same or different processes, in the swap and in
  the restore that follows. Every process carries out one command; the retry of a command is
  another process.
- *Time* is a choice: a row may be old enough to be reclaimed at any moment, a job may expire at
  any moment of its handler.

### Fairness

`Conversation`: weak fairness on every step of a call and of its background run. The event loop
runs each continuation whose promise has settled. That a background run ends is an assumption about
its surroundings: `AgentTurn` shows that it does if every provider answers or fails and every
handler returns, and the code puts no timeout on a provider. Nothing makes messages arrive,
signals fire or the worker crash. `AgentTurn`: weak fairness on the steps of each frame and of each
call, under the same assumption; approvals end by their timeout. `LiveApprovals`: on the timers, the
reads and the writes, not on users. `Gateway`: on the loop of each adapter, the saves, the timer's
passes, the end of `stop()` and the restart of the process by the host, which respawns it a second
after its exit; not on scans, configuration changes or commands, nor on anything that goes wrong. `ScheduledTasks`: weak fairness on calls, handlers, dead-letter handlers and the
start of the worker (its supervisor restarts it after its process has ended; a start that failed is
not repeated), on the schedules (cron times come again), and
strong fairness on fetching a job: pg-boss hands out the oldest job first, so a job cannot be
passed over again and again by newer jobs of its key.

## 4. What is proved

Every safety property and action property that a passing run checks is also a theorem about
`Spec`. The theorems hold for any set of calls, keys, tasks, spaces, adapters, configurations,
commands and processes, any limits and bounds; they assume the `ASSUME`s of the modules (`None` is
no call, space or adapter, bounds are naturals) and, in four places, the hypotheses named below.
- **`LockProofs!MutexCorrect`**. Exclusion is not inductive: that nobody else holds the lock
  follows from the shape of the queue. The invariant says that arrival numbers are distinct, that
  a call's `prev` is the call of its key before it with nobody in between (`FirstInLine` and its
  neighbours), and that `tails` holds the last call of each key in use. From it follow
  `MutualExclusion`, `NoOvertaking` and `TailsMatchCalls`, with crashes.
- **`LockProofs!SemaphoreCorrect`**. Permits held plus permits available are `Limit`, and
  nobody waits while one is available.
- **`ConversationProofs`** composes them: the service's actions are steps of the two modules or
  leave them alone, `Linked` ties the stages of `handle()` to the state of the lock and of the
  permit, `ThreadsKnown` says which stages know their thread. `TypeCorrect`, `LockCorrect`,
  `CapCorrect` and `StopReachesCurrentTurn` follow, and `RefinesTurnTaking`: under the mapping
  `Place`, every step of the service is a step of `TurnTaking` or leaves it unchanged.
  Three promises fail where something goes wrong, as the runs that expect a violation show, and
  are proved for the rest. `ResetKeptHolds` (an answered `/new` stays in force) assumes that no
  process crashes, or that the store works and the web archives nothing: in the first case the cache
  of epochs keeps the reset (`CachedInv`), in the second the store does (`DurableInv`).
  `HistoryIsFresh` assumes only that nobody aborts a turn: engines may be shared, the store may fail
  and the process crash. Then a run is over before the lock is released, so that a thread has one
  writer, who adds where the branch ends (`CurrentWriter`), and a turn has what others wrote
  (`KnowsOthers`). `RepliesAreKept` assumes, besides, an engine for each call, as the web has it, and
  a store that works, which is what `conv_history` assumes too: a reply is recorded by the bridge
  that began it (`Bridged`).
- **`ScheduledTasksProofs`**: `TypesHold`, `OneRunHolds`, `NoRunForgottenHolds`,
  `ReconcileRepairsHolds`. That jobs of a task are not worked on together rests on the queue: who is
  worked on is active there (`WorkedOnIsActive`), a live job has its task's key (`LiveIsKeyed`), and
  active jobs have different keys (`OneActivePerKey`). `NoRunForgotten` needs what a handler and a
  dead letter have settled by the time they are acknowledged (`AckIsSettled`, `LetterSettles`).
  `ReconcileKnows` follows the worker's reconcile through its stages; it assumes at most as many
  tasks as `listTasks()` returns, because with more the code removes schedules it should keep.
- **`GatewayProofs`**: `TypeCorrect`, `CommandsCorrect`, `OnePollerCorrect`, `PolicyCorrect`,
  `ShownStateCorrect`, `SessionCorrect`. That one adapter polls is not inductive: it needs that passes
  do not overlap but for the one that `stop()` leaves behind, and what a pass knows of the adapter it
  works on (`OnePass`, `PassKnows`), that the running adapter is the one in `active`
  (`ActiveIsKnown`) and that a sender is registered with its adapter (`RunningSends`). `TypeCorrect`
  needs that an adapter waits for a save only while that save is in flight (`SavesAreAwaited`).
  `CommandInv` counts the runs of a command against the processes that ended. For the row that is
  shown, `ShownIsKnown` speaks of the passes about to write it. For the session row, `TokensAreKnown`
  and `SavesAreTrue` say whose token every save in flight has read and is going to write.
- **`ProviderReplayProofs!ReplayIsLegal`**: `prepareMessages()` makes a legal conversation of any
  messages. The invariant of its loop (`Round`) is that the output, followed by an error for each
  open call, is legal. `Rounds` is a recursive function, and its values are reached by an induction
  stated with a set instead of an operator (`Induction`, from the least-element principle of the
  library). The lemmas that follow say what a replay keeps when messages are added to it.
- **`AgentTurnProofs`**: `OneSpaceAtATimeHolds`, `RunsEndInsideOutHolds` (with the types),
  `CompletedOnPurposeHolds`, `NoHandlerAfterExitHolds`, `AbortStopsHolds`. The invariant `TurnInv`
  ties the statuses of the three layers to the place of the code (`FrameInv`), and its heart is
  `CallsOK`: a call that is waiting or executing lies in the current batch, and unless it is
  parallel-safe it is the whole batch. So main has one dispatch at a time, and a space that exits
  has no other call. `RequestsAreLegalHolds` follows from `ReplayIsLegal` and the types of the
  messages. `ResultsReachTheModelHolds` needs a second invariant, `MessagesInv`: every call already
  answered in a turn is in the replay, and the replay's open calls are exactly those still to be
  answered, until a dispatch carries its answer back.
- **`LiveApprovalsProofs`**: `EntriesAreLiveHolds`, `GrantIsForThisCallHolds`,
  `FirstDecisionWinsHolds`, `RecordSettlesHolds`. A decision acts when its write is done, so
  `ApprovalsInv` follows the decisions through the queue (`QueueInv`): each has one write in it, for
  its own wait, in the order of the decisions. `GrantInv` rests on that order, `RecordInv` says what
  the file is behind of.
- **`AppUpdateProofs`**: `TypeCorrect`, `LockCorrect`, `WholeVersion`, `MetadataCorrect` and
  `NoDowngrade`. For the lock, `LockInv` says that a process that was not robbed owns the file, that
  a record was written by a process that had the lock (`HadLock`), also one that was read and not
  judged yet (`SeenInv`), and that whoever is about to remove a file has found another such process
  gone (`HolderGone`, `OtherGone`): hence the first holder is never robbed. For the files, at most one process works
  on them unless two were seen to (`mixed`); `Knows` says at each of its stages what it knows of both
  directories, above all that what it removed is whole in `previous`. `MetaInv` does the same for
  the metadata. `StageInv` ties the stages to the lock and the command, `CopyInv` a copy in
  progress to the stage of the process that makes it.

Proving changed the model in three places. `ReplyPersistence` and `AgentTurn` did not say that
`None` is neither an epoch nor main, without which a thread with no cached epoch, or a main with no
task, cannot be told from one with it. The guards of the `CASE` in `AgentTurn` that says how a call
starts overlapped, which leaves the choice open. And `Stop`, `ClearApprovalQueue` and the loop of
`prepareMessages()` were folds, whose operator parameter the provers cannot reason about: the first
two now state what their loop leaves behind, the third is a recursive function.

Model-checked only:

- liveness: `EveryCallAnswered`, `AnsweredRunSettles`, `OrphanScheduleGoes`, `ReplyEnds`,
  `WaitsSettle`, `RequestsAreFollowed`. They need fairness and `ENABLED`, which the prover does not
  have;
- the histories, replies and resets of the conversation layer outside the hypotheses above are not
  theorems at all: the three runs that expect a violation have the counterexamples.

## 5. What the model leaves out

- Contents. A message is a call, an entry is (call, role). Two user messages with the same text
  are distinguished here but not by `providerContextMatchesCurrentTurn`.
- An engine is an identity: its eviction from the cache, its reset after `/new` and its delta
  queue are left out. Replies that are sent to a chosen work space (`targetSpace`) skip the second
  read of the branch; they are not modelled.
- Appending an entry is one step although the row is inserted first and the leaf moved second; the
  reads of `beginReply` are one step. Tool calls, artifacts and work-space entries append as the
  reply does and are left out, as are the status and the title of a thread. Of the thread's
  metadata only the epoch is kept. `listEntries` reads at most 200 entries; branches here are
  shorter.
- Tasks: ownership, validation, built-in tasks, cron texts; the agent run inside a job is one
  step that ends in any result. Which tasks `listTasks` returns when there are too many is left open (the
  code: those updated last). pg-boss gives the dead letter of a scheduled job a new id, under which
  no audit row exists, so the properties about settling speak of manual runs.
- A reply: contents of messages and results, prompts, skills, caches and compaction; a skill or
  cache read and every call the loop answers itself is one kind of call. Observers and hooks do
  not reject. A space is entered by one dispatch at a time by construction of main's batches,
  which `OneSpaceAtATime` checks. The hooks before a tool call are awaited between the second look at the
  signal and the handler (`runtime.ts` 477-483); as none is registered, only microtasks fit in there,
  and `StartHandler` is one step. Handoffs name one space at most (the tool takes one). A space
  starts without a transcript of its own. What `confirm` does is `LiveApprovals`, which
  `Approve` and `Deny` stand for.
- Approvals: the clock (a record may be found expired at any time), several processes with one
  file, a write that fails half way.
- Gateway: one channel; the passes over several channels follow one another. The messages, the
  cursor and its value, base url and reply contexts of WeChat; the phases within "enabled" of the
  shown state; `onEvent()`. A configuration in the environment is assumed absent, so a row that
  cannot be read counts as disabled. The Feishu adapters.
- Host: the supervisor of the child processes (`serve`), its state file and the lock around it; the
  services of the operating system. Metadata files are written in one step, versions are compared
  by number and schemas not at all. `installAppFromRelease()` is also reached without the lock, when
  a runtime is set up; `StartUnlocked` stands for installs without it. A pid is not used again.
- Components not modelled, with reasons, are in `PROJECT.json`. Wire formats, user interfaces,
  installation and the desktop shell hold no state whose order matters here.

## 6. Plan

1. Host: the supervisor of the child processes with its state file (two `serve` at once, a stop
   while it starts).
2. Deduplication with the WeChat cursor (crash between cursor, seen ids and handling), composed
   with the calls of `Conversation`. Abstractly: an event is handled at most once, and at least
   once if nothing crashes.
3. `AgentTurn` with observers and hooks that reject, and with the durable entries the bridge writes
   for it.
4. Conversation layer, finer: the step between row and leaf, deltas and eviction of engines,
   compaction.
5. Abstract specifications, with the step that implements each proved: of a run of a task (asked for,
   worked on, settled) for `ScheduledTasks`, and of an approval for `LiveApprovals`.
