---------------------------- MODULE Conversation ----------------------------
(***************************************************************************)
(* ConversationService (packages/agent/src/conversation/service.ts): every *)
(* trigger - web, scheduled task, IM gateway - calls handle(), which takes *)
(* the lock of the conversation, then a global permit, and answers a slash *)
(* command or runs one agent turn on the history of the current epoch.     *)
(* One worker process; its memory dies with it, the store does not.        *)
(***************************************************************************)
EXTENDS KeyedMutex, Semaphore, ReplyPersistence

CONSTANTS Kinds,       \* which kinds of message arrive
          MaySignal,   \* whether callers abort through opts.signal
          MaxCrashes,  \* bound on worker crashes
          MaxArchives  \* bound on status changes made by the web process

ASSUME ConversationAssumption ==
    /\ Kinds \subseteq {"turn", "new", "info", "stop"}
    /\ None # "stop"   \* a call that has not come yet is no /stop
    /\ MaySignal \in BOOLEAN
    /\ MaxCrashes \in Nat
    /\ MaxArchives \in Nat

VARIABLES stage,      \* stage[m]: where handle() of m is
          kind,       \* kind[m]: what message m is
          hist,       \* hist[m]: the history m's turn was given
          epochs,     \* the epochs map: history generation per conversation
          stored,     \* historyEpoch in the metadata of the base thread
          activeRuns, \* the activeRuns map: the turn whose controller /stop aborts
          aborted,    \* the calls whose own controller was aborted
          snapshot,   \* the metadata a status change has read and will write
          acked,      \* history: the epoch the last answered /new began
          crashes, archives  \* history: how often each happened

serviceVars == <<stage, kind, hist, epochs, stored, activeRuns,
                 aborted, snapshot, acked, crashes, archives>>
vars == <<mutexVars, semaphoreVars, persistenceVars, serviceVars>>

(* The stages between the two acquires and the two releases of handle().   *)
Critical == {"entered", "resetting", "history", "ready", "starting",
             "streaming", "leaving"}
Stages == Critical \cup {"idle", "locking", "permit", "done", "lost"}

TypeOK ==
    /\ MutexTypeOK /\ SemaphoreTypeOK /\ PersistenceTypeOK
    /\ stage \in [Calls -> Stages]
    /\ kind \in [Calls -> Kinds \cup {None}]
    /\ hist \in [Calls -> Seq(Entries)]
    /\ epochs \in [Keys -> Epochs \cup {None}]
    /\ stored \in [Keys -> Epochs]
    /\ activeRuns \in [Keys -> Calls \cup {None}]
    /\ aborted \in SUBSET Calls
    /\ snapshot \in [Keys -> Epochs \cup {None}]
    /\ acked \in [Keys -> Epochs]
    /\ crashes \in 0..MaxCrashes
    /\ archives \in 0..MaxArchives

Init ==
    /\ MutexInit /\ SemaphoreInit /\ PersistenceInit
    /\ stage = [m \in Calls |-> "idle"]
    /\ kind = [m \in Calls |-> None]
    /\ hist = [m \in Calls |-> <<>>]
    /\ epochs = [k \in Keys |-> None]
    /\ stored = [k \in Keys |-> 0]
    /\ activeRuns = [k \in Keys |-> None]
    /\ aborted = {}
    /\ snapshot = [k \in Keys |-> None]
    /\ acked = [k \in Keys |-> 0]
    /\ crashes = 0 /\ archives = 0

GoTo(m, from, to) ==
    /\ stage[m] = from
    /\ stage' = [stage EXCEPT ![m] = to]

-----------------------------------------------------------------------------
(* handle() up to `await mutex.acquire': a message queues for its lock. *)
Arrive(m, k) ==
    /\ GoTo(m, "idle", "locking")
    /\ \E w \in Kinds \ {"stop"} : kind' = [kind EXCEPT ![m] = w]
    /\ Enqueue(m, k)
    /\ UNCHANGED <<semaphoreVars, persistenceVars, hist, epochs, stored, activeRuns, aborted, snapshot, acked, crashes, archives>>

(* Broken: /stop aborts what it finds, and there may be nothing. *)
StopBlindly(m, k) ==
    /\ GoTo(m, "idle", "done")
    /\ kind' = [kind EXCEPT ![m] = "stop"]
    /\ aborted' = aborted \cup {activeRuns[k]}
    /\ UNCHANGED <<mutexVars, semaphoreVars, persistenceVars, hist, epochs, stored,
                   activeRuns, snapshot, acked, crashes, archives>>

(* /stop bypasses the lock and aborts the controller of the running turn. *)
Stop(m, k) ==
    /\ "stop" \in Kinds
    /\ GoTo(m, "idle", "done")
    /\ kind' = [kind EXCEPT ![m] = "stop"]
    /\ aborted' = aborted \cup ({activeRuns[k]} \ {None})
    /\ UNCHANGED <<mutexVars, semaphoreVars, persistenceVars, hist, epochs, stored,
                   activeRuns, snapshot, acked, crashes, archives>>

(* The lock is granted and the semaphore asked in the same turn of the loop. *)
TakeLock(m) ==
    /\ GoTo(m, "locking", "permit")
    /\ Grant(m)
    /\ AcquirePermit(m)
    /\ UNCHANGED <<persistenceVars, kind, hist, epochs, stored, activeRuns,
                   aborted, snapshot, acked, crashes, archives>>

(* With lock and permit: the controller, and the listener on opts.signal. *)
Enter(m) ==
    /\ GoTo(m, "permit", "entered")
    /\ m \in permits
    /\ UNCHANGED <<mutexVars, semaphoreVars, persistenceVars, kind, hist, epochs, stored,
                   activeRuns, aborted, snapshot, acked, crashes, archives>>

(* A command without effect is answered, or no model resolves for a turn. *)
AnswerOnly(m) ==
    /\ kind[m] \in {"info", "turn"}
    /\ GoTo(m, "entered", "leaving")
    /\ UNCHANGED <<mutexVars, semaphoreVars, persistenceVars, kind, hist, epochs, stored,
                   activeRuns, aborted, snapshot, acked, crashes, archives>>

(* loadEpoch: the cached epoch, else the persisted one, else - when the    *)
(* store cannot be read - epoch 0, which is then cached like any other.    *)
EpochRead(k) ==
    IF epochs[k] # None THEN {epochs[k]}
    ELSE {stored[k]} \cup (IF StoreMayFail THEN {0} ELSE {})

(* A turn resolves its epoch and with it its effective thread. *)
LoadEpoch(m) ==
    /\ kind[m] = "turn"
    /\ GoTo(m, "entered", "history")
    /\ \E e \in EpochRead(keyOf[m]) :
          /\ epochs' = [epochs EXCEPT ![keyOf[m]] = e]
          /\ thread' = [thread EXCEPT ![m] = <<keyOf[m], e>>]
    /\ UNCHANGED <<mutexVars, semaphoreVars, branch, rows, leafRead, active, steps, parent,
                   run, replied, kind, hist, stored, activeRuns, aborted, snapshot,
                   acked, crashes, archives>>

(* /new: resetConversation bumps the epoch in memory ... *)
ResetEpoch(m) ==
    /\ kind[m] = "new"
    /\ GoTo(m, "entered", "resetting")
    /\ \E e \in EpochRead(keyOf[m]) :
          /\ e < MaxEpoch
          /\ epochs' = [epochs EXCEPT ![keyOf[m]] = e + 1]
    /\ UNCHANGED <<mutexVars, semaphoreVars, persistenceVars, kind, hist, stored,
                   activeRuns, aborted, snapshot, acked, crashes, archives>>

(* Broken: the epoch is kept in memory only. *)
KeepEpoch(m) ==
    /\ GoTo(m, "resetting", "leaving")
    /\ acked' = [acked EXCEPT ![keyOf[m]] = epochs[keyOf[m]]]
    /\ UNCHANGED <<mutexVars, semaphoreVars, persistenceVars, kind, hist, epochs, stored,
                   activeRuns, aborted, snapshot, crashes, archives>>

(* ... and persists it, best-effort, before the command is answered. *)
PersistEpoch(m) ==
    /\ GoTo(m, "resetting", "leaving")
    /\ \/ stored' = [stored EXCEPT ![keyOf[m]] = epochs[keyOf[m]]]
       \/ StoreMayFail /\ UNCHANGED stored
    /\ acked' = [acked EXCEPT ![keyOf[m]] = epochs[keyOf[m]]]
    /\ UNCHANGED <<mutexVars, semaphoreVars, persistenceVars, kind, hist, epochs,
                   activeRuns, aborted, snapshot, crashes, archives>>

(* buildMessages: the branch of the effective thread is the history. *)
LoadHistory(m) ==
    /\ GoTo(m, "history", "ready")
    /\ hist' = [hist EXCEPT ![m] = branch[thread[m]]]
    /\ UNCHANGED <<mutexVars, semaphoreVars, persistenceVars, kind, epochs, stored,
                   activeRuns, aborted, snapshot, acked, crashes, archives>>

(* The controller is published for /stop and the engine's reply begins. *)
StartReply(m) ==
    /\ GoTo(m, "ready", "starting")
    /\ activeRuns' = [activeRuns EXCEPT ![keyOf[m]] = m]
    /\ ReadLeaf(m)
    /\ UNCHANGED <<mutexVars, semaphoreVars, kind, hist, epochs, stored,
                   aborted, snapshot, acked, crashes, archives>>

Dispatch(m) ==
    /\ GoTo(m, "starting", "streaming")
    /\ BeginReply(m)
    /\ UNCHANGED <<mutexVars, semaphoreVars, kind, hist, epochs, stored, activeRuns, aborted, snapshot, acked, crashes, archives>>

(* The history cannot be read, or the reply cannot be set up: handle()     *)
(* throws, and leaves through its finally blocks.                          *)
Throw(m) ==
    /\ StoreMayFail
    /\ GoTo(m, "history", "leaving") \/ GoTo(m, "starting", "leaving")
    /\ UNCHANGED <<mutexVars, semaphoreVars, persistenceVars, kind, hist, epochs, stored,
                   activeRuns, aborted, snapshot, acked, crashes, archives>>

(* The run refreshes its history; a read that fails leaves it as it was.   *)
RefreshHistory(m) ==
    /\ Recall(m)
    /\ \/ hist' = [hist EXCEPT ![m] = Recalled(m, hist[m])]
       \/ StoreMayFail /\ UNCHANGED hist

BridgeStep(m) ==
    /\ EnterSpace(m) \/ (\E text \in BOOLEAN : ExitSpace(m, text)) \/ FinishRun(m) \/ EndReply(m)
    /\ UNCHANGED hist

(* The background run of a reply, which nobody awaits. *)
RunStep(m) ==
    /\ RefreshHistory(m) \/ BridgeStep(m)
    /\ UNCHANGED <<mutexVars, semaphoreVars, stage, kind, epochs, stored, activeRuns,
                   aborted, snapshot, acked, crashes, archives>>

(* The reply's generator returns on `done' - or, once the controller is    *)
(* aborted, on any delta - and the rest of the run goes on unattended.     *)
StopStreaming(m) ==
    /\ run[m] \in {"ending", "ended"} \/ m \in aborted
    /\ GoTo(m, "streaming", "leaving")
    /\ UNCHANGED <<mutexVars, semaphoreVars, persistenceVars, kind, hist, epochs, stored,
                   activeRuns, aborted, snapshot, acked, crashes, archives>>

(* Broken: the controller of the ended turn stays published. *)
LeaveController(m) ==
    /\ GoTo(m, "leaving", "done")
    /\ Release(m)
    /\ ReleasePermit(m)
    /\ UNCHANGED <<persistenceVars, kind, hist, epochs, stored, activeRuns, aborted,
                   snapshot, acked, crashes, archives>>

(* The finally blocks of handle(): the controller is withdrawn if it is    *)
(* still the published one, the permit and then the lock are released.     *)
Leave(m) ==
    /\ GoTo(m, "leaving", "done")
    /\ activeRuns' = IF activeRuns[keyOf[m]] = m
                     THEN [activeRuns EXCEPT ![keyOf[m]] = None] ELSE activeRuns
    /\ Release(m)
    /\ ReleasePermit(m)
    /\ UNCHANGED <<persistenceVars, kind, hist, epochs, stored, aborted,
                   snapshot, acked, crashes, archives>>

(* The caller aborts opts.signal.  The listener is there from Enter to      *)
(* Leave; a signal aborted while m still queues finds none, and as an       *)
(* aborted signal does not fire again it never has an effect.               *)
Signal(m) ==
    /\ MaySignal
    /\ stage[m] \in Critical
    /\ m \notin aborted
    /\ aborted' = aborted \cup {m}
    /\ UNCHANGED <<mutexVars, semaphoreVars, persistenceVars, stage, kind, hist, epochs,
                   stored, activeRuns, snapshot, acked, crashes, archives>>

-----------------------------------------------------------------------------
(* The web process archives or restores a conversation: it reads the       *)
(* thread and writes the whole row back with another status.               *)
ArchiveRead(k) ==
    /\ archives < MaxArchives
    /\ snapshot[k] = None
    /\ snapshot' = [snapshot EXCEPT ![k] = stored[k]]
    /\ archives' = archives + 1
    /\ UNCHANGED <<mutexVars, semaphoreVars, persistenceVars, stage, kind, hist, epochs,
                   stored, activeRuns, aborted, acked, crashes>>

ArchiveWrite(k) ==
    /\ snapshot[k] # None
    /\ stored' = [stored EXCEPT ![k] = snapshot[k]]
    /\ snapshot' = [snapshot EXCEPT ![k] = None]
    /\ UNCHANGED <<mutexVars, semaphoreVars, persistenceVars, stage, kind, hist, epochs,
                   activeRuns, aborted, acked, crashes, archives>>

(* The worker dies and starts again with empty maps. *)
Crash ==
    /\ crashes < MaxCrashes
    /\ crashes' = crashes + 1
    /\ MutexCrash
    /\ available' = Limit /\ waiters' = <<>> /\ permits' = {}
    /\ PersistenceCrash
    /\ stage' = [m \in Calls |-> IF stage[m] \in {"idle", "done"} THEN stage[m] ELSE "lost"]
    /\ epochs' = [k \in Keys |-> None]
    /\ activeRuns' = [k \in Keys |-> None]
    /\ UNCHANGED <<kind, hist, stored, aborted, snapshot, acked, archives>>

HandleStep(m) ==
    \/ TakeLock(m) \/ Enter(m) \/ AnswerOnly(m)
    \/ LoadEpoch(m) \/ ResetEpoch(m) \/ PersistEpoch(m)
    \/ LoadHistory(m) \/ StartReply(m) \/ Dispatch(m) \/ Throw(m)
    \/ StopStreaming(m) \/ Leave(m)

(* Everything was answered: a system at rest, not a deadlock. *)
Rest ==
    /\ \A m \in Calls : stage[m] \in {"done", "lost"} /\ run[m] \in {"none", "ended"}
    /\ UNCHANGED vars

Next ==
    \/ \E m \in Calls, k \in Keys : Arrive(m, k) \/ Stop(m, k)
    \/ \E m \in Calls : HandleStep(m) \/ RunStep(m) \/ Signal(m)
    \/ \E k \in Keys : ArchiveRead(k) \/ ArchiveWrite(k)
    \/ Crash
    \/ Rest

Spec == Init /\ [][Next]_vars

(* The event loop runs every continuation whose promise has settled, and a *)
(* background run ends: provider calls and tools carry their own timeouts. *)
FairSpec ==
    /\ Spec
    /\ \A m \in Calls : WF_vars(HandleStep(m)) /\ WF_vars(RunStep(m))

-----------------------------------------------------------------------------
(* Properties of the service as a whole; those of the lock and of the cap  *)
(* are stated in KeyedMutex and Semaphore and hold of them in here.        *)

(* The service refines TurnTaking: whatever else handle() does, messages   *)
(* of a conversation get their turns serially and first come first served, *)
(* and the cap on all turns is kept - through commands, aborts, throws and *)
(* restarts.  A /stop takes no turn.                                       *)
Place(m) ==
    IF stage[m] = "idle" \/ kind[m] = "stop" THEN "away"
    ELSE IF stage[m] \in {"locking", "permit"} THEN "waiting"
    ELSE IF stage[m] \in Critical THEN "inside" ELSE "gone"

Turns == INSTANCE TurnTaking WITH
             place <- [m \in Calls |-> Place(m)],
             conversation <- keyOf, ticket <- arrival, issued <- arrivals

TurnsAreSerial == Turns!TurnSpec

(* /stop finds, through the activeRuns map, exactly the turn whose reply   *)
(* is being produced: a turn that ends withdraws its own controller and    *)
(* never that of a turn which came after it.                               *)
ActiveRunIsCurrent ==
    /\ \A k \in Keys : activeRuns[k] # None =>
          /\ keyOf[activeRuns[k]] = k
          /\ stage[activeRuns[k]] \in {"starting", "streaming", "leaving"}
    /\ \A m \in Calls : stage[m] \in {"starting", "streaming"} =>
          activeRuns[keyOf[m]] = m

(* What a /new that was answered has cut off stays cut off: no later turn  *)
(* of the conversation runs on an older epoch.  resetConversation promises *)
(* it over a restart: "The epoch is persisted to the base thread metadata  *)
(* so `/new` survives a worker restart (in-memory-only would silently      *)
(* re-expose the old history)."                                            *)
AckedResetIsKept ==
    \A m \in Calls :
        kind[m] = "turn" /\ stage[m] \in {"history", "ready", "starting", "streaming"}
            => thread[m][2] >= acked[keyOf[m]]

InBranch(entry, path) == \E i \in 1..Len(path) : path[i] = entry

(* The history a model is called with has every entry recorded for the     *)
(* turns of its thread that were handled before it.  The comment on        *)
(* KeyedMutex says that the critical section "load history -> run agent -> *)
(* persist" runs atomically, so that "concurrent messages on the same      *)
(* conversation never read stale history".                                 *)
NoStaleHistory ==
    \A m, n \in Calls :
        /\ run[m] \in {"recalled", "inspace"}
        /\ stage[n] = "done" /\ arrival[n] < arrival[m]
        /\ thread[n] = thread[m]
        => \A entry \in rows : entry[1] = n => InBranch(entry, hist[m])

(* Over a store that works, a reply that was produced and not aborted is   *)
(* on its thread's branch once its run has ended, and nothing that happens *)
(* later takes it off: each later turn of the conversation reads it.       *)
RepliesKept ==
    \A m \in replied \ aborted :
        run[m] = "ended" => InBranch(<<m, "assistant">>, branch[thread[m]])

(* Every message that arrives is answered: no call waits for ever behind   *)
(* the lock of its conversation or the permits of all of them.             *)
EveryCallAnswered ==
    \A m \in Calls : stage[m] = "locking" ~> stage[m] = "done"
=============================================================================
