-------------------------- MODULE ConversationProofs --------------------------
(***************************************************************************)
(* Proofs about Conversation, for any calls, keys and bounds: the service  *)
(* keeps the promises of its lock and its cap, /stop finds the current     *)
(* turn, and the whole refines TurnTaking.                                 *)
(*                                                                         *)
(* The steps of the service are steps of KeyedMutex and of Semaphore, so   *)
(* the invariants proved there carry over.  What is added here is how the  *)
(* stages of handle() go with the lock and the permits (Linked), and that  *)
(* a turn knows its thread by the time it uses it (ThreadsKnown).          *)
(*                                                                         *)
(* Three promises of the service hold only where nothing goes wrong, as    *)
(* the runs that expect a violation show; they are proved for that case.   *)
(* An acknowledged reset is kept if there are no crashes, or no failures   *)
(* of the store and no archives; what carries it is that an answered reset *)
(* is in the cache or in the store (CachedInv, DurableInv).  The history   *)
(* of a turn is fresh if nobody stops a turn: then a thread has one writer *)
(* at a time, who adds where the branch ends (CurrentWriter).  A reply is  *)
(* kept if, besides, every call has an engine of its own and the store     *)
(* works, so that the bridge which began a reply records it (Bridged).     *)
(***************************************************************************)
EXTENDS Conversation, LockProofs

(* Where handle() of a call stands says what the call holds. *)
Linked ==
    \A m \in Calls :
        /\ stage[m] = "idle" <=> lock[m] = "idle" /\ kind[m] # "stop"
        /\ stage[m] = "locking" <=> lock[m] = "waiting"
        /\ stage[m] \in {"permit"} \cup Critical <=> lock[m] = "held"
        /\ kind[m] = "stop" => stage[m] = "done"
        /\ stage[m] \in Critical => m \in permits
        /\ m \in permits \/ Queued(m) => stage[m] \in {"permit"} \cup Critical

(* An epoch, a thread and an engine are there when they are used. *)
ThreadsKnown ==
    \A m \in Calls :
        /\ stage[m] = "resetting" => epochs[keyOf[m]] \in Epochs
        /\ stage[m] \in {"history", "ready", "starting", "streaming"} => thread[m] \in Threads
        /\ run[m] # "none" => thread[m] \in Threads

ServiceInv ==
    /\ TypeOK
    /\ MutexInv
    /\ SemaphoreInv
    /\ Linked
    /\ ThreadsKnown

-----------------------------------------------------------------------------
(* Whatever handle() does to the lock, the lock allows. *)
LEMMA MutexSimulation == [Next]_vars => [MutexNext]_mutexVars
<1> SUFFICES ASSUME [Next]_vars PROVE [MutexNext]_mutexVars
  OBVIOUS
<1>1. ASSUME NEW m \in Calls, NEW k \in Keys, Arrive(m, k) PROVE MutexNext
  BY <1>1 DEF Arrive, MutexNext
<1>2. ASSUME NEW m \in Calls, NEW k \in Keys, Stop(m, k) PROVE UNCHANGED mutexVars
  BY <1>2 DEF Stop
<1>3. ASSUME NEW m \in Calls, HandleStep(m) PROVE [MutexNext]_mutexVars
  BY <1>3 DEF HandleStep, TakeLock, Enter, AnswerOnly, LoadEpoch, ResetEpoch,
              PersistEpoch, LoadHistory, StartReply, Dispatch, Throw, StopStreaming,
              Leave, MutexNext
<1>4. ASSUME NEW m \in Calls, RunStep(m) \/ Signal(m) PROVE UNCHANGED mutexVars
  BY <1>4 DEF RunStep, Signal
<1>5. ASSUME NEW k \in Keys, ArchiveRead(k) \/ ArchiveWrite(k) PROVE UNCHANGED mutexVars
  BY <1>5 DEF ArchiveRead, ArchiveWrite
<1>6. CASE Crash
  BY <1>6 DEF Crash, MutexNext
<1>7. CASE Rest \/ UNCHANGED vars
  BY <1>7 DEF Rest, vars
<1> QED BY <1>1, <1>2, <1>3, <1>4, <1>5, <1>6, <1>7 DEF Next

(* A call asks for a permit when it has none and gives back the one it has. *)
LEMMA SemaphoreSimulation == Linked /\ [Next]_vars => [SemaphoreNext]_semaphoreVars
<1> SUFFICES ASSUME Linked, [Next]_vars PROVE [SemaphoreNext]_semaphoreVars
  OBVIOUS
<1>1. ASSUME NEW m \in Calls, NEW k \in Keys, Arrive(m, k) \/ Stop(m, k)
      PROVE  UNCHANGED semaphoreVars
  BY <1>1 DEF Arrive, Stop
<1>2. ASSUME NEW m \in Calls, TakeLock(m) PROVE SemaphoreNext
  <2>1. AcquirePermit(m) /\ m \notin permits /\ ~Queued(m)
    BY <1>2 DEF TakeLock, GoTo, Linked, Critical
  <2> QED BY <2>1 DEF SemaphoreNext
<1>3. ASSUME NEW m \in Calls, Leave(m) PROVE SemaphoreNext
  <2>1. ReleasePermit(m) /\ m \in permits
    BY <1>3 DEF Leave, GoTo, Linked, Critical
  <2> QED BY <2>1 DEF SemaphoreNext
<1>4. ASSUME NEW m \in Calls, HandleStep(m), ~TakeLock(m), ~Leave(m)
      PROVE  UNCHANGED semaphoreVars
  BY <1>4 DEF HandleStep, Enter, AnswerOnly, LoadEpoch, ResetEpoch, PersistEpoch,
              LoadHistory, StartReply, Dispatch, Throw, StopStreaming
<1>5. ASSUME NEW m \in Calls, RunStep(m) \/ Signal(m) PROVE UNCHANGED semaphoreVars
  BY <1>5 DEF RunStep, Signal
<1>6. ASSUME NEW k \in Keys, ArchiveRead(k) \/ ArchiveWrite(k) PROVE UNCHANGED semaphoreVars
  BY <1>6 DEF ArchiveRead, ArchiveWrite
<1>7. CASE Crash
  BY <1>7 DEF Crash, SemaphoreNext
<1>8. CASE Rest \/ UNCHANGED vars
  BY <1>8 DEF Rest, vars
<1> QED BY <1>1, <1>2, <1>3, <1>4, <1>5, <1>6, <1>7, <1>8 DEF Next

-----------------------------------------------------------------------------
(* A move between stages inside the critical section changes no link. *)
LEMMA InsideLinked ==
    ASSUME TypeOK, Linked, NEW m \in Calls, NEW from, NEW to \in Critical,
           GoTo(m, from, to), from \in {"permit"} \cup Critical, m \in permits,
           UNCHANGED <<lock, kind, permits, waiters>>
    PROVE  Linked'
<1>1. stage'[m] = to /\ stage[m] = from /\ \A n \in Calls \ {m} : stage'[n] = stage[n]
  BY DEF GoTo, TypeOK
<1>2. \A n \in Calls : Queued(n)' <=> Queued(n)
  BY DEF Queued
<1>3. ~(from \in {"idle", "locking", "done"}) /\ ~(to \in {"idle", "locking", "done"})
  BY DEF Critical
<1> QED BY <1>1, <1>2, <1>3 DEF Linked

LEMMA ArriveLinked ==
    ASSUME TypeOK, Linked, NEW m \in Calls, NEW k \in Keys, Arrive(m, k)
    PROVE  Linked'
<1>1. /\ stage[m] = "idle" /\ stage'[m] = "locking" /\ lock'[m] = "waiting"
      /\ kind'[m] # "stop"
      /\ \A n \in Calls \ {m} :
            stage'[n] = stage[n] /\ lock'[n] = lock[n] /\ kind'[n] = kind[n]
      /\ UNCHANGED <<permits, waiters>>
  BY DEF Arrive, GoTo, Enqueue, TypeOK, MutexTypeOK, semaphoreVars
<1>2. \A n \in Calls : Queued(n)' <=> Queued(n)
  BY <1>1 DEF Queued
<1> QED BY <1>1, <1>2 DEF Linked, Critical

LEMMA StopLinked ==
    ASSUME TypeOK, Linked, NEW m \in Calls, NEW k \in Keys, Stop(m, k)
    PROVE  Linked'
<1>1. /\ stage[m] = "idle" /\ stage'[m] = "done" /\ kind'[m] = "stop"
      /\ \A n \in Calls \ {m} : stage'[n] = stage[n] /\ kind'[n] = kind[n]
      /\ UNCHANGED <<lock, permits, waiters>>
  BY DEF Stop, GoTo, TypeOK, semaphoreVars, mutexVars
<1>2. \A n \in Calls : Queued(n)' <=> Queued(n)
  BY <1>1 DEF Queued
<1> QED BY <1>1, <1>2 DEF Linked, Critical

(* The call gets its lock, and a permit or a place in the queue for one. *)
LEMMA TakeLockLinked ==
    ASSUME TypeOK, Linked, NEW m \in Calls, TakeLock(m)
    PROVE  Linked'
<1>1. /\ stage[m] = "locking" /\ stage'[m] = "permit" /\ lock'[m] = "held"
      /\ \A n \in Calls \ {m} : stage'[n] = stage[n] /\ lock'[n] = lock[n]
      /\ UNCHANGED kind
  BY DEF TakeLock, GoTo, Grant, TypeOK, MutexTypeOK
<1>2. \A n \in Calls \ {m} : n \in permits' \/ Queued(n)' <=> n \in permits \/ Queued(n)
  <2>1. CASE UNCHANGED waiters /\ permits' = permits \cup {m}
    BY <2>1 DEF Queued
  <2>2. CASE waiters' = Append(waiters, m) /\ UNCHANGED permits
    BY <2>2 DEF Queued, TypeOK, SemaphoreTypeOK
  <2> QED BY <2>1, <2>2 DEF TakeLock, AcquirePermit
<1>3. \A n \in permits : n \in permits'
  BY DEF TakeLock, AcquirePermit
<1> QED BY <1>1, <1>2, <1>3 DEF Linked, Critical

(* The call gives back both; its permit may go to one that waits for it. *)
LEMMA LeaveLinked ==
    ASSUME TypeOK, SemaphoreInv, Linked, NEW m \in Calls, Leave(m)
    PROVE  Linked'
<1>1. /\ stage[m] = "leaving" /\ stage'[m] = "done" /\ lock'[m] = "released"
      /\ \A n \in Calls \ {m} : stage'[n] = stage[n] /\ lock'[n] = lock[n]
      /\ UNCHANGED kind
  BY DEF Leave, GoTo, Release, TypeOK, MutexTypeOK
<1>2. m \in permits /\ ~Queued(m)
  BY <1>1 DEF Linked, Critical, SemaphoreInv, QueuedOnce, Queued
<1>3. /\ \A n \in Calls : Queued(n)' => Queued(n)
      /\ \A n \in permits' : n # m /\ (n \in permits \/ Queued(n))
      /\ \A n \in permits \ {m} : n \in permits'
  <2>1. CASE UNCHANGED waiters /\ permits' = permits \ {m}
    BY <2>1 DEF Queued
  <2>2. CASE /\ waiters # <<>> /\ waiters' = Tail(waiters)
             /\ permits' = (permits \ {m}) \cup {Head(waiters)}
    <3>1. /\ Len(waiters) \in Nat \ {0} /\ Head(waiters) = waiters[1]
          /\ Len(Tail(waiters)) = Len(waiters) - 1
          /\ \A i \in 1..Len(Tail(waiters)) : Tail(waiters)[i] = waiters[i + 1]
      BY <2>2 DEF TypeOK, SemaphoreTypeOK
    <3>2. Queued(Head(waiters)) /\ Head(waiters) # m
      BY <3>1, <1>2 DEF Queued
    <3>3. \A n \in Calls : Queued(n)' => Queued(n)
      BY <2>2, <3>1 DEF Queued
    <3> QED BY <2>2, <3>2, <3>3
  <2> QED BY <2>1, <2>2 DEF Leave, ReleasePermit
<1>4. permits' \subseteq Calls
  BY SMTT(30) DEF Leave, ReleasePermit, TypeOK, SemaphoreTypeOK
<1>5. ~Queued(m)' /\ m \notin permits'
  BY <1>2, <1>3
<1> QED BY <1>1, <1>3, <1>4, <1>5 DEF Linked, Critical

LEMMA CrashLinked ==
    ASSUME TypeOK, Linked, Crash
    PROVE  Linked'
<1>1. \A n \in Calls :
        /\ stage'[n] = IF stage[n] \in {"idle", "done"} THEN stage[n] ELSE "lost"
        /\ lock'[n] = IF lock[n] = "idle" THEN "idle" ELSE "released"
        /\ kind'[n] = kind[n]
  BY DEF Crash, MutexCrash, TypeOK, MutexTypeOK
<1>2. \A n \in Calls : n \notin permits' /\ ~Queued(n)'
  BY DEF Crash, Queued
<1> QED BY <1>1, <1>2 DEF Linked, Critical

(* Every step keeps stages, locks and permits together. *)
LEMMA LinkedStep == TypeOK /\ SemaphoreInv /\ Linked /\ [Next]_vars => Linked'
<1> SUFFICES ASSUME TypeOK, SemaphoreInv, Linked, [Next]_vars PROVE Linked'
  OBVIOUS
<1>1. ASSUME NEW m \in Calls, NEW k \in Keys, Arrive(m, k) \/ Stop(m, k) PROVE Linked'
  BY <1>1, ArriveLinked, StopLinked
<1>2. ASSUME NEW m \in Calls, TakeLock(m) \/ Leave(m) PROVE Linked'
  BY <1>2, TakeLockLinked, LeaveLinked
<1>3. ASSUME NEW m \in Calls, HandleStep(m), ~TakeLock(m), ~Leave(m) PROVE Linked'
  <2>1. PICK from, to : /\ GoTo(m, from, to) /\ to \in Critical
                        /\ from \in {"permit"} \cup Critical
                        /\ from = "permit" => m \in permits
                        /\ UNCHANGED <<lock, kind, permits, waiters>>
    BY <1>3 DEF HandleStep, Enter, AnswerOnly, LoadEpoch, ResetEpoch, PersistEpoch,
                LoadHistory, StartReply, Dispatch, Throw, StopStreaming, Critical,
                semaphoreVars, mutexVars
  <2>2. m \in permits
    BY <2>1 DEF GoTo, Linked
  <2> QED BY <2>1, <2>2, InsideLinked
<1>4. ASSUME UNCHANGED <<stage, kind, lock, permits, waiters>> PROVE Linked'
  BY <1>4 DEF Linked, Queued
<1>5. ASSUME NEW m \in Calls, RunStep(m) \/ Signal(m) PROVE Linked'
  BY <1>5, <1>4 DEF RunStep, Signal, serviceVars, mutexVars, semaphoreVars
<1>6. ASSUME NEW k \in Keys, ArchiveRead(k) \/ ArchiveWrite(k) PROVE Linked'
  BY <1>6, <1>4 DEF ArchiveRead, ArchiveWrite, mutexVars, semaphoreVars
<1>7. CASE Crash
  BY <1>7, CrashLinked
<1>8. CASE Rest \/ UNCHANGED vars
  BY <1>8, <1>4 DEF Rest, vars, serviceVars, mutexVars, semaphoreVars
<1> QED BY <1>1, <1>2, <1>3, <1>5, <1>6, <1>7, <1>8 DEF Next, HandleStep

-----------------------------------------------------------------------------
(* Types.  The lock and the cap keep theirs by the simulations above; what *)
(* is left are the parts of the durable session and of the service.        *)
ServiceTypeOK ==
    /\ stage \in [Calls -> Stages]
    /\ kind \in [Calls -> Kinds \cup {None}]
    /\ hist \in [Calls -> Seq(Entries)]
    /\ epochs \in [Keys -> Epochs \cup {None}]
    /\ stored \in [Keys -> Epochs]
    /\ activeRuns \in [Keys -> Calls \cup {None}]
    /\ aborted \in SUBSET Calls
    /\ snapshot \in [Keys -> Epochs \cup {None}]
    /\ acked \in [Keys -> Epochs]
    /\ crashes \in 0..MaxCrashes
    /\ archives \in 0..MaxArchives

LEMMA TypeParts ==
    TypeOK <=> MutexTypeOK /\ SemaphoreTypeOK /\ PersistenceTypeOK /\ ServiceTypeOK
BY DEF TypeOK, ServiceTypeOK

(* Between the locks and their release a call has a key. *)
LEMMA KeyKnown ==
    ASSUME MutexInv, Linked, NEW m \in Calls, stage[m] \in {"locking", "permit"} \cup Critical
    PROVE  keyOf[m] \in Keys
BY DEF MutexInv, ArrivalsDistinct, Linked

(* A turn that knows its thread writes through an engine that exists. *)
LEMMA EngineKnown ==
    ASSUME PersistenceTypeOK, NEW m \in Calls, thread[m] \in Threads
    PROVE  EngineOf(m) \in Engines
BY DEF PersistenceTypeOK, EngineOf, Engines

LEMMA AppendTyped ==
    ASSUME PersistenceTypeOK, NEW m \in Calls, thread[m] \in Threads,
           NEW path \in Seq(Entries), NEW who \in {"user", "assistant"},
           AppendUnder(m, path, <<m, who>>)
    PROVE  /\ branch' \in [Threads -> Seq(Entries)]
           /\ parent' \in [Engines -> Seq(Entries)]
           /\ rows' \in SUBSET Entries
<1>1. <<m, who>> \in Entries
  BY DEF Entries
<1>2. Append(path, <<m, who>>) \in Seq(Entries)
  BY <1>1
<1> QED BY <1>1, <1>2, EngineKnown DEF AppendUnder, PersistenceTypeOK

LEMMA BeginReplyTyped ==
    ASSUME PersistenceTypeOK, NEW m \in Calls, thread[m] \in Threads, BeginReply(m)
    PROVE  PersistenceTypeOK'
<1>1. leafRead[m] \in Seq(Entries)
  BY DEF PersistenceTypeOK
<1>2. /\ branch' \in [Threads -> Seq(Entries)]
      /\ parent' \in [Engines -> Seq(Entries)]
      /\ rows' \in SUBSET Entries
  <2>1. CASE AppendUnder(m, leafRead[m], <<m, "user">>)
    BY <1>1, <2>1, AppendTyped
  <2>2. CASE UNCHANGED <<branch, parent, rows>>
    BY <2>2 DEF PersistenceTypeOK
  <2> QED BY <2>1, <2>2 DEF BeginReply
<1>3. active' \in [Engines -> Calls \cup {None}] /\ run' \in [Calls -> RunState]
  BY DEF BeginReply, PersistenceTypeOK, RunState
<1> QED BY <1>2, <1>3 DEF BeginReply, PersistenceTypeOK

LEMMA RunStepTyped ==
    ASSUME PersistenceTypeOK, NEW m \in Calls, run[m] # "none" => thread[m] \in Threads,
           Recall(m) \/ BridgeStep(m)
    PROVE  PersistenceTypeOK'
<1>1. ASSUME EnterSpace(m) PROVE PersistenceTypeOK'
  <2>1. steps' \in [Engines -> SUBSET Calls]
    BY <1>1 DEF EnterSpace, PersistenceTypeOK
  <2> QED BY <1>1, <2>1 DEF EnterSpace, PersistenceTypeOK, RunState
<1>2. ASSUME NEW text \in BOOLEAN, ExitSpace(m, text) PROVE PersistenceTypeOK'
  <2>1. thread[m] \in Threads
    BY <1>2 DEF ExitSpace
  <2>2. parent[EngineOf(m)] \in Seq(Entries)
    BY <2>1, EngineKnown DEF PersistenceTypeOK
  <2>3. /\ branch' \in [Threads -> Seq(Entries)]
        /\ parent' \in [Engines -> Seq(Entries)]
        /\ rows' \in SUBSET Entries
    <3>1. CASE AppendUnder(m, parent[EngineOf(m)], <<m, "assistant">>)
      BY <2>1, <2>2, <3>1, AppendTyped
    <3>2. CASE UNCHANGED <<branch, parent, rows>>
      BY <3>2 DEF PersistenceTypeOK
    <3> QED BY <1>2, <3>1, <3>2 DEF ExitSpace
  <2> QED BY <1>2, <2>3 DEF ExitSpace, PersistenceTypeOK, RunState
<1>3. ASSUME FinishRun(m) PROVE PersistenceTypeOK'
  BY <1>3 DEF FinishRun, PersistenceTypeOK, RunState
<1>4. ASSUME EndReply(m) PROVE PersistenceTypeOK'
  <2>1. active' \in [Engines -> Calls \cup {None}] /\ steps' \in [Engines -> SUBSET Calls]
    BY <1>4 DEF EndReply, PersistenceTypeOK
  <2> QED BY <1>4, <2>1 DEF EndReply, PersistenceTypeOK, RunState
<1>5. ASSUME Recall(m) PROVE PersistenceTypeOK'
  BY <1>5 DEF Recall, PersistenceTypeOK, RunState
<1> QED BY <1>1, <1>2, <1>3, <1>4, <1>5 DEF BridgeStep

(* The epoch a turn reads is one of the bounded epochs. *)
LEMMA EpochTyped ==
    ASSUME ServiceTypeOK, NEW k \in Keys PROVE EpochRead(k) \subseteq Epochs
BY PersistenceAssumption DEF ServiceTypeOK, EpochRead, Epochs

(* What a step of handle() does to the durable session is well typed, ... *)
LEMMA PersistenceTypeStep == ServiceInv /\ [Next]_vars => PersistenceTypeOK'
<1> SUFFICES ASSUME ServiceInv, [Next]_vars PROVE PersistenceTypeOK'
  OBVIOUS
<1> USE TypeParts DEF ServiceInv
<1>1. ASSUME UNCHANGED persistenceVars PROVE PersistenceTypeOK'
  BY <1>1 DEF persistenceVars, PersistenceTypeOK
<1>2. ASSUME NEW m \in Calls, NEW k \in Keys, Arrive(m, k) \/ Stop(m, k)
      PROVE  PersistenceTypeOK'
  BY <1>2, <1>1 DEF Arrive, Stop
<1>3. ASSUME NEW m \in Calls, LoadEpoch(m) PROVE PersistenceTypeOK'
  <2>1. keyOf[m] \in Keys
    BY <1>3, KeyKnown DEF LoadEpoch, GoTo, Critical
  <2>2. PICK e \in EpochRead(keyOf[m]) : thread' = [thread EXCEPT ![m] = <<keyOf[m], e>>]
    BY <1>3 DEF LoadEpoch
  <2>3. <<keyOf[m], e>> \in Threads
    BY <2>1, <2>2, EpochTyped DEF Threads
  <2> QED BY <1>3, <2>2, <2>3 DEF LoadEpoch, PersistenceTypeOK
<1>4. ASSUME NEW m \in Calls, StartReply(m) PROVE PersistenceTypeOK'
  <2>1. branch[thread[m]] \in Seq(Entries)
    BY <1>4, EngineKnown DEF StartReply, GoTo, ThreadsKnown, PersistenceTypeOK
  <2> QED BY <1>4, <2>1 DEF StartReply, ReadLeaf, PersistenceTypeOK
<1>5. ASSUME NEW m \in Calls, Dispatch(m) PROVE PersistenceTypeOK'
  BY <1>5, BeginReplyTyped DEF Dispatch, GoTo, ThreadsKnown
<1>6. ASSUME NEW m \in Calls, HandleStep(m), ~LoadEpoch(m), ~StartReply(m), ~Dispatch(m)
      PROVE  PersistenceTypeOK'
  BY <1>6, <1>1 DEF HandleStep, TakeLock, Enter, AnswerOnly, ResetEpoch, PersistEpoch,
                    LoadHistory, Throw, StopStreaming, Leave
<1>7. ASSUME NEW m \in Calls, RunStep(m) PROVE PersistenceTypeOK'
  BY <1>7, RunStepTyped DEF RunStep, RefreshHistory, ThreadsKnown
<1>8. ASSUME NEW m \in Calls, Signal(m) PROVE PersistenceTypeOK'
  BY <1>8, <1>1 DEF Signal
<1>9. ASSUME NEW k \in Keys, ArchiveRead(k) \/ ArchiveWrite(k) PROVE PersistenceTypeOK'
  BY <1>9, <1>1 DEF ArchiveRead, ArchiveWrite
<1>10. CASE Crash
  BY <1>10 DEF Crash, PersistenceCrash, PersistenceTypeOK, RunState
<1>11. CASE Rest \/ UNCHANGED vars
  BY <1>11, <1>1 DEF Rest, vars
<1> QED
  BY <1>2, <1>3, <1>4, <1>5, <1>6, <1>7, <1>8, <1>9, <1>10, <1>11 DEF Next

(* ... and so is what it does to the service's own state. *)
LEMMA ServiceTypeStep == ServiceInv /\ [Next]_vars => ServiceTypeOK'
<1> SUFFICES ASSUME ServiceInv, [Next]_vars PROVE ServiceTypeOK'
  OBVIOUS
<1> USE TypeParts DEF ServiceInv
<1>1. ASSUME UNCHANGED serviceVars PROVE ServiceTypeOK'
  BY <1>1 DEF serviceVars, ServiceTypeOK
<1>2. ASSUME NEW m \in Calls, NEW from, NEW to \in Stages, GoTo(m, from, to)
      PROVE  stage' \in [Calls -> Stages]
  BY <1>2 DEF GoTo, ServiceTypeOK
<1>3. Stages = {"entered", "resetting", "history", "ready", "starting", "streaming",
                "leaving", "idle", "locking", "permit", "done", "lost"}
  BY DEF Stages, Critical
<1>4. ASSUME NEW m \in Calls, stage[m] \in {"locking", "permit"} \cup Critical
      PROVE  keyOf[m] \in Keys
  BY <1>4, KeyKnown
<1>5. ASSUME NEW m \in Calls, NEW k \in Keys, Arrive(m, k) PROVE ServiceTypeOK'
  BY <1>5, <1>2, <1>3 DEF Arrive, ServiceTypeOK
<1>6. ASSUME NEW m \in Calls, NEW k \in Keys, Stop(m, k) PROVE ServiceTypeOK'
  BY <1>6, <1>2, <1>3 DEF Stop, ServiceTypeOK
<1>7. ASSUME NEW m \in Calls, TakeLock(m) \/ Enter(m) \/ AnswerOnly(m) \/ Throw(m)
                                \/ Dispatch(m) \/ StopStreaming(m)
      PROVE  ServiceTypeOK'
  BY <1>7, <1>2, <1>3 DEF TakeLock, Enter, AnswerOnly, Throw, Dispatch, StopStreaming,
                          ServiceTypeOK
<1>8. ASSUME NEW m \in Calls, LoadEpoch(m) PROVE ServiceTypeOK'
  <2>1. keyOf[m] \in Keys /\ stage' \in [Calls -> Stages]
    BY <1>8, <1>2, <1>3, <1>4 DEF LoadEpoch, GoTo, Critical
  <2>2. \A e \in EpochRead(keyOf[m]) : e \in Epochs
    BY <2>1, EpochTyped
  <2> QED BY <1>8, <2>1, <2>2 DEF LoadEpoch, ServiceTypeOK
<1>9. ASSUME NEW m \in Calls, ResetEpoch(m) PROVE ServiceTypeOK'
  <2>1. keyOf[m] \in Keys /\ stage' \in [Calls -> Stages]
    BY <1>9, <1>2, <1>3, <1>4 DEF ResetEpoch, GoTo, Critical
  <2>2. \A e \in EpochRead(keyOf[m]) : e < MaxEpoch => e + 1 \in Epochs
    BY <2>1, EpochTyped, PersistenceAssumption DEF Epochs
  <2> QED BY <1>9, <2>1, <2>2 DEF ResetEpoch, ServiceTypeOK
<1>10. ASSUME NEW m \in Calls, PersistEpoch(m) PROVE ServiceTypeOK'
  <2>1. keyOf[m] \in Keys /\ stage' \in [Calls -> Stages]
    BY <1>10, <1>2, <1>3, <1>4 DEF PersistEpoch, GoTo, Critical
  <2>2. epochs[keyOf[m]] \in Epochs
    BY <1>10, <2>1 DEF PersistEpoch, GoTo, ThreadsKnown, ServiceTypeOK
  <2> QED BY <1>10, <2>1, <2>2 DEF PersistEpoch, ServiceTypeOK
<1>11. ASSUME NEW m \in Calls, LoadHistory(m) PROVE ServiceTypeOK'
  <2>1. branch[thread[m]] \in Seq(Entries)
    BY <1>11, EngineKnown DEF LoadHistory, GoTo, ThreadsKnown, PersistenceTypeOK
  <2> QED BY <1>11, <1>2, <1>3, <2>1 DEF LoadHistory, ServiceTypeOK
<1>12. ASSUME NEW m \in Calls, StartReply(m) \/ Leave(m) PROVE ServiceTypeOK'
  BY <1>12, <1>2, <1>3 DEF StartReply, Leave, ServiceTypeOK
<1>13. ASSUME NEW m \in Calls, RunStep(m) PROVE ServiceTypeOK'
  <2>1. CASE RefreshHistory(m)
    <3>1. branch[thread[m]] \in Seq(Entries)
      BY <2>1, EngineKnown DEF RefreshHistory, Recall, ThreadsKnown, PersistenceTypeOK
    <3>2. Recalled(m, hist[m]) \in Seq(Entries)
      BY <3>1 DEF Recalled, ServiceTypeOK
    <3>3. hist' \in [Calls -> Seq(Entries)]
      BY <2>1, <3>2 DEF RefreshHistory, ServiceTypeOK
    <3>4. UNCHANGED <<stage, kind, epochs, stored, activeRuns, aborted, snapshot, acked,
                      crashes, archives>>
      BY <1>13 DEF RunStep
    <3> QED BY <3>3, <3>4 DEF ServiceTypeOK
  <2>2. CASE ~RefreshHistory(m)
    BY <1>13, <1>1, <2>2 DEF RunStep, BridgeStep, serviceVars, ServiceTypeOK
  <2> QED BY <2>1, <2>2
<1>17. ASSUME NEW m \in Calls, Signal(m) PROVE ServiceTypeOK'
  BY <1>17 DEF Signal, ServiceTypeOK
<1>14. ASSUME NEW k \in Keys, ArchiveRead(k) \/ ArchiveWrite(k) PROVE ServiceTypeOK'
  <2>1. archives' \in 0..MaxArchives
    BY <1>14, ConversationAssumption DEF ArchiveRead, ArchiveWrite, ServiceTypeOK
  <2> QED BY <1>14, <2>1 DEF ArchiveRead, ArchiveWrite, ServiceTypeOK
<1>15. CASE Crash
  <2>1. stage' \in [Calls -> Stages]
    BY <1>15, <1>3 DEF Crash, ServiceTypeOK
  <2>2. crashes' \in 0..MaxCrashes
    BY <1>15, ConversationAssumption DEF Crash, ServiceTypeOK
  <2> QED BY <1>15, <2>1, <2>2 DEF Crash, ServiceTypeOK
<1>16. CASE Rest \/ UNCHANGED vars
  BY <1>16, <1>1 DEF Rest, vars
<1> QED
  BY <1>5, <1>6, <1>7, <1>8, <1>9, <1>10, <1>11, <1>12, <1>13, <1>14, <1>15, <1>16, <1>17
     DEF Next, HandleStep

(* A turn gets its thread before it uses it and keeps it; a reset has its  *)
(* epoch in the map until it is persisted.                                 *)
LEMMA ThreadsStep == ServiceInv /\ [Next]_vars => ThreadsKnown'
<1> SUFFICES ASSUME ServiceInv, [Next]_vars PROVE ThreadsKnown'
  OBVIOUS
<1> USE TypeParts DEF ServiceInv
<1> DEFINE Kept == /\ \A n \in Calls : keyOf[n] \in Keys => keyOf'[n] = keyOf[n]
                   /\ \A k \in Keys : epochs[k] \in Epochs => epochs'[k] \in Epochs
                   /\ \A n \in Calls : thread[n] \in Threads => thread'[n] \in Threads
                   /\ \A n \in Calls : run'[n] # "none" => run[n] # "none"
           Resolved(m) == /\ stage'[m] = "resetting" =>
                                keyOf'[m] \in Keys /\ epochs'[keyOf'[m]] \in Epochs
                          /\ stage'[m] \in {"history", "ready", "starting", "streaming"}
                                => thread'[m] \in Threads
<1>1. ASSUME NEW n \in Calls, stage[n] = "resetting"
      PROVE  keyOf[n] \in Keys /\ epochs[keyOf[n]] \in Epochs
  BY <1>1, KeyKnown DEF Critical, ThreadsKnown
<1>2. ASSUME UNCHANGED <<keyOf, epochs, thread, run, stage>> PROVE ThreadsKnown'
  BY <1>2 DEF ThreadsKnown
<1>3. ASSUME NEW m \in Calls, NEW from, NEW to, GoTo(m, from, to), Kept, Resolved(m)
      PROVE  ThreadsKnown'
  <2>1. \A n \in Calls \ {m} : stage'[n] = stage[n]
    BY <1>3 DEF GoTo, ServiceTypeOK
  <2> QED BY <1>1, <1>3, <2>1 DEF ThreadsKnown
<1>4. ASSUME NEW m \in Calls, NEW k \in Keys, Arrive(m, k) PROVE ThreadsKnown'
  <2>1. stage'[m] = "locking" /\ \A n \in Calls \ {m} : stage'[n] = stage[n]
    BY <1>4 DEF Arrive, GoTo, ServiceTypeOK
  <2>2. \A n \in Calls \ {m} : keyOf'[n] = keyOf[n]
    BY <1>4 DEF Arrive, Enqueue, MutexTypeOK
  <2>3. UNCHANGED <<epochs, thread, run>>
    BY <1>4 DEF Arrive, persistenceVars
  <2> QED BY <2>1, <2>2, <2>3 DEF ThreadsKnown
<1>5. ASSUME NEW m \in Calls, NEW k \in Keys, Stop(m, k) PROVE ThreadsKnown'
  <2>1. stage'[m] = "done" /\ \A n \in Calls \ {m} : stage'[n] = stage[n]
    BY <1>5 DEF Stop, GoTo, ServiceTypeOK
  <2>2. UNCHANGED <<keyOf, epochs, thread, run>>
    BY <1>5 DEF Stop, mutexVars, persistenceVars
  <2> QED BY <2>1, <2>2 DEF ThreadsKnown
<1>6. ASSUME NEW m \in Calls, TakeLock(m) \/ Enter(m) \/ AnswerOnly(m) \/ Throw(m)
                              \/ StopStreaming(m) \/ Leave(m) \/ PersistEpoch(m)
      PROVE  ThreadsKnown'
  <2>1. PICK from, to : /\ GoTo(m, from, to) /\ UNCHANGED <<keyOf, epochs, thread, run>>
                        /\ to \in {"permit", "entered", "leaving", "done"}
    BY <1>6 DEF TakeLock, Grant, Enter, AnswerOnly, Throw, StopStreaming, Leave, Release,
                PersistEpoch, mutexVars, persistenceVars
  <2>2. stage'[m] = to
    BY <2>1 DEF GoTo, ServiceTypeOK
  <2> QED BY <1>3, <2>1, <2>2
<1>7. ASSUME NEW m \in Calls, LoadEpoch(m) PROVE ThreadsKnown'
  <2>1. keyOf[m] \in Keys
    BY <1>7, KeyKnown DEF LoadEpoch, GoTo, Critical
  <2>2. PICK e \in EpochRead(keyOf[m]) : /\ epochs' = [epochs EXCEPT ![keyOf[m]] = e]
                                         /\ thread' = [thread EXCEPT ![m] = <<keyOf[m], e>>]
    BY <1>7 DEF LoadEpoch
  <2>3. e \in Epochs /\ <<keyOf[m], e>> \in Threads
    BY <2>1, <2>2, EpochTyped DEF Threads
  <2>4. stage'[m] = "history" /\ UNCHANGED <<keyOf, run>>
    BY <1>7 DEF LoadEpoch, GoTo, mutexVars, ServiceTypeOK
  <2>5. Kept /\ Resolved(m)
    BY <2>2, <2>3, <2>4 DEF PersistenceTypeOK, ServiceTypeOK
  <2> QED BY <1>3, <1>7, <2>5 DEF LoadEpoch
<1>8. ASSUME NEW m \in Calls, ResetEpoch(m) PROVE ThreadsKnown'
  <2>1. keyOf[m] \in Keys
    BY <1>8, KeyKnown DEF ResetEpoch, GoTo, Critical
  <2>2. PICK e \in EpochRead(keyOf[m]) : /\ e < MaxEpoch
                                         /\ epochs' = [epochs EXCEPT ![keyOf[m]] = e + 1]
    BY <1>8 DEF ResetEpoch
  <2>3. e \in Epochs
    BY <2>1, <2>2, EpochTyped
  <2>4. e + 1 \in Epochs
    BY <2>2, <2>3, PersistenceAssumption DEF Epochs
  <2>5. stage'[m] = "resetting" /\ UNCHANGED <<keyOf, thread, run>>
    BY <1>8 DEF ResetEpoch, GoTo, mutexVars, persistenceVars, ServiceTypeOK
  <2>6. Kept /\ Resolved(m)
    BY <2>1, <2>2, <2>4, <2>5 DEF ServiceTypeOK
  <2> QED BY <1>3, <1>8, <2>6 DEF ResetEpoch
<1>9. ASSUME NEW m \in Calls, LoadHistory(m) \/ StartReply(m) PROVE ThreadsKnown'
  <2>1. PICK from, to : /\ GoTo(m, from, to) /\ UNCHANGED <<keyOf, epochs, thread, run>>
                        /\ from \in {"history", "ready"} /\ to \in {"ready", "starting"}
    BY <1>9 DEF LoadHistory, StartReply, ReadLeaf, mutexVars, persistenceVars
  <2>2. stage[m] = from /\ stage'[m] = to
    BY <2>1 DEF GoTo, ServiceTypeOK
  <2> QED BY <1>3, <2>1, <2>2 DEF ThreadsKnown
<1>10. ASSUME NEW m \in Calls, Dispatch(m) PROVE ThreadsKnown'
  <2>1. /\ stage[m] = "starting" /\ stage'[m] = "streaming"
        /\ \A n \in Calls \ {m} : stage'[n] = stage[n] /\ run'[n] = run[n]
        /\ UNCHANGED <<keyOf, epochs, thread>>
    BY <1>10 DEF Dispatch, GoTo, BeginReply, mutexVars, ServiceTypeOK, PersistenceTypeOK
  <2> QED BY <2>1 DEF ThreadsKnown
<1>11. ASSUME NEW m \in Calls, RunStep(m) PROVE ThreadsKnown'
  <2>1. /\ run[m] # "none" /\ \A n \in Calls \ {m} : run'[n] = run[n]
        /\ UNCHANGED <<stage, keyOf, epochs, thread>>
    BY <1>11 DEF RunStep, RefreshHistory, Recall, BridgeStep, EnterSpace, ExitSpace, FinishRun, EndReply,
                 mutexVars, PersistenceTypeOK
  <2> QED BY <2>1 DEF ThreadsKnown
<1>12. ASSUME NEW m \in Calls, Signal(m) PROVE ThreadsKnown'
  BY <1>12, <1>2 DEF Signal, mutexVars, persistenceVars
<1>13. ASSUME NEW k \in Keys, ArchiveRead(k) \/ ArchiveWrite(k) PROVE ThreadsKnown'
  BY <1>13, <1>2 DEF ArchiveRead, ArchiveWrite, mutexVars, persistenceVars
<1>14. CASE Crash
  <2>1. \A n \in Calls : stage'[n] \in {"idle", "done", "lost"}
    BY <1>14 DEF Crash, ServiceTypeOK
  <2>2. \A n \in Calls : run'[n] # "none" => run[n] # "none"
    BY <1>14 DEF Crash, PersistenceCrash
  <2> QED BY <1>14, <2>1, <2>2 DEF Crash, PersistenceCrash, ThreadsKnown
<1>15. CASE Rest \/ UNCHANGED vars
  BY <1>15, <1>2 DEF Rest, vars, serviceVars, mutexVars, persistenceVars
<1> QED
  BY <1>4, <1>5, <1>6, <1>7, <1>8, <1>9, <1>10, <1>11, <1>12, <1>13, <1>14, <1>15
     DEF Next, HandleStep

-----------------------------------------------------------------------------
(* Initially nobody is there. *)
LEMMA InitInv == Init => ServiceInv
<1> SUFFICES ASSUME Init PROVE ServiceInv
  OBVIOUS
<1>1. MutexInv /\ SemaphoreInv
  BY MutexInitInv, SemaphoreInitInv DEF Init
<1>2. PersistenceTypeOK
  BY DEF Init, PersistenceInit, PersistenceTypeOK, RunState
<1>3. ServiceTypeOK
  BY ConversationAssumption, PersistenceAssumption
     DEF Init, ServiceTypeOK, Stages, Epochs
<1>4. TypeOK
  BY <1>1, <1>2, <1>3, TypeParts DEF MutexInv, SemaphoreInv
<1>5. Linked
  <2>1. \A n \in Calls : /\ stage[n] = "idle" /\ lock[n] = "idle" /\ kind[n] # "stop"
                         /\ n \notin permits /\ ~Queued(n)
    BY <1>3, ConversationAssumption DEF Init, MutexInit, SemaphoreInit, Queued
  <2> QED BY <2>1 DEF Linked, Critical
<1>6. ThreadsKnown
  BY DEF Init, PersistenceInit, ThreadsKnown
<1> QED BY <1>1, <1>4, <1>5, <1>6 DEF ServiceInv

(* Every step of the service preserves its invariant. *)
LEMMA ServiceStep == ServiceInv /\ [Next]_vars => ServiceInv'
<1> SUFFICES ASSUME ServiceInv, [Next]_vars PROVE ServiceInv'
  OBVIOUS
<1>1. MutexInv'
  BY MutexSimulation, MutexStepInv DEF ServiceInv
<1>2. SemaphoreInv'
  BY SemaphoreSimulation, SemaphoreStepInv DEF ServiceInv
<1>3. PersistenceTypeOK' /\ ServiceTypeOK'
  BY PersistenceTypeStep, ServiceTypeStep
<1>4. TypeOK'
  BY <1>1, <1>2, <1>3 DEF TypeOK, ServiceTypeOK, MutexInv, SemaphoreInv
<1>5. Linked' /\ ThreadsKnown'
  BY LinkedStep, ThreadsStep DEF ServiceInv
<1> QED BY <1>1, <1>2, <1>4, <1>5 DEF ServiceInv

THEOREM ServiceInvariance == Spec => []ServiceInv
BY InitInv, ServiceStep, PTL DEF Spec

(* Every variable of the service stays in its type, for any instance.      *)
THEOREM TypeCorrect == Spec => []TypeOK
<1>1. ServiceInv => TypeOK
  BY DEF ServiceInv
<1> QED BY <1>1, ServiceInvariance, PTL

(* In the running service, whatever handle() does - commands, aborts,      *)
(* throws, crashes - a conversation's lock has one holder at a time, goes  *)
(* to whoever asked first, and leaves no entry in the map.                 *)
THEOREM LockCorrect == Spec => [](MutualExclusion /\ NoOvertaking /\ TailsMatchCalls)
<1>1. ServiceInv => MutualExclusion /\ NoOvertaking /\ TailsMatchCalls
  BY InvMutualExclusion, InvNoOvertaking, InvTailsMatchCalls DEF ServiceInv
<1> QED BY <1>1, ServiceInvariance, PTL

(* In the running service permits are neither lost nor made: handle() asks *)
(* for one only without one, and returns it exactly once.                  *)
THEOREM CapCorrect == Spec => []PermitAccounting
<1>1. ServiceInv => PermitAccounting
  BY DEF ServiceInv, SemaphoreInv
<1> QED BY <1>1, ServiceInvariance, PTL

-----------------------------------------------------------------------------
(* Two calls of one conversation are not both past the lock. *)
LEMMA OneInside ==
    ASSUME ServiceInv, NEW m \in Calls, NEW n \in Calls, keyOf[m] = keyOf[n],
           stage[m] \in {"permit"} \cup Critical, stage[n] \in {"permit"} \cup Critical
    PROVE  m = n
BY InvMutualExclusion DEF ServiceInv, Linked, MutualExclusion

(* /stop finds the turn in progress: a step of the service publishes and   *)
(* withdraws controllers only while its call alone is inside.              *)
LEMMA ActiveRunStep == ServiceInv /\ ActiveRunIsCurrent /\ [Next]_vars => ActiveRunIsCurrent'
<1> SUFFICES ASSUME ServiceInv, ActiveRunIsCurrent, [Next]_vars PROVE ActiveRunIsCurrent'
  OBVIOUS
<1> USE NoneAssumption
<1>0. TypeOK /\ ServiceTypeOK /\ Linked /\ MutexInv
  BY TypeParts DEF ServiceInv
<1>1. \A k \in Keys : activeRuns[k] # None => activeRuns[k] \in Calls
  BY <1>0 DEF ServiceTypeOK
<1>2. ASSUME UNCHANGED <<stage, keyOf, activeRuns>> PROVE ActiveRunIsCurrent'
  BY <1>2 DEF ActiveRunIsCurrent
<1>3. ASSUME NEW m \in Calls, NEW from, NEW to, GoTo(m, from, to),
             from \in Stages \ {"starting", "streaming", "leaving"},
             to \notin {"starting", "streaming"},
             \A n \in Calls \ {m} : keyOf'[n] = keyOf[n], UNCHANGED activeRuns
      PROVE  ActiveRunIsCurrent'
  <2>1. /\ stage[m] = from /\ stage'[m] = to
        /\ \A n \in Calls \ {m} : stage'[n] = stage[n]
    BY <1>0, <1>3 DEF GoTo, ServiceTypeOK
  <2> QED BY <1>1, <1>3, <2>1 DEF ActiveRunIsCurrent
<1>4. ASSUME NEW m \in Calls, NEW k \in Keys, Arrive(m, k) \/ Stop(m, k)
      PROVE  ActiveRunIsCurrent'
  BY <1>0, <1>3, <1>4 DEF Arrive, Enqueue, Stop, mutexVars, TypeOK, MutexTypeOK, Stages
<1>5. ASSUME NEW m \in Calls, TakeLock(m) \/ Enter(m) \/ AnswerOnly(m) \/ LoadEpoch(m)
                         \/ ResetEpoch(m) \/ PersistEpoch(m) \/ LoadHistory(m)
      PROVE  ActiveRunIsCurrent'
  BY <1>3, <1>5 DEF TakeLock, Grant, Enter, AnswerOnly, LoadEpoch, ResetEpoch, PersistEpoch,
                    LoadHistory, mutexVars, Stages, Critical
<1>6. ASSUME NEW m \in Calls, StartReply(m) PROVE ActiveRunIsCurrent'
  <2>1. /\ stage[m] = "ready" /\ stage'[m] = "starting" /\ UNCHANGED keyOf
        /\ \A n \in Calls \ {m} : stage'[n] = stage[n]
        /\ activeRuns' = [activeRuns EXCEPT ![keyOf[m]] = m]
    BY <1>0, <1>6 DEF StartReply, GoTo, mutexVars, ServiceTypeOK
  <2>2. keyOf[m] \in Keys
    BY <1>0, <2>1, KeyKnown DEF Critical
  <2>3. \A n \in Calls \ {m} :
            stage[n] \in {"starting", "streaming"} => keyOf[n] \in Keys /\ keyOf[n] # keyOf[m]
    BY <1>0, <2>1, OneInside, KeyKnown DEF Critical
  <2> QED BY ZenonT(40), <1>0, <1>1, <2>1, <2>2, <2>3 DEF ActiveRunIsCurrent, ServiceTypeOK
<1>7. ASSUME NEW m \in Calls, Dispatch(m) \/ StopStreaming(m) \/ Throw(m)
      PROVE  ActiveRunIsCurrent'
  <2>1. /\ stage[m] \in {"history", "starting", "streaming"}
        /\ stage'[m] \in {"streaming", "leaving"}
        /\ stage'[m] = "streaming" => stage[m] = "starting"
        /\ UNCHANGED <<keyOf, activeRuns>>
        /\ \A n \in Calls \ {m} : stage'[n] = stage[n]
    BY <1>0, <1>7 DEF Dispatch, StopStreaming, Throw, GoTo, mutexVars, ServiceTypeOK
  <2> QED BY <1>1, <2>1 DEF ActiveRunIsCurrent
<1>8. ASSUME NEW m \in Calls, Leave(m) PROVE ActiveRunIsCurrent'
  <2>1. /\ stage[m] = "leaving" /\ stage'[m] = "done" /\ UNCHANGED keyOf
        /\ \A n \in Calls \ {m} : stage'[n] = stage[n]
        /\ activeRuns' = IF activeRuns[keyOf[m]] = m
                         THEN [activeRuns EXCEPT ![keyOf[m]] = None] ELSE activeRuns
    BY <1>0, <1>8 DEF Leave, Release, GoTo, ServiceTypeOK
  <2>2. \A k \in Keys : /\ activeRuns'[k] # m
                        /\ activeRuns'[k] = activeRuns[k] \/ activeRuns'[k] = None
                        /\ activeRuns[k] # m => activeRuns'[k] = activeRuns[k]
    BY <1>0, <2>1 DEF ActiveRunIsCurrent, ServiceTypeOK
  <2>3. \A n \in Calls : stage[n] \in {"starting", "streaming"} => keyOf[n] \in Keys
    BY <1>0, KeyKnown DEF Critical
  <2> QED BY <1>1, <2>1, <2>2, <2>3 DEF ActiveRunIsCurrent
<1>9. ASSUME NEW m \in Calls, RunStep(m) \/ Signal(m) PROVE ActiveRunIsCurrent'
  BY <1>2, <1>9 DEF RunStep, Signal, serviceVars, mutexVars
<1>10. ASSUME NEW k \in Keys, ArchiveRead(k) \/ ArchiveWrite(k) PROVE ActiveRunIsCurrent'
  BY <1>2, <1>10 DEF ArchiveRead, ArchiveWrite, mutexVars
<1>11. CASE Crash
  BY <1>0, <1>11 DEF Crash, ActiveRunIsCurrent, ServiceTypeOK
<1>12. CASE Rest \/ UNCHANGED vars
  BY <1>2, <1>12 DEF Rest, vars, serviceVars, mutexVars
<1> QED
  BY <1>4, <1>5, <1>6, <1>7, <1>8, <1>9, <1>10, <1>11, <1>12 DEF Next, HandleStep

(* The activeRuns map names exactly the turns in progress, always.         *)
THEOREM StopReachesCurrentTurn == Spec => []ActiveRunIsCurrent
<1>1. Init => ActiveRunIsCurrent
  BY DEF Init, ActiveRunIsCurrent
<1> QED BY <1>1, ActiveRunStep, ServiceInvariance, PTL DEF Spec

-----------------------------------------------------------------------------
(* Refinement of TurnTaking.  A message that is inside holds a permit, so  *)
(* there is room for one that is about to enter.                           *)
LEMMA RoomInside ==
    ASSUME ServiceInv, NEW m \in permits, Place(m) # "inside", Limit > 0
    PROVE  LET Inside == {n \in Calls : Place(n) = "inside"}
           IN  Cardinality(Inside) < Limit
<1> DEFINE Inside == {n \in Calls : Place(n) = "inside"}
<1>1. Inside \subseteq permits \ {m}
  BY DEF ServiceInv, Linked, Place
<1>2. /\ IsFiniteSet(permits \ {m}) /\ Cardinality(permits \ {m}) = Cardinality(permits) - 1
      /\ Cardinality(permits) \in Nat
  BY FS_RemoveElement, FS_CardinalityType DEF ServiceInv, SemaphoreInv
<1>3. Cardinality(Inside) \in Nat /\ Cardinality(Inside) <= Cardinality(permits \ {m})
  <2>1. IsFiniteSet(Inside) /\ Cardinality(Inside) <= Cardinality(permits \ {m})
    BY <1>1, <1>2, FS_Subset
  <2> QED BY <2>1, FS_CardinalityType
<1>4. Cardinality(permits) <= Limit
  BY <1>2, LimitAssumption
     DEF ServiceInv, SemaphoreInv, SemaphoreTypeOK, PermitAccounting
<1> QED BY <1>2, <1>3, <1>4, LimitAssumption

(* A step that moves nobody between away, waiting, inside and gone is a    *)
(* stutter of TurnTaking.                                                  *)
LEMMA PlacesKept ==
    ASSUME \A n \in Calls : Place(n)' = Place(n), UNCHANGED <<keyOf, arrival, arrivals>>
    PROVE  UNCHANGED Turns!turnVars
BY DEF Turns!turnVars

LEMMA MapArrive ==
    ASSUME ServiceInv, NEW m \in Calls, NEW k \in Keys, Arrive(m, k)
    PROVE  Turns!Join(m, k)
<1>1. /\ stage[m] = "idle" /\ stage'[m] = "locking" /\ kind'[m] # "stop"
      /\ \A n \in Calls \ {m} : stage'[n] = stage[n] /\ kind'[n] = kind[n]
  BY DEF Arrive, GoTo, ServiceInv, TypeOK
<1>2. Place(m) = "away" /\ Place(m)' = "waiting" /\ \A n \in Calls \ {m} : Place(n)' = Place(n)
  BY <1>1 DEF Place
<1>3. [n \in Calls |-> Place(n)]' = [[n \in Calls |-> Place(n)] EXCEPT ![m] = "waiting"]
  BY <1>2
<1> QED BY <1>2, <1>3 DEF Arrive, Enqueue, Turns!Join

(* The call whose turn begins holds the lock: those of its conversation    *)
(* who are waiting came later, and none is inside.                         *)
LEMMA MapEnter ==
    ASSUME ServiceInv, NEW m \in Calls, Enter(m)
    PROVE  Turns!Begin(m)
<1>0. TypeOK /\ Linked /\ MutexInv
  BY DEF ServiceInv
<1>1. /\ stage[m] = "permit" /\ stage'[m] = "entered" /\ UNCHANGED <<kind, keyOf, arrival, arrivals>>
      /\ \A n \in Calls \ {m} : stage'[n] = stage[n]
      /\ m \in permits /\ lock[m] = "held" /\ kind[m] # "stop"
  BY <1>0 DEF Enter, GoTo, mutexVars, TypeOK, Linked
<1>2. Place(m) = "waiting" /\ Place(m)' = "inside" /\ \A n \in Calls \ {m} : Place(n)' = Place(n)
  BY <1>1 DEF Place, Critical
<1>3. ASSUME NEW n \in Calls \ {m}, keyOf[n] = keyOf[m]
      PROVE  Place(n) # "inside" /\ (Place(n) = "waiting" => arrival[m] < arrival[n])
  <2>1. lock[n] # "held"
    BY <1>0, <1>1, <1>3, InvMutualExclusion DEF MutualExclusion
  <2>2. stage[n] \notin {"permit"} \cup Critical
    BY <1>0, <2>1 DEF Linked
  <2>3. lock[n] = "waiting" => arrival[m] < arrival[n]
    BY <1>0, <1>1, <1>3, InvNoOvertaking DEF NoOvertaking
  <2> QED BY <1>0, <2>2, <2>3 DEF Linked, Place
<1>4. [n \in Calls |-> Place(n)]' = [[n \in Calls |-> Place(n)] EXCEPT ![m] = "inside"]
  BY <1>2
<1>5. Limit > 0 => Turns!Cardinality(Turns!Inside) < Limit
  <2>1. Turns!Inside = {n \in Calls : Place(n) = "inside"}
    BY DEF Turns!Inside
  <2>2. Turns!Cardinality(Turns!Inside) = Cardinality(Turns!Inside)
    BY DEF Turns!Cardinality, Cardinality
  <2> QED BY <1>1, <1>2, <2>1, <2>2, RoomInside
<1> QED BY <1>1, <1>2, <1>3, <1>4, <1>5 DEF Turns!Begin

LEMMA MapLeave ==
    ASSUME ServiceInv, NEW m \in Calls, Leave(m)
    PROVE  Turns!Finish(m)
<1>1. /\ stage[m] = "leaving" /\ stage'[m] = "done" /\ UNCHANGED <<kind, keyOf, arrival, arrivals>>
      /\ \A n \in Calls \ {m} : stage'[n] = stage[n]
      /\ kind[m] # "stop"
  BY DEF Leave, Release, GoTo, ServiceInv, TypeOK, Linked
<1>2. Place(m) = "inside" /\ Place(m)' = "gone" /\ \A n \in Calls \ {m} : Place(n)' = Place(n)
  BY <1>1 DEF Place, Critical
<1>3. [n \in Calls |-> Place(n)]' = [[n \in Calls |-> Place(n)] EXCEPT ![m] = "gone"]
  BY <1>2
<1> QED BY <1>1, <1>2, <1>3 DEF Turns!Finish

LEMMA MapCrash ==
    ASSUME ServiceInv, Crash
    PROVE  Turns!Restart
<1>1. \A n \in Calls :
        /\ stage'[n] = IF stage[n] \in {"idle", "done"} THEN stage[n] ELSE "lost"
        /\ kind'[n] = kind[n]
        /\ stage[n] \in Stages
  BY DEF Crash, ServiceInv, TypeOK
<1>2. \A n \in Calls : Place(n)' = IF Place(n) = "away" THEN "away" ELSE "gone"
  BY <1>1 DEF Place, Critical, Stages
<1> QED BY <1>2 DEF Crash, MutexCrash, Turns!Restart

(* Every step of the service is a step of TurnTaking, or none of its.      *)
LEMMA TurnSimulation == ServiceInv /\ [Next]_vars => [Turns!TurnNext]_(Turns!turnVars)
<1> SUFFICES ASSUME ServiceInv, [Next]_vars
             PROVE  Turns!TurnNext \/ UNCHANGED Turns!turnVars
  OBVIOUS
<1>0. TypeOK /\ Linked
  BY DEF ServiceInv
<1>1. ASSUME NEW m \in Calls, NEW k \in Keys, Arrive(m, k) PROVE Turns!TurnNext
  BY <1>1, MapArrive DEF Turns!TurnNext
<1>2. ASSUME NEW m \in Calls, Enter(m) PROVE Turns!TurnNext
  BY <1>2, MapEnter DEF Turns!TurnNext
<1>3. ASSUME NEW m \in Calls, Leave(m) PROVE Turns!TurnNext
  BY <1>3, MapLeave DEF Turns!TurnNext
<1>4. CASE Crash
  BY <1>4, MapCrash DEF Turns!TurnNext
<1>5. ASSUME UNCHANGED <<stage, kind, keyOf, arrival, arrivals>>
      PROVE  UNCHANGED Turns!turnVars
  <2>1. \A n \in Calls : Place(n)' = Place(n)
    BY <1>5 DEF Place
  <2> QED BY <1>5, <2>1, PlacesKept
<1>6. ASSUME NEW m \in Calls, NEW k \in Keys, Stop(m, k) PROVE UNCHANGED Turns!turnVars
  <2>1. /\ stage[m] = "idle" /\ kind'[m] = "stop" /\ UNCHANGED <<keyOf, arrival, arrivals>>
        /\ \A n \in Calls \ {m} : stage'[n] = stage[n] /\ kind'[n] = kind[n]
    BY <1>0, <1>6 DEF Stop, GoTo, mutexVars, TypeOK
  <2>2. \A n \in Calls : Place(n)' = Place(n)
    BY <2>1 DEF Place
  <2> QED BY <2>1, <2>2, PlacesKept
<1>7. ASSUME NEW m \in Calls, TakeLock(m) PROVE UNCHANGED Turns!turnVars
  <2>1. /\ stage[m] = "locking" /\ stage'[m] = "permit"
        /\ UNCHANGED <<kind, keyOf, arrival, arrivals>>
        /\ \A n \in Calls \ {m} : stage'[n] = stage[n]
    BY <1>0, <1>7 DEF TakeLock, GoTo, Grant, TypeOK
  <2>2. \A n \in Calls : Place(n)' = Place(n)
    BY <2>1 DEF Place
  <2> QED BY <2>1, <2>2, PlacesKept
<1>8. ASSUME NEW m \in Calls, HandleStep(m), ~TakeLock(m), ~Enter(m), ~Leave(m)
      PROVE  UNCHANGED Turns!turnVars
  <2>1. PICK from, to : /\ GoTo(m, from, to) /\ from \in Critical /\ to \in Critical
                        /\ UNCHANGED <<kind, keyOf, arrival, arrivals>>
    BY <1>8 DEF HandleStep, AnswerOnly, LoadEpoch, ResetEpoch, PersistEpoch,
                LoadHistory, StartReply, Dispatch, Throw, StopStreaming, Critical, mutexVars
  <2>2. /\ stage[m] = from /\ stage'[m] = to
        /\ \A n \in Calls \ {m} : stage'[n] = stage[n]
    BY <1>0, <2>1 DEF GoTo, TypeOK
  <2>3. \A n \in Calls : Place(n)' = Place(n)
    BY <2>1, <2>2 DEF Place, Critical
  <2> QED BY <2>1, <2>3, PlacesKept
<1>9. ASSUME NEW m \in Calls, RunStep(m) \/ Signal(m) PROVE UNCHANGED Turns!turnVars
  BY <1>5, <1>9 DEF RunStep, Signal, serviceVars, mutexVars
<1>10. ASSUME NEW k \in Keys, ArchiveRead(k) \/ ArchiveWrite(k)
       PROVE  UNCHANGED Turns!turnVars
  BY <1>5, <1>10 DEF ArchiveRead, ArchiveWrite, mutexVars
<1>11. CASE Rest \/ UNCHANGED vars
  BY <1>5, <1>11 DEF Rest, vars, serviceVars, mutexVars
<1> QED
  BY <1>1, <1>2, <1>3, <1>4, <1>6, <1>7, <1>8, <1>9, <1>10, <1>11 DEF Next, HandleStep

(* The conversation layer implements TurnTaking, for any set of messages   *)
(* and conversations and any limit: handle() gives the messages of a       *)
(* conversation their turns serially and in the order they came in, and    *)
(* never more than Limit turns at a time.                                  *)
THEOREM RefinesTurnTaking == Spec => TurnsAreSerial
<1>1. Init => Turns!TurnInit
  <2>1. Init => \A n \in Calls : Place(n) = "away"
    BY DEF Init, Place
  <2> QED BY <2>1 DEF Init, MutexInit, Turns!TurnInit
<1> QED
  BY <1>1, TurnSimulation, ServiceInvariance, PTL
     DEF Spec, TurnsAreSerial, Turns!TurnSpec


-----------------------------------------------------------------------------
(* What a /new has cut off.  The cached epoch is what a turn reads, and a  *)
(* persisted one only once the cache is gone: a reset that was answered is *)
(* kept by the cache as long as the process lives (CachedInv), and by the  *)
(* store over a restart if writes to it succeed and nobody writes an old   *)
(* copy of the thread back (DurableInv).                                   *)
CachedInv == \A k \in Keys : epochs[k] = None => acked[k] = 0

DurableInv == \A k \in Keys : snapshot[k] = None /\ acked[k] <= stored[k]

(* No conversation can be read at an epoch before its last answered reset. *)
ReadInv == \A k \in Keys : \A e \in EpochRead(k) : acked[k] <= e

ResetInv ==
    /\ ServiceInv
    /\ ReadInv
    /\ MaxCrashes = 0 => CachedInv
    /\ StoreMayFail = FALSE /\ MaxArchives = 0 => DurableInv
    /\ AckedResetIsKept

(* The conditions under which the epoch outlives what may happen to it. *)
ResetsAreSafe == MaxCrashes = 0 \/ (StoreMayFail = FALSE /\ MaxArchives = 0)

(* An epoch that is cached is the one that is read. *)
LEMMA ReadFromCache ==
    ASSUME NEW k \in Keys, epochs[k] # None PROVE EpochRead(k) = {epochs[k]}
BY DEF EpochRead

LEMMA EpochsAreNumbers == \A e \in Epochs : e \in Nat /\ e # None
BY PersistenceAssumption DEF Epochs

(* A step that touches no epoch and brings no turn into its history. *)
LEMMA ResetKeptElsewhere ==
    ASSUME ResetInv, ServiceInv',
           UNCHANGED <<epochs, stored, acked, snapshot>>,
           \A m \in Calls :
              stage'[m] \in {"history", "ready", "starting", "streaming"} =>
                  /\ stage[m] \in {"history", "ready", "starting", "streaming"}
                  /\ keyOf'[m] = keyOf[m] /\ thread'[m] = thread[m] /\ kind'[m] = kind[m]
    PROVE  ResetInv'
<1>1. \A k \in Keys : EpochRead(k)' = EpochRead(k)
  BY DEF EpochRead
<1>2. ReadInv' /\ (CachedInv => CachedInv') /\ (DurableInv => DurableInv')
  BY <1>1 DEF ReadInv, CachedInv, DurableInv, ResetInv
<1>3. AckedResetIsKept'
  BY DEF ResetInv, AckedResetIsKept
<1> QED BY <1>2, <1>3 DEF ResetInv

LEMMA LoadEpochReset ==
    ASSUME ResetInv, ServiceInv', NEW m \in Calls, LoadEpoch(m)
    PROVE  ResetInv'
<1>1. keyOf[m] \in Keys /\ stage[m] = "entered"
  BY KeyKnown DEF LoadEpoch, GoTo, Critical, ResetInv, ServiceInv
<1>2. PICK e \in EpochRead(keyOf[m]) : /\ epochs' = [epochs EXCEPT ![keyOf[m]] = e]
                                       /\ thread' = [thread EXCEPT ![m] = <<keyOf[m], e>>]
  BY DEF LoadEpoch
<1>3. /\ TypeOK /\ ServiceTypeOK /\ e \in Nat /\ e # None
  BY <1>1, <1>2, EpochTyped, EpochsAreNumbers, TypeParts DEF ResetInv, ServiceInv
<1>4. /\ UNCHANGED <<stored, acked, snapshot, keyOf, kind>>
      /\ stage'[m] = "history" /\ \A n \in Calls \ {m} : stage'[n] = stage[n]
      /\ epochs'[keyOf[m]] = e
      /\ \A k \in Keys \ {keyOf[m]} : epochs'[k] = epochs[k]
      /\ thread'[m] = <<keyOf[m], e>> /\ \A n \in Calls \ {m} : thread'[n] = thread[n]
  BY <1>1, <1>2, <1>3 DEF LoadEpoch, GoTo, mutexVars, TypeOK, PersistenceTypeOK
<1>5. acked[keyOf[m]] <= e
  BY <1>1, <1>2 DEF ResetInv, ReadInv
<1>6. ReadInv'
  <2>1. ASSUME NEW k \in Keys \ {keyOf[m]} PROVE \A f \in EpochRead(k)' : acked'[k] <= f
    BY <1>4 DEF ResetInv, ReadInv, EpochRead
  <2>2. \A f \in EpochRead(keyOf[m])' : acked'[keyOf[m]] <= f
    <3>1. EpochRead(keyOf[m])' = {e}
      BY <1>3, <1>4 DEF EpochRead
    <3> QED BY <1>4, <1>5, <3>1
  <2> QED BY <1>4, <2>1, <2>2 DEF ReadInv
<1>7. (CachedInv => CachedInv') /\ (DurableInv => DurableInv')
  BY <1>3, <1>4 DEF CachedInv, DurableInv
<1>8. AckedResetIsKept'
  <2>1. thread'[m][2] >= acked'[keyOf'[m]]
    <3>1. acked[keyOf[m]] \in Nat
      BY <1>1, <1>3, EpochsAreNumbers DEF ServiceTypeOK
    <3> QED BY <1>3, <1>4, <1>5, <3>1
  <2> QED BY <1>4, <2>1 DEF ResetInv, AckedResetIsKept
<1> QED BY <1>6, <1>7, <1>8 DEF ResetInv

LEMMA ResetEpochReset ==
    ASSUME ResetInv, ServiceInv', NEW m \in Calls, ResetEpoch(m)
    PROVE  ResetInv'
<1>1. keyOf[m] \in Keys /\ stage[m] = "entered"
  BY KeyKnown DEF ResetEpoch, GoTo, Critical, ResetInv, ServiceInv
<1>2. PICK e \in EpochRead(keyOf[m]) : /\ e < MaxEpoch
                                       /\ epochs' = [epochs EXCEPT ![keyOf[m]] = e + 1]
  BY DEF ResetEpoch
<1>3. /\ TypeOK /\ ServiceTypeOK /\ e \in Nat
      /\ e + 1 \in Epochs
  BY <1>1, <1>2, EpochTyped, PersistenceAssumption, TypeParts
     DEF ResetInv, ServiceInv, Epochs
<1>4. e + 1 # None
  BY <1>3, EpochsAreNumbers
<1>5. /\ UNCHANGED <<stored, acked, snapshot, keyOf, kind, thread>>
      /\ stage'[m] = "resetting" /\ \A n \in Calls \ {m} : stage'[n] = stage[n]
      /\ epochs'[keyOf[m]] = e + 1
      /\ \A k \in Keys \ {keyOf[m]} : epochs'[k] = epochs[k]
  BY <1>1, <1>2, <1>3 DEF ResetEpoch, GoTo, mutexVars, persistenceVars, TypeOK
<1>6. acked[keyOf[m]] <= e /\ acked[keyOf[m]] \in Nat
  BY <1>1, <1>2, <1>3, EpochsAreNumbers DEF ResetInv, ReadInv, ServiceTypeOK
<1>7. ReadInv'
  <2>1. ASSUME NEW k \in Keys \ {keyOf[m]} PROVE \A f \in EpochRead(k)' : acked'[k] <= f
    BY <1>5 DEF ResetInv, ReadInv, EpochRead
  <2>2. \A f \in EpochRead(keyOf[m])' : acked'[keyOf[m]] <= f
    <3>1. EpochRead(keyOf[m])' = {e + 1}
      BY <1>4, <1>5 DEF EpochRead
    <3>2. acked[keyOf[m]] <= e + 1
      BY <1>3, <1>6
    <3> QED BY <1>5, <3>1, <3>2
  <2> QED BY <1>5, <2>1, <2>2 DEF ReadInv
<1>8. (CachedInv => CachedInv') /\ (DurableInv => DurableInv')
  BY <1>4, <1>5 DEF CachedInv, DurableInv
<1>9. AckedResetIsKept'
  BY <1>5 DEF ResetInv, AckedResetIsKept
<1> QED BY <1>7, <1>8, <1>9 DEF ResetInv

(* The reset is answered while no turn of its conversation is inside. *)
LEMMA PersistEpochReset ==
    ASSUME ResetInv, ServiceInv', NEW m \in Calls, PersistEpoch(m)
    PROVE  ResetInv'
<1> DEFINE k == keyOf[m]
           e == epochs[keyOf[m]]
<1>1. k \in Keys /\ stage[m] = "resetting"
  BY KeyKnown DEF PersistEpoch, GoTo, Critical, ResetInv, ServiceInv
<1>2. e \in Epochs /\ e # None /\ e \in Nat /\ TypeOK /\ ServiceTypeOK
  BY <1>1, EpochsAreNumbers, TypeParts DEF ThreadsKnown, ResetInv, ServiceInv
<1>3. /\ UNCHANGED <<epochs, snapshot, keyOf, kind, thread>>
      /\ stage'[m] = "leaving" /\ \A n \in Calls \ {m} : stage'[n] = stage[n]
      /\ acked'[k] = e /\ \A j \in Keys \ {k} : acked'[j] = acked[j]
      /\ \A j \in Keys \ {k} : stored'[j] = stored[j]
      /\ StoreMayFail = FALSE => stored'[k] = e
  BY <1>1, <1>2 DEF PersistEpoch, GoTo, mutexVars, persistenceVars, ServiceTypeOK
<1>4. ReadInv'
  <2>1. ASSUME NEW j \in Keys \ {k} PROVE \A f \in EpochRead(j)' : acked'[j] <= f
    BY <1>3 DEF ResetInv, ReadInv, EpochRead
  <2>2. EpochRead(k)' = {e}
    BY <1>2, <1>3 DEF EpochRead
  <2>3. \A f \in EpochRead(k)' : acked'[k] <= f
    BY <1>2, <1>3, <2>2
  <2> QED BY <1>3, <2>1, <2>3 DEF ReadInv
<1>5. CachedInv => CachedInv'
  BY <1>2, <1>3 DEF CachedInv
<1>6. StoreMayFail = FALSE /\ DurableInv => DurableInv'
  BY <1>2, <1>3 DEF DurableInv
<1>7. ASSUME NEW n \in Calls, kind'[n] = "turn",
             stage'[n] \in {"history", "ready", "starting", "streaming"}
      PROVE  thread'[n][2] >= acked'[keyOf'[n]]
  <2>1. n # m /\ stage[n] = stage'[n]
    BY <1>3, <1>7
  <2>2. keyOf[n] \in Keys /\ keyOf[n] # k
    BY <1>1, <1>7, <2>1, KeyKnown, OneInside DEF Critical, ResetInv, ServiceInv
  <2>3. thread[n][2] >= acked[keyOf[n]]
    BY <1>3, <1>7, <2>1 DEF ResetInv, AckedResetIsKept
  <2> QED BY <1>3, <2>2, <2>3
<1>8. AckedResetIsKept'
  BY <1>7 DEF AckedResetIsKept
<1> QED BY <1>4, <1>5, <1>6, <1>8 DEF ResetInv

(* A status change writes an old epoch back, which nobody reads unless the *)
(* process restarts.                                                       *)
LEMMA ArchiveReset ==
    ASSUME ResetsAreSafe, ResetInv, ServiceInv', NEW k \in Keys,
           ArchiveRead(k) \/ ArchiveWrite(k)
    PROVE  ResetInv'
<1>1. TypeOK /\ ServiceTypeOK
  BY TypeParts DEF ResetInv, ServiceInv
<1>2. ~(StoreMayFail = FALSE /\ MaxArchives = 0)
  BY <1>1, ConversationAssumption
     DEF ArchiveRead, ArchiveWrite, ResetInv, DurableInv, ServiceTypeOK
<1>3. CachedInv /\ ReadInv
  BY <1>2 DEF ResetsAreSafe, ResetInv
<1>4. UNCHANGED <<epochs, acked, stage, keyOf, thread, kind>>
  BY DEF ArchiveRead, ArchiveWrite, mutexVars, persistenceVars
<1>5. stored' \in [Keys -> Epochs]
  BY TypeParts DEF ServiceInv, TypeOK
<1>6. CachedInv'
  BY <1>3, <1>4 DEF CachedInv
<1>7. ASSUME NEW j \in Keys, NEW f \in EpochRead(j)' PROVE acked'[j] <= f
  <2>1. CASE epochs[j] = None
    <3>1. acked[j] = 0 /\ f \in Nat
      BY <1>3, <1>4, <1>5, <1>7, <2>1, EpochsAreNumbers DEF CachedInv, EpochRead
    <3> QED BY <1>4, <3>1
  <2>2. CASE epochs[j] # None
    BY <1>3, <1>4, <1>7, <2>2 DEF ReadInv, EpochRead
  <2> QED BY <2>1, <2>2
<1>8. ReadInv'
  BY <1>7 DEF ReadInv
<1>9. AckedResetIsKept'
  BY <1>4 DEF ResetInv, AckedResetIsKept
<1> QED BY <1>2, <1>6, <1>8, <1>9 DEF ResetInv

LEMMA CrashReset ==
    ASSUME ResetsAreSafe, ResetInv, ServiceInv', Crash
    PROVE  ResetInv'
<1>1. TypeOK /\ ServiceTypeOK
  BY TypeParts DEF ResetInv, ServiceInv
<1>2. MaxCrashes # 0
  BY <1>1, ConversationAssumption DEF Crash, ServiceTypeOK
<1>3. DurableInv /\ StoreMayFail = FALSE
  BY <1>2 DEF ResetsAreSafe, ResetInv
<1>4. UNCHANGED <<stored, acked, snapshot>> /\ \A k \in Keys : epochs'[k] = None
  BY DEF Crash
<1>5. DurableInv' /\ ReadInv'
  BY <1>3, <1>4 DEF DurableInv, ReadInv, EpochRead
<1>6. \A n \in Calls : stage'[n] \in {"idle", "done", "lost"}
  BY <1>1 DEF Crash, ServiceTypeOK
<1>7. AckedResetIsKept'
  BY <1>6 DEF AckedResetIsKept
<1> QED BY <1>2, <1>5, <1>7 DEF ResetInv

LEMMA ResetStep == ResetsAreSafe /\ ResetInv /\ [Next]_vars => ResetInv'
<1> SUFFICES ASSUME ResetsAreSafe, ResetInv, [Next]_vars PROVE ResetInv'
  OBVIOUS
<1>0. ServiceInv' /\ TypeOK /\ ServiceTypeOK /\ MutexTypeOK /\ PersistenceTypeOK
  BY ServiceStep, TypeParts DEF ResetInv, ServiceInv
<1> DEFINE InHistory == {"history", "ready", "starting", "streaming"}
<1>1. ASSUME NEW m \in Calls, NEW from, NEW to, GoTo(m, from, to),
             to \in InHistory => from \in InHistory,
             UNCHANGED <<epochs, stored, acked, snapshot, thread, keyOf, kind>>
      PROVE  ResetInv'
  <2>1. stage[m] = from /\ stage'[m] = to /\ \A n \in Calls \ {m} : stage'[n] = stage[n]
    BY <1>0, <1>1 DEF GoTo, ServiceTypeOK
  <2> QED BY <1>0, <1>1, <2>1, ResetKeptElsewhere
<1>2. ASSUME UNCHANGED <<epochs, stored, acked, snapshot, thread, keyOf, kind, stage>>
      PROVE  ResetInv'
  BY <1>0, <1>2, ResetKeptElsewhere
<1>3. ASSUME NEW m \in Calls, NEW k \in Keys, Arrive(m, k) PROVE ResetInv'
  <2>1. /\ stage'[m] = "locking"
        /\ \A n \in Calls \ {m} :
              stage'[n] = stage[n] /\ keyOf'[n] = keyOf[n] /\ kind'[n] = kind[n]
        /\ UNCHANGED <<epochs, stored, acked, snapshot, thread>>
    BY <1>0, <1>3 DEF Arrive, GoTo, Enqueue, persistenceVars, ServiceTypeOK, MutexTypeOK
  <2> QED BY <1>0, <2>1, ResetKeptElsewhere
<1>4. ASSUME NEW m \in Calls, NEW k \in Keys, Stop(m, k) PROVE ResetInv'
  <2>1. /\ stage'[m] = "done"
        /\ \A n \in Calls \ {m} : stage'[n] = stage[n] /\ kind'[n] = kind[n]
        /\ UNCHANGED <<epochs, stored, acked, snapshot, thread, keyOf>>
    BY <1>0, <1>4 DEF Stop, GoTo, persistenceVars, mutexVars, ServiceTypeOK
  <2> QED BY <1>0, <2>1, ResetKeptElsewhere
<1>5. ASSUME NEW m \in Calls, TakeLock(m) \/ Enter(m) \/ AnswerOnly(m) \/ LoadHistory(m)
                              \/ Throw(m) \/ StopStreaming(m) \/ Leave(m)
      PROVE  ResetInv'
  BY <1>1, <1>5 DEF TakeLock, Grant, Enter, AnswerOnly, LoadHistory, Throw, StopStreaming,
                    Leave, Release, mutexVars, persistenceVars
<1>6. ASSUME NEW m \in Calls, StartReply(m) \/ Dispatch(m) PROVE ResetInv'
  BY <1>1, <1>6 DEF StartReply, ReadLeaf, Dispatch, BeginReply, mutexVars
<1>7. ASSUME NEW m \in Calls, RunStep(m) PROVE ResetInv'
  BY <1>2, <1>7 DEF RunStep, RefreshHistory, Recall, BridgeStep, EnterSpace, ExitSpace,
                    FinishRun, EndReply, mutexVars
<1>8. ASSUME NEW m \in Calls, Signal(m) PROVE ResetInv'
  BY <1>2, <1>8 DEF Signal, mutexVars, persistenceVars
<1>9. ASSUME NEW m \in Calls, LoadEpoch(m) \/ ResetEpoch(m) \/ PersistEpoch(m)
      PROVE  ResetInv'
  BY <1>0, <1>9, LoadEpochReset, ResetEpochReset, PersistEpochReset
<1>10. ASSUME NEW k \in Keys, ArchiveRead(k) \/ ArchiveWrite(k) PROVE ResetInv'
  BY <1>0, <1>10, ArchiveReset
<1>11. CASE Crash
  BY <1>0, <1>11, CrashReset
<1>12. CASE Rest \/ UNCHANGED vars
  BY <1>2, <1>12 DEF Rest, vars, serviceVars, mutexVars, persistenceVars
<1> QED
  BY <1>3, <1>4, <1>5, <1>6, <1>7, <1>8, <1>9, <1>10, <1>11, <1>12 DEF Next, HandleStep

(* A /new that was answered stays in force, for every later turn, in two   *)
(* cases: while the process lives, whatever fails in the store and whoever *)
(* overwrites the thread; and over any restarts, if the store's writes     *)
(* succeed and no status change writes an old copy of the thread back.     *)
(* Outside both, the run conv_reset_lost has the counterexample.           *)
THEOREM ResetKeptHolds ==
    ASSUME MaxCrashes = 0 \/ (StoreMayFail = FALSE /\ MaxArchives = 0)
    PROVE  Spec => []AckedResetIsKept
<1>1. ResetsAreSafe
  BY DEF ResetsAreSafe
<1>2. Init => ResetInv
  <2> SUFFICES ASSUME Init PROVE ResetInv
    OBVIOUS
  <2>1. ServiceInv
    BY InitInv
  <2>2. ReadInv /\ CachedInv /\ DurableInv
    BY DEF Init, ReadInv, CachedInv, DurableInv, EpochRead
  <2>3. AckedResetIsKept
    BY DEF Init, AckedResetIsKept
  <2> QED BY <2>1, <2>2, <2>3 DEF ResetInv
<1>3. ResetInv /\ [Next]_vars => ResetInv'
  BY <1>1, ResetStep
<1>4. ResetInv => AckedResetIsKept
  BY DEF ResetInv
<1> QED BY <1>2, <1>3, <1>4, PTL DEF Spec


-----------------------------------------------------------------------------
(* What later turns read.  When nobody aborts, a run ends before its call  *)
(* leaves the critical section, whatever becomes of the store, the engines *)
(* and the process: the history of a thread has one writer at a time, and  *)
(* that writer appends where the branch ends.                              *)
NobodyAborts == MaySignal = FALSE /\ "stop" \notin Kinds

OnThread == {"history", "ready", "starting", "streaming"}
OpenRun == {"dispatched", "recalled", "inspace", "exited"}

(* A run that may still write is streamed to its call. *)
AttendedRun(m) ==
    /\ stage[m] \in OnThread => thread[m][1] = keyOf[m]
    /\ run[m] # "none" => stage[m] \in {"streaming", "leaving", "done", "lost"}
    /\ run[m] \in OpenRun => stage[m] = "streaming"

(* Its next entry goes under the leaf, if its bridge records it at all.    *)
CurrentWriter(m) ==
    /\ stage[m] = "starting" => leafRead[m] = branch[thread[m]]
    /\ run[m] \in {"dispatched", "recalled", "inspace"} /\ active[EngineOf(m)] # None =>
          parent[EngineOf(m)] = branch[thread[m]]

(* Its history has every entry that others wrote on its thread. *)
KnowsOthers(m) ==
    stage[m] \in {"ready", "starting", "streaming"} =>
        \A entry \in rows :
            thread[entry[1]] = thread[m] /\ entry[1] # m => InBranch(entry, hist[m])

(* Every entry written is on the branch of its turn's thread. *)
RowsAreOnBranch ==
    \A entry \in rows :
        run[entry[1]] # "none" /\ InBranch(entry, branch[thread[entry[1]]])

HistoryInv ==
    /\ ServiceInv
    /\ aborted = {}
    /\ \A m \in Calls : AttendedRun(m) /\ CurrentWriter(m) /\ KnowsOthers(m)
    /\ RowsAreOnBranch

(* What the parts above say of a call is said in terms of its own state,   *)
(* its thread's branch and its engine's bridge.                            *)
Own(m) == <<stage[m], keyOf[m], thread[m], run[m], leafRead[m], hist[m]>>

(* A step of m writes only on the thread m is on, and does nothing to the  *)
(* bridges of other engines but to make them inactive.                     *)
WritesOwn(m) ==
    /\ \A n \in Calls \ {m} : UNCHANGED Own(n)
    /\ stage[m] \in OnThread \/ run[m] # "none" => thread'[m] = thread[m]
    /\ \A t \in Threads : branch'[t] = branch[t] \/ (stage[m] \in OnThread /\ t = thread[m])
    /\ \A entry \in rows' : entry \in rows \/ (stage[m] \in OnThread /\ entry[1] = m)
    /\ \A e \in Engines : \/ active'[e] = None
                          \/ active'[e] = active[e] /\ parent'[e] = parent[e]
                          \/ stage[m] \in OnThread /\ e = EngineOf(m)

LEMMA RowsKnown ==
    ASSUME HistoryInv, NEW entry \in rows
    PROVE  /\ entry \in Entries /\ entry[1] \in Calls
           /\ run[entry[1]] # "none" /\ thread[entry[1]] \in Threads
<1>1. entry \in Entries
  BY DEF HistoryInv, ServiceInv, TypeOK, PersistenceTypeOK
<1>2. entry[1] \in Calls
  BY <1>1 DEF Entries
<1> QED BY <1>1, <1>2 DEF HistoryInv, RowsAreOnBranch, ServiceInv, ThreadsKnown

(* Of the calls on a thread only one is past the lock. *)
LEMMA OneOnThread ==
    ASSUME HistoryInv, NEW m \in Calls, NEW n \in Calls, thread[m] = thread[n],
           stage[m] \in OnThread, stage[n] \in OnThread
    PROVE  m = n
BY OneInside DEF HistoryInv, AttendedRun, OnThread, Critical

LEMMA InAppended ==
    ASSUME NEW path \in Seq(Entries), NEW new \in Entries
    PROVE  /\ InBranch(new, Append(path, new))
           /\ \A entry : InBranch(entry, path) => InBranch(entry, Append(path, new))
<1>1. /\ Len(Append(path, new)) = Len(path) + 1 /\ Len(path) \in Nat
      /\ Append(path, new)[Len(path) + 1] = new
      /\ \A i \in 1..Len(path) : Append(path, new)[i] = path[i]
  OBVIOUS
<1>2. Len(path) + 1 \in 1..Len(path) + 1 /\ \A i \in 1..Len(path) : i \in 1..Len(path) + 1
  BY <1>1
<1>3. InBranch(new, Append(path, new))
  BY <1>1, <1>2 DEF InBranch
<1>4. ASSUME NEW entry, InBranch(entry, path) PROVE InBranch(entry, Append(path, new))
  <2>1. PICK i \in 1..Len(path) : path[i] = entry
    BY <1>4 DEF InBranch
  <2> QED BY <1>1, <1>2, <2>1 DEF InBranch
<1> QED BY <1>3, <1>4

(* What is said of the other calls stays true. *)
LEMMA OthersKept ==
    ASSUME HistoryInv, NEW m \in Calls, NEW n \in Calls \ {m}, WritesOwn(m)
    PROVE  AttendedRun(n)' /\ CurrentWriter(n)' /\ KnowsOthers(n)'
<1>1. AttendedRun(n) /\ CurrentWriter(n) /\ KnowsOthers(n) /\ UNCHANGED Own(n)
  BY DEF HistoryInv, WritesOwn
<1>2. AttendedRun(n)'
  BY <1>1 DEF AttendedRun, Own
<1>3. ASSUME stage[n] \in OnThread PROVE branch'[thread[n]] = branch[thread[n]]
  <2>1. thread[n] \in Threads
    BY <1>3 DEF HistoryInv, ServiceInv, ThreadsKnown, OnThread
  <2> QED BY <1>3, <2>1, OneOnThread DEF WritesOwn
<1>4. run[n] \in OpenRun \/ stage[n] = "starting" => stage[n] \in OnThread
  BY <1>1 DEF AttendedRun, OnThread
<1>5. ASSUME stage[n] \in OnThread, active'[EngineOf(n)] # None
      PROVE  /\ active'[EngineOf(n)] = active[EngineOf(n)]
             /\ parent'[EngineOf(n)] = parent[EngineOf(n)]
  <2>1. thread[n] \in Threads
    BY <1>5 DEF HistoryInv, ServiceInv, ThreadsKnown, OnThread
  <2>2. EngineOf(n) \in Engines
    BY <2>1, EngineKnown DEF HistoryInv, ServiceInv, TypeOK
  <2>3. stage[m] \in OnThread => EngineOf(m) # EngineOf(n)
    BY <1>5, OneOnThread DEF EngineOf
  <2> QED BY <1>5, <2>2, <2>3 DEF WritesOwn
<1>6. CurrentWriter(n)'
  <2>1. thread'[n] = thread[n] /\ run'[n] = run[n] /\ stage'[n] = stage[n]
        /\ leafRead'[n] = leafRead[n]
    BY <1>1 DEF Own
  <2>2. EngineOf(n)' = EngineOf(n)
    BY <2>1 DEF EngineOf
  <2> QED BY <1>1, <1>3, <1>4, <1>5, <2>1, <2>2 DEF CurrentWriter, OpenRun
<1>7. KnowsOthers(n)'
  <2> SUFFICES ASSUME stage'[n] \in {"ready", "starting", "streaming"}, NEW entry \in rows',
                      thread'[entry[1]] = thread'[n], entry[1] # n
               PROVE  InBranch(entry, hist'[n])
    BY DEF KnowsOthers, InBranch
  <2>1. /\ stage[n] \in {"ready", "starting", "streaming"} /\ thread'[n] = thread[n]
        /\ hist'[n] = hist[n] /\ stage[n] \in OnThread
    BY <1>1 DEF Own, OnThread
  <2>2. CASE entry \in rows
    <3>1. entry[1] \in Calls /\ run[entry[1]] # "none"
      BY <2>2, RowsKnown
    <3>2. thread'[entry[1]] = thread[entry[1]]
      BY <3>1 DEF WritesOwn, Own
    <3> QED BY <1>1, <2>1, <2>2, <3>2 DEF KnowsOthers
  <2>3. CASE stage[m] \in OnThread /\ entry[1] = m
    BY <2>1, <2>3, OneOnThread DEF WritesOwn
  <2> QED BY <2>2, <2>3 DEF WritesOwn
<1> QED BY <1>2, <1>6, <1>7

LEMMA HistoryStepOf ==
    ASSUME HistoryInv, ServiceInv', NEW m \in Calls, UNCHANGED aborted, WritesOwn(m),
           AttendedRun(m)', CurrentWriter(m)', KnowsOthers(m)', RowsAreOnBranch'
    PROVE  HistoryInv'
<1>1. \A n \in Calls \ {m} : AttendedRun(n)' /\ CurrentWriter(n)' /\ KnowsOthers(n)'
  BY OthersKept
<1> QED BY <1>1 DEF HistoryInv

(* No row is written, none loses its branch. *)
LEMMA RowsKept ==
    ASSUME HistoryInv, UNCHANGED <<rows, branch>>,
           \A n \in Calls : run[n] # "none" => thread'[n] = thread[n] /\ run'[n] # "none"
    PROVE  RowsAreOnBranch'
BY RowsKnown DEF HistoryInv, RowsAreOnBranch, InBranch

(* What m knows it keeps, while nobody else writes. *)
LEMMA KnowledgeKept ==
    ASSUME HistoryInv, NEW m \in Calls,
           stage[m] \in {"ready", "starting", "streaming"},
           hist'[m] = hist[m] \/ hist'[m] = branch[thread[m]],
           \A n \in Calls : run[n] # "none" \/ n = m => thread'[n] = thread[n],
           \A entry \in rows' : entry \in rows \/ entry[1] = m
    PROVE  KnowsOthers(m)'
<1> SUFFICES ASSUME NEW entry \in rows', thread'[entry[1]] = thread'[m], entry[1] # m
             PROVE  InBranch(entry, hist'[m])
  BY DEF KnowsOthers, InBranch
<1>1. entry \in rows
  OBVIOUS
<1>2. entry[1] \in Calls /\ run[entry[1]] # "none" /\ InBranch(entry, branch[thread[entry[1]]])
  BY <1>1, RowsKnown DEF HistoryInv, RowsAreOnBranch
<1>3. thread[entry[1]] = thread[m]
  BY <1>2
<1>4. InBranch(entry, hist[m])
  BY <1>1, <1>3 DEF HistoryInv, KnowsOthers
<1> QED BY <1>2, <1>3, <1>4

(* A move of handle() that touches no history, no row and no bridge. *)
LEMMA HistoryMove ==
    ASSUME HistoryInv, ServiceInv', NEW m \in Calls,
           UNCHANGED <<branch, rows, aborted, thread, run, leafRead, hist, active, parent>>,
           \A n \in Calls \ {m} : stage'[n] = stage[n] /\ keyOf'[n] = keyOf[n],
           stage'[m] \notin OnThread, run[m] \notin OpenRun,
           run[m] # "none" => stage'[m] \in {"leaving", "done", "lost"}
    PROVE  HistoryInv'
<1>1. AttendedRun(m)' /\ CurrentWriter(m)' /\ KnowsOthers(m)'
  BY DEF AttendedRun, CurrentWriter, KnowsOthers, OnThread, OpenRun
<1>2. RowsAreOnBranch'
  BY RowsKept
<1>3. WritesOwn(m)
  BY DEF WritesOwn, Own
<1> QED BY <1>1, <1>2, <1>3, HistoryStepOf

(* A turn that takes its thread has no run yet. *)
LEMMA LoadEpochHistory ==
    ASSUME HistoryInv, ServiceInv', NEW m \in Calls, LoadEpoch(m)
    PROVE  HistoryInv'
<1>1. /\ TypeOK /\ AttendedRun(m) /\ stage[m] = "entered"
      /\ stage'[m] = "history" /\ \A n \in Calls \ {m} : stage'[n] = stage[n]
  BY DEF HistoryInv, ServiceInv, LoadEpoch, GoTo, TypeOK
<1>2. run[m] = "none"
  BY <1>1 DEF AttendedRun
<1>3. PICK e \in EpochRead(keyOf[m]) : thread' = [thread EXCEPT ![m] = <<keyOf[m], e>>]
  BY DEF LoadEpoch
<1>4. thread'[m][1] = keyOf[m] /\ \A n \in Calls \ {m} : thread'[n] = thread[n]
  BY <1>1, <1>3 DEF TypeOK, PersistenceTypeOK
<1>5. UNCHANGED <<branch, rows, aborted, run, leafRead, hist, active, parent, keyOf>>
  BY DEF LoadEpoch, mutexVars
<1>6. AttendedRun(m)' /\ CurrentWriter(m)' /\ KnowsOthers(m)'
  BY <1>1, <1>2, <1>4, <1>5 DEF AttendedRun, CurrentWriter, KnowsOthers, OpenRun
<1>7. RowsAreOnBranch'
  BY <1>2, <1>4, <1>5, RowsKept
<1>8. WritesOwn(m)
  BY <1>1, <1>2, <1>4, <1>5 DEF WritesOwn, Own, OnThread
<1> QED BY <1>5, <1>6, <1>7, <1>8, HistoryStepOf

(* The branch that is read has all that was written on the thread. *)
LEMMA LoadHistoryHistory ==
    ASSUME HistoryInv, ServiceInv', NEW m \in Calls, LoadHistory(m)
    PROVE  HistoryInv'
<1>1. TypeOK /\ AttendedRun(m) /\ stage[m] = "history"
  BY DEF HistoryInv, ServiceInv, LoadHistory, GoTo
<1>2. stage'[m] = "ready" /\ \A n \in Calls \ {m} : stage'[n] = stage[n]
  BY <1>1 DEF LoadHistory, GoTo, TypeOK
<1>3. run[m] = "none"
  BY <1>1 DEF AttendedRun
<1>4. UNCHANGED <<branch, rows, aborted, thread, run, leafRead, active, parent, keyOf>>
  BY DEF LoadHistory, mutexVars, persistenceVars
<1>5. hist'[m] = branch[thread[m]] /\ \A n \in Calls \ {m} : hist'[n] = hist[n]
  BY <1>1 DEF LoadHistory, TypeOK
<1>6. AttendedRun(m)' /\ CurrentWriter(m)'
  BY <1>1, <1>2, <1>3, <1>4 DEF AttendedRun, CurrentWriter, OnThread, OpenRun
<1>7. KnowsOthers(m)'
  <2> SUFFICES ASSUME NEW entry \in rows, thread[entry[1]] = thread[m]
               PROVE  InBranch(entry, branch[thread[m]])
    BY <1>4, <1>5 DEF KnowsOthers
  <2> QED BY DEF HistoryInv, RowsAreOnBranch
<1>8. RowsAreOnBranch'
  BY <1>4, RowsKept
<1>9. WritesOwn(m)
  BY <1>2, <1>4, <1>5 DEF WritesOwn, Own
<1> QED BY <1>4, <1>6, <1>7, <1>8, <1>9, HistoryStepOf

(* The leaf is read where the branch ends. *)
LEMMA StartReplyHistory ==
    ASSUME HistoryInv, ServiceInv', NEW m \in Calls, StartReply(m)
    PROVE  HistoryInv'
<1>1. TypeOK /\ AttendedRun(m) /\ stage[m] = "ready"
  BY DEF HistoryInv, ServiceInv, StartReply, GoTo
<1>2. stage'[m] = "starting" /\ \A n \in Calls \ {m} : stage'[n] = stage[n]
  BY <1>1 DEF StartReply, GoTo, TypeOK
<1>3. run[m] = "none"
  BY <1>1 DEF AttendedRun
<1>4. UNCHANGED <<branch, rows, aborted, thread, run, hist, active, parent, keyOf>>
  BY DEF StartReply, ReadLeaf, mutexVars
<1>5. leafRead'[m] = branch[thread[m]] /\ \A n \in Calls \ {m} : leafRead'[n] = leafRead[n]
  BY <1>1 DEF StartReply, ReadLeaf, TypeOK, PersistenceTypeOK
<1>6. AttendedRun(m)' /\ CurrentWriter(m)'
  BY <1>1, <1>2, <1>3, <1>4, <1>5 DEF AttendedRun, CurrentWriter, OnThread, OpenRun
<1>7. KnowsOthers(m)'
  BY <1>1, <1>4, KnowledgeKept
<1>8. RowsAreOnBranch'
  BY <1>4, RowsKept
<1>9. WritesOwn(m)
  BY <1>2, <1>4, <1>5 DEF WritesOwn, Own
<1> QED BY <1>4, <1>6, <1>7, <1>8, <1>9, HistoryStepOf

(* A row is written at the end of its branch. *)
LEMMA RowsAppended ==
    ASSUME HistoryInv, NEW m \in Calls, thread[m] \in Threads, UNCHANGED thread,
           NEW who \in {"user", "assistant"},
           branch' = [branch EXCEPT ![thread[m]] = Append(branch[thread[m]], <<m, who>>)],
           rows' = rows \cup {<<m, who>>}, run'[m] # "none",
           \A n \in Calls : run[n] # "none" => run'[n] # "none"
    PROVE  RowsAreOnBranch'
<1> DEFINE new == <<m, who>>
<1>1. new \in Entries /\ new[1] = m
  BY DEF Entries
<1>2. branch \in [Threads -> Seq(Entries)]
  BY DEF HistoryInv, ServiceInv, TypeOK, PersistenceTypeOK
<1>3. branch'[thread[m]] = Append(branch[thread[m]], new)
  BY <1>2
<1>4. InBranch(new, branch'[thread[m]])
  BY <1>1, <1>2, <1>3, InAppended
<1>5. ASSUME NEW entry \in rows
      PROVE  run'[entry[1]] # "none" /\ InBranch(entry, branch'[thread'[entry[1]]])
  <2>1. entry[1] \in Calls /\ thread[entry[1]] \in Threads /\ run[entry[1]] # "none"
    BY <1>5, RowsKnown
  <2>2. InBranch(entry, branch[thread[entry[1]]])
    BY <1>5 DEF HistoryInv, RowsAreOnBranch
  <2>3. CASE thread[entry[1]] = thread[m]
    BY <1>1, <1>2, <1>3, <2>1, <2>2, <2>3, InAppended
  <2>4. CASE thread[entry[1]] # thread[m]
    <3>1. branch'[thread[entry[1]]] = branch[thread[entry[1]]]
      BY <1>2, <2>1, <2>4
    <3> QED BY <2>1, <2>2, <3>1
  <2> QED BY <2>3, <2>4
<1>6. \A entry \in rows' :
        run'[entry[1]] # "none" /\ InBranch(entry, branch'[thread'[entry[1]]])
  BY <1>1, <1>4, <1>5
<1> QED BY <1>6 DEF RowsAreOnBranch, InBranch

(* The user's message goes under the leaf that was read: still the leaf.   *)
(* If it cannot be written, the bridge records nothing of the turn.        *)
LEMMA DispatchHistory ==
    ASSUME HistoryInv, ServiceInv', NEW m \in Calls, Dispatch(m)
    PROVE  HistoryInv'
<1> DEFINE t == thread[m]
           e == EngineOf(m)
           path == Append(branch[t], <<m, "user">>)
<1>1. /\ TypeOK /\ AttendedRun(m) /\ CurrentWriter(m) /\ stage[m] = "starting"
      /\ stage'[m] = "streaming" /\ \A n \in Calls \ {m} : stage'[n] = stage[n]
  BY DEF HistoryInv, ServiceInv, Dispatch, GoTo, TypeOK
<1>2. run[m] = "none" /\ leafRead[m] = branch[t] /\ t \in Threads /\ e \in Engines
  <2>1. run[m] = "none" /\ leafRead[m] = branch[t] /\ t \in Threads
    BY <1>1 DEF AttendedRun, CurrentWriter, HistoryInv, ServiceInv, ThreadsKnown
  <2> QED BY <1>1, <2>1, EngineKnown DEF TypeOK
<1>3. /\ run'[m] = "dispatched" /\ \A n \in Calls \ {m} : run'[n] = run[n]
      /\ UNCHANGED <<thread, leafRead, hist, aborted, keyOf>>
  BY <1>1 DEF Dispatch, BeginReply, mutexVars, TypeOK, PersistenceTypeOK
<1>4. AttendedRun(m)'
  BY <1>1, <1>3 DEF AttendedRun, OnThread, OpenRun
<1>5. UNCHANGED EngineOf(m)
  BY <1>3 DEF EngineOf
<1>6. CASE /\ active' = [active EXCEPT ![e] = m]
           /\ AppendUnder(m, branch[t], <<m, "user">>)
  <2>1. /\ branch' = [branch EXCEPT ![t] = path]
        /\ parent' = [parent EXCEPT ![e] = path]
        /\ rows' = rows \cup {<<m, "user">>}
    BY <1>6 DEF AppendUnder
  <2>2. /\ branch'[t] = path /\ parent'[e] = path
        /\ \A u \in Threads : u # t => branch'[u] = branch[u]
        /\ \A f \in Engines : f # e => active'[f] = active[f] /\ parent'[f] = parent[f]
    BY <1>1, <1>2, <1>6, <2>1 DEF TypeOK, PersistenceTypeOK
  <2>3. CurrentWriter(m)'
    BY <1>1, <1>3, <1>5, <2>2 DEF CurrentWriter
  <2>4. KnowsOthers(m)'
    BY <1>1, <1>3, <2>1, KnowledgeKept
  <2>5. RowsAreOnBranch'
    <3>1. run'[m] # "none" /\ \A n \in Calls : run[n] # "none" => run'[n] # "none"
      BY <1>3
    <3> QED BY <1>2, <1>3, <2>1, <3>1, RowsAppended
  <2>6. WritesOwn(m)
    BY SMTT(30), <1>1, <1>3, <2>1, <2>2 DEF WritesOwn, Own, OnThread
  <2> QED BY <1>3, <1>4, <2>3, <2>4, <2>5, <2>6, HistoryStepOf
<1>7. CASE active' = [active EXCEPT ![e] = None] /\ UNCHANGED <<branch, parent, rows>>
  <2>1. active'[e] = None /\ \A f \in Engines : f # e => active'[f] = active[f]
    BY <1>1, <1>2, <1>7 DEF TypeOK, PersistenceTypeOK
  <2>2. CurrentWriter(m)'
    BY <1>1, <1>3, <1>5, <2>1 DEF CurrentWriter
  <2>3. KnowsOthers(m)'
    BY <1>1, <1>3, <1>7, KnowledgeKept
  <2>4. RowsAreOnBranch'
    BY <1>3, <1>7, RowsKept
  <2>5. WritesOwn(m)
    BY <1>1, <1>3, <1>7, <2>1 DEF WritesOwn, Own
  <2> QED BY <1>3, <1>4, <2>2, <2>3, <2>4, <2>5, HistoryStepOf
<1> QED BY <1>2, <1>6, <1>7 DEF Dispatch, BeginReply

(* The run takes the whole branch, or what handle() gave it. *)
LEMMA RecallHistory ==
    ASSUME HistoryInv, ServiceInv', NEW m \in Calls, RunStep(m), RefreshHistory(m)
    PROVE  HistoryInv'
<1>1. /\ TypeOK /\ AttendedRun(m) /\ CurrentWriter(m) /\ run[m] = "dispatched"
      /\ UNCHANGED <<stage, keyOf, aborted>>
  BY DEF HistoryInv, ServiceInv, RefreshHistory, Recall, RunStep, mutexVars
<1>2. /\ run'[m] = "recalled" /\ \A n \in Calls \ {m} : run'[n] = run[n]
      /\ UNCHANGED <<thread, branch, rows, leafRead, active, parent>>
  BY <1>1 DEF RefreshHistory, Recall, TypeOK, PersistenceTypeOK
<1>3. stage[m] = "streaming"
  BY <1>1 DEF AttendedRun, OpenRun
<1>4. /\ hist'[m] = hist[m] \/ hist'[m] = branch[thread[m]]
      /\ \A n \in Calls \ {m} : hist'[n] = hist[n]
  BY <1>1 DEF RefreshHistory, Recalled, TypeOK
<1>5. AttendedRun(m)'
  BY <1>1, <1>2, <1>3 DEF AttendedRun, OpenRun
<1>6. CurrentWriter(m)'
  <2>1. UNCHANGED EngineOf(m)
    BY <1>2 DEF EngineOf
  <2> QED BY <1>1, <1>2, <1>3, <2>1 DEF CurrentWriter
<1>7. KnowsOthers(m)'
  BY <1>2, <1>3, <1>4, KnowledgeKept
<1>8. RowsAreOnBranch'
  BY <1>2, RowsKept
<1>9. WritesOwn(m)
  BY <1>1, <1>2, <1>4 DEF WritesOwn, Own
<1> QED BY <1>1, <1>5, <1>6, <1>7, <1>8, <1>9, HistoryStepOf

(* The reply goes under the last entry of the turn, if it is recorded. *)
LEMMA ExitSpaceHistory ==
    ASSUME HistoryInv, ServiceInv', NEW m \in Calls, RunStep(m),
           NEW text \in BOOLEAN, ExitSpace(m, text), UNCHANGED hist
    PROVE  HistoryInv'
<1> DEFINE t == thread[m]
           e == EngineOf(m)
           path == Append(branch[t], <<m, "assistant">>)
<1>1. /\ TypeOK /\ AttendedRun(m) /\ CurrentWriter(m) /\ run[m] = "inspace"
      /\ UNCHANGED <<stage, keyOf, aborted, thread, leafRead, active>>
  BY DEF HistoryInv, ServiceInv, ExitSpace, RunStep, mutexVars
<1>2. stage[m] = "streaming" /\ t \in Threads /\ e \in Engines
  <2>1. stage[m] = "streaming" /\ t \in Threads
    BY <1>1 DEF AttendedRun, OpenRun, HistoryInv, ServiceInv, ThreadsKnown
  <2> QED BY <1>1, <2>1, EngineKnown DEF TypeOK
<1>3. run'[m] = "exited" /\ \A n \in Calls \ {m} : run'[n] = run[n]
  BY <1>1 DEF ExitSpace, TypeOK, PersistenceTypeOK
<1>4. AttendedRun(m)' /\ CurrentWriter(m)'
  BY <1>1, <1>2, <1>3 DEF AttendedRun, CurrentWriter, OnThread, OpenRun
<1>5. CASE active[e] # None /\ AppendUnder(m, parent[e], <<m, "assistant">>)
  <2>1. parent[e] = branch[t]
    BY <1>1, <1>5 DEF CurrentWriter
  <2>2. /\ branch' = [branch EXCEPT ![t] = path]
        /\ parent' = [parent EXCEPT ![e] = path]
        /\ rows' = rows \cup {<<m, "assistant">>}
    BY <1>5, <2>1 DEF AppendUnder
  <2>3. /\ \A u \in Threads : u # t => branch'[u] = branch[u]
        /\ \A f \in Engines : f # e => parent'[f] = parent[f]
    BY <1>1, <1>2, <2>2 DEF TypeOK, PersistenceTypeOK
  <2>4. KnowsOthers(m)'
    BY <1>1, <1>2, <2>2, KnowledgeKept
  <2>5. RowsAreOnBranch'
    <3>1. run'[m] # "none" /\ \A n \in Calls : run[n] # "none" => run'[n] # "none"
      BY <1>3
    <3> QED BY <1>1, <1>2, <2>2, <3>1, RowsAppended
  <2>6. WritesOwn(m)
    BY <1>1, <1>2, <1>3, <2>2, <2>3 DEF WritesOwn, Own, OnThread
  <2> QED BY <1>1, <1>4, <2>4, <2>5, <2>6, HistoryStepOf
<1>6. CASE UNCHANGED <<branch, parent, rows>>
  <2>1. KnowsOthers(m)'
    BY <1>1, <1>2, <1>6, KnowledgeKept
  <2>2. RowsAreOnBranch'
    BY <1>1, <1>3, <1>6, RowsKept
  <2>3. WritesOwn(m)
    BY <1>1, <1>3, <1>6 DEF WritesOwn, Own
  <2> QED BY <1>1, <1>4, <2>1, <2>2, <2>3, HistoryStepOf
<1> QED BY <1>5, <1>6 DEF ExitSpace

(* The other steps of the run write nothing. *)
LEMMA RunHistory ==
    ASSUME HistoryInv, ServiceInv', NEW m \in Calls, RunStep(m),
           EnterSpace(m) \/ FinishRun(m) \/ EndReply(m), UNCHANGED hist
    PROVE  HistoryInv'
<1>1. /\ TypeOK /\ AttendedRun(m) /\ CurrentWriter(m) /\ KnowsOthers(m) /\ run[m] # "none"
      /\ UNCHANGED <<stage, keyOf, aborted, thread, branch, rows, leafRead, parent>>
  BY DEF HistoryInv, ServiceInv, EnterSpace, FinishRun, EndReply, RunStep, mutexVars
<1>2. \A n \in Calls \ {m} : run'[n] = run[n]
  BY <1>1 DEF EnterSpace, FinishRun, EndReply, TypeOK, PersistenceTypeOK
<1>3. \A f \in Engines : active'[f] = None \/ active'[f] = active[f]
  <2>1. EngineOf(m) \in Engines
    BY <1>1, EngineKnown DEF HistoryInv, ServiceInv, ThreadsKnown, TypeOK
  <2> QED BY <1>1, <2>1 DEF EnterSpace, FinishRun, EndReply, TypeOK, PersistenceTypeOK
<1>4. AttendedRun(m)' /\ CurrentWriter(m)' /\ run'[m] # "none"
  <2>1. CASE EnterSpace(m)
    <3>1. run[m] = "recalled" /\ run'[m] = "inspace" /\ active' = active
      BY <1>1, <2>1 DEF EnterSpace, TypeOK, PersistenceTypeOK
    <3>2. UNCHANGED EngineOf(m)
      BY <1>1 DEF EngineOf
    <3> QED BY <1>1, <3>1, <3>2 DEF AttendedRun, CurrentWriter, OpenRun
  <2>2. CASE FinishRun(m) \/ EndReply(m)
    <3>1. run'[m] \in {"ending", "ended"}
      BY <1>1, <2>2 DEF FinishRun, EndReply, TypeOK, PersistenceTypeOK
    <3>2. stage[m] # "starting"
      BY <1>1 DEF AttendedRun
    <3> QED BY <1>1, <3>1, <3>2 DEF AttendedRun, CurrentWriter, OpenRun
  <2> QED BY <2>1, <2>2
<1>5. KnowsOthers(m)'
  BY <1>1 DEF KnowsOthers, InBranch
<1>6. RowsAreOnBranch'
  BY <1>1, <1>2, <1>4, RowsKept
<1>7. WritesOwn(m)
  BY <1>1, <1>2, <1>3 DEF WritesOwn, Own
<1> QED BY <1>1, <1>4, <1>5, <1>6, <1>7, HistoryStepOf

LEMMA CrashHistory ==
    ASSUME HistoryInv, ServiceInv', Crash
    PROVE  HistoryInv'
<1>1. TypeOK /\ \A n \in Calls : AttendedRun(n)
  BY DEF HistoryInv, ServiceInv
<1>2. /\ UNCHANGED <<thread, branch, rows, aborted>>
      /\ \A n \in Calls :
            /\ run'[n] = IF run[n] = "none" THEN "none" ELSE "ended"
            /\ stage'[n] = IF stage[n] \in {"idle", "done"} THEN stage[n] ELSE "lost"
  BY <1>1 DEF Crash, PersistenceCrash
<1>3. \A n \in Calls : AttendedRun(n)' /\ CurrentWriter(n)' /\ KnowsOthers(n)'
  BY <1>1, <1>2 DEF AttendedRun, CurrentWriter, KnowsOthers, OnThread, OpenRun
<1>4. RowsAreOnBranch'
  BY <1>2, RowsKept
<1> QED BY <1>2, <1>3, <1>4 DEF HistoryInv

LEMMA HistoryStep == NobodyAborts /\ HistoryInv /\ [Next]_vars => HistoryInv'
<1> SUFFICES ASSUME NobodyAborts, HistoryInv, [Next]_vars PROVE HistoryInv'
  OBVIOUS
<1>0. /\ ServiceInv' /\ TypeOK /\ MutexTypeOK /\ aborted = {}
      /\ \A n \in Calls : AttendedRun(n)
  BY ServiceStep, TypeParts DEF HistoryInv, ServiceInv
<1>1. ASSUME UNCHANGED <<persistenceVars, stage, keyOf, hist, aborted>> PROVE HistoryInv'
  <2>1. \A n \in Calls : AttendedRun(n)' /\ CurrentWriter(n)' /\ KnowsOthers(n)'
    BY <1>1 DEF HistoryInv, persistenceVars, AttendedRun, CurrentWriter, KnowsOthers,
                EngineOf, InBranch
  <2>2. RowsAreOnBranch'
    BY <1>1, RowsKept DEF persistenceVars
  <2> QED BY <1>0, <1>1, <2>1, <2>2 DEF HistoryInv
<1>2. ASSUME NEW m \in Calls, NEW k \in Keys, Arrive(m, k) PROVE HistoryInv'
  <2>1. /\ stage[m] = "idle" /\ stage'[m] = "locking"
        /\ \A n \in Calls \ {m} : stage'[n] = stage[n] /\ keyOf'[n] = keyOf[n]
    BY <1>0, <1>2 DEF Arrive, GoTo, Enqueue, TypeOK, MutexTypeOK
  <2>2. run[m] = "none"
    BY <1>0, <2>1 DEF AttendedRun
  <2>3. UNCHANGED <<branch, rows, aborted, thread, run, leafRead, hist, active, parent>>
    BY <1>2 DEF Arrive, persistenceVars
  <2> QED BY <1>0, <2>1, <2>2, <2>3, HistoryMove DEF OnThread, OpenRun
<1>3. ASSUME NEW m \in Calls, NEW k \in Keys PROVE ~Stop(m, k)
  BY DEF NobodyAborts, Stop
<1>4. ASSUME NEW m \in Calls, TakeLock(m) \/ Enter(m) \/ AnswerOnly(m) \/ ResetEpoch(m)
                              \/ PersistEpoch(m) \/ Throw(m) \/ StopStreaming(m) \/ Leave(m)
      PROVE  HistoryInv'
  <2>1. PICK from, to :
           /\ GoTo(m, from, to)
           /\ from \in {"locking", "permit", "entered", "resetting", "history", "starting",
                        "streaming", "leaving"}
           /\ to \in {"permit", "entered", "resetting", "leaving", "done"}
           /\ from = "leaving" => to = "done"
           /\ from \in {"history", "starting"} => to = "leaving"
           /\ from = "streaming" => to = "leaving" /\ run[m] \in {"ending", "ended"}
           /\ UNCHANGED <<persistenceVars, aborted, hist, keyOf>>
    BY <1>0, <1>4 DEF TakeLock, Grant, Enter, AnswerOnly, ResetEpoch, PersistEpoch, Throw,
                      StopStreaming, Leave, Release, mutexVars
  <2>2. stage[m] = from /\ stage'[m] = to /\ \A n \in Calls \ {m} : stage'[n] = stage[n]
    BY <1>0, <2>1 DEF GoTo, TypeOK
  <2>3. /\ run[m] \notin OpenRun
        /\ run[m] # "none" => to \in {"leaving", "done", "lost"}
    BY <1>0, <2>1, <2>2 DEF AttendedRun, OpenRun
  <2> QED BY <1>0, <2>1, <2>2, <2>3, HistoryMove DEF OnThread, persistenceVars
<1>5. ASSUME NEW m \in Calls PROVE ~Signal(m)
  BY DEF NobodyAborts, Signal
<1>6. ASSUME NEW m \in Calls, LoadEpoch(m) \/ LoadHistory(m) \/ StartReply(m) \/ Dispatch(m)
      PROVE  HistoryInv'
  BY <1>0, <1>6, LoadEpochHistory, LoadHistoryHistory, StartReplyHistory, DispatchHistory
<1>7. ASSUME NEW m \in Calls, RunStep(m) PROVE HistoryInv'
  <2>1. CASE RefreshHistory(m)
    BY <1>0, <1>7, <2>1, RecallHistory
  <2>2. ASSUME NEW text \in BOOLEAN, ExitSpace(m, text), UNCHANGED hist PROVE HistoryInv'
    BY <1>0, <1>7, <2>2, ExitSpaceHistory
  <2>3. CASE (EnterSpace(m) \/ FinishRun(m) \/ EndReply(m)) /\ UNCHANGED hist
    BY <1>0, <1>7, <2>3, RunHistory
  <2> QED BY <1>7, <2>1, <2>2, <2>3 DEF RunStep, BridgeStep
<1>8. ASSUME NEW k \in Keys, ArchiveRead(k) \/ ArchiveWrite(k) PROVE HistoryInv'
  BY <1>1, <1>8 DEF ArchiveRead, ArchiveWrite, mutexVars
<1>9. CASE Crash
  BY <1>0, <1>9, CrashHistory
<1>10. CASE Rest \/ UNCHANGED vars
  BY <1>1, <1>10 DEF Rest, vars, serviceVars, mutexVars
<1> QED
  BY <1>2, <1>3, <1>4, <1>5, <1>6, <1>7, <1>8, <1>9, <1>10 DEF Next, HandleStep

LEMMA HistoryInit == Init => HistoryInv
<1> SUFFICES ASSUME Init PROVE HistoryInv
  OBVIOUS
<1>1. \A m \in Calls : AttendedRun(m) /\ CurrentWriter(m) /\ KnowsOthers(m)
  BY DEF Init, PersistenceInit, AttendedRun, CurrentWriter, KnowsOthers, OnThread, OpenRun
<1>2. RowsAreOnBranch
  BY DEF Init, PersistenceInit, RowsAreOnBranch
<1> QED BY <1>1, <1>2, InitInv DEF Init, HistoryInv

LEMMA HistoryInvariant == ASSUME NobodyAborts PROVE Spec => []HistoryInv
<1>1. HistoryInv /\ [Next]_vars => HistoryInv'
  BY HistoryStep
<1> QED BY <1>1, HistoryInit, PTL DEF Spec

(* The history a model is called with has every entry recorded for the     *)
(* earlier turns of its thread, whatever the store, the engines, status    *)
(* changes and crashes do - as long as nobody aborts a turn.  The run      *)
(* conv_stale_history shows what an aborted turn does to the next one.     *)
THEOREM HistoryIsFresh ==
    ASSUME MaySignal = FALSE, "stop" \notin Kinds
    PROVE  Spec => []NoStaleHistory
<1>1. NobodyAborts
  BY DEF NobodyAborts
<1>2. HistoryInv => NoStaleHistory
  <2> SUFFICES ASSUME HistoryInv, NEW m \in Calls, NEW n \in Calls,
                      run[m] \in {"recalled", "inspace"}, stage[n] = "done",
                      thread[n] = thread[m], NEW entry \in rows, entry[1] = n
               PROVE  InBranch(entry, hist[m])
    BY DEF NoStaleHistory
  <2>1. stage[m] = "streaming"
    BY DEF HistoryInv, AttendedRun, OpenRun
  <2> QED BY <2>1 DEF HistoryInv, KnowsOthers
<1> QED BY <1>1, <1>2, HistoryInvariant, PTL

-----------------------------------------------------------------------------
(* A reply is recorded by the bridge that began it: with an engine for     *)
(* each call nobody else ends it, and a store that works lets it begin.    *)
OwnBridges == SharedEngine = FALSE /\ StoreMayFail = FALSE

Bridged(m) ==
    /\ run[m] \in OpenRun => active[m] = m
    /\ run[m] = "inspace" => m \in steps[m]

RepliesAreRows == \A m \in replied : <<m, "assistant">> \in rows

RepliesInv == HistoryInv /\ RepliesAreRows /\ \A m \in Calls : Bridged(m)

LEMMA OwnEngine ==
    ASSUME OwnBridges PROVE Engines = Calls /\ \A m \in Calls : EngineOf(m) = m
BY DEF OwnBridges, Engines, EngineOf

LEMMA RunReplies ==
    ASSUME OwnBridges, RepliesInv, NEW m \in Calls, RunStep(m)
    PROVE  RepliesAreRows' /\ \A n \in Calls : Bridged(n)'
<1>0. /\ TypeOK /\ Bridged(m) /\ Engines = Calls /\ EngineOf(m) = m
      /\ PersistenceTypeOK
  BY OwnEngine DEF RepliesInv, HistoryInv, ServiceInv, TypeOK
<1>1. CASE RefreshHistory(m)
  <2>1. /\ run[m] = "dispatched" /\ run' = [run EXCEPT ![m] = "recalled"]
        /\ UNCHANGED <<rows, active, steps, replied>>
    BY <1>1 DEF RefreshHistory, Recall
  <2>2. run'[m] = "recalled" /\ \A n \in Calls \ {m} : run'[n] = run[n]
    BY <1>0, <2>1 DEF PersistenceTypeOK
  <2> QED BY <2>1, <2>2 DEF RepliesInv, RepliesAreRows, Bridged, OpenRun
<1>2. CASE EnterSpace(m)
  <2>1. /\ run[m] = "recalled" /\ run' = [run EXCEPT ![m] = "inspace"]
        /\ UNCHANGED <<rows, active, replied>> /\ active[m] = m
    BY <1>0, <1>2 DEF EnterSpace, Bridged, OpenRun
  <2>2. steps' = [steps EXCEPT ![m] = @ \cup {m}]
    BY <1>0, <1>2, <2>1, NoneAssumption DEF EnterSpace
  <2>3. /\ run'[m] = "inspace" /\ \A n \in Calls \ {m} : run'[n] = run[n]
        /\ m \in steps'[m] /\ \A n \in Calls \ {m} : steps'[n] = steps[n]
    BY <1>0, <2>1, <2>2 DEF PersistenceTypeOK
  <2> QED BY <2>1, <2>3 DEF RepliesInv, RepliesAreRows, Bridged, OpenRun
<1>3. ASSUME NEW text \in BOOLEAN, ExitSpace(m, text)
      PROVE  RepliesAreRows' /\ \A n \in Calls : Bridged(n)'
  <2>1. /\ run[m] = "inspace" /\ run' = [run EXCEPT ![m] = "exited"]
        /\ UNCHANGED <<active, steps>> /\ active[m] = m /\ m \in steps[m]
    BY <1>0, <1>3 DEF ExitSpace, Bridged, OpenRun
  <2>2. run'[m] = "exited" /\ \A n \in Calls \ {m} : run'[n] = run[n]
    BY <1>0, <2>1 DEF PersistenceTypeOK
  <2>3. RepliesAreRows'
    <3>1. CASE text
      <4>1. replied' = replied \cup {m} /\ rows' = rows \cup {<<m, "assistant">>}
        BY <1>0, <1>3, <2>1, <3>1, NoneAssumption DEF ExitSpace, AppendUnder, OwnBridges
      <4> QED BY <4>1 DEF RepliesInv, RepliesAreRows
    <3>2. CASE ~text
      BY <1>3, <3>2 DEF ExitSpace, RepliesInv, RepliesAreRows
    <3> QED BY <3>1, <3>2
  <2> QED BY <2>1, <2>2, <2>3 DEF RepliesInv, Bridged, OpenRun
<1>4. CASE FinishRun(m) \/ EndReply(m)
  <2>1. run'[m] \in {"ending", "ended"} /\ \A n \in Calls \ {m} : run'[n] = run[n]
    BY <1>0, <1>4 DEF FinishRun, EndReply, PersistenceTypeOK
  <2>2. \A n \in Calls \ {m} : active'[n] = active[n] /\ steps'[n] = steps[n]
    BY <1>0, <1>4 DEF FinishRun, EndReply, PersistenceTypeOK
  <2>3. UNCHANGED <<rows, replied>>
    BY <1>4 DEF FinishRun, EndReply
  <2> QED BY <2>1, <2>2, <2>3 DEF RepliesInv, RepliesAreRows, Bridged, OpenRun
<1> QED BY <1>1, <1>2, <1>3, <1>4 DEF RunStep, BridgeStep

LEMMA RepliesStep ==
    NobodyAborts /\ OwnBridges /\ RepliesInv /\ [Next]_vars => RepliesInv'
<1> SUFFICES ASSUME NobodyAborts, OwnBridges, RepliesInv, [Next]_vars PROVE RepliesInv'
  OBVIOUS
<1>0. HistoryInv' /\ TypeOK /\ PersistenceTypeOK /\ RepliesAreRows
      /\ \A m \in Calls : Bridged(m)
  BY HistoryStep DEF RepliesInv, HistoryInv, ServiceInv, TypeOK
<1>1. ASSUME UNCHANGED <<run, active, steps, rows, replied>> PROVE RepliesInv'
  BY <1>0, <1>1 DEF RepliesInv, RepliesAreRows, Bridged
<1>2. ASSUME NEW m \in Calls, Dispatch(m) PROVE RepliesInv'
  <2>1. /\ run' = [run EXCEPT ![m] = "dispatched"] /\ active' = [active EXCEPT ![m] = m]
        /\ UNCHANGED <<steps, replied>> /\ rows \subseteq rows'
    BY <1>2, OwnEngine DEF Dispatch, BeginReply, AppendUnder, OwnBridges
  <2>2. /\ run'[m] = "dispatched" /\ active'[m] = m
        /\ \A n \in Calls \ {m} : run'[n] = run[n] /\ active'[n] = active[n]
    BY <1>0, <2>1, OwnEngine DEF PersistenceTypeOK
  <2> QED BY <1>0, <2>1, <2>2 DEF RepliesInv, RepliesAreRows, Bridged, OpenRun
<1>3. ASSUME NEW m \in Calls, RunStep(m) PROVE RepliesInv'
  BY <1>0, <1>3, RunReplies DEF RepliesInv
<1>4. CASE Crash
  <2>1. /\ \A m \in Calls : run'[m] \in {"none", "ended"}
        /\ UNCHANGED <<rows, replied>>
    BY <1>4 DEF Crash, PersistenceCrash
  <2> QED BY <1>0, <2>1 DEF RepliesInv, RepliesAreRows, Bridged, OpenRun
<1>5. ASSUME NEW m \in Calls, \/ \E k \in Keys : Arrive(m, k) \/ Stop(m, k)
                              \/ TakeLock(m) \/ Enter(m) \/ AnswerOnly(m) \/ ResetEpoch(m)
                              \/ PersistEpoch(m) \/ Throw(m) \/ StopStreaming(m) \/ Leave(m)
                              \/ LoadEpoch(m) \/ LoadHistory(m) \/ StartReply(m) \/ Signal(m)
      PROVE  RepliesInv'
  BY <1>1, <1>5 DEF Arrive, Stop, TakeLock, Enter, AnswerOnly, ResetEpoch, PersistEpoch,
                    Throw, StopStreaming, Leave, LoadEpoch, LoadHistory, StartReply, ReadLeaf,
                    Signal, persistenceVars
<1>6. CASE (\E k \in Keys : ArchiveRead(k) \/ ArchiveWrite(k)) \/ Rest \/ UNCHANGED vars
  BY <1>1, <1>6 DEF ArchiveRead, ArchiveWrite, Rest, vars, persistenceVars
<1> QED BY <1>2, <1>3, <1>4, <1>5, <1>6 DEF Next, HandleStep

(* With an engine for every call, a store that works and nobody who        *)
(* aborts, a reply that was produced is on the branch of its thread and is *)
(* never taken off it, over any number of crashes.  The run                *)
(* conv_lost_reply shows what an engine shared between turns does to it.   *)
THEOREM RepliesAreKept ==
    ASSUME SharedEngine = FALSE, StoreMayFail = FALSE,
           MaySignal = FALSE, "stop" \notin Kinds
    PROVE  Spec => []RepliesKept
<1>1. NobodyAborts /\ OwnBridges
  BY DEF NobodyAborts, OwnBridges
<1>2. Init => RepliesInv
  <2> SUFFICES ASSUME Init PROVE RepliesInv
    OBVIOUS
  <2>1. RepliesAreRows /\ \A m \in Calls : Bridged(m)
    BY DEF Init, PersistenceInit, RepliesAreRows, Bridged, OpenRun
  <2> QED BY <2>1, HistoryInit DEF RepliesInv
<1>3. RepliesInv /\ [Next]_vars => RepliesInv'
  BY <1>1, RepliesStep
<1>4. RepliesInv => RepliesKept
  BY DEF RepliesInv, HistoryInv, RowsAreOnBranch, RepliesAreRows, RepliesKept
<1> QED BY <1>2, <1>3, <1>4, PTL DEF Spec

==============================================================================
