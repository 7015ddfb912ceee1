------------------------------ MODULE LockProofs ------------------------------
(***************************************************************************)
(* Proofs about the two locks of the conversation service (mutex.ts).      *)
(*                                                                         *)
(* KeyedMutex, for any sets of calls and keys: the lock of a key is        *)
(* exclusive, first come first served, and leaves no entry behind.  None   *)
(* of the three is inductive.  What carries them is the shape of the chain *)
(* of promises: the promise a call awaits is that of the latest call of    *)
(* its key still active before it (PrevIsLatest), so that whoever has got  *)
(* past `waiting' has nobody before it (FirstInLine).                      *)
(*                                                                         *)
(* Semaphore, for any limit: permits are neither lost nor made.  A permit  *)
(* handed to a waiter adds nobody who already holds one, because a call    *)
(* queues at most once and never while it holds a permit (QueuedOnce).     *)
(***************************************************************************)
EXTENDS KeyedMutex, Semaphore, FiniteSetTheorems, TLAPS

IsActive(p) == lock[p] \in {"waiting", "held"}

(* Calls that asked for the lock have a key and a number of their own. *)
ArrivalsDistinct ==
    /\ \A p \in Calls : lock[p] # "idle" => keyOf[p] \in Keys /\ arrival[p] <= arrivals
    /\ \A p, q \in Calls :
          lock[p] # "idle" /\ lock[q] # "idle" /\ arrival[p] = arrival[q] => p = q

(* The entry of a key is its latest active call. *)
TailIsLatest ==
    \A k \in Keys :
        /\ tails[k] = None => \A q \in Calls : IsActive(q) => keyOf[q] # k
        /\ tails[k] # None =>
              /\ IsActive(tails[k]) /\ keyOf[tails[k]] = k
              /\ \A q \in Calls :
                    IsActive(q) /\ keyOf[q] = k => arrival[q] <= arrival[tails[k]]

(* Nobody who is still active came between a call and the one it awaits. *)
PrevIsLatest ==
    \A p, q \in Calls :
        /\ IsActive(p) /\ prev[p] # None =>
              lock[prev[p]] # "idle" /\ keyOf[prev[p]] = keyOf[p]
        /\ IsActive(p) /\ IsActive(q) /\ keyOf[p] = keyOf[q] /\ arrival[q] < arrival[p] =>
              prev[p] # None /\ arrival[q] <= arrival[prev[p]]

(* A call with somebody active before it is still waiting. *)
FirstInLine ==
    \A p, q \in Calls :
        IsActive(q) /\ lock[p] # "idle" /\ keyOf[p] = keyOf[q] /\ arrival[q] < arrival[p]
            => lock[p] = "waiting"

MutexInv ==
    /\ MutexTypeOK
    /\ ArrivalsDistinct
    /\ TailIsLatest
    /\ PrevIsLatest
    /\ FirstInLine

-----------------------------------------------------------------------------
(* No call has asked for a lock: all parts hold vacuously. *)
LEMMA MutexInitInv == MutexInit => MutexInv
BY NoneAssumption DEF MutexInit, MutexInv, MutexTypeOK, ArrivalsDistinct,
       TailIsLatest, PrevIsLatest, FirstInLine, IsActive, LockState

(* A new call becomes the tail of its key, behind everyone active there. *)
LEMMA EnqueueInv ==
    ASSUME MutexInv, NEW p \in Calls, NEW k \in Keys, Enqueue(p, k)
    PROVE  MutexInv'
<1> USE NoneAssumption DEF IsActive
<1>1. MutexTypeOK'
  BY DEF MutexInv, MutexTypeOK, Enqueue, LockState
<1>2. \A q \in Calls \ {p} : /\ lock'[q] = lock[q] /\ keyOf'[q] = keyOf[q]
                            /\ arrival'[q] = arrival[q] /\ prev'[q] = prev[q]
  BY DEF MutexInv, MutexTypeOK, Enqueue
<1>3. /\ lock[p] = "idle" /\ lock'[p] = "waiting" /\ keyOf'[p] = k
      /\ arrival'[p] = arrivals + 1 /\ prev'[p] = tails[k] /\ arrivals' = arrivals + 1
      /\ tails' = [tails EXCEPT ![k] = p]
  BY DEF MutexInv, MutexTypeOK, Enqueue
<1>4. \A q \in Calls \ {p} : lock[q] # "idle" => arrival'[q] < arrival'[p]
  BY <1>2, <1>3 DEF MutexInv, MutexTypeOK, ArrivalsDistinct
<1>5. ArrivalsDistinct'
  BY <1>1, <1>2, <1>3, <1>4 DEF MutexInv, MutexTypeOK, ArrivalsDistinct
<1>6. TailIsLatest'
  <2> SUFFICES ASSUME NEW j \in Keys
               PROVE  /\ tails'[j] = None => \A q \in Calls : IsActive(q)' => keyOf'[q] # j
                      /\ tails'[j] # None =>
                            /\ IsActive(tails[j])' /\ keyOf'[tails'[j]] = j
                            /\ \A q \in Calls : IsActive(q)' /\ keyOf'[q] = j
                                  => arrival'[q] <= arrival'[tails'[j]]
    BY DEF TailIsLatest
  <2>1. CASE j = k
    BY <2>1, <1>1, <1>2, <1>3, <1>4 DEF MutexInv, MutexTypeOK
  <2>2. CASE j # k
    <3>1. tails'[j] = tails[j] /\ tails[j] # p
      BY <2>2, <1>3 DEF MutexInv, MutexTypeOK, TailIsLatest
    <3> QED
      BY <2>2, <3>1, <1>2, <1>3 DEF MutexInv, MutexTypeOK, TailIsLatest
  <2> QED BY <2>1, <2>2
<1>7. PrevIsLatest'
  <2> SUFFICES ASSUME NEW r \in Calls, NEW q \in Calls
               PROVE  /\ IsActive(r)' /\ prev'[r] # None =>
                            lock'[prev'[r]] # "idle" /\ keyOf'[prev'[r]] = keyOf'[r]
                      /\ IsActive(r)' /\ IsActive(q)' /\ keyOf'[r] = keyOf'[q]
                            /\ arrival'[q] < arrival'[r] =>
                            prev'[r] # None /\ arrival'[q] <= arrival'[prev'[r]]
    BY DEF PrevIsLatest
  <2>1. CASE r = p
    <3>1. tails[k] # None => tails[k] \in Calls \ {p}
      BY <1>3 DEF MutexInv, MutexTypeOK, TailIsLatest
    <3> QED
      BY <2>1, <3>1, <1>1, <1>2, <1>3 DEF MutexInv, MutexTypeOK, TailIsLatest
  <2>2. CASE r # p
    <3>1. IsActive(r) /\ prev[r] # None => prev[r] \in Calls \ {p}
      BY <1>3 DEF MutexInv, MutexTypeOK, PrevIsLatest
    <3>2. IsActive(r)' => ~(q = p /\ arrival'[q] < arrival'[r])
      BY <2>2, <1>1, <1>2, <1>4 DEF MutexTypeOK
    <3> QED
      BY <2>2, <3>1, <3>2, <1>2 DEF MutexInv, MutexTypeOK, PrevIsLatest
  <2> QED BY <2>1, <2>2
<1>8. FirstInLine'
  <2> SUFFICES ASSUME NEW r \in Calls, NEW q \in Calls,
                      IsActive(q)', lock'[r] # "idle", keyOf'[r] = keyOf'[q],
                      arrival'[q] < arrival'[r]
               PROVE  lock'[r] = "waiting"
    BY DEF FirstInLine
  <2>1. CASE r = p
    BY <2>1, <1>3
  <2>2. CASE r # p
    <3>1. q # p
      BY <2>2, <1>1, <1>2, <1>4 DEF MutexTypeOK
    <3> QED
      BY <2>2, <3>1, <1>2 DEF MutexInv, FirstInLine
  <2> QED BY <2>1, <2>2
<1> QED BY <1>1, <1>5, <1>6, <1>7, <1>8 DEF MutexInv

(* A granted call has nobody active before it: the latest such call would  *)
(* be the one it awaits, and that one has released.                        *)
LEMMA GrantInv ==
    ASSUME MutexInv, NEW p \in Calls, Grant(p)
    PROVE  MutexInv'
<1> USE NoneAssumption DEF IsActive
<1>1. MutexTypeOK'
  BY DEF MutexInv, MutexTypeOK, Grant, LockState
<1>2. /\ \A q \in Calls \ {p} : lock'[q] = lock[q]
      /\ lock[p] = "waiting" /\ lock'[p] = "held"
      /\ UNCHANGED <<tails, prev, keyOf, arrival, arrivals>>
  BY DEF MutexInv, MutexTypeOK, Grant
<1>3. \A q \in Calls : lock'[q] # "idle" <=> lock[q] # "idle"
  BY <1>2
<1>4. \A q \in Calls : IsActive(q)' <=> IsActive(q)
  BY <1>2
<1>5. ArrivalsDistinct'
  BY <1>2, <1>3 DEF MutexInv, ArrivalsDistinct
<1>6. TailIsLatest'
  BY <1>2, <1>4 DEF MutexInv, MutexTypeOK, TailIsLatest
<1>7. PrevIsLatest'
  <2>1. \A r \in Calls : prev[r] # None => prev[r] \in Calls
    BY DEF MutexInv, MutexTypeOK
  <2> QED BY <2>1, <1>2, <1>3, <1>4 DEF MutexInv, PrevIsLatest
<1>8. ASSUME NEW q \in Calls, IsActive(q), keyOf[p] = keyOf[q], arrival[q] < arrival[p]
      PROVE  FALSE
  <2>1. prev[p] # None /\ arrival[q] <= arrival[prev[p]]
    BY <1>8, <1>2 DEF MutexInv, PrevIsLatest
  <2>2. /\ prev[p] \in Calls /\ lock[prev[p]] = "released"
        /\ keyOf[prev[p]] = keyOf[p]
    BY <2>1, <1>2 DEF MutexInv, MutexTypeOK, PrevIsLatest, Grant, PrevSettled
  <2>3. q # prev[p]
    BY <1>8, <2>2
  <2>4. arrival[q] < arrival[prev[p]]
    BY <1>8, <2>1, <2>2, <2>3 DEF MutexInv, MutexTypeOK, ArrivalsDistinct
  <2> QED BY <1>8, <2>2, <2>4 DEF MutexInv, FirstInLine
<1>9. FirstInLine'
  BY <1>2, <1>3, <1>4, <1>8 DEF MutexInv, FirstInLine
<1> QED BY <1>1, <1>5, <1>6, <1>7, <1>9 DEF MutexInv

(* The releasing call is the first of its key; if it is also the tail, it  *)
(* was the only one, and the entry can go.                                 *)
LEMMA ReleaseInv ==
    ASSUME MutexInv, NEW p \in Calls, Release(p)
    PROVE  MutexInv'
<1> USE NoneAssumption DEF IsActive
<1>1. MutexTypeOK'
  BY DEF MutexInv, MutexTypeOK, ArrivalsDistinct, Release, LockState
<1>2. /\ \A q \in Calls \ {p} : lock'[q] = lock[q]
      /\ lock[p] = "held" /\ lock'[p] = "released" /\ keyOf[p] \in Keys
      /\ UNCHANGED <<prev, keyOf, arrival, arrivals>>
  BY DEF MutexInv, MutexTypeOK, ArrivalsDistinct, Release
<1>3. \A q \in Calls : lock'[q] # "idle" <=> lock[q] # "idle"
  BY <1>2
<1>4. \A q \in Calls : IsActive(q)' <=> IsActive(q) /\ q # p
  BY <1>2
<1>5. ArrivalsDistinct'
  BY <1>2, <1>3 DEF MutexInv, ArrivalsDistinct
<1>6. TailIsLatest'
  <2> SUFFICES ASSUME NEW k \in Keys
               PROVE  /\ tails'[k] = None => \A q \in Calls : IsActive(q)' => keyOf'[q] # k
                      /\ tails'[k] # None =>
                            /\ IsActive(tails[k])' /\ keyOf'[tails'[k]] = k
                            /\ \A q \in Calls : IsActive(q)' /\ keyOf'[q] = k
                                  => arrival'[q] <= arrival'[tails'[k]]
    BY DEF TailIsLatest
  <2>1. CASE k = keyOf[p] /\ tails[k] = p
    <3>1. tails'[k] = None
      BY <2>1 DEF MutexInv, MutexTypeOK, Release
    <3>2. \A q \in Calls \ {p} : IsActive(q) /\ keyOf[q] = k => arrival[q] < arrival[p]
      BY <2>1, <1>2 DEF MutexInv, MutexTypeOK, TailIsLatest, ArrivalsDistinct
    <3>3. \A q \in Calls \ {p} : IsActive(q) => keyOf[q] # k
      BY <2>1, <3>2, <1>2 DEF MutexInv, FirstInLine
    <3> QED BY <3>1, <3>3, <1>2, <1>4
  <2>2. CASE ~(k = keyOf[p] /\ tails[k] = p)
    <3>1. tails'[k] = tails[k] /\ tails[k] # p
      BY <2>2, <1>2 DEF MutexInv, MutexTypeOK, TailIsLatest, Release
    <3> QED BY <3>1, <1>2, <1>4 DEF MutexInv, MutexTypeOK, TailIsLatest
  <2> QED BY <2>1, <2>2
<1>7. PrevIsLatest'
  <2>1. \A r \in Calls : prev[r] # None => prev[r] \in Calls
    BY DEF MutexInv, MutexTypeOK
  <2> QED BY <2>1, <1>2, <1>3, <1>4 DEF MutexInv, PrevIsLatest
<1>8. FirstInLine'
  <2> SUFFICES ASSUME NEW r \in Calls, NEW q \in Calls,
                      IsActive(q)', lock'[r] # "idle", keyOf'[r] = keyOf'[q],
                      arrival'[q] < arrival'[r]
               PROVE  lock'[r] = "waiting"
    BY DEF FirstInLine
  <2>1. lock[r] = "waiting"
    BY <1>2, <1>3, <1>4 DEF MutexInv, FirstInLine
  <2> QED BY <2>1, <1>2
<1> QED BY <1>1, <1>5, <1>6, <1>7, <1>8 DEF MutexInv

(* After a crash nobody is active, and nobody is on record. *)
LEMMA MutexCrashInv == ASSUME MutexInv, MutexCrash PROVE MutexInv'
<1> USE NoneAssumption DEF IsActive
<1>1. MutexTypeOK'
  BY DEF MutexInv, MutexTypeOK, MutexCrash, LockState
<1>2. /\ \A q \in Calls : ~IsActive(q)' /\ (lock'[q] # "idle" <=> lock[q] # "idle")
      /\ UNCHANGED <<prev, keyOf, arrival, arrivals>>
  BY DEF MutexInv, MutexTypeOK, MutexCrash
<1>3. ArrivalsDistinct'
  BY <1>2 DEF MutexInv, ArrivalsDistinct
<1>4. TailIsLatest'
  BY <1>2 DEF TailIsLatest, MutexCrash
<1>5. PrevIsLatest' /\ FirstInLine'
  BY <1>2 DEF PrevIsLatest, FirstInLine
<1> QED BY <1>1, <1>3, <1>4, <1>5 DEF MutexInv

(* Steps of the lock preserve the invariant. *)
LEMMA MutexStepInv == MutexInv /\ [MutexNext]_mutexVars => MutexInv'
<1> SUFFICES ASSUME MutexInv, [MutexNext]_mutexVars PROVE MutexInv'
  OBVIOUS
<1>1. CASE \E p \in Calls, k \in Keys : Enqueue(p, k)
  BY <1>1, EnqueueInv
<1>2. CASE \E p \in Calls : Grant(p) \/ Release(p)
  BY <1>2, GrantInv, ReleaseInv
<1>3. CASE MutexCrash
  BY <1>3, MutexCrashInv
<1>4. CASE UNCHANGED mutexVars
  BY <1>4 DEF mutexVars, MutexInv, MutexTypeOK, ArrivalsDistinct, TailIsLatest,
              PrevIsLatest, FirstInLine, IsActive
<1> QED BY <1>1, <1>2, <1>3, <1>4 DEF MutexNext

-----------------------------------------------------------------------------
(* FirstInLine and the distinct arrivals give exclusion ... *)
LEMMA InvMutualExclusion == MutexInv => MutualExclusion
<1> SUFFICES ASSUME MutexInv, NEW p \in Calls, NEW q \in Calls,
                    lock[p] = "held", lock[q] = "held", keyOf[p] = keyOf[q]
             PROVE  p = q
  BY DEF MutualExclusion
<1>1. ~(arrival[p] < arrival[q]) /\ ~(arrival[q] < arrival[p])
  BY DEF MutexInv, FirstInLine, IsActive
<1>2. arrival[p] = arrival[q]
  BY <1>1 DEF MutexInv, MutexTypeOK
<1> QED BY <1>2 DEF MutexInv, ArrivalsDistinct

(* ... and the order of service, ... *)
LEMMA InvNoOvertaking == MutexInv => NoOvertaking
<1> SUFFICES ASSUME MutexInv, NEW p \in Calls, NEW q \in Calls,
                    lock[p] = "held", lock[q] = "waiting", keyOf[p] = keyOf[q]
             PROVE  arrival[p] < arrival[q]
  BY DEF NoOvertaking
<1>1. ~(arrival[q] < arrival[p])
  BY DEF MutexInv, FirstInLine, IsActive
<1>2. arrival[p] # arrival[q]
  BY DEF MutexInv, ArrivalsDistinct
<1> QED BY <1>1, <1>2 DEF MutexInv, MutexTypeOK

(* ... and TailIsLatest says when a key has an entry. *)
LEMMA InvTailsMatchCalls == MutexInv => TailsMatchCalls
BY NoneAssumption DEF MutexInv, MutexTypeOK, TailIsLatest, TailsMatchCalls, Active, IsActive

(* The invariant holds of every behaviour of the lock. *)
THEOREM MutexInvariance == MutexSpec => []MutexInv
BY MutexInitInv, MutexStepInv, PTL DEF MutexSpec

(* The lock of the conversation layer, however it is used: exclusive, in   *)
(* the order of the acquire() calls, and without an entry left behind.     *)
THEOREM MutexCorrect == MutexSpec => [](MutualExclusion /\ NoOvertaking /\ TailsMatchCalls)
BY MutexInvariance, InvMutualExclusion, InvNoOvertaking, InvTailsMatchCalls, PTL

-----------------------------------------------------------------------------
(* The semaphore                                                           *)

(* A call is in the queue at most once, and not while it holds a permit. *)
QueuedOnce ==
    /\ \A i, j \in 1..Len(waiters) : waiters[i] = waiters[j] => i = j
    /\ \A i \in 1..Len(waiters) : waiters[i] \notin permits

SemaphoreInv ==
    /\ SemaphoreTypeOK
    /\ QueuedOnce
    /\ IsFiniteSet(permits)
    /\ PermitAccounting

LEMMA SemaphoreInitInv == SemaphoreInit => SemaphoreInv
BY FS_EmptySet, LimitAssumption
   DEF SemaphoreInit, SemaphoreInv, SemaphoreTypeOK, QueuedOnce, PermitAccounting

(* A permit taken is one less available; a call that queues is new there. *)
LEMMA AcquirePermitInv ==
    ASSUME SemaphoreInv, NEW p \in Calls, p \notin permits, ~Queued(p), AcquirePermit(p)
    PROVE  SemaphoreInv'
<1> USE LimitAssumption
<1>1. SemaphoreTypeOK'
  BY DEF SemaphoreInv, SemaphoreTypeOK, AcquirePermit
<1>2. IsFiniteSet(permits \cup {p}) /\ Cardinality(permits \cup {p}) = Cardinality(permits) + 1
  BY FS_AddElement DEF SemaphoreInv
<1>3. IsFiniteSet(permits)' /\ PermitAccounting'
  <2>1. Cardinality(permits) \in Nat
    BY FS_CardinalityType DEF SemaphoreInv
  <2>2. CASE Limit <= 0 /\ permits' = permits \cup {p}
    BY <1>2, <2>2 DEF PermitAccounting
  <2>3. CASE /\ Limit > 0 /\ available > 0 /\ available' = available - 1
             /\ permits' = permits \cup {p} /\ UNCHANGED waiters
    BY <1>2, <2>1, <2>3 DEF SemaphoreInv, SemaphoreTypeOK, PermitAccounting
  <2>4. CASE Limit > 0 /\ available <= 0 /\ UNCHANGED <<available, permits>>
    BY <2>1, <2>4 DEF SemaphoreInv, SemaphoreTypeOK, PermitAccounting
  <2> QED BY <2>2, <2>3, <2>4 DEF AcquirePermit
<1>4. QueuedOnce'
  <2>1. CASE UNCHANGED waiters /\ permits' = permits \cup {p}
    BY <2>1 DEF SemaphoreInv, QueuedOnce, Queued
  <2>2. CASE waiters' = Append(waiters, p) /\ UNCHANGED permits
    BY <2>2 DEF SemaphoreInv, SemaphoreTypeOK, QueuedOnce, Queued
  <2> QED BY <2>1, <2>2 DEF AcquirePermit
<1> QED BY <1>1, <1>3, <1>4 DEF SemaphoreInv

(* A permit released is available again, or its successor's. *)
LEMMA ReleasePermitInv ==
    ASSUME SemaphoreInv, NEW p \in permits, ReleasePermit(p)
    PROVE  SemaphoreInv'
<1> USE LimitAssumption
<1>1. p \in Calls
  BY DEF SemaphoreInv, SemaphoreTypeOK
<1>2. /\ IsFiniteSet(permits \ {p})
      /\ Cardinality(permits \ {p}) = Cardinality(permits) - 1
      /\ Cardinality(permits) \in Nat /\ Cardinality(permits \ {p}) \in Nat
  BY FS_RemoveElement, FS_CardinalityType DEF SemaphoreInv
<1>3. CASE waiters' = waiters /\ permits' = permits \ {p}
  <2>1. SemaphoreTypeOK'
    BY <1>3 DEF SemaphoreInv, SemaphoreTypeOK, ReleasePermit
  <2>2. QueuedOnce'
    BY <1>3 DEF SemaphoreInv, QueuedOnce
  <2>3. PermitAccounting'
    BY <1>2, <1>3 DEF SemaphoreInv, SemaphoreTypeOK, PermitAccounting, ReleasePermit
  <2> QED BY <1>2, <1>3, <2>1, <2>2, <2>3 DEF SemaphoreInv
<1>4. CASE /\ Limit > 0 /\ waiters # <<>>
           /\ permits' = (permits \ {p}) \cup {Head(waiters)}
           /\ waiters' = Tail(waiters)
           /\ UNCHANGED available
  <2>1. /\ Len(waiters) \in Nat \ {0} /\ Head(waiters) = waiters[1] /\ Head(waiters) \in Calls
        /\ Tail(waiters) \in Seq(Calls) /\ Len(Tail(waiters)) = Len(waiters) - 1
        /\ \A i \in 1..Len(Tail(waiters)) : Tail(waiters)[i] = waiters[i + 1]
    BY <1>4 DEF SemaphoreInv, SemaphoreTypeOK
  <2>2. Head(waiters) \notin permits
    BY <2>1 DEF SemaphoreInv, QueuedOnce
  <2>3. SemaphoreTypeOK'
    BY <1>4, <2>1 DEF SemaphoreInv, SemaphoreTypeOK
  <2>4. QueuedOnce'
    BY <1>4, <2>1 DEF SemaphoreInv, QueuedOnce
  <2>5. IsFiniteSet(permits)' /\ Cardinality(permits)' = Cardinality(permits)
    <3>1. /\ IsFiniteSet((permits \ {p}) \cup {Head(waiters)})
          /\ Cardinality((permits \ {p}) \cup {Head(waiters)}) = Cardinality(permits \ {p}) + 1
      BY <1>2, <2>2, FS_AddElement
    <3> QED BY <1>2, <1>4, <3>1
  <2>6. PermitAccounting'
    BY <1>4, <2>1, <2>5 DEF SemaphoreInv, PermitAccounting
  <2> QED BY <2>3, <2>4, <2>5, <2>6 DEF SemaphoreInv
<1> QED BY <1>3, <1>4 DEF ReleasePermit

(* A restart frees everything. *)
LEMMA RestartInv ==
    ASSUME available' = Limit /\ waiters' = <<>> /\ permits' = {}
    PROVE  SemaphoreInv'
BY FS_EmptySet, LimitAssumption
   DEF SemaphoreInv, SemaphoreTypeOK, QueuedOnce, PermitAccounting

(* Steps of the semaphore preserve the invariant. *)
LEMMA SemaphoreStepInv == SemaphoreInv /\ [SemaphoreNext]_semaphoreVars => SemaphoreInv'
<1> SUFFICES ASSUME SemaphoreInv, [SemaphoreNext]_semaphoreVars PROVE SemaphoreInv'
  OBVIOUS
<1>1. CASE \E p \in Calls : p \notin permits /\ ~Queued(p) /\ AcquirePermit(p)
  BY <1>1, AcquirePermitInv
<1>2. CASE \E p \in permits : ReleasePermit(p)
  BY <1>2, ReleasePermitInv
<1>3. CASE available' = Limit /\ waiters' = <<>> /\ permits' = {}
  BY <1>3, RestartInv
<1>4. CASE UNCHANGED semaphoreVars
  BY <1>4 DEF semaphoreVars, SemaphoreInv, SemaphoreTypeOK, QueuedOnce, PermitAccounting
<1> QED BY <1>1, <1>2, <1>3, <1>4 DEF SemaphoreNext

(* The cap holds, exactly: held and free permits are the limit together,   *)
(* and a call waits only while none is free - whatever the limit, and      *)
(* however acquires and releases interleave.                               *)
THEOREM SemaphoreCorrect == SemaphoreSpec => []PermitAccounting
<1>1. SemaphoreSpec => []SemaphoreInv
  BY SemaphoreInitInv, SemaphoreStepInv, PTL DEF SemaphoreSpec
<1>2. SemaphoreInv => PermitAccounting
  BY DEF SemaphoreInv
<1> QED BY <1>1, <1>2, PTL
==============================================================================
