----------------------------- MODULE KeyedMutex -----------------------------
(***************************************************************************)
(* The per-conversation lock of the conversation layer: KeyedMutex in      *)
(* packages/agent/src/conversation/mutex.ts.                               *)
(*                                                                         *)
(* Every acquire(key) installs its own promise as the tail of its key and  *)
(* awaits the promise that was the tail before.  A promise is named here   *)
(* by the call that will settle it, so the map `tails' holds calls, and    *)
(* prev[p] is the call whose promise p awaits.                             *)
(***************************************************************************)
EXTENDS Integers, ConversationCalls

VARIABLES tails,    \* tails[k]: the call whose promise is last in k's chain
          prev,     \* prev[p]: the call p awaits, None for a resolved promise
          keyOf,    \* keyOf[p]: the key p asked for
          lock,     \* lock[p]: how far the call has come
          arrival,  \* history: the position of p's acquire() among all of them
          arrivals  \* history: how many acquire() calls were made

mutexVars == <<tails, prev, keyOf, lock, arrival, arrivals>>

LockState == {"idle", "waiting", "held", "released"}

MutexTypeOK ==
    /\ tails \in [Keys -> Calls \cup {None}]
    /\ prev \in [Calls -> Calls \cup {None}]
    /\ keyOf \in [Calls -> Keys \cup {None}]
    /\ lock \in [Calls -> LockState]
    /\ arrival \in [Calls -> Nat]
    /\ arrivals \in Nat

MutexInit ==
    /\ tails = [k \in Keys |-> None]
    /\ prev = [p \in Calls |-> None]
    /\ keyOf = [p \in Calls |-> None]
    /\ lock = [p \in Calls |-> "idle"]
    /\ arrival = [p \in Calls |-> 0]
    /\ arrivals = 0

-----------------------------------------------------------------------------
(* The synchronous part of acquire(key), up to `await prev'. *)
Enqueue(p, k) ==
    /\ lock[p] = "idle"
    /\ lock' = [lock EXCEPT ![p] = "waiting"]
    /\ keyOf' = [keyOf EXCEPT ![p] = k]
    /\ prev' = [prev EXCEPT ![p] = tails[k]]
    /\ tails' = [tails EXCEPT ![k] = p]
    /\ arrivals' = arrivals + 1
    /\ arrival' = [arrival EXCEPT ![p] = arrivals + 1]

(* The promise p awaits is resolved: there was none, or its call released. *)
PrevSettled(p) == prev[p] # None => lock[prev[p]] = "released"

(* `await prev' returns and acquire() hands out the release function. *)
Grant(p) ==
    /\ lock[p] = "waiting"
    /\ PrevSettled(p)
    /\ lock' = [lock EXCEPT ![p] = "held"]
    /\ UNCHANGED <<tails, prev, keyOf, arrival, arrivals>>

(* Broken: the entry of the key is never dropped. *)
ReleaseAndLeak(p) ==
    /\ lock[p] = "held"
    /\ lock' = [lock EXCEPT ![p] = "released"]
    /\ UNCHANGED <<tails, prev, keyOf, arrival, arrivals>>

(* The release function: settle the own promise, and drop the entry of the *)
(* key only when no newer waiter has queued behind.                        *)
Release(p) ==
    /\ lock[p] = "held"
    /\ lock' = [lock EXCEPT ![p] = "released"]
    /\ tails' = IF tails[keyOf[p]] = p
                THEN [tails EXCEPT ![keyOf[p]] = None] ELSE tails
    /\ UNCHANGED <<prev, keyOf, arrival, arrivals>>

(* The process dies: the map is gone, and so is every call in flight. *)
MutexCrash ==
    /\ tails' = [k \in Keys |-> None]
    /\ lock' = [p \in Calls |-> IF lock[p] = "idle" THEN "idle" ELSE "released"]
    /\ UNCHANGED <<prev, keyOf, arrival, arrivals>>

MutexNext ==
    \/ \E p \in Calls, k \in Keys : Enqueue(p, k)
    \/ \E p \in Calls : Grant(p) \/ Release(p)
    \/ MutexCrash

MutexSpec == MutexInit /\ [][MutexNext]_mutexVars

-----------------------------------------------------------------------------
(* The calls of a key that asked for the lock and have not given it back. *)
Active(k) == {p \in Calls : lock[p] \in {"waiting", "held"} /\ keyOf[p] = k}

(* "Per-key serial lock": two calls never hold the lock of one key at once. *)
MutualExclusion ==
    \A p, q \in Calls :
        lock[p] = "held" /\ lock[q] = "held" /\ keyOf[p] = keyOf[q] => p = q

(* The lock is granted in the order of the acquire() calls: whoever holds  *)
(* it called before everyone who still waits for it.  Messages of one      *)
(* conversation are answered in the order they came in.                    *)
NoOvertaking ==
    \A p, q \in Calls :
        lock[p] = "held" /\ lock[q] = "waiting" /\ keyOf[p] = keyOf[q]
            => arrival[p] < arrival[q]

(* The map holds a key exactly while somebody holds or awaits its lock: an *)
(* entry dropped too early lets a newcomer in beside the waiters, one kept *)
(* too long leaks (the map would grow with every conversation ever seen).  *)
TailsMatchCalls == \A k \in Keys : tails[k] = None <=> Active(k) = {}
=============================================================================
