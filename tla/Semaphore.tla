------------------------------ MODULE Semaphore ------------------------------
(***************************************************************************)
(* The global concurrency cap over all conversations: Semaphore in         *)
(* packages/agent/src/conversation/mutex.ts.  A released permit goes       *)
(* straight to the oldest waiter and is not counted as available between.  *)
(***************************************************************************)
EXTENDS Integers, Sequences, FiniteSets, ConversationCalls

CONSTANT Limit   \* the constructor's limit; not positive disables the cap

ASSUME LimitAssumption == Limit \in Int

VARIABLES available,  \* free permits
          waiters,    \* callbacks of the calls that wait, oldest first
          permits     \* the calls whose acquire() resolved and not yet released

semaphoreVars == <<available, waiters, permits>>

SemaphoreTypeOK ==
    /\ available \in Int
    /\ waiters \in Seq(Calls)
    /\ permits \in SUBSET Calls

SemaphoreInit ==
    /\ available = Limit
    /\ waiters = <<>>
    /\ permits = {}

-----------------------------------------------------------------------------
(* Broken: one permit too many. *)
AcquireOneMore(p) ==
    /\ permits' = IF available >= 0 THEN permits \cup {p} ELSE permits
    /\ waiters' = IF available >= 0 THEN waiters ELSE Append(waiters, p)
    /\ available' = IF available >= 0 THEN available - 1 ELSE available

(* acquire(): pass when the cap is off, take a free permit, or queue up. *)
AcquirePermit(p) ==
    \/ /\ Limit <= 0
       /\ permits' = permits \cup {p}
       /\ UNCHANGED <<available, waiters>>
    \/ /\ Limit > 0 /\ available > 0
       /\ available' = available - 1
       /\ permits' = permits \cup {p}
       /\ UNCHANGED waiters
    \/ /\ Limit > 0 /\ available <= 0
       /\ waiters' = Append(waiters, p)
       /\ UNCHANGED <<available, permits>>

(* Broken: the permit goes to a waiter and is counted as free as well. *)
ReleaseTwice(p) ==
    /\ available' = available + 1
    /\ permits' = (permits \ {p}) \cup (IF waiters = <<>> THEN {} ELSE {Head(waiters)})
    /\ waiters' = IF waiters = <<>> THEN waiters ELSE Tail(waiters)

(* Broken: the permit is free again, and no waiter is woken. *)
ReleaseSilently(p) ==
    /\ available' = available + 1
    /\ permits' = permits \ {p}
    /\ UNCHANGED waiters

(* The returned release function; with the cap off it does nothing. *)
ReleasePermit(p) ==
    \/ /\ Limit <= 0
       /\ permits' = permits \ {p}
       /\ UNCHANGED <<available, waiters>>
    \/ /\ Limit > 0 /\ waiters # <<>>
       /\ permits' = (permits \ {p}) \cup {Head(waiters)}
       /\ waiters' = Tail(waiters)
       /\ UNCHANGED available
    \/ /\ Limit > 0 /\ waiters = <<>>
       /\ permits' = permits \ {p}
       /\ available' = IF available + 1 < Limit THEN available + 1 ELSE Limit
       /\ UNCHANGED waiters

Queued(p) == \E i \in 1..Len(waiters) : waiters[i] = p

(* A call asks once at a time, and releases what it holds. *)
SemaphoreNext ==
    \/ \E p \in Calls : p \notin permits /\ ~Queued(p) /\ AcquirePermit(p)
    \/ \E p \in permits : ReleasePermit(p)
    \/ available' = Limit /\ waiters' = <<>> /\ permits' = {}

SemaphoreSpec == SemaphoreInit /\ [][SemaphoreNext]_semaphoreVars

-----------------------------------------------------------------------------
(* Permits are neither lost nor made: those held and those available are   *)
(* the limit together, and nobody waits while one is free.  Handing a      *)
(* permit to a waiter and counting it available as well would break this.  *)
PermitAccounting ==
    Limit > 0 => /\ Cardinality(permits) + available = Limit
                 /\ available >= 0
                 /\ waiters # <<>> => available = 0
=============================================================================
