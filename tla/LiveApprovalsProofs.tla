-------------------------- MODULE LiveApprovalsProofs --------------------------
(***************************************************************************)
(* Proofs about the approvals of LiveApprovals, for any number of waits,   *)
(* decisions, requests, keys and faults.                                   *)
(*                                                                         *)
(* The properties are about what a wait comes to, but a decision acts only *)
(* when its write is done: by then its wait may have settled, and another  *)
(* may hold its key.  So the inductive invariant ApprovalsInv follows the  *)
(* decisions through the chain of writes (QueueInv): each decision that is *)
(* not resolved has one write in it, for its own wait, and the writes of   *)
(* decisions stand in the order of the decisions.  GrantInv rests on that  *)
(* order.  RecordInv says what the file is behind of, which is only needed *)
(* and only true while nothing failed.                                     *)
(***************************************************************************)
EXTENDS LiveApprovals, FiniteSetTheorems, WellFoundedInduction, TLAPS

(* What each variable may hold. *)
Call == [request : Requests, key : Keys, content : Contents]
Memory == [entry : [Keys -> Waits \cup {None}], timers : SUBSET Waits, listeners : SUBSET Waits,
           outcome : [Waits -> Outcome]]
Record == [wait : Waits, status : Status]
Click == [phase : ClickPhase, card : Waits \cup {None}, yes : BOOLEAN, wait : Waits \cup {None}]

ApprovalsType ==
    /\ asked \in 0..MaxWaits
    /\ about \in [Waits -> Call \cup {None}] /\ \A w \in 1..asked : about[w] \in Call
    /\ memory \in Memory
    /\ queue \in Seq(Write) /\ broken \in BOOLEAN
    /\ file \in [Keys -> Record \cup {None}]
    /\ stopped \in SUBSET Requests
    /\ click \in [Clicks -> Click]
    /\ faults \in 0..MaxFaults

(* The waits and their entries, timers and listeners. *)
Key(w) == about[w].key
Holds(w) == memory.entry[Key(w)] = w

WaitsInv ==
    /\ \A w \in Waits : w \in 1..asked <=> memory.outcome[w] # "none"
    /\ \A k \in Keys : memory.entry[k] # None =>
          /\ Waiting(memory.entry[k]) /\ Key(memory.entry[k]) = k
          /\ \A w \in 1..asked : Key(w) = k => w <= memory.entry[k]
    /\ memory.timers = {memory.entry[k] : k \in Keys} \ {None}
    /\ memory.listeners \subseteq 1..asked

(* A decision knows the wait it is made for until it is dropped. *)
ClickOK(c) ==
    /\ click[c].phase = "reading" => click[c].card \in 1..asked
    /\ click[c].wait # None =>
          /\ click[c].phase \in {"writing", "resolved"}
          /\ click[c].card \in 1..asked /\ click[c].wait \in 1..asked
          /\ Key(click[c].card) = Key(click[c].wait)
          /\ about[click[c].card].content = about[click[c].wait].content
          /\ click[c].phase = "resolved" => ~Waiting(click[c].wait)
    /\ click[c].phase # "none" => \A b \in 1..(c - 1) : click[b].phase # "none"

ClicksInv == \A c \in Clicks : ClickOK(c)

(* The writes of decisions stand in the order in which they were made. *)
DecidedFor(i) == queue[i].by # None /\ click[queue[i].by].wait # None

WriteOK(i) ==
    /\ queue[i].wait <= asked
    /\ queue[i].what = "update" => queue[i].status # "pending"
    /\ queue[i].by # None => queue[i].what = "update" /\ click[queue[i].by].phase = "writing"
    /\ DecidedFor(i) =>
          /\ queue[i].wait = click[queue[i].by].wait
          /\ queue[i].status # "expired"

OrderOK(i, j) ==
    /\ queue[i].by # None => queue[i].by # queue[j].by
    /\ DecidedFor(i) /\ DecidedFor(j) => queue[i].by < queue[j].by
    /\ queue[j].what = "put" => queue[i].wait < queue[j].wait

QueueInv ==
    /\ \A i \in DOMAIN queue : WriteOK(i)
    /\ \A i, j \in DOMAIN queue : i < j => OrderOK(i, j)
    /\ \A c \in Clicks : click[c].phase = "writing" /\ click[c].wait # None =>
          \E i \in DOMAIN queue : queue[i].by = c

(* The first decision on wait w, which is done. *)
DecidedBy(w, c) ==
    /\ click[c].phase = "resolved" /\ click[c].wait = w
    /\ \A b \in 1..(c - 1) : click[b].wait # w
    /\ click[c].yes = (memory.outcome[w] = "granted")

GrantInv ==
    \A w \in Waits : memory.outcome[w] \in {"granted", "refused"} =>
       \E c \in Clicks : DecidedBy(w, c)

(* What the record of a key is behind of, while nothing failed. *)
Behind(k) == \E i \in DOMAIN queue : Key(queue[i].wait) = k
Decided(w) == \E c \in Clicks : click[c].wait = w
Disturbed(w) == memory.outcome[w] = "displaced" \/ Decided(w) \/ Overlapped(w)

FileInv ==
    \A k \in Keys : file[k] # None => file[k].wait \in 1..asked /\ Key(file[k].wait) = k

RecordInv ==
    faults = 0 =>
       /\ ~broken
       /\ \A w \in 1..asked : Waiting(w) => Holds(w) \/ Overlapped(w)
       /\ \A w \in memory.listeners : Holds(w) \/ Disturbed(w)
       /\ \A i \in DOMAIN queue : queue[i].what = "put" =>
             \/ Waiting(queue[i].wait) \/ Overlapped(queue[i].wait)
             \/ \E j \in DOMAIN queue : i < j /\ Key(queue[j].wait) = Key(queue[i].wait)
       /\ \A k \in Keys : file[k] # None /\ file[k].status = "pending" =>
             Waiting(file[k].wait) \/ Overlapped(file[k].wait) \/ Behind(k)

ApprovalsInv ==
    ApprovalsType /\ WaitsInv /\ ClicksInv /\ QueueInv /\ GrantInv /\ FileInv /\ RecordInv

LEMMA NoneIsNoWait == None \notin Waits /\ None \notin Clicks /\ Waits \subseteq Nat /\ Clicks \subseteq Nat
BY ApprovalAssumption DEF Waits, Clicks

(* A set of naturals has a least element. *)
LEMMA Least ==
    ASSUME NEW S, S \subseteq Nat, S # {}
    PROVE  \E x \in S : \A y \in S : x <= y
<1> DEFINE R == OpToRel(<, Nat)
<1>1. IsWellFoundedOn(R, Nat)
  BY NatLessThanWellFounded, Zenon
<1>2. \A x, y \in Nat : y < x => <<y, x>> \in R
  BY DEF OpToRel
<1> HIDE DEF R
<1>3. PICK x \in S : \A y \in S : ~(<<y, x>> \in R)
  BY <1>1, WFMin, Zenon
<1>4. ASSUME NEW y \in S PROVE x <= y
  <2>1. x \in Nat /\ y \in Nat
    OBVIOUS
  <2>2. ~(y < x)
    BY <1>2, <1>3, <2>1, Zenon
  <2> QED BY <2>1, <2>2
<1> QED BY <1>4

-----------------------------------------------------------------------------
(* What finish() and clearPending() leave in memory                         *)

LEMMA SettleIs ==
    ASSUME NEW m \in Memory, NEW w \in Waits, NEW outcome \in Outcome
    PROVE  LET n == Settle(m, w, outcome)
           IN  /\ n \in Memory
               /\ n.entry = m.entry /\ n.timers = m.timers /\ n.listeners = m.listeners
               /\ n.outcome = [m.outcome EXCEPT
                                  ![w] = IF m.outcome[w] = "waiting" THEN outcome ELSE @]
<1> DEFINE n == Settle(m, w, outcome)
<1>1. CASE m.outcome[w] = "waiting"
  <2>1. n = [m EXCEPT !.outcome[w] = outcome]
    BY <1>1 DEF Settle
  <2>2. /\ n.entry = m.entry /\ n.timers = m.timers /\ n.listeners = m.listeners
        /\ n.outcome = [m.outcome EXCEPT ![w] = outcome]
        /\ n = [entry |-> n.entry, timers |-> n.timers, listeners |-> n.listeners,
                outcome |-> n.outcome]
    BY <2>1 DEF Memory
  <2> HIDE DEF n
  <2>3. n \in Memory
    BY <2>2 DEF Memory
  <2> QED BY <1>1, <2>2, <2>3 DEF n
<1>2. CASE m.outcome[w] # "waiting"
  <2>1. n = m
    BY <1>2 DEF Settle
  <2>2. m.outcome = [m.outcome EXCEPT ![w] = @]
    BY DEF Memory
  <2> QED BY <1>2, <2>1, <2>2
<1> QED BY <1>1, <1>2

LEMMA TakeEntryIs ==
    ASSUME NEW m \in Memory, NEW k \in Keys
    PROVE  LET n == TakeEntry(m, k)
           IN  /\ n \in Memory
               /\ n.entry = [m.entry EXCEPT ![k] = None] /\ n.timers = m.timers \ {m.entry[k]}
               /\ n.listeners = m.listeners /\ n.outcome = m.outcome
<1> DEFINE n == TakeEntry(m, k)
<1>1. n = [m EXCEPT !.entry[k] = None, !.timers = @ \ {m.entry[k]}]
  BY DEF TakeEntry
<1>2. /\ n.entry = [m.entry EXCEPT ![k] = None] /\ n.timers = m.timers \ {m.entry[k]}
      /\ n.listeners = m.listeners /\ n.outcome = m.outcome
      /\ n = [entry |-> n.entry, timers |-> n.timers, listeners |-> n.listeners,
              outcome |-> n.outcome]
  BY <1>1 DEF Memory
<1> HIDE DEF n
<1>3. n \in Memory
  BY <1>2 DEF Memory
<1> QED BY <1>2, <1>3 DEF n

LEMMA FinishIs ==
    ASSUME NEW m \in Memory, NEW w \in Waits, Key(w) \in Keys, NEW outcome \in Outcome
    PROVE  LET n == Finish(m, w, outcome)
               holder == m.entry[Key(w)]
           IN  /\ n \in Memory
               /\ n.entry = [m.entry EXCEPT ![Key(w)] = None]
               /\ n.timers = m.timers \ {holder}
               /\ n.listeners \subseteq m.listeners /\ m.listeners \subseteq n.listeners \cup {holder}
               /\ holder = w => w \notin n.listeners
               /\ n.outcome = [m.outcome EXCEPT
                                  ![w] = IF m.outcome[w] = "waiting" THEN outcome ELSE @]
<1> DEFINE n == Finish(m, w, outcome)
           k == Key(w)
           holder == m.entry[k]
<1>1. CASE holder = None
  <2>1. n = Settle(m, w, outcome)
    BY <1>1 DEF Finish, Key
  <2>2. /\ n \in Memory
        /\ n.entry = m.entry /\ n.timers = m.timers /\ n.listeners = m.listeners
        /\ n.outcome = [m.outcome EXCEPT ![w] = IF m.outcome[w] = "waiting" THEN outcome ELSE @]
    BY <2>1, SettleIs
  <2>3. m.entry = [m.entry EXCEPT ![k] = None]
    BY <1>1 DEF Memory
  <2>4. holder # w /\ m.timers = m.timers \ {holder}
    BY <1>1, NoneIsNoWait DEF Memory
  <2> QED BY <2>2, <2>3, <2>4
<1>2. CASE holder # None
  <2> DEFINE taken == IF holder = None \/ about[holder].request # about[w].request
                      THEN {} ELSE {holder}
             e == TakeEntry(m, k)
             o == [e EXCEPT !.listeners = @ \ taken]
  <2>1. n = Settle(o, w, outcome)
    BY <1>2 DEF Finish, Key
  <2>2. /\ e \in Memory
        /\ e.entry = [m.entry EXCEPT ![k] = None] /\ e.timers = m.timers \ {holder}
        /\ e.listeners = m.listeners /\ e.outcome = m.outcome
    BY TakeEntryIs
  <2>3. /\ taken \subseteq {holder} /\ (holder = w => taken = {w})
    BY <1>2
  <2> HIDE DEF e, taken
  <2>4. /\ o.entry = e.entry /\ o.timers = e.timers /\ o.outcome = e.outcome
        /\ o.listeners = e.listeners \ taken
        /\ o = [entry |-> o.entry, timers |-> o.timers, listeners |-> o.listeners,
                outcome |-> o.outcome]
    BY SMTT(30), <2>2 DEF Memory
  <2> HIDE DEF o
  <2>5. o \in Memory
    BY <2>2, <2>4 DEF Memory
  <2>6. /\ n \in Memory
        /\ n.entry = o.entry /\ n.timers = o.timers /\ n.listeners = o.listeners
        /\ n.outcome = [o.outcome EXCEPT ![w] = IF o.outcome[w] = "waiting" THEN outcome ELSE @]
    BY <2>1, <2>5, SettleIs
  <2> HIDE DEF n, holder, k
  <2> QED BY <2>2, <2>3, <2>4, <2>6 DEF n, holder, k
<1> QED BY <1>1, <1>2

LEMMA ClearPendingIs ==
    ASSUME NEW m \in Memory, NEW k \in Keys
    PROVE  LET n == ClearPending(m, k)
               holder == m.entry[k]
           IN  /\ n \in Memory
               /\ n.entry = [m.entry EXCEPT ![k] = None] /\ n.timers = m.timers \ {holder}
               /\ n.listeners = m.listeners
               /\ \A w \in Waits : n.outcome[w] = IF w = holder /\ m.outcome[w] = "waiting"
                                                  THEN "displaced" ELSE m.outcome[w]
<1> DEFINE n == ClearPending(m, k)
           holder == m.entry[k]
<1>1. CASE holder = None
  <2>1. n = m
    BY <1>1 DEF ClearPending
  <2>2. m.entry = [m.entry EXCEPT ![k] = None]
    BY <1>1 DEF Memory
  <2>3. m.timers = m.timers \ {holder} /\ holder \notin Waits
    BY <1>1, NoneIsNoWait DEF Memory
  <2> QED BY <2>1, <2>2, <2>3
<1>2. CASE holder # None
  <2> DEFINE e == TakeEntry(m, k)
  <2>1. n = Settle(e, holder, "displaced")
    BY <1>2 DEF ClearPending
  <2>2. holder \in Waits /\ "displaced" \in Outcome
    BY <1>2 DEF Memory, Outcome
  <2>3. /\ e \in Memory
        /\ e.entry = [m.entry EXCEPT ![k] = None] /\ e.timers = m.timers \ {holder}
        /\ e.listeners = m.listeners /\ e.outcome = m.outcome
    BY TakeEntryIs
  <2> HIDE DEF e, n, holder
  <2>4. /\ n \in Memory
        /\ n.entry = e.entry /\ n.timers = e.timers /\ n.listeners = e.listeners
        /\ n.outcome = [e.outcome EXCEPT
                           ![holder] = IF e.outcome[holder] = "waiting" THEN "displaced" ELSE @]
    BY <2>1, <2>2, <2>3, SettleIs
  <2>5. \A w \in Waits : n.outcome[w] = IF w = holder /\ m.outcome[w] = "waiting"
                                        THEN "displaced" ELSE m.outcome[w]
    BY <2>3, <2>4 DEF Memory
  <2> QED BY <2>3, <2>4, <2>5 DEF n, holder
<1> QED BY <1>1, <1>2

-----------------------------------------------------------------------------
(* What a step must keep                                                    *)

(* Entries are only taken away and waits only settled. *)
MemoryMoves ==
    /\ memory' \in Memory
    /\ \A k \in Keys : memory'.entry[k] \in {memory.entry[k], None}
    /\ memory'.timers = {memory'.entry[k] : k \in Keys} \ {None}
    /\ memory'.listeners \subseteq memory.listeners
    /\ \A w \in Waits :
          \/ memory'.outcome[w] = memory.outcome[w]
          \/ /\ Waiting(w) /\ memory'.outcome[w] \notin {"none", "waiting"}
             /\ memory'.entry[Key(w)] # w

LEMMA WaitsKeep ==
    ASSUME ApprovalsType, WaitsInv, UNCHANGED <<asked, about>>, MemoryMoves
    PROVE  WaitsInv'
<1>1. \A w \in Waits : w \in 1..asked <=> memory'.outcome[w] # "none"
  BY DEF WaitsInv, MemoryMoves, Waiting
<1>2. ASSUME NEW k \in Keys, memory'.entry[k] # None
      PROVE  /\ memory'.outcome[memory'.entry[k]] = "waiting" /\ Key(memory'.entry[k]) = k
             /\ \A w \in 1..asked : Key(w) = k => w <= memory'.entry[k]
  <2>1. memory'.entry[k] = memory.entry[k] /\ memory.entry[k] \in Waits
    BY <1>2 DEF MemoryMoves, ApprovalsType, Memory
  <2>2. /\ Waiting(memory.entry[k]) /\ Key(memory.entry[k]) = k
        /\ \A w \in 1..asked : Key(w) = k => w <= memory.entry[k]
    BY <1>2, <2>1 DEF WaitsInv
  <2>3. memory'.outcome[memory.entry[k]] = memory.outcome[memory.entry[k]]
    BY <2>1, <2>2 DEF MemoryMoves
  <2> DEFINE e == memory.entry[k]
             o == memory'.outcome
  <2>4. o[e] = "waiting"
    BY <2>2, <2>3 DEF Waiting
  <2> HIDE DEF o
  <2>5. o[memory'.entry[k]] = "waiting"
    BY <2>1, <2>4
  <2>6. Key(memory'.entry[k]) = k /\ \A w \in 1..asked : Key(w) = k => w <= memory'.entry[k]
    BY <2>1, <2>2
  <2> QED BY <2>5, <2>6 DEF o
<1>3. memory'.listeners \subseteq 1..asked
  BY DEF WaitsInv, MemoryMoves
<1>4. \A k \in Keys : memory'.entry[k] # None =>
          /\ memory'.outcome[memory'.entry[k]] = "waiting" /\ about'[memory'.entry[k]].key = k
          /\ \A w \in 1..asked' : about'[w].key = k => w <= memory'.entry[k]
  BY <1>2 DEF Key
<1>5. memory'.timers = {memory'.entry[k] : k \in Keys} \ {None}
  BY DEF MemoryMoves
<1>6. \A w \in Waits : w \in 1..asked' <=> memory'.outcome[w] # "none"
  BY <1>1
<1> QED BY <1>3, <1>4, <1>5, <1>6 DEF WaitsInv, Waiting, Key

(* An entry is held by one wait. *)
LEMMA EntriesDiffer ==
    ASSUME WaitsInv, NEW j \in Keys, NEW k \in Keys, memory.entry[j] = memory.entry[k],
           memory.entry[j] # None
    PROVE  j = k
BY DEF WaitsInv

LEMMA AskedIsKnown ==
    ASSUME ApprovalsType, NEW w \in 1..asked
    PROVE  w \in Waits /\ w \in Nat /\ about[w] \in Call /\ Key(w) \in Keys
<1>1. w \in Waits /\ w \in Nat
  BY ApprovalAssumption DEF ApprovalsType, Waits
<1>2. about[w] \in Call
  BY DEF ApprovalsType
<1> QED BY <1>1, <1>2 DEF Call, Key

LEMMA FinishMoves ==
    ASSUME ApprovalsType, WaitsInv, NEW w \in 1..asked, NEW outcome \in Outcome \ {"none", "waiting"},
           NEW m \in Memory, m.entry = memory.entry, m.outcome = memory.outcome,
           m.timers \in {memory.timers, memory.timers \ {memory.entry[Key(w)]}},
           m.listeners = memory.listeners, memory' = Finish(m, w, outcome)
    PROVE  /\ MemoryMoves /\ w \in Waits /\ Key(w) \in Keys
           /\ \A k \in Keys : memory'.entry[k] = IF k = Key(w) THEN None ELSE memory.entry[k]
           /\ memory.listeners \subseteq memory'.listeners \cup {memory.entry[Key(w)]}
           /\ Holds(w) => w \notin memory'.listeners
           /\ \A v \in Waits : memory'.outcome[v] = IF v = w /\ Waiting(w) THEN outcome
                                                    ELSE memory.outcome[v]
<1> DEFINE holder == memory.entry[Key(w)]
<1>1. w \in Waits /\ about[w] \in Call /\ Key(w) \in Keys
  BY AskedIsKnown
<1>2. /\ memory' \in Memory /\ memory \in Memory
      /\ memory'.entry = [memory.entry EXCEPT ![Key(w)] = None]
      /\ memory'.timers = m.timers \ {holder}
      /\ memory'.listeners \subseteq memory.listeners
      /\ memory.listeners \subseteq memory'.listeners \cup {holder}
      /\ holder = w => w \notin memory'.listeners
      /\ memory'.outcome = [memory.outcome EXCEPT
                               ![w] = IF memory.outcome[w] = "waiting" THEN outcome ELSE @]
  <2> DEFINE n == Finish(m, w, outcome)
  <2>1. outcome \in Outcome /\ memory \in Memory
    BY DEF ApprovalsType
  <2>2. /\ n \in Memory
        /\ n.entry = [m.entry EXCEPT ![Key(w)] = None]
        /\ n.timers = m.timers \ {m.entry[Key(w)]}
        /\ n.listeners \subseteq m.listeners
        /\ m.listeners \subseteq n.listeners \cup {m.entry[Key(w)]}
        /\ m.entry[Key(w)] = w => w \notin n.listeners
        /\ n.outcome = [m.outcome EXCEPT
                            ![w] = IF m.outcome[w] = "waiting" THEN outcome ELSE @]
    BY <1>1, <2>1, FinishIs
  <2>3. memory' = n
    OBVIOUS
  <2> HIDE DEF n
  <2> QED BY <2>1, <2>2, <2>3
<1>3. \A k \in Keys : memory'.entry[k] = IF k = Key(w) THEN None ELSE memory.entry[k]
  BY <1>1, <1>2 DEF Memory
<1>4. \A v \in Waits : memory'.outcome[v] = IF v = w /\ Waiting(w) THEN outcome ELSE memory.outcome[v]
  BY <1>1, <1>2 DEF Memory, Waiting
<1>5. memory'.timers = {memory'.entry[k] : k \in Keys} \ {None}
  <2>1. memory'.timers = memory.timers \ {holder} /\ memory.timers = {memory.entry[k] : k \in Keys} \ {None}
    BY <1>2 DEF WaitsInv
  <2>2. ASSUME NEW k \in Keys, memory.entry[k] # None, memory.entry[k] # holder
        PROVE  memory'.entry[k] = memory.entry[k]
    BY <1>3, <2>2
  <2>3. ASSUME NEW k \in Keys, memory'.entry[k] # None
        PROVE  memory'.entry[k] = memory.entry[k] /\ memory.entry[k] # holder
    BY <1>1, <1>3, <2>3, EntriesDiffer
  <2> QED BY <2>1, <2>2, <2>3
<1>6. memory'.entry[Key(w)] # w
  BY <1>1, <1>3, NoneIsNoWait
<1>7. \A k \in Keys : memory'.entry[k] \in {memory.entry[k], None}
  BY <1>3
<1>8. \A v \in Waits : \/ memory'.outcome[v] = memory.outcome[v]
                       \/ /\ Waiting(v) /\ memory'.outcome[v] \notin {"none", "waiting"}
                          /\ memory'.entry[Key(v)] # v
  BY <1>4, <1>6
<1> QED BY <1>1, <1>2, <1>3, <1>4, <1>5, <1>7, <1>8 DEF MemoryMoves, Holds

(* Every decision stays as it is or gets a phase that suits it. *)
LEMMA ClicksKeep ==
    ASSUME ApprovalsType, ClicksInv, asked' \in Nat, asked <= asked',
           \A w \in 1..asked : about'[w] = about[w] /\ (Waiting(w)' => Waiting(w)),
           \A c \in Clicks : click'[c] = click[c] \/ (ClickOK(c)' /\ click'[c].phase # "none")
    PROVE  ClicksInv'
<1> SUFFICES ASSUME NEW c \in Clicks, click'[c] = click[c] PROVE ClickOK(c)'
  BY DEF ClicksInv
<1>1. ClickOK(c) /\ asked \in Nat
  BY DEF ClicksInv, ApprovalsType
<1>2. 1..asked \subseteq 1..asked'
  BY <1>1
<1>3. click'[c].phase # "none" => \A b \in 1..(c - 1) : click'[b].phase # "none"
  <2>1. \A b \in 1..(c - 1) : b \in Clicks
    BY ApprovalAssumption DEF Clicks
  <2> QED BY <1>1, <2>1 DEF ClickOK
<1>4. click'[c].phase = "reading" => click'[c].card \in 1..asked'
  BY <1>1, <1>2 DEF ClickOK
<1>5. click'[c].wait # None =>
          /\ click'[c].phase \in {"writing", "resolved"}
          /\ click'[c].card \in 1..asked' /\ click'[c].wait \in 1..asked'
          /\ about'[click'[c].card].key = about'[click'[c].wait].key
          /\ about'[click'[c].card].content = about'[click'[c].wait].content
          /\ click'[c].phase = "resolved" => memory'.outcome[click'[c].wait] # "waiting"
  BY <1>1, <1>2 DEF ClickOK, Key, Waiting
<1> QED BY <1>3, <1>4, <1>5 DEF ClickOK, Key, Waiting

(* The decision on a wait that is settled stays the first one. *)
LEMMA DecisionStays ==
    ASSUME ApprovalsType, ClicksInv, GrantInv, NEW w \in Waits,
           memory'.outcome[w] = memory.outcome[w], memory.outcome[w] \in {"granted", "refused"},
           \A c \in Clicks : /\ click[c].phase = "resolved" => click'[c] = click[c]
                             /\ \/ click'[c].wait \in {click[c].wait, None}
                                \/ click[c].phase = "none"
    PROVE  \E c \in Clicks : DecidedBy(w, c)'
<1>1. PICK c \in Clicks : DecidedBy(w, c)
  BY DEF GrantInv
<1>2. click'[c] = click[c] /\ ClickOK(c)
  BY <1>1 DEF DecidedBy, ClicksInv
<1>3. ASSUME NEW b \in 1..(c - 1) PROVE click'[b].wait # w
  <2>1. b \in Clicks
    BY ApprovalAssumption DEF Clicks
  <2>2. click[b].phase # "none" /\ click[b].wait # w
    BY <1>1, <1>2 DEF ClickOK, DecidedBy
  <2> QED BY <2>1, <2>2, NoneIsNoWait
<1>4. DecidedBy(w, c)'
  BY <1>1, <1>2, <1>3 DEF DecidedBy
<1> QED BY <1>4

(* Writes are put at the end of the chain. *)
LEMMA QueueGrows ==
    ASSUME ApprovalsType, QueueInv, queue' \in Seq(Write), Len(queue) <= Len(queue'),
           asked' \in Nat, asked <= asked',
           \A i \in DOMAIN queue : queue'[i] = queue[i],
           \A c \in Clicks : click[c].phase = "writing" => click'[c] = click[c],
           \A i \in DOMAIN queue' \ DOMAIN queue : WriteOK(i)',
           \A i \in DOMAIN queue', j \in DOMAIN queue' \ DOMAIN queue : i < j => OrderOK(i, j)',
           \A c \in Clicks : click'[c].phase = "writing" /\ click'[c].wait # None =>
              click'[c] = click[c] \/ \E i \in DOMAIN queue' : queue'[i].by = c
    PROVE  QueueInv'
<1>1. /\ queue \in Seq(Write) /\ DOMAIN queue = 1..Len(queue) /\ DOMAIN queue' = 1..Len(queue')
      /\ Len(queue) \in Nat /\ Len(queue') \in Nat /\ asked \in Nat
  BY DEF ApprovalsType
<1>2. DOMAIN queue \subseteq DOMAIN queue' /\ \A i \in DOMAIN queue, j \in DOMAIN queue' : j < i => j \in DOMAIN queue
  BY <1>1
<1>3. ASSUME NEW i \in DOMAIN queue
      PROVE  /\ queue[i] \in Write /\ queue[i].wait \in Nat
             /\ queue[i].by # None => /\ queue[i].by \in Clicks
                                      /\ click'[queue[i].by] = click[queue[i].by]
  <2>1. queue[i] \in Write /\ WriteOK(i)
    BY <1>1 DEF QueueInv
  <2>2. queue[i].wait \in Nat /\ queue[i].by \in Clicks \cup {None}
    BY <2>1, NoneIsNoWait DEF Write
  <2> QED BY <2>1, <2>2 DEF WriteOK
<1>4. ASSUME NEW i \in DOMAIN queue PROVE WriteOK(i)'
  <2>1. WriteOK(i) /\ queue'[i] = queue[i]
    BY DEF QueueInv
  <2>2. queue'[i].wait <= asked'
    BY <1>1, <1>3, <2>1 DEF WriteOK
  <2> QED BY <1>3, <2>1, <2>2 DEF WriteOK, DecidedFor
<1>5. ASSUME NEW i \in DOMAIN queue, NEW j \in DOMAIN queue, i < j PROVE OrderOK(i, j)'
  <2>1. OrderOK(i, j) /\ queue'[i] = queue[i] /\ queue'[j] = queue[j]
    BY <1>5 DEF QueueInv
  <2> QED BY <1>3, <2>1 DEF OrderOK, DecidedFor
<1>6. \A i, j \in DOMAIN queue' : i < j => OrderOK(i, j)'
  BY <1>2, <1>5
<1>7. ASSUME NEW c \in Clicks, click'[c].phase = "writing", click'[c].wait # None
      PROVE  \E i \in DOMAIN queue' : queue'[i].by = c
  <2>1. CASE click'[c] = click[c]
    <3>1. PICK i \in DOMAIN queue : queue[i].by = c
      BY <1>7, <2>1 DEF QueueInv
    <3> QED BY <1>2, <3>1
  <2> QED BY <1>7, <2>1
<1> QED BY <1>4, <1>6, <1>7 DEF QueueInv

(* The first write of the chain is done. *)
LEMMA QueueShrinks ==
    ASSUME ApprovalsType, QueueInv, queue # <<>>, queue' = RemoveAt(queue, 1), UNCHANGED asked,
           \A c \in Clicks : IF queue[1].by = c THEN click'[c].phase # "writing"
                             ELSE click'[c] = click[c]
    PROVE  /\ QueueInv' /\ queue' \in Seq(Write) /\ Len(queue') = Len(queue) - 1
           /\ DOMAIN queue' = 1..(Len(queue) - 1) /\ DOMAIN queue = 1..Len(queue)
           /\ Len(queue) \in Nat \ {0}
           /\ \A i \in DOMAIN queue' : queue'[i] = queue[i + 1]
<1>1. /\ queue \in Seq(Write) /\ DOMAIN queue = 1..Len(queue) /\ Len(queue) \in Nat \ {0}
  BY DEF ApprovalsType
<1>2. /\ queue' \in Seq(Write) /\ Len(queue') = Len(queue) - 1
      /\ \A i \in 1..(Len(queue) - 1) : queue'[i] = queue[i + 1]
  <2>1. queue' = SubSeq(queue, 1, 0) \o SubSeq(queue, 2, Len(queue))
    BY DEF RemoveAt
  <2> DEFINE rest == SubSeq(queue, 2, Len(queue))
  <2>2. /\ rest \in Seq(Write) /\ Len(rest) = Len(queue) - 1
        /\ \A i \in 1..(Len(queue) - 1) : rest[i] = queue[i + 1]
    BY <1>1
  <2>3. SubSeq(queue, 1, 0) = <<>>
    BY <1>1
  <2> HIDE DEF rest
  <2>4. queue' = rest
    BY <2>1, <2>2, <2>3 DEF rest
  <2> QED BY <2>2, <2>4
<1>3. DOMAIN queue' = 1..(Len(queue) - 1)
  BY <1>1, <1>2
<1>4. ASSUME NEW i \in DOMAIN queue'
      PROVE  /\ i + 1 \in DOMAIN queue /\ queue'[i] = queue[i + 1] /\ WriteOK(i + 1)
             /\ queue[i + 1].by # None => /\ queue[i + 1].by \in Clicks
                                          /\ click'[queue[i + 1].by] = click[queue[i + 1].by]
  <2>1. i + 1 \in DOMAIN queue /\ 1 \in DOMAIN queue /\ 1 < i + 1 /\ queue'[i] = queue[i + 1]
    BY <1>1, <1>2, <1>3
  <2>2. WriteOK(i + 1) /\ OrderOK(1, i + 1)
    BY <2>1 DEF QueueInv
  <2>3. queue[i + 1] \in Write /\ queue[1] \in Write
    BY <1>1, <2>1
  <2>4. queue[i + 1].by \in Clicks \cup {None} /\ queue[1].by \in Clicks \cup {None}
    BY <2>3 DEF Write
  <2> QED BY <2>1, <2>2, <2>4 DEF OrderOK
<1>5. \A i \in DOMAIN queue' : WriteOK(i)'
  BY <1>4 DEF WriteOK, DecidedFor
<1>6. ASSUME NEW i \in DOMAIN queue', NEW j \in DOMAIN queue', i < j PROVE OrderOK(i, j)'
  <2>1. i + 1 < j + 1
    BY <1>3, <1>6
  <2>2. OrderOK(i + 1, j + 1)
    BY <1>4, <2>1 DEF QueueInv
  <2> QED BY <1>4, <2>2 DEF OrderOK, DecidedFor
<1>7. ASSUME NEW c \in Clicks, click'[c].phase = "writing", click'[c].wait # None
      PROVE  \E i \in DOMAIN queue' : queue'[i].by = c
  <2>1. click'[c] = click[c]
    BY <1>7
  <2>2. PICK i \in DOMAIN queue : queue[i].by = c
    BY <1>7, <2>1 DEF QueueInv
  <2>3. CASE i = 1
    <3>1. FALSE
      BY <1>7, <2>1, <2>2, <2>3
    <3> QED BY <3>1
  <2>4. CASE i # 1
    <3>1. i - 1 \in DOMAIN queue' /\ queue'[i - 1] = queue[(i - 1) + 1] /\ (i - 1) + 1 = i
      BY <1>1, <1>2, <1>3, <2>4
    <3> QED BY <2>2, <3>1
  <2> QED BY <2>3, <2>4
<1> QED BY <1>1, <1>2, <1>3, <1>5, <1>6, <1>7 DEF QueueInv

(* What a wait is disturbed by is not forgotten. *)
Remembered ==
    /\ \A w \in 1..asked : /\ about'[w] = about[w]
                           /\ memory.outcome[w] = "displaced" => memory'.outcome[w] = "displaced"
    /\ \A c \in Clicks : click[c].wait # None => click'[c].wait = click[c].wait

LEMMA OverlapStays ==
    ASSUME ApprovalsType, Remembered, NEW w \in 1..asked
    PROVE  /\ Overlapped(w) => Overlapped(w)'
           /\ Disturbed(w) => Disturbed(w)'
           /\ \A v \in 1..asked : w < v /\ Key(w) = Key(v) /\ Disturbed(w) => Overlapped(v)
<1>1. \A v \in 1..asked : v \in Nat /\ about'[v] = about[v]
  BY AskedIsKnown DEF Remembered
<1>2. \A v \in 1..asked : \A u \in 1..(v - 1) : u \in 1..asked /\ u \in Nat /\ u < v
  BY <1>1 DEF ApprovalsType
<1>3. ASSUME NEW v \in 1..asked, NEW c \in Clicks, click[c].wait = v
      PROVE  click'[c].wait = v
  BY <1>1, <1>3, ApprovalAssumption DEF Remembered
<1>4. ASSUME Overlapped(w) PROVE Overlapped(w)'
  <2>1. PICK v \in 1..(w - 1) : /\ about[v].key = about[w].key
                                /\ \/ memory.outcome[v] = "displaced"
                                   \/ \E c \in Clicks : click[c].wait = v
    BY <1>4 DEF Overlapped
  <2>2. v \in 1..asked /\ about'[v].key = about'[w].key
    BY <1>1, <1>2, <2>1
  <2>3. memory'.outcome[v] = "displaced" \/ \E c \in Clicks : click'[c].wait = v
    BY <1>3, <2>1, <2>2 DEF Remembered
  <2> QED BY <2>2, <2>3 DEF Overlapped
<1>5. ASSUME Disturbed(w) PROVE Disturbed(w)'
  <2>1. CASE memory.outcome[w] = "displaced"
    BY <2>1 DEF Remembered, Disturbed
  <2>2. CASE Decided(w)
    BY <1>3, <2>2 DEF Decided, Disturbed
  <2>3. CASE Overlapped(w)
    BY <1>4, <2>3 DEF Disturbed
  <2> QED BY <1>5, <2>1, <2>2, <2>3 DEF Disturbed
<1>6. ASSUME NEW v \in 1..asked, w < v, Key(w) = Key(v), Disturbed(w) PROVE Overlapped(v)
  <2>1. w \in 1..(v - 1) /\ v \in Nat /\ w \in Nat
    BY <1>1, <1>6
  <2>2. CASE memory.outcome[w] = "displaced" \/ Decided(w)
    BY <1>6, <2>1, <2>2 DEF Overlapped, Decided, Key
  <2>3. CASE Overlapped(w)
    <3>1. PICK u \in 1..(w - 1) : /\ about[u].key = about[w].key
                                  /\ \/ memory.outcome[u] = "displaced"
                                     \/ \E c \in Clicks : click[c].wait = u
      BY <2>3 DEF Overlapped
    <3>2. u \in 1..(v - 1)
      BY <1>6, <2>1
    <3> QED BY <1>6, <3>1, <3>2 DEF Overlapped, Key
  <2> QED BY <1>6, <2>2, <2>3 DEF Disturbed
<1> QED BY <1>4, <1>5, <1>6

(* One write is put at the end of the chain. *)
LEMMA Appended ==
    ASSUME ApprovalsType, NEW x \in Write, queue' = Append(queue, x)
    PROVE  /\ queue' \in Seq(Write) /\ Len(queue) \in Nat /\ Len(queue') = Len(queue) + 1
           /\ DOMAIN queue = 1..Len(queue) /\ DOMAIN queue' = 1..(Len(queue) + 1)
           /\ \A i \in DOMAIN queue : queue'[i] = queue[i] /\ i < Len(queue) + 1
           /\ queue'[Len(queue) + 1] = x
           /\ \A i \in DOMAIN queue' \ DOMAIN queue : i = Len(queue) + 1
<1>1. queue \in Seq(Write)
  BY DEF ApprovalsType
<1> QED BY <1>1

(* The writes of no decision are put at the end. *)
LEMMA UpdatesAppended ==
    ASSUME ApprovalsType, QueueInv, UNCHANGED <<asked, click>>,
           queue' \in Seq(Write), Len(queue) <= Len(queue'),
           \A i \in DOMAIN queue : queue'[i] = queue[i],
           \A i \in DOMAIN queue' \ DOMAIN queue :
              /\ queue'[i].what = "update" /\ queue'[i].by = None
              /\ queue'[i].status # "pending" /\ queue'[i].wait \in 1..asked
    PROVE  QueueInv'
<1>1. asked \in Nat /\ asked' \in Nat /\ asked <= asked'
  BY DEF ApprovalsType
<1>2. \A i \in DOMAIN queue' \ DOMAIN queue : WriteOK(i)'
  BY <1>1 DEF WriteOK, DecidedFor
<1>3. ASSUME NEW i \in DOMAIN queue', NEW j \in DOMAIN queue' \ DOMAIN queue, i < j
      PROVE  OrderOK(i, j)'
  BY DEF OrderOK, DecidedFor
<1> QED BY <1>1, <1>2, <1>3, QueueGrows

LEMMA WritesAreAsked ==
    ASSUME ApprovalsType, QueueInv, NEW i \in DOMAIN queue
    PROVE  /\ queue[i] \in Write /\ queue[i].wait \in 1..asked /\ queue[i].wait \in Waits
           /\ i \in Nat \ {0} /\ i <= Len(queue) /\ Len(queue) \in Nat
<1>1. queue[i] \in Write /\ WriteOK(i) /\ asked \in Nat
  BY DEF ApprovalsType, QueueInv
<1>2. queue[i].wait \in Waits
  BY <1>1 DEF Write
<1>3. queue[i].wait \in 1..asked
  BY <1>1, <1>2 DEF WriteOK, Waits
<1>4. i \in Nat \ {0} /\ i <= Len(queue) /\ Len(queue) \in Nat
  BY DEF ApprovalsType
<1> QED BY <1>1, <1>2, <1>3, <1>4

(* The record is behind of what the chain still has to write. *)
LEMMA RecordGrows ==
    ASSUME ApprovalsType, WaitsInv, QueueInv, FileInv, RecordInv, Remembered, faults = 0,
           UNCHANGED <<asked, about, broken, file>>,
           DOMAIN queue \subseteq DOMAIN queue', DOMAIN queue' \subseteq Nat,
           \A i \in DOMAIN queue : queue'[i] = queue[i],
           \A i \in DOMAIN queue' \ DOMAIN queue :
              queue'[i].what = "update" /\ \A j \in DOMAIN queue : j < i,
           memory'.listeners \subseteq memory.listeners,
           \A w \in 1..asked : Waiting(w)' => Waiting(w),
           \A w \in 1..asked : Holds(w) /\ (Waiting(w)' \/ w \in memory'.listeners) =>
              Holds(w)' \/ Overlapped(w)',
           \A w \in 1..asked : Waiting(w) /\ ~Waiting(w)' =>
              \/ Overlapped(w)'
              \/ \E j \in DOMAIN queue' \ DOMAIN queue : Key(queue'[j].wait) = Key(w)
    PROVE  RecordInv'
<1>1. \A w \in 1..asked : Waiting(w)' => Holds(w)' \/ Overlapped(w)'
  BY OverlapStays DEF RecordInv
<1>2. \A w \in memory'.listeners : Holds(w)' \/ Disturbed(w)'
  BY OverlapStays DEF RecordInv, Disturbed, WaitsInv
<1>3. ASSUME NEW i \in DOMAIN queue', queue'[i].what = "put"
      PROVE  \E w \in 1..asked :
                /\ w = queue'[i].wait
                /\ \/ Waiting(w)' \/ Overlapped(w)'
                   \/ \E j \in DOMAIN queue' : i < j /\ Key(queue'[j].wait) = Key(w)
  <2>1. i \in DOMAIN queue /\ queue'[i] = queue[i]
    BY <1>3
  <2>2. queue[i].wait \in 1..asked
    BY <2>1, WritesAreAsked
  <2>3. PICK w \in 1..asked : w = queue[i].wait
    BY <2>2
  <2>4. \/ Waiting(w) \/ Overlapped(w) \/ \E j \in DOMAIN queue : i < j /\ Key(queue[j].wait) = Key(w)
    BY <1>3, <2>1, <2>3 DEF RecordInv
  <2>5. CASE \E j \in DOMAIN queue : i < j /\ Key(queue[j].wait) = Key(w)
    BY <2>1, <2>3, <2>5
  <2>6. CASE \E j \in DOMAIN queue' \ DOMAIN queue : Key(queue'[j].wait) = Key(w)
    BY <2>1, <2>3, <2>6
  <2>7. Waiting(w)' \/ Overlapped(w)' => \E v \in 1..asked : v = queue'[i].wait /\ (Waiting(v)' \/ Overlapped(v)')
    BY <2>1, <2>3
  <2> QED BY <2>1, <2>3, <2>4, <2>5, <2>6, <2>7, OverlapStays
<1>4. ASSUME NEW k \in Keys, file[k] # None, file[k].status = "pending"
      PROVE  \E w \in 1..asked :
                w = file[k].wait /\ (Waiting(w)' \/ Overlapped(w)' \/ Behind(k)')
  <2>1. file[k].wait \in 1..asked /\ Key(file[k].wait) = k
    BY <1>4 DEF FileInv
  <2>2. PICK w \in 1..asked : w = file[k].wait
    BY <2>1
  <2>3. Waiting(w) \/ Overlapped(w) \/ Behind(k)
    BY <1>4, <2>2 DEF RecordInv
  <2>4. Behind(k) => Behind(k)'
    BY DEF Behind, Key
  <2>5. (\E j \in DOMAIN queue' \ DOMAIN queue : Key(queue'[j].wait) = Key(w)) => Behind(k)'
    BY <2>1, <2>2 DEF Behind, Key
  <2> QED BY <2>2, <2>3, <2>4, <2>5, OverlapStays
<1>5. ~broken'
  BY DEF RecordInv
<1>6. \A i \in DOMAIN queue' : queue'[i].what = "put" =>
          \/ memory'.outcome[queue'[i].wait] = "waiting" \/ Overlapped(queue[i].wait)'
          \/ \E j \in DOMAIN queue' : i < j /\ about'[queue'[j].wait].key = about'[queue'[i].wait].key
  BY <1>3 DEF Waiting, Overlapped, Key
<1>7. \A k \in Keys : file'[k] # None /\ file'[k].status = "pending" =>
          memory'.outcome[file'[k].wait] = "waiting" \/ Overlapped(file[k].wait)' \/ Behind(k)'
  BY <1>4 DEF Waiting, Overlapped
<1> QED BY <1>1, <1>2, <1>5, <1>6, <1>7 DEF RecordInv, Waiting, Key

-----------------------------------------------------------------------------
(* The first state and the steps                                            *)

LEMMA InitHolds == Init => ApprovalsInv
<1> SUFFICES ASSUME Init PROVE ApprovalsInv
  OBVIOUS
<1>1. memory \in Memory
  BY DEF Init, Memory, Outcome
<1>2. click \in [Clicks -> Click]
  BY DEF Init, Click, ClickPhase
<1>3. ApprovalsType
  <2>1. about \in [Waits -> Call \cup {None}] /\ \A w \in 1..asked : about[w] \in Call
    BY DEF Init
  <2>2. asked \in 0..MaxWaits /\ faults \in 0..MaxFaults /\ broken \in BOOLEAN
    <3>1. MaxWaits \in Nat /\ MaxFaults \in Nat
      BY ApprovalAssumption, Zenon
    <3>2. asked = 0 /\ faults = 0 /\ broken = FALSE
      BY DEF Init
    <3>3. broken \in BOOLEAN
      BY <3>2
    <3>4. 0 \in 0..MaxWaits /\ 0 \in 0..MaxFaults
      BY <3>1
    <3> QED BY <3>2, <3>3, <3>4, Zenon
  <2>3. queue \in Seq(Write) /\ file \in [Keys -> Record \cup {None}] /\ stopped \in SUBSET Requests
    BY DEF Init
  <2> QED BY <1>1, <1>2, <2>1, <2>2, <2>3 DEF ApprovalsType
<1>4. WaitsInv
  BY DEF Init, WaitsInv
<1>5. ClicksInv /\ QueueInv
  BY DEF Init, ClicksInv, ClickOK, QueueInv
<1>6. GrantInv /\ FileInv
  BY DEF Init, GrantInv, FileInv
<1>7. RecordInv
  BY DEF Init, RecordInv, Waiting, Waits
<1> QED BY <1>3, <1>4, <1>5, <1>6, <1>7 DEF ApprovalsInv

LEMMA HolderIsLive ==
    ASSUME ApprovalsType, WaitsInv, NEW k \in Keys, memory.entry[k] # None
    PROVE  /\ memory.entry[k] \in 1..asked /\ Waiting(memory.entry[k]) /\ Key(memory.entry[k]) = k
           /\ Holds(memory.entry[k])
<1>1. memory.entry[k] \in Waits
  BY DEF ApprovalsType, Memory
<1>2. Waiting(memory.entry[k]) /\ Key(memory.entry[k]) = k
  BY DEF WaitsInv
<1> QED BY <1>1, <1>2 DEF WaitsInv, Waiting, Holds

LEMMA ExpireHolds ==
    ASSUME ApprovalsInv, NEW w \in Waits, Expire(w)
    PROVE  ApprovalsInv'
<1> DEFINE m == [memory EXCEPT !.timers = @ \ {w}]
           x == StatusUpdate(w, "expired")
<1>1. /\ ApprovalsType /\ WaitsInv /\ ClicksInv /\ QueueInv /\ GrantInv /\ FileInv /\ RecordInv
      /\ w \in memory.timers /\ memory' = Finish(m, w, "expired")
      /\ UNCHANGED <<asked, about, broken, file, stopped, click, faults>>
  BY DEF ApprovalsInv, Expire
<1>2. PICK k \in Keys : memory.entry[k] = w
  BY <1>1 DEF WaitsInv
<1>3. w \in 1..asked /\ Waiting(w) /\ Key(w) = k /\ Holds(w)
  BY <1>1, <1>2, HolderIsLive, NoneIsNoWait
<1>4. queue' = Append(queue, x) /\ x \in Write
  <2>1. UpdateOf(memory, w, "expired") = <<x>>
    BY <1>2, <1>3, NoneIsNoWait DEF UpdateOf, Key
  <2>2. x \in Write
    BY DEF StatusUpdate, Write, Status
  <2>3. queue \in Seq(Write) /\ queue' = queue \o UpdateOf(memory, w, "expired")
    BY <1>1 DEF ApprovalsType, Expire
  <2> HIDE DEF x
  <2>4. \A q \in Seq(Write), y \in Write : q \o <<y>> = Append(q, y)
    OBVIOUS
  <2> QED BY <2>1, <2>2, <2>3, <2>4
<1>5. /\ m \in Memory /\ m.entry = memory.entry /\ m.outcome = memory.outcome
      /\ m.timers = memory.timers \ {memory.entry[Key(w)]} /\ m.listeners = memory.listeners
  <2>1. memory \in Memory
    BY <1>1 DEF ApprovalsType
  <2>4. m = [memory EXCEPT !.timers = @ \ {w}]
    OBVIOUS
  <2> HIDE DEF m
  <2>2. /\ m.entry = memory.entry /\ m.outcome = memory.outcome
        /\ m.timers = memory.timers \ {w} /\ m.listeners = memory.listeners
        /\ m = [entry |-> m.entry, timers |-> m.timers, listeners |-> m.listeners, outcome |-> m.outcome]
    BY <2>1, <2>4 DEF Memory
  <2>3. m \in Memory
    BY <2>1, <2>2 DEF Memory
  <2> QED BY <1>2, <1>3, <2>2, <2>3
<1>6. "expired" \in Outcome \ {"none", "waiting"}
  BY DEF Outcome
<1> HIDE DEF m, x
<1>7. /\ MemoryMoves
      /\ \A j \in Keys : memory'.entry[j] = IF j = Key(w) THEN None ELSE memory.entry[j]
      /\ w \notin memory'.listeners
      /\ \A v \in Waits : memory'.outcome[v] = IF v = w THEN "expired" ELSE memory.outcome[v]
  BY <1>1, <1>3, <1>5, <1>6, FinishMoves
<1>8. /\ queue' \in Seq(Write) /\ Len(queue) \in Nat /\ Len(queue') = Len(queue) + 1
      /\ DOMAIN queue = 1..Len(queue) /\ DOMAIN queue' = 1..(Len(queue) + 1)
      /\ \A i \in DOMAIN queue : queue'[i] = queue[i] /\ i < Len(queue) + 1
      /\ queue'[Len(queue) + 1] = x
      /\ \A i \in DOMAIN queue' \ DOMAIN queue : i = Len(queue) + 1
  BY <1>1, <1>4, Appended
<1>9. x.what = "update" /\ x.by = None /\ x.status = "expired" /\ x.wait = w
  BY DEF x, StatusUpdate
<1>10. ApprovalsType'
  BY <1>1, <1>7, <1>8 DEF ApprovalsType, MemoryMoves
<1>11. WaitsInv'
  BY <1>1, <1>7, WaitsKeep
<1>12. ClicksInv'
  <2>1. asked \in Nat /\ \A v \in 1..asked : Waiting(v)' => Waiting(v)
    BY <1>1, <1>3, <1>7, AskedIsKnown DEF ApprovalsType, Waiting
  <2> QED BY <1>1, <2>1, ClicksKeep
<1>13. QueueInv'
  BY <1>1, <1>3, <1>8, <1>9, UpdatesAppended
<1>14. GrantInv'
  <2>1. ASSUME NEW v \in Waits, memory'.outcome[v] \in {"granted", "refused"}
        PROVE  \E c \in Clicks : DecidedBy(v, c)'
    <3>1. memory'.outcome[v] = memory.outcome[v]
      BY <1>7, <2>1
    <3> QED BY <1>1, <2>1, <3>1, DecisionStays
  <2> QED BY <2>1 DEF GrantInv
<1>15. FileInv'
  BY <1>1 DEF FileInv, Key
<1>16. Remembered
  BY <1>1, <1>3, <1>7, AskedIsKnown DEF Remembered, Waiting
<1>17. ASSUME faults = 0 PROVE RecordInv'
  <2>1. \A v \in 1..asked : Waiting(v)' => Waiting(v)
    BY <1>1, <1>3, <1>7, AskedIsKnown DEF Waiting
  <2>2. \A v \in 1..asked : Holds(v) /\ (Waiting(v)' \/ v \in memory'.listeners) => Holds(v)'
    <3>1. SUFFICES ASSUME NEW v \in 1..asked, Holds(v), Waiting(v)' \/ v \in memory'.listeners
                   PROVE  Holds(v)'
      OBVIOUS
    <3>2. v \in Waits /\ Key(v) \in Keys
      BY <1>1, AskedIsKnown
    <3>3. v # w
      BY <1>7, <3>1, <3>2 DEF Waiting
    <3> QED BY <1>1, <1>2, <1>3, <1>7, <3>1, <3>2, <3>3 DEF Holds, Key
  <2>3. \A v \in 1..asked : Waiting(v) /\ ~Waiting(v)' =>
           \E j \in DOMAIN queue' \ DOMAIN queue : Key(queue'[j].wait) = Key(v)
    <3>1. SUFFICES ASSUME NEW v \in 1..asked, Waiting(v), ~Waiting(v)'
                   PROVE  \E j \in DOMAIN queue' \ DOMAIN queue : Key(queue'[j].wait) = Key(v)
      OBVIOUS
    <3>2. v = w
      BY <1>1, <1>7, <3>1, AskedIsKnown DEF Waiting
    <3>3. Len(queue) + 1 \in DOMAIN queue' \ DOMAIN queue
      BY <1>8
    <3> QED BY <1>8, <1>9, <3>2, <3>3
  <2>4. /\ DOMAIN queue \subseteq DOMAIN queue' /\ DOMAIN queue' \subseteq Nat
        /\ \A i \in DOMAIN queue' \ DOMAIN queue :
              queue'[i].what = "update" /\ \A j \in DOMAIN queue : j < i
    BY <1>8, <1>9
  <2>5. memory'.listeners \subseteq memory.listeners
    BY <1>7 DEF MemoryMoves
  <2> QED BY <1>1, <1>8, <1>16, <1>17, <2>1, <2>2, <2>3, <2>4, <2>5, RecordGrows
<1>18. RecordInv'
  BY <1>1, <1>17 DEF RecordInv
<1> QED BY <1>10, <1>11, <1>12, <1>13, <1>14, <1>15, <1>18 DEF ApprovalsInv

(* A decision makes a move before it has a result. *)
LEMMA ClickMoves ==
    ASSUME ApprovalsInv, NEW c \in Clicks, click[c].phase \in {"none", "reading"},
           click' \in [Clicks -> Click], \A b \in Clicks \ {c} : click'[b] = click[b],
           click'[c].phase # "none", click[c].phase = "reading" => click'[c].wait = None,
           ClickOK(c)', QueueInv',
           queue' \in Seq(Write), Len(queue) <= Len(queue'),
           \A i \in DOMAIN queue : queue'[i] = queue[i],
           \A i \in DOMAIN queue' \ DOMAIN queue : queue'[i].what = "update",
           UNCHANGED <<asked, about, memory, broken, file, stopped, faults>>
    PROVE  ApprovalsInv'
<1>1. /\ ApprovalsType /\ WaitsInv /\ ClicksInv /\ QueueInv /\ GrantInv /\ FileInv /\ RecordInv
  BY DEF ApprovalsInv
<1>2. ApprovalsType'
  BY <1>1 DEF ApprovalsType
<1>3. WaitsInv'
  BY <1>1 DEF WaitsInv, Waiting, Key
<1>4. ClicksInv'
  <2>1. asked' \in Nat /\ asked <= asked'
    BY <1>1 DEF ApprovalsType
  <2>2. \A w \in 1..asked : about'[w] = about[w] /\ (Waiting(w)' => Waiting(w))
    BY DEF Waiting
  <2>3. \A b \in Clicks : click'[b] = click[b] \/ (ClickOK(b)' /\ click'[b].phase # "none")
    OBVIOUS
  <2> QED BY <1>1, <2>1, <2>2, <2>3, ClicksKeep
<1>5. click[c].wait = None
  BY <1>1 DEF ClicksInv, ClickOK
<1>6. GrantInv'
  <2>1. \A b \in Clicks : /\ click[b].phase = "resolved" => click'[b] = click[b]
                          /\ \/ click'[b].wait \in {click[b].wait, None}
                             \/ click[b].phase = "none"
    OBVIOUS
  <2>2. ASSUME NEW v \in Waits, memory'.outcome[v] \in {"granted", "refused"}
        PROVE  \E b \in Clicks : DecidedBy(v, b)'
    BY <1>1, <2>1, <2>2, DecisionStays
  <2> QED BY <2>2 DEF GrantInv
<1>7. FileInv'
  BY <1>1 DEF FileInv, Key
<1>8. Remembered
  BY <1>5 DEF Remembered
<1>9. ASSUME faults = 0 PROVE RecordInv'
  <2>1. \A w \in 1..asked : (Waiting(w)' <=> Waiting(w)) /\ (Holds(w) <=> Holds(w)')
    BY DEF Waiting, Holds, Key
  <2>2. /\ DOMAIN queue \subseteq DOMAIN queue' /\ DOMAIN queue' \subseteq Nat
        /\ \A i \in DOMAIN queue' \ DOMAIN queue : \A j \in DOMAIN queue : j < i
    BY <1>1 DEF ApprovalsType
  <2> QED BY <1>1, <1>8, <1>9, <2>1, <2>2, RecordGrows
<1>10. RecordInv'
  BY <1>1, <1>9 DEF RecordInv
<1> QED BY <1>2, <1>3, <1>4, <1>6, <1>7, <1>10 DEF ApprovalsInv

(* A decision queues its write. *)
LEMMA DecisionQueued ==
    ASSUME ApprovalsInv, NEW c \in Clicks, click[c].phase \in {"none", "reading"}, UNCHANGED asked,
           \A b \in Clicks \ {c} : click'[b] = click[b], click'[c].phase = "writing",
           NEW w \in 1..asked, NEW status \in Status \ {"pending"},
           queue' = Append(queue, [what |-> "update", wait |-> w, status |-> status, by |-> c]),
           click'[c].wait # None => /\ click'[c].wait = w /\ status # "expired"
                                    /\ click[c].phase = "none"
    PROVE  /\ QueueInv' /\ queue' \in Seq(Write) /\ Len(queue) <= Len(queue')
           /\ \A i \in DOMAIN queue : queue'[i] = queue[i]
           /\ \A i \in DOMAIN queue' \ DOMAIN queue : queue'[i].what = "update"
<1> DEFINE x == [what |-> "update", wait |-> w, status |-> status, by |-> c]
<1>1. ApprovalsType /\ ClicksInv /\ QueueInv /\ asked \in Nat
  BY DEF ApprovalsInv, ApprovalsType
<1>2. w \in Waits /\ w \in Nat
  BY <1>1, AskedIsKnown
<1>3. x \in Write /\ x.what = "update" /\ x.wait = w /\ x.by = c /\ x.status = status
  BY <1>2 DEF Write
<1> HIDE DEF x
<1>4. /\ queue' \in Seq(Write) /\ Len(queue) \in Nat /\ Len(queue') = Len(queue) + 1
      /\ DOMAIN queue = 1..Len(queue) /\ DOMAIN queue' = 1..(Len(queue) + 1)
      /\ \A i \in DOMAIN queue : queue'[i] = queue[i] /\ i < Len(queue) + 1
      /\ queue'[Len(queue) + 1] = x
      /\ \A i \in DOMAIN queue' \ DOMAIN queue : i = Len(queue) + 1
  BY <1>1, <1>3, Appended DEF x
<1>5. c # None /\ c \in Nat /\ \A i \in DOMAIN queue : queue[i].by # None => queue[i].by # c
  BY <1>1, NoneIsNoWait DEF QueueInv, WriteOK
<1>6. ASSUME NEW i \in DOMAIN queue' \ DOMAIN queue PROVE WriteOK(i)'
  BY <1>1, <1>2, <1>3, <1>4, <1>5 DEF WriteOK, DecidedFor
<1>7. ASSUME NEW i \in DOMAIN queue', NEW j \in DOMAIN queue' \ DOMAIN queue, i < j
      PROVE  OrderOK(i, j)'
  <2>1. i \in DOMAIN queue /\ queue'[i] = queue[i] /\ queue'[j] = x
    BY <1>4, <1>7
  <2>2. ASSUME queue[i].by # None, click'[queue[i].by].wait # None, click'[c].wait # None
        PROVE  queue[i].by < c
    <3> DEFINE b == queue[i].by
    <3>1. b \in Clicks /\ click[b].phase = "writing"
      <4>1. queue[i] \in Write /\ WriteOK(i)
        BY <1>1, <2>1, WritesAreAsked DEF QueueInv
      <4> QED BY <2>2, <4>1 DEF Write, WriteOK
    <3> HIDE DEF b
    <3>2. b \in Nat /\ ClickOK(b)
      BY <1>1, <3>1, NoneIsNoWait DEF ClicksInv
    <3>3. c \notin 1..(b - 1)
      BY <2>2, <3>1, <3>2 DEF ClickOK
    <3>4. b # c
      BY <2>2, <3>1
    <3>5. b < c
      BY <1>5, <3>2, <3>3, <3>4, ApprovalAssumption DEF Clicks
    <3> QED BY <3>5 DEF b
  <2> QED BY <1>3, <1>5, <2>1, <2>2 DEF OrderOK, DecidedFor
<1>8. \A b \in Clicks : click[b].phase = "writing" => click'[b] = click[b]
  OBVIOUS
<1>9. \A b \in Clicks : click'[b].phase = "writing" /\ click'[b].wait # None =>
         click'[b] = click[b] \/ \E i \in DOMAIN queue' : queue'[i].by = b
  BY <1>3, <1>4
<1>10. QueueInv'
  BY <1>1, <1>4, <1>6, <1>7, <1>8, <1>9, QueueGrows
<1> QED BY <1>3, <1>4, <1>10

LEMMA DecideHolds ==
    ASSUME ApprovalsInv, NEW c \in Clicks, Decide(c)
    PROVE  ApprovalsInv'
<1>1. /\ ApprovalsType /\ WaitsInv /\ ClicksInv /\ QueueInv
      /\ click \in [Clicks -> Click] /\ asked \in Nat
  BY DEF ApprovalsInv, ApprovalsType
<1>2. /\ click[c].phase = "none" /\ \A b \in 1..(c - 1) : click[b].phase # "none"
      /\ UNCHANGED <<asked, about, memory, broken, file, stopped, faults>>
  BY DEF Decide
<1>3. c \notin 1..(c - 1)
  BY NoneIsNoWait
<1>4. PICK card \in 1..asked, yes \in BOOLEAN :
        LET holder == memory.entry[about[card].key]
            Now(phase, wait) ==
               click' = [click EXCEPT ![c] = [phase |-> phase, card |-> card,
                                              yes |-> yes, wait |-> wait]]
        IN  CASE holder = None ->
                   Now("reading", None) /\ UNCHANGED queue
              [] holder # None /\ about[holder].content # about[card].content ->
                   click' = [click EXCEPT ![c] = Answered("mismatch")] /\ UNCHANGED queue
              [] OTHER ->
                   /\ Now("writing", holder)
                   /\ queue' = Append(queue, [what |-> "update", wait |-> holder, by |-> c,
                                              status |-> IF yes THEN "approved" ELSE "rejected"])
  BY DEF Decide
<1> DEFINE holder == memory.entry[Key(card)]
<1>5. card \in Waits /\ Key(card) \in Keys
  BY <1>1, AskedIsKnown
<1>6. CASE holder = None
  <2> DEFINE new == [phase |-> "reading", card |-> card, yes |-> yes, wait |-> None]
  <2>1. click' = [click EXCEPT ![c] = new] /\ queue' = queue
    BY <1>4, <1>6 DEF Key
  <2>2. new \in Click
    BY <1>5 DEF Click, ClickPhase
  <2>3. new.phase = "reading" /\ new.card = card /\ new.wait = None
    OBVIOUS
  <2> HIDE DEF new
  <2>4. /\ click' \in [Clicks -> Click] /\ click'[c] = new
        /\ \A b \in Clicks \ {c} : click'[b] = click[b]
    BY <1>1, <2>1, <2>2
  <2>5. ClickOK(c)'
    BY <1>2, <1>3, <2>3, <2>4, ApprovalAssumption DEF ClickOK, Clicks
  <2>6. QueueInv'
    <3>1. \A b \in Clicks : click[b].phase = "writing" => click'[b] = click[b]
      BY <1>2, <2>4
    <3>2. \A b \in Clicks : click'[b].phase = "writing" => click'[b] = click[b]
      BY <2>3, <2>4
    <3>3. queue' \in Seq(Write) /\ Len(queue) \in Nat
      BY <1>1, <2>1 DEF ApprovalsType
    <3> QED BY <1>1, <1>2, <2>1, <3>1, <3>2, <3>3, QueueGrows
  <2>7. queue' \in Seq(Write) /\ Len(queue) \in Nat
    BY <1>1, <2>1 DEF ApprovalsType
  <2> QED BY <1>2, <2>1, <2>3, <2>4, <2>5, <2>6, <2>7, ClickMoves
<1>7. CASE holder # None /\ about[holder].content # about[card].content
  <2> DEFINE new == Answered("mismatch")
  <2>1. click' = [click EXCEPT ![c] = new] /\ queue' = queue
    BY <1>4, <1>7 DEF Key
  <2>2. new \in Click /\ new.phase = "mismatch" /\ new.wait = None
    BY DEF Answered, Click, ClickPhase
  <2> HIDE DEF new
  <2>4. /\ click' \in [Clicks -> Click] /\ click'[c] = new
        /\ \A b \in Clicks \ {c} : click'[b] = click[b]
    BY <1>1, <2>1, <2>2
  <2>5. ClickOK(c)'
    BY SMTT(30), <1>2, <1>3, <2>2, <2>4, ApprovalAssumption DEF ClickOK, Clicks
  <2>6. QueueInv'
    <3>1. \A b \in Clicks : click[b].phase = "writing" => click'[b] = click[b]
      BY <1>2, <2>4
    <3>2. \A b \in Clicks : click'[b].phase = "writing" => click'[b] = click[b]
      BY <2>2, <2>4
    <3>3. queue' \in Seq(Write) /\ Len(queue) \in Nat
      BY <1>1, <2>1 DEF ApprovalsType
    <3> QED BY <1>1, <1>2, <2>1, <3>1, <3>2, <3>3, QueueGrows
  <2>7. queue' \in Seq(Write) /\ Len(queue) \in Nat
    BY <1>1, <2>1 DEF ApprovalsType
  <2> QED BY <1>2, <2>1, <2>2, <2>4, <2>5, <2>6, <2>7, ClickMoves
<1>8. CASE holder # None /\ about[holder].content = about[card].content
  <2> DEFINE new == [phase |-> "writing", card |-> card, yes |-> yes, wait |-> holder]
             status == IF yes THEN "approved" ELSE "rejected"
  <2>1. /\ click' = [click EXCEPT ![c] = new]
        /\ queue' = Append(queue, [what |-> "update", wait |-> holder, status |-> status, by |-> c])
    BY <1>4, <1>8 DEF Key
  <2>2. holder \in 1..asked /\ Key(holder) = Key(card) /\ holder \in Waits
    BY <1>1, <1>5, <1>8, HolderIsLive, AskedIsKnown
  <2>3. status \in Status \ {"pending", "expired"}
    BY DEF Status
  <2> HIDE DEF holder, status
  <2>4. new \in Click
    BY <1>5, <2>2 DEF Click, ClickPhase
  <2>5. new.phase = "writing" /\ new.card = card /\ new.wait = holder
    OBVIOUS
  <2> HIDE DEF new
  <2>6. /\ click' \in [Clicks -> Click] /\ click'[c] = new
        /\ \A b \in Clicks \ {c} : click'[b] = click[b]
    BY <1>1, <2>1, <2>4
  <2>7. ClickOK(c)'
    <3>1. /\ click'[c].card \in 1..asked' /\ click'[c].wait \in 1..asked'
          /\ about'[click'[c].card].key = about'[click'[c].wait].key
          /\ about'[click'[c].card].content = about'[click'[c].wait].content
      BY <1>2, <1>8, <2>2, <2>5, <2>6 DEF Key
    <3>2. \A b \in 1..(c - 1) : click'[b].phase # "none"
      BY <1>2, <1>3, <2>6, ApprovalAssumption DEF Clicks
    <3> QED BY <2>5, <2>6, <3>1, <3>2 DEF ClickOK, Key
  <2>8. /\ QueueInv' /\ queue' \in Seq(Write) /\ Len(queue) <= Len(queue')
        /\ \A i \in DOMAIN queue : queue'[i] = queue[i]
        /\ \A i \in DOMAIN queue' \ DOMAIN queue : queue'[i].what = "update"
    BY <1>2, <2>1, <2>2, <2>3, <2>5, <2>6, DecisionQueued
  <2> QED BY <1>2, <2>5, <2>6, <2>7, <2>8, ClickMoves
<1> QED BY <1>6, <1>7, <1>8

LEMMA ReadRecordHolds ==
    ASSUME ApprovalsInv, NEW c \in Clicks, ReadRecord(c)
    PROVE  ApprovalsInv'
<1> DEFINE card == click[c].card
<1>1. /\ ApprovalsType /\ WaitsInv /\ ClicksInv /\ QueueInv
      /\ click \in [Clicks -> Click] /\ asked \in Nat
  BY DEF ApprovalsInv, ApprovalsType
<1>2. /\ click[c].phase = "reading"
      /\ UNCHANGED <<asked, about, memory, broken, file, stopped, faults>>
  BY DEF ReadRecord
<1>3. /\ card \in 1..asked /\ click[c].wait = None /\ click[c] \in Click
      /\ \A b \in 1..(c - 1) : click[b].phase # "none"
  BY <1>1, <1>2 DEF ClicksInv, ClickOK
<1>4. c \notin 1..(c - 1)
  BY NoneIsNoWait
<1>5. \/ \E phase \in {"not_found", "mismatch"} :
            click' = [click EXCEPT ![c] = Answered(phase)] /\ UNCHANGED queue
      \/ \E status \in Status \ {"pending"} :
            /\ click' = [click EXCEPT ![c].phase = "writing"]
            /\ queue' = Append(queue, [what |-> "update", wait |-> card, by |-> c, status |-> status])
  BY DEF ReadRecord, Status
<1>6. ASSUME NEW phase \in {"not_found", "mismatch"},
             click' = [click EXCEPT ![c] = Answered(phase)], UNCHANGED queue
      PROVE  ApprovalsInv'
  <2> DEFINE new == Answered(phase)
  <2>1. new \in Click /\ new.phase = phase /\ new.wait = None
    BY DEF Answered, Click, ClickPhase
  <2>2. click' = [click EXCEPT ![c] = new]
    BY <1>6
  <2> HIDE DEF new
  <2>3. /\ click' \in [Clicks -> Click] /\ click'[c] = new
        /\ \A b \in Clicks \ {c} : click'[b] = click[b]
    BY <1>1, <2>1, <2>2
  <2>4. ClickOK(c)'
    BY <1>3, <1>4, <2>1, <2>3, ApprovalAssumption DEF ClickOK, Clicks
  <2>5. queue' \in Seq(Write) /\ Len(queue) \in Nat
    BY <1>1, <1>6 DEF ApprovalsType
  <2>6. QueueInv'
    <3>1. \A b \in Clicks : click[b].phase = "writing" => click'[b] = click[b]
      BY <1>2, <2>3
    <3>2. \A b \in Clicks : click'[b].phase = "writing" => click'[b] = click[b]
      BY <2>1, <2>3
    <3> QED BY <1>1, <1>2, <1>6, <2>5, <3>1, <3>2, QueueGrows
  <2> QED BY <1>2, <1>6, <2>1, <2>3, <2>4, <2>5, <2>6, ClickMoves
<1>7. ASSUME NEW status \in Status \ {"pending"},
             click' = [click EXCEPT ![c].phase = "writing"],
             queue' = Append(queue, [what |-> "update", wait |-> card, by |-> c, status |-> status])
      PROVE  ApprovalsInv'
  <2> DEFINE new == [click[c] EXCEPT !.phase = "writing"]
  <2>1. new = [phase |-> "writing", card |-> click[c].card, yes |-> click[c].yes, wait |-> None]
    BY <1>3 DEF Click
  <2>2. new \in Click /\ new.phase = "writing" /\ new.wait = None
    BY <1>3, <2>1 DEF Click, ClickPhase
  <2>3. click' = [click EXCEPT ![c] = new]
    BY <1>7
  <2> HIDE DEF new
  <2>4. /\ click' \in [Clicks -> Click] /\ click'[c] = new
        /\ \A b \in Clicks \ {c} : click'[b] = click[b]
    BY <1>1, <2>2, <2>3
  <2>5. ClickOK(c)'
    BY <1>3, <1>4, <2>2, <2>4, ApprovalAssumption DEF ClickOK, Clicks
  <2>6. queue' = Append(queue, [what |-> "update", wait |-> card, status |-> status, by |-> c])
    BY <1>7
  <2> HIDE DEF card
  <2>7. /\ QueueInv' /\ queue' \in Seq(Write) /\ Len(queue) <= Len(queue')
        /\ \A i \in DOMAIN queue : queue'[i] = queue[i]
        /\ \A i \in DOMAIN queue' \ DOMAIN queue : queue'[i].what = "update"
    BY <1>2, <1>3, <2>2, <2>4, <2>6, DecisionQueued
  <2> QED BY <1>2, <2>2, <2>4, <2>5, <2>7, ClickMoves
<1> QED BY <1>5, <1>6, <1>7

LEMMA Concatenated ==
    ASSUME NEW q \in Seq(Write), NEW u \in Seq(Write)
    PROVE  /\ q \o u \in Seq(Write) /\ Len(q \o u) = Len(q) + Len(u)
           /\ \A i \in 1..Len(q) : (q \o u)[i] = q[i]
           /\ \A i \in 1..Len(u) : (q \o u)[Len(q) + i] = u[i]
OBVIOUS

(* A list of as many members as a set has, without a repetition, has all. *)
LEMMA OrderIsOnto ==
    ASSUME NEW S, S \subseteq Nat, IsFiniteSet(S), NEW order \in [1..Cardinality(S) -> S],
           \A i, j \in DOMAIN order : i < j => order[i] < order[j]
    PROVE  /\ Cardinality(S) \in Nat
           /\ \A x \in S : \E i \in 1..Cardinality(S) : order[i] = x
<1> DEFINE n == Cardinality(S)
<1>1. n \in Nat
  BY FS_CardinalityType, Zenon
<1>2. IsFiniteSet(1..n) /\ Cardinality(1..n) = n
  <2> HIDE DEF n
  <2>1. Cardinality(1..n) = IF 1 > n THEN 0 ELSE n - 1 + 1
    BY <1>1, FS_Interval
  <2>2. IsFiniteSet(1..n)
    BY <1>1, FS_Interval
  <2> QED BY <1>1, <2>1, <2>2
<1>3. order \in [1..n -> S] /\ \A i, j \in 1..n : i < j => order[i] < order[j]
  OBVIOUS
<1> HIDE DEF n
<1>4. \A i, j \in 1..n : order[i] = order[j] => i = j
  <2> SUFFICES ASSUME NEW i \in 1..n, NEW j \in 1..n, i # j PROVE order[i] # order[j]
    OBVIOUS
  <2>1. i < j \/ j < i
    BY <1>1
  <2>2. order[i] \in Nat /\ order[j] \in Nat
    BY <1>3
  <2> QED BY <1>3, <2>1, <2>2
<1>5. order \in Injection(1..n, S)
  BY <1>3, <1>4 DEF Injection, IsInjective
<1>6. order \in Surjection(1..n, S)
  <2>1. Cardinality(1..n) = Cardinality(S) <=> order \in Surjection(1..n, S)
    BY <1>5, FS_Injection, Zenon
  <2>2. Cardinality(1..n) = Cardinality(S)
    BY <1>2 DEF n
  <2> QED BY <2>1, <2>2
<1>7. \A x \in S : \E i \in 1..n : order[i] = x
  BY <1>6 DEF Surjection
<1> QED BY <1>1, <1>7 DEF n

LEMMA WaitsAreFinite == IsFiniteSet(Waits)
<1>1. MaxWaits \in Int /\ 1 \in Int
  BY ApprovalAssumption
<1>2. IsFiniteSet(1..MaxWaits)
  BY <1>1, FS_Interval
<1> QED BY <1>2 DEF Waits

(* A stop calls the listeners of a request. *)
LEMMA StopHolds ==
    ASSUME ApprovalsInv, NEW r \in Requests, Stop(r)
    PROVE  ApprovalsInv'
<1> DEFINE called == {w \in memory.listeners : about[w].request = r}
           Holder(w) == memory.entry[Key(w)]
           first == {w \in called : /\ Holder(w) # None
                                    /\ \A v \in called : Key(v) = Key(w) => w <= v}
           taken == {Holder(w) : w \in first}
           entry == [k \in Keys |-> IF \E w \in first : Key(w) = k THEN None ELSE memory.entry[k]]
           outcome == [w \in Waits |-> IF Waiting(w) /\ w \in called \ (taken \ first)
                                       THEN "aborted" ELSE memory.outcome[w]]
<1>1. /\ ApprovalsType /\ WaitsInv /\ ClicksInv /\ QueueInv /\ GrantInv /\ FileInv /\ RecordInv
      /\ UNCHANGED <<asked, about, broken, file, click, faults>>
      /\ stopped' = stopped \cup {r}
  BY DEF ApprovalsInv, Stop
<1>2. memory' = [entry |-> entry, timers |-> memory.timers \ taken,
                 listeners |-> memory.listeners \ called, outcome |-> outcome]
  BY DEF Stop, Key
<1>3. /\ memory'.entry = entry /\ memory'.timers = memory.timers \ taken
      /\ memory'.listeners = memory.listeners \ called /\ memory'.outcome = outcome
  BY <1>2
<1>4. PICK order \in [1..Cardinality(first) -> first] :
        /\ \A i, j \in DOMAIN order : i < j => order[i] < order[j]
        /\ queue' = queue \o [i \in DOMAIN order |-> StatusUpdate(order[i], "aborted")]
  BY DEF Stop, Key
<1>5. /\ \A w \in called : w \in 1..asked /\ w \in Waits /\ w \in Nat /\ Key(w) \in Keys
      /\ called \subseteq Nat
  BY <1>1, AskedIsKnown DEF WaitsInv
<1>6. ASSUME NEW w \in called, Holder(w) # None
      PROVE  \E v \in first : Key(v) = Key(w)
  <2> DEFINE S == {v \in called : Key(v) = Key(w)}
  <2>1. S \subseteq Nat /\ S # {}
    BY <1>5
  <2> HIDE DEF called
  <2>2. PICK v \in S : \A u \in S : v <= u
    <3> HIDE DEF S
    <3> QED BY <2>1, Least
  <2>3. v \in first /\ Key(v) = Key(w)
    BY <1>6, <2>2
  <2> QED BY <2>3
<1>7. ASSUME NEW w \in first
      PROVE  /\ w \in called /\ Holder(w) # None /\ Holder(w) \in 1..asked /\ Waiting(Holder(w))
             /\ Key(Holder(w)) = Key(w) /\ w <= Holder(w)
  <2>1. w \in called /\ Holder(w) # None /\ Key(w) \in Keys /\ w \in 1..asked
    BY <1>5
  <2> QED BY <1>1, <2>1, HolderIsLive DEF WaitsInv
<1> HIDE DEF called
<1>8. MemoryMoves
  <2>1. \A k \in Keys : entry[k] \in {memory.entry[k], None}
    OBVIOUS
  <2>2. memory' \in Memory
    <3>1. memory \in Memory
      BY <1>1 DEF ApprovalsType
    <3>2. entry \in [Keys -> Waits \cup {None}]
      BY <3>1 DEF Memory
    <3>3. outcome \in [Waits -> Outcome]
      BY <3>1 DEF Memory, Outcome
    <3> HIDE DEF entry, outcome, taken
    <3> QED BY <1>2, <3>1, <3>2, <3>3 DEF Memory
  <2>3. memory.timers \ taken = {entry[k] : k \in Keys} \ {None}
    <3>1. memory.timers = {memory.entry[k] : k \in Keys} \ {None}
      BY <1>1 DEF WaitsInv
    <3>2. ASSUME NEW k \in Keys, memory.entry[k] # None, memory.entry[k] \notin taken
          PROVE  entry[k] = memory.entry[k]
      BY <3>2
    <3>3. ASSUME NEW k \in Keys, entry[k] # None
          PROVE  entry[k] = memory.entry[k] /\ memory.entry[k] \notin taken
      <4>1. entry[k] = memory.entry[k] /\ ~\E w \in first : Key(w) = k
        BY <3>3
      <4>2. \A w \in first : Holder(w) # memory.entry[k]
        BY <1>1, <1>5, <1>7, <3>3, <4>1, EntriesDiffer
      <4> HIDE DEF first, entry
      <4> QED BY <4>1, <4>2
    <3> HIDE DEF entry, taken
    <3> QED BY <3>1, <3>2, <3>3
  <2>4. \A w \in Waits :
           \/ outcome[w] = memory.outcome[w]
           \/ /\ Waiting(w) /\ outcome[w] \notin {"none", "waiting"}
              /\ entry[Key(w)] # w
    <3> SUFFICES ASSUME NEW w \in Waits, outcome[w] # memory.outcome[w]
                 PROVE  Waiting(w) /\ outcome[w] \notin {"none", "waiting"} /\ entry[Key(w)] # w
      OBVIOUS
    <3>1. Waiting(w) /\ w \in called /\ outcome[w] = "aborted"
      OBVIOUS
    <3>2. Key(w) \in Keys
      BY <1>5, <3>1
    <3>3. ASSUME entry[Key(w)] = w PROVE FALSE
      <4>1. memory.entry[Key(w)] = w /\ ~\E v \in first : Key(v) = Key(w)
        BY <3>2, <3>3, NoneIsNoWait
      <4> QED BY <1>6, <3>1, <4>1, NoneIsNoWait
    <3> QED BY <3>1, <3>3
  <2> HIDE DEF entry, outcome, taken
  <2> QED BY <1>3, <2>1, <2>2, <2>3, <2>4 DEF MemoryMoves
<1> DEFINE n == Cardinality(first)
<1>9. /\ n \in Nat /\ \A w \in first : \E i \in 1..n : order[i] = w
      /\ order \in [1..n -> first] /\ DOMAIN order = 1..n /\ first \subseteq 1..asked
  <2>1. first \in SUBSET Waits /\ first \subseteq Nat /\ first \subseteq 1..asked
    BY <1>5, <1>7
  <2>2. IsFiniteSet(Waits)
    BY WaitsAreFinite
  <2> HIDE DEF first
  <2>3. IsFiniteSet(first)
    BY <2>1, <2>2, FS_Subset, Zenon
  <2>4. n \in Nat /\ \A w \in first : \E i \in 1..n : order[i] = w
    BY <1>4, <2>1, <2>3, OrderIsOnto
  <2> QED BY <2>1, <2>4
<1> DEFINE updates == [i \in DOMAIN order |-> StatusUpdate(order[i], "aborted")]
<1>10. /\ updates \in Seq(Write) /\ Len(updates) = n
       /\ \A i \in 1..n : updates[i] = StatusUpdate(order[i], "aborted")
  <2> HIDE DEF n, first
  <2>1. \A i \in 1..n : StatusUpdate(order[i], "aborted") \in Write
    <3>1. \A w \in Waits : StatusUpdate(w, "aborted") \in Write
      BY DEF StatusUpdate, Write, Status
    <3>2. \A i \in 1..n : order[i] \in Waits
      BY <1>1, <1>9, AskedIsKnown
    <3> QED BY <3>1, <3>2
  <2>2. updates \in [1..n -> Write] /\ \A i \in 1..n : updates[i] = StatusUpdate(order[i], "aborted")
    BY <1>9, <2>1
  <2> HIDE DEF updates
  <2> QED BY <1>9, <2>2
<1> HIDE DEF n, first
<1>11. /\ queue' \in Seq(Write) /\ Len(queue') = Len(queue) + n /\ Len(queue) \in Nat
       /\ DOMAIN queue = 1..Len(queue) /\ DOMAIN queue' = 1..(Len(queue) + n)
       /\ \A i \in 1..Len(queue) : queue'[i] = queue[i]
       /\ \A i \in 1..n : queue'[Len(queue) + i] = updates[i]
  <2>1. queue \in Seq(Write) /\ queue' = queue \o updates
    BY <1>1, <1>4 DEF ApprovalsType
  <2> HIDE DEF updates
  <2>2. /\ queue' \in Seq(Write) /\ Len(queue') = Len(queue) + Len(updates)
        /\ \A i \in 1..Len(queue) : queue'[i] = queue[i]
        /\ \A i \in 1..Len(updates) : queue'[Len(queue) + i] = updates[i]
    BY <1>10, <2>1, Concatenated
  <2>3. DOMAIN queue = 1..Len(queue) /\ DOMAIN queue' = 1..Len(queue') /\ Len(queue) \in Nat
    BY <2>1, <2>2
  <2> QED BY <1>10, <2>2, <2>3
<1> HIDE DEF updates
<1>12. /\ Len(queue) <= Len(queue')
       /\ DOMAIN queue \subseteq DOMAIN queue' /\ DOMAIN queue' \subseteq Nat
       /\ \A i \in DOMAIN queue : queue'[i] = queue[i]
       /\ \A i \in DOMAIN queue' \ DOMAIN queue :
             /\ i - Len(queue) \in 1..n /\ \A j \in DOMAIN queue : j < i
             /\ queue'[i] = StatusUpdate(order[i - Len(queue)], "aborted")
  <2>1. \A i \in DOMAIN queue' \ DOMAIN queue :
             /\ i - Len(queue) \in 1..n /\ \A j \in DOMAIN queue : j < i
             /\ i = Len(queue) + (i - Len(queue))
    BY <1>9, <1>11
  <2> QED BY <1>9, <1>10, <1>11, <2>1
<1>13. \A i \in DOMAIN queue' \ DOMAIN queue :
             /\ queue'[i].what = "update" /\ queue'[i].by = None
             /\ queue'[i].status # "pending" /\ queue'[i].wait \in 1..asked
  <2> SUFFICES ASSUME NEW i \in DOMAIN queue' \ DOMAIN queue
               PROVE  /\ queue'[i].what = "update" /\ queue'[i].by = None
                      /\ queue'[i].status # "pending" /\ queue'[i].wait \in 1..asked
    OBVIOUS
  <2>1. PICK w \in 1..asked : queue'[i] = StatusUpdate(w, "aborted")
    <3>1. i - Len(queue) \in 1..n /\ queue'[i] = StatusUpdate(order[i - Len(queue)], "aborted")
      BY <1>12
    <3>2. order[i - Len(queue)] \in 1..asked
      BY <1>9, <3>1
    <3> QED BY <3>1, <3>2
  <2> QED BY <2>1 DEF StatusUpdate
<1>14. ASSUME NEW w \in first
       PROVE  \E j \in DOMAIN queue' \ DOMAIN queue : queue'[j].wait = w
  <2>1. PICK i \in 1..n : order[i] = w
    BY <1>9
  <2>2. /\ Len(queue) + i \in DOMAIN queue' \ DOMAIN queue
        /\ queue'[Len(queue) + i] = StatusUpdate(w, "aborted")
    <3>1. Len(queue) + i \in DOMAIN queue' \ DOMAIN queue
      BY <1>9, <1>11
    <3>2. queue'[Len(queue) + i] = StatusUpdate(w, "aborted")
      BY <1>10, <1>11, <2>1
    <3> QED BY <3>1, <3>2
  <2> QED BY <2>2 DEF StatusUpdate
<1>15. ApprovalsType'
  BY <1>1, <1>8, <1>11 DEF ApprovalsType, MemoryMoves
<1>16. WaitsInv'
  BY <1>1, <1>8, WaitsKeep
<1>17. \A w \in Waits : memory'.outcome[w] # memory.outcome[w] =>
          Waiting(w) /\ memory'.outcome[w] = "aborted" /\ w \in called
  BY <1>3
<1>18. \A w \in 1..asked : Waiting(w)' => Waiting(w)
  BY <1>1, <1>17, AskedIsKnown DEF Waiting
<1>19. ClicksInv'
  <2>1. asked \in Nat
    BY <1>1 DEF ApprovalsType
  <2> QED BY <1>1, <1>18, <2>1, ClicksKeep
<1>20. QueueInv'
  BY <1>1, <1>11, <1>12, <1>13, UpdatesAppended
<1>21. GrantInv'
  <2>1. ASSUME NEW v \in Waits, memory'.outcome[v] \in {"granted", "refused"}
        PROVE  \E c \in Clicks : DecidedBy(v, c)'
    <3>1. memory'.outcome[v] = memory.outcome[v]
      BY <1>17, <2>1
    <3> QED BY <1>1, <2>1, <3>1, DecisionStays
  <2> QED BY <2>1 DEF GrantInv
<1>22. FileInv'
  BY <1>1 DEF FileInv, Key
<1>23. Remembered
  BY <1>1, <1>17, AskedIsKnown DEF Remembered, Waiting
<1>24. ASSUME faults = 0 PROVE RecordInv'
  <2>1. ASSUME NEW w \in 1..asked, Holds(w), Waiting(w)' \/ w \in memory'.listeners, ~Holds(w)'
        PROVE  Overlapped(w)'
    <3>1. w \in Waits /\ w \in Nat /\ Key(w) \in Keys
      BY <1>1, AskedIsKnown
    <3>2. memory'.entry[Key(w)] # w /\ memory.entry[Key(w)] = w
      BY <1>1, <2>1 DEF Holds, Key
    <3>3. PICK v \in first : Key(v) = Key(w)
      BY <1>3, <3>1, <3>2
    <3>4. /\ v \in called /\ v \in 1..asked /\ v \in Nat /\ v <= w
      BY <1>5, <1>7, <3>2, <3>3
    <3>5. v # w
      <4>1. ASSUME v = w PROVE FALSE
        <5>1. w \in called /\ w \in first
          BY <3>3, <3>4, <4>1
        <5>2. Waiting(w)
          BY <1>7, <3>2, <3>3
        <5>3. w \notin memory'.listeners
          BY <1>3, <5>1
        <5>4. memory'.outcome[w] = "aborted"
          BY <1>3, <3>1, <5>1, <5>2
        <5> QED BY <2>1, <5>3, <5>4 DEF Waiting
      <4> QED BY <4>1
    <3>6. ~Holds(v) /\ v \in memory.listeners
      BY <3>2, <3>3, <3>4, <3>5 DEF Holds, called
    <3>7. Disturbed(v)
      BY <1>1, <1>24, <3>6 DEF RecordInv
    <3>8. Overlapped(w)
      BY <1>1, <1>23, <3>1, <3>3, <3>4, <3>5, <3>7, OverlapStays
    <3> QED BY <1>1, <1>23, <3>8, OverlapStays
  <2>2. ASSUME NEW w \in 1..asked, Waiting(w), ~Waiting(w)'
        PROVE  \/ Overlapped(w)'
               \/ \E j \in DOMAIN queue' \ DOMAIN queue : Key(queue'[j].wait) = Key(w)
    <3>1. w \in Waits /\ w \in called
      BY <1>1, <1>17, <2>2, AskedIsKnown DEF Waiting
    <3>2. CASE Holds(w)
      <4>1. PICK v \in first : Key(v) = Key(w)
        BY <1>6, <3>1, <3>2, NoneIsNoWait DEF Holds
      <4> QED BY <1>14, <4>1
    <3>3. CASE ~Holds(w)
      <4>1. Overlapped(w)
        BY <1>1, <1>24, <2>2, <3>3 DEF RecordInv
      <4> QED BY <1>1, <1>23, <4>1, OverlapStays
    <3> QED BY <3>2, <3>3
  <2>3. memory'.listeners \subseteq memory.listeners
    BY <1>3
  <2> QED BY <1>1, <1>12, <1>13, <1>18, <1>23, <1>24, <2>1, <2>2, <2>3, RecordGrows
<1>25. RecordInv'
  BY <1>1, <1>24 DEF RecordInv
<1> QED BY <1>15, <1>16, <1>19, <1>20, <1>21, <1>22, <1>25 DEF ApprovalsInv

(* A new wait takes the entry of its key. *)
LEMMA AskHolds ==
    ASSUME ApprovalsInv, NEW w \in Waits, Ask(w)
    PROVE  ApprovalsInv'
<1>1. /\ ApprovalsType /\ WaitsInv /\ ClicksInv /\ QueueInv /\ GrantInv /\ FileInv /\ RecordInv
      /\ w = asked + 1 /\ asked' = w /\ UNCHANGED <<broken, file, stopped, click, faults>>
  BY DEF ApprovalsInv, Ask
<1>2. /\ asked \in Nat /\ w \in Nat /\ w \in 1..asked' /\ w \notin 1..asked /\ asked' \in Nat
      /\ asked <= asked' /\ 1..asked \subseteq 1..asked' /\ \A v \in 1..asked' : v # w => v \in 1..asked
  BY <1>1 DEF ApprovalsType
<1> DEFINE put == [what |-> "put", wait |-> w, status |-> "pending", by |-> None]
<1>3. PICK call \in Calls[w] :
         /\ about' = [about EXCEPT ![w] = call]
         /\ memory' = LET cleared == ClearPending(memory, call.key)
                      IN  [entry |-> [cleared.entry EXCEPT ![call.key] = w],
                           timers |-> cleared.timers \cup {w},
                           listeners |-> IF call.request \in stopped THEN cleared.listeners
                                         ELSE cleared.listeners \cup {w},
                           outcome |-> [cleared.outcome EXCEPT ![w] = "waiting"]]
  BY DEF Ask
<1>4. call \in Call
  <2>1. Calls[w] \in SUBSET [request : Requests, key : Keys, content : Contents]
    BY ApprovalAssumption DEF Waits
  <2> QED BY <2>1 DEF Call
<1> DEFINE k == call.key
           cleared == ClearPending(memory, k)
           holder == memory.entry[k]
<1>5. k \in Keys /\ memory \in Memory
  BY <1>1, <1>4 DEF Call, ApprovalsType
<1>6. /\ about' \in [Waits -> Call \cup {None}] /\ about'[w] = call
      /\ \A v \in 1..asked : about'[v] = about[v] /\ v \in Waits /\ v \in Nat /\ v # w
  <2>1. about \in [Waits -> Call \cup {None}]
    BY <1>1 DEF ApprovalsType
  <2>2. \A v \in 1..asked : v \in Waits /\ v \in Nat /\ v # w
    BY <1>1, <1>2, AskedIsKnown
  <2> QED BY <1>3, <1>4, <2>1, <2>2
<1>7. /\ cleared \in Memory
      /\ cleared.entry = [memory.entry EXCEPT ![k] = None] /\ cleared.timers = memory.timers \ {holder}
      /\ cleared.listeners = memory.listeners
      /\ \A v \in Waits : cleared.outcome[v] = IF v = holder /\ memory.outcome[v] = "waiting"
                                               THEN "displaced" ELSE memory.outcome[v]
  BY <1>5, ClearPendingIs
<1>8. holder # None => /\ holder \in 1..asked /\ Waiting(holder) /\ Key(holder) = k
                       /\ Holds(holder)
  BY <1>1, <1>5, HolderIsLive
<1> HIDE DEF cleared, put
<1>9. /\ memory' \in Memory
      /\ \A j \in Keys : memory'.entry[j] = IF j = k THEN w ELSE memory.entry[j]
      /\ memory'.timers = (memory.timers \ {holder}) \cup {w}
      /\ memory'.listeners \in {memory.listeners, memory.listeners \cup {w}}
      /\ \A v \in Waits : memory'.outcome[v] = IF v = w THEN "waiting"
                                               ELSE IF v = holder THEN "displaced" ELSE memory.outcome[v]
  <2> DEFINE entry == [cleared.entry EXCEPT ![k] = w]
             timers == cleared.timers \cup {w}
             listeners == IF call.request \in stopped THEN cleared.listeners
                          ELSE cleared.listeners \cup {w}
             outcome == [cleared.outcome EXCEPT ![w] = "waiting"]
  <2>1. memory' = [entry |-> entry, timers |-> timers, listeners |-> listeners, outcome |-> outcome]
    BY <1>3 DEF cleared
  <2>2. /\ entry \in [Keys -> Waits \cup {None}]
        /\ \A j \in Keys : entry[j] = IF j = k THEN w ELSE memory.entry[j]
    BY <1>5, <1>7 DEF Memory
  <2>3. timers \in SUBSET Waits /\ timers = (memory.timers \ {holder}) \cup {w}
    BY <1>7 DEF Memory
  <2>4. listeners \in SUBSET Waits /\ listeners \in {memory.listeners, memory.listeners \cup {w}}
    BY <1>7 DEF Memory
  <2>5. outcome \in [Waits -> Outcome] /\ \A v \in Waits : outcome[v] = IF v = w THEN "waiting" ELSE cleared.outcome[v]
    BY <1>7 DEF Memory, Outcome
  <2> HIDE DEF entry, timers, listeners, outcome
  <2>6. /\ memory'.entry = entry /\ memory'.timers = timers /\ memory'.listeners = listeners
        /\ memory'.outcome = outcome
    BY <2>1
  <2>7. memory' \in Memory
    BY <2>1, <2>2, <2>3, <2>4, <2>5 DEF Memory
  <2>8. \A v \in Waits : cleared.outcome[v] = IF v = holder THEN "displaced" ELSE memory.outcome[v]
    BY <1>7, <1>8, NoneIsNoWait DEF Waiting
  <2> QED BY <2>2, <2>3, <2>4, <2>5, <2>6, <2>7, <2>8
<1>10. /\ put \in Write /\ put.what = "put" /\ put.wait = w /\ put.by = None /\ put.status = "pending"
       /\ queue' = Append(queue, put)
  BY DEF put, Write, Status, Ask
<1>11. /\ queue' \in Seq(Write) /\ Len(queue) \in Nat /\ Len(queue') = Len(queue) + 1
       /\ DOMAIN queue = 1..Len(queue) /\ DOMAIN queue' = 1..(Len(queue) + 1)
       /\ \A i \in DOMAIN queue : queue'[i] = queue[i] /\ i < Len(queue) + 1
       /\ queue'[Len(queue) + 1] = put
       /\ \A i \in DOMAIN queue' \ DOMAIN queue : i = Len(queue) + 1
  BY <1>1, <1>10, Appended
<1>12. ApprovalsType'
  <2>1. asked' \in 0..MaxWaits
    BY <1>1, <1>2, ApprovalAssumption DEF Waits
  <2>2. \A v \in 1..asked' : about'[v] \in Call
    <3>1. \A v \in 1..asked : about[v] \in Call
      BY <1>1 DEF ApprovalsType
    <3> QED BY <1>2, <1>4, <1>6, <3>1
  <2> QED BY <1>1, <1>6, <1>9, <1>11, <2>1, <2>2 DEF ApprovalsType
<1>13. /\ memory.outcome[w] = "none" /\ w # holder /\ \A j \in Keys : memory.entry[j] # w
  <2>1. memory.outcome[w] = "none"
    BY <1>1, <1>2 DEF WaitsInv
  <2>2. \A j \in Keys : memory.entry[j] # w
    BY <1>1, <1>2, HolderIsLive, NoneIsNoWait
  <2> QED BY <1>5, <2>1, <2>2
<1>14. WaitsInv'
  <2>1. \A v \in Waits : v \in 1..asked' <=> memory'.outcome[v] # "none"
    <3>1. \A v \in Waits : v \in 1..asked <=> memory.outcome[v] # "none"
      BY <1>1 DEF WaitsInv
    <3>2. holder # None => holder \in 1..asked
      BY <1>8
    <3> QED BY <1>2, <1>9, <3>1, <3>2, NoneIsNoWait
  <2>2. ASSUME NEW j \in Keys, memory'.entry[j] # None
        PROVE  \E e \in Waits :
                  /\ memory'.entry[j] = e /\ memory'.outcome[e] = "waiting" /\ about'[e].key = j
                  /\ \A v \in 1..asked' : about'[v].key = j => v <= e
    <3>1. CASE j = k
      <4>1. \A v \in 1..asked' : v <= w
        BY <1>1, <1>2
      <4> QED BY <1>6, <1>9, <3>1, <4>1
    <3>2. CASE j # k
      <4> DEFINE e == memory.entry[j]
      <4>1. e \in 1..asked /\ Waiting(e) /\ Key(e) = j /\ memory'.entry[j] = e
        BY <1>1, <1>9, <2>2, <3>2, HolderIsLive
      <4>2. \A v \in 1..asked : Key(v) = j => v <= e
        BY <1>1, <1>9, <2>2, <3>2 DEF WaitsInv
      <4> HIDE DEF e
      <4>3. e # holder /\ e # w /\ e \in Waits
        BY <1>5, <1>6, <1>8, <3>2, <4>1, NoneIsNoWait
      <4>4. \A v \in 1..asked' : about'[v].key = j => v \in 1..asked /\ Key(v) = j
        BY <1>2, <1>6, <3>2 DEF Key
      <4>5. memory'.outcome[e] = "waiting" /\ about'[e].key = j
        BY <1>6, <1>9, <4>1, <4>3 DEF Waiting, Key
      <4> QED BY <4>1, <4>2, <4>3, <4>4, <4>5
    <3> QED BY <3>1, <3>2
  <2>3. memory'.timers = {memory'.entry[j] : j \in Keys} \ {None}
    <3>1. memory.timers = {memory.entry[j] : j \in Keys} \ {None}
      BY <1>1 DEF WaitsInv
    <3>2. \A j \in Keys : j # k /\ memory.entry[j] # None => memory.entry[j] # holder
      BY <1>1, <1>5, EntriesDiffer
    <3>3. w # None
      BY NoneIsNoWait
    <3> QED BY <1>5, <1>9, <3>1, <3>2, <3>3
  <2>4. memory'.listeners \subseteq 1..asked'
    BY <1>1, <1>2, <1>9 DEF WaitsInv
  <2>5. \A j \in Keys : memory'.entry[j] # None =>
           /\ memory'.outcome[memory'.entry[j]] = "waiting" /\ about'[memory'.entry[j]].key = j
           /\ \A v \in 1..asked' : about'[v].key = j => v <= memory'.entry[j]
    BY <2>2
  <2> QED BY <2>1, <2>3, <2>4, <2>5 DEF WaitsInv, Waiting, Key
<1>15. \A v \in 1..asked : Waiting(v)' => Waiting(v)
  BY <1>6, <1>9 DEF Waiting
<1>16. ClicksInv'
  BY <1>1, <1>2, <1>6, <1>15, ClicksKeep
<1>17. QueueInv'
  <2>1. ASSUME NEW i \in DOMAIN queue' \ DOMAIN queue PROVE WriteOK(i)'
    BY <1>1, <1>2, <1>10, <1>11 DEF WriteOK, DecidedFor
  <2>2. ASSUME NEW i \in DOMAIN queue', NEW j \in DOMAIN queue' \ DOMAIN queue, i < j
        PROVE  OrderOK(i, j)'
    <3>1. i \in DOMAIN queue /\ queue'[i] = queue[i] /\ queue'[j] = put
      BY <1>11, <2>2
    <3>2. queue[i].wait < w
      BY <1>1, <1>2, <3>1, WritesAreAsked
    <3> QED BY <1>10, <3>1, <3>2 DEF OrderOK, DecidedFor
  <2>3. Len(queue) <= Len(queue') /\ \A i \in DOMAIN queue : queue'[i] = queue[i]
    BY <1>11
  <2> QED BY <1>1, <1>2, <1>11, <2>1, <2>2, <2>3, QueueGrows
<1>18. GrantInv'
  <2>1. ASSUME NEW v \in Waits, memory'.outcome[v] \in {"granted", "refused"}
        PROVE  \E c \in Clicks : DecidedBy(v, c)'
    <3>1. memory'.outcome[v] = memory.outcome[v]
      BY <1>9, <2>1
    <3> QED BY <1>1, <2>1, <3>1, DecisionStays
  <2> QED BY <2>1 DEF GrantInv
<1>19. FileInv'
  BY <1>1, <1>2, <1>6 DEF FileInv, Key
<1>20. Remembered
  BY <1>1, <1>6, <1>9 DEF Remembered
<1>21. \A v \in 1..asked : /\ v # holder => (Waiting(v)' <=> Waiting(v))
                           /\ Holds(v) /\ v # holder => Holds(v)'
                           /\ v = holder => memory'.outcome[v] = "displaced" /\ Key(v) = k
                           /\ about'[v].key = Key(v)
  <2> SUFFICES ASSUME NEW v \in 1..asked
               PROVE  /\ v # holder => (Waiting(v)' <=> Waiting(v))
                      /\ Holds(v) /\ v # holder => Holds(v)'
                      /\ v = holder => memory'.outcome[v] = "displaced" /\ Key(v) = k
                      /\ about'[v].key = Key(v)
    OBVIOUS
  <2>1. v \in Waits /\ v # w /\ about'[v] = about[v] /\ Key(v) \in Keys
    BY <1>1, <1>6, AskedIsKnown
  <2>2. v # holder => (Waiting(v)' <=> Waiting(v))
    BY <1>9, <2>1 DEF Waiting
  <2>3. Holds(v) /\ v # holder => Holds(v)'
    BY <1>9, <2>1 DEF Holds, Key
  <2>4. v = holder => memory'.outcome[v] = "displaced" /\ Key(v) = k
    BY <1>8, <1>9, <2>1, NoneIsNoWait
  <2> QED BY <2>1, <2>2, <2>3, <2>4 DEF Key
<1>22. ASSUME faults = 0 PROVE RecordInv'
  <2>1. Holds(w)' /\ Waiting(w)'
    BY <1>5, <1>6, <1>9 DEF Holds, Key, Waiting
  <2>2. \A v \in 1..asked' : Waiting(v)' => Holds(v)' \/ Overlapped(v)'
    <3>1. ASSUME NEW v \in 1..asked, Waiting(v)' PROVE Holds(v)' \/ Overlapped(v)'
      <4>1. v # holder /\ Waiting(v)
        BY <1>15, <1>21, <3>1 DEF Waiting
      <4>2. Holds(v) \/ Overlapped(v)
        BY <1>1, <1>22, <4>1 DEF RecordInv
      <4> QED BY <1>1, <1>20, <1>21, <4>1, <4>2, OverlapStays
    <3> QED BY <1>2, <2>1, <3>1
  <2>3. \A v \in memory'.listeners : Holds(v)' \/ Disturbed(v)'
    <3>1. ASSUME NEW v \in memory.listeners PROVE Holds(v)' \/ Disturbed(v)'
      <4>1. v \in 1..asked /\ (Holds(v) \/ Disturbed(v))
        BY <1>1, <1>22 DEF RecordInv, WaitsInv
      <4>2. v = holder => Disturbed(v)'
        BY <1>21, <4>1 DEF Disturbed
      <4> QED BY <1>1, <1>20, <1>21, <4>1, <4>2, OverlapStays
    <3> QED BY <1>9, <2>1, <3>1
  <2>4. Len(queue) + 1 \in DOMAIN queue' /\ about'[queue'[Len(queue) + 1].wait].key = k
    BY <1>6, <1>10, <1>11
  <2>5. ASSUME NEW i \in DOMAIN queue', queue'[i].what = "put"
        PROVE  \E v \in 1..asked' :
                  /\ v = queue'[i].wait
                  /\ \/ Waiting(v)' \/ Overlapped(v)'
                     \/ \E j \in DOMAIN queue' : i < j /\ about'[queue'[j].wait].key = about'[v].key
    <3>1. CASE i \notin DOMAIN queue
      BY <1>2, <1>10, <1>11, <2>1, <3>1
    <3>2. CASE i \in DOMAIN queue
      <4>1. queue'[i] = queue[i] /\ queue[i].wait \in 1..asked /\ i < Len(queue) + 1
        BY <1>1, <1>11, <3>2, WritesAreAsked
      <4>2. PICK v \in 1..asked : v = queue[i].wait
        BY <4>1
      <4>3. \/ Waiting(v) \/ Overlapped(v)
            \/ \E j \in DOMAIN queue : i < j /\ Key(queue[j].wait) = Key(v)
        BY <1>1, <1>22, <2>5, <3>2, <4>1, <4>2 DEF RecordInv
      <4>4. \A j \in DOMAIN queue : j \in DOMAIN queue' /\ about'[queue'[j].wait].key = Key(queue[j].wait)
        BY <1>1, <1>11, <1>21, WritesAreAsked
      <4>5. \/ Waiting(v)' \/ Overlapped(v)'
            \/ \E j \in DOMAIN queue' : i < j /\ about'[queue'[j].wait].key = about'[v].key
        <5>1. CASE Overlapped(v)
          BY <1>1, <1>20, <5>1, OverlapStays
        <5>2. CASE Waiting(v) /\ v # holder
          BY <1>21, <5>2
        <5>3. CASE v = holder
          BY <1>21, <2>4, <4>1, <5>3
        <5>4. CASE \E j \in DOMAIN queue : i < j /\ Key(queue[j].wait) = Key(v)
          BY <1>21, <4>4, <5>4
        <5> QED BY <4>3, <5>1, <5>2, <5>3, <5>4
      <4> QED BY <1>2, <4>1, <4>2, <4>5
    <3> QED BY <3>1, <3>2
  <2>6. ASSUME NEW j \in Keys, file[j] # None, file[j].status = "pending"
        PROVE  \E v \in 1..asked' :
                  v = file[j].wait /\ (Waiting(v)' \/ Overlapped(v)' \/ Behind(j)')
    <3>1. file[j].wait \in 1..asked /\ Key(file[j].wait) = j
      BY <1>1, <2>6 DEF FileInv
    <3>2. PICK v \in 1..asked : v = file[j].wait
      BY <3>1
    <3>3. Waiting(v) \/ Overlapped(v) \/ Behind(j)
      BY <1>1, <1>22, <2>6, <3>2 DEF RecordInv
    <3>4. Behind(j) => Behind(j)'
      <4>1. \A i \in DOMAIN queue : i \in DOMAIN queue' /\ about'[queue'[i].wait].key = Key(queue[i].wait)
        BY <1>1, <1>11, <1>21, WritesAreAsked
      <4> QED BY <4>1 DEF Behind, Key
    <3>5. v = holder => Behind(j)'
      <4>1. v = holder => j = k
        BY <1>21, <3>1, <3>2
      <4> QED BY <2>4, <4>1 DEF Behind, Key
    <3> QED BY <1>1, <1>2, <1>20, <1>21, <3>2, <3>3, <3>4, <3>5, OverlapStays
  <2>7. ~broken'
    BY <1>1, <1>22 DEF RecordInv
  <2>8. \A i \in DOMAIN queue' : queue'[i].what = "put" =>
            \/ memory'.outcome[queue'[i].wait] = "waiting" \/ Overlapped(queue[i].wait)'
            \/ \E j \in DOMAIN queue' : i < j /\ about'[queue'[j].wait].key = about'[queue'[i].wait].key
    BY <2>5 DEF Waiting, Overlapped
  <2>9. \A j \in Keys : file'[j] # None /\ file'[j].status = "pending" =>
            memory'.outcome[file'[j].wait] = "waiting" \/ Overlapped(file[j].wait)' \/ Behind(j)'
    BY <1>1, <2>6 DEF Waiting, Overlapped
  <2> QED BY <2>2, <2>3, <2>7, <2>8, <2>9 DEF RecordInv, Waiting, Key
<1>23. RecordInv'
  BY <1>1, <1>22 DEF RecordInv
<1> QED BY <1>12, <1>14, <1>16, <1>17, <1>18, <1>19, <1>23 DEF ApprovalsInv

(* A fault is followed by nothing that the record has to say. *)
LEMMA FaultExcuses == ASSUME ApprovalsType, Fault PROVE RecordInv'
<1>1. faults \in Nat /\ faults' = faults + 1
  BY DEF ApprovalsType, Fault
<1>2. faults' # 0
  BY <1>1
<1> QED BY <1>2 DEF RecordInv

LEMMA RestartHolds == ApprovalsInv /\ Restart => ApprovalsInv'
<1> SUFFICES ASSUME ApprovalsInv, Restart PROVE ApprovalsInv'
  OBVIOUS
<1>1. /\ ApprovalsType /\ WaitsInv /\ ClicksInv /\ QueueInv /\ GrantInv /\ FileInv
      /\ Fault /\ queue' = <<>> /\ broken' = FALSE /\ UNCHANGED <<asked, about, file>>
  BY DEF ApprovalsInv, Restart
<1> DEFINE outcome == [w \in Waits |-> IF Waiting(w) THEN "lost" ELSE memory.outcome[w]]
           entry == [k \in Keys |-> None]
<1>2. memory \in Memory
  BY <1>1 DEF ApprovalsType
<1>3. memory' = [entry |-> entry, timers |-> {}, listeners |-> {}, outcome |-> outcome]
  BY <1>2 DEF Restart, Memory
<1>4. entry \in [Keys -> Waits \cup {None}] /\ outcome \in [Waits -> Outcome]
  BY <1>2 DEF Memory, Outcome
<1>5. MemoryMoves
  <2>1. \A k \in Keys : entry[k] = None
    OBVIOUS
  <2>2. \A w \in Waits : outcome[w] = IF Waiting(w) THEN "lost" ELSE memory.outcome[w]
    OBVIOUS
  <2> HIDE DEF entry, outcome
  <2>3. /\ memory'.entry = entry /\ memory'.timers = {} /\ memory'.listeners = {}
        /\ memory'.outcome = outcome
    BY <1>3
  <2>4. memory' \in Memory
    BY <1>3, <1>4 DEF Memory
  <2>5. \A w \in Waits : Waiting(w) => Key(w) \in Keys
    <3>1. \A w \in Waits : Waiting(w) => w \in 1..asked
      BY <1>1 DEF WaitsInv, Waiting
    <3> QED BY <1>1, <3>1, AskedIsKnown
  <2> QED BY <2>1, <2>2, <2>3, <2>4, <2>5, NoneIsNoWait DEF MemoryMoves
<1>6. /\ click' \in [Clicks -> Click]
      /\ \A c \in Clicks : /\ click[c].phase \in {"reading", "writing"} => click'[c] = Answered("dropped")
                           /\ click[c].phase \notin {"reading", "writing"} => click'[c] = click[c]
  <2>1. Answered("dropped") \in Click /\ click \in [Clicks -> Click]
    BY <1>1 DEF Answered, Click, ClickPhase, ApprovalsType
  <2>2. click' = [c \in Clicks |-> IF click[c].phase \in {"reading", "writing"}
                                   THEN Answered("dropped") ELSE click[c]]
    BY DEF Restart
  <2> QED BY <2>1, <2>2
<1>7. Answered("dropped").phase = "dropped" /\ Answered("dropped").wait = None
  BY DEF Answered
<1>8. ApprovalsType'
  <2>1. \A w \in 1..asked : about[w].request \in Requests
    BY <1>1 DEF ApprovalsType, Call
  <2>2. stopped' \in SUBSET Requests
    BY <1>1, <2>1 DEF Restart, ApprovalsType
  <2>3. faults' \in 0..MaxFaults
    BY <1>1, ApprovalAssumption DEF Fault, ApprovalsType
  <2>4. queue' \in Seq(Write)
    BY <1>1
  <2> QED BY <1>1, <1>5, <1>6, <2>2, <2>3, <2>4 DEF ApprovalsType, MemoryMoves
<1>9. WaitsInv'
  BY <1>1, <1>5, WaitsKeep
<1>10. ClicksInv'
  <2>1. asked' \in Nat /\ asked <= asked'
    BY <1>1 DEF ApprovalsType
  <2>2. \A w \in 1..asked : about'[w] = about[w] /\ (Waiting(w)' => Waiting(w))
    BY <1>1, <1>5, AskedIsKnown DEF Waiting, MemoryMoves
  <2>3. ASSUME NEW c \in Clicks, click[c].phase \in {"reading", "writing"}
        PROVE  ClickOK(c)' /\ click'[c].phase # "none"
    <3>1. click'[c].phase = "dropped" /\ click'[c].wait = None
      BY <1>6, <1>7, <2>3
    <3>2. \A b \in 1..(c - 1) : b \in Clicks /\ click[b].phase # "none"
      BY <1>1, <2>3, ApprovalAssumption DEF ClicksInv, ClickOK, Clicks
    <3>3. \A b \in 1..(c - 1) : click'[b].phase # "none"
      BY <1>6, <1>7, <3>2
    <3> QED BY <3>1, <3>3 DEF ClickOK
  <2> QED BY <1>1, <1>6, <2>1, <2>2, <2>3, ClicksKeep
<1>11. QueueInv'
  <2>1. \A c \in Clicks : click'[c].phase # "writing"
    BY <1>6, <1>7
  <2> QED BY <1>1, <2>1 DEF QueueInv
<1>12. GrantInv'
  <2>1. ASSUME NEW v \in Waits, memory'.outcome[v] \in {"granted", "refused"}
        PROVE  \E c \in Clicks : DecidedBy(v, c)'
    <3>1. memory'.outcome[v] = memory.outcome[v]
      BY <1>3, <2>1
    <3>2. \A c \in Clicks : /\ click[c].phase = "resolved" => click'[c] = click[c]
                            /\ click'[c].wait \in {click[c].wait, None} \/ click[c].phase = "none"
      BY <1>6, <1>7
    <3> QED BY <1>1, <2>1, <3>1, <3>2, DecisionStays
  <2> QED BY <2>1 DEF GrantInv
<1>13. FileInv'
  BY <1>1 DEF FileInv, Key
<1>14. RecordInv'
  BY <1>1, FaultExcuses
<1> QED BY <1>8, <1>9, <1>10, <1>11, <1>12, <1>13, <1>14 DEF ApprovalsInv

LEMMA ClearHolds == ApprovalsInv /\ ClearApprovalQueue => ApprovalsInv'
<1> SUFFICES ASSUME ApprovalsInv, ClearApprovalQueue PROVE ApprovalsInv'
  OBVIOUS
<1>1. /\ ApprovalsType /\ WaitsInv /\ ClicksInv /\ QueueInv /\ GrantInv /\ FileInv
      /\ Fault /\ file' = [k \in Keys |-> None]
      /\ UNCHANGED <<asked, about, queue, broken, stopped, click>>
  BY DEF ApprovalsInv, ClearApprovalQueue
<1> DEFINE held == {memory.entry[k] : k \in Keys}
           outcome == [w \in Waits |-> IF w \in held /\ Waiting(w) THEN "displaced" ELSE memory.outcome[w]]
           entry == [k \in Keys |-> None]
<1>2. memory \in Memory
  BY <1>1 DEF ApprovalsType
<1>3. memory' = [entry |-> entry, timers |-> memory.timers \ held, listeners |-> memory.listeners,
                 outcome |-> outcome]
  BY <1>2 DEF ClearApprovalQueue, Memory
<1>4. entry \in [Keys -> Waits \cup {None}] /\ outcome \in [Waits -> Outcome]
  BY <1>2 DEF Memory, Outcome
<1>5. MemoryMoves
  <2>1. \A k \in Keys : entry[k] = None
    OBVIOUS
  <2>2. \A w \in Waits : \/ outcome[w] = memory.outcome[w]
                         \/ Waiting(w) /\ outcome[w] = "displaced"
    OBVIOUS
  <2>3. memory.timers \ held = {}
    BY <1>1 DEF WaitsInv
  <2> HIDE DEF entry, outcome, held
  <2>4. /\ memory'.entry = entry /\ memory'.timers = {} /\ memory'.listeners = memory.listeners
        /\ memory'.outcome = outcome
    BY <1>3, <2>3
  <2>5. memory' \in Memory
    BY <1>2, <1>3, <1>4, <2>3 DEF Memory
  <2>6. \A w \in Waits : Waiting(w) => Key(w) \in Keys
    <3>1. \A w \in Waits : Waiting(w) => w \in 1..asked
      BY <1>1 DEF WaitsInv, Waiting
    <3> QED BY <1>1, <3>1, AskedIsKnown
  <2> QED BY <2>1, <2>2, <2>4, <2>5, <2>6, NoneIsNoWait DEF MemoryMoves
<1>6. ApprovalsType'
  <2>1. faults' \in 0..MaxFaults
    BY <1>1, ApprovalAssumption DEF Fault, ApprovalsType
  <2>2. file' \in [Keys -> Record \cup {None}]
    BY <1>1
  <2> QED BY <1>1, <1>5, <2>1, <2>2 DEF ApprovalsType, MemoryMoves
<1>7. WaitsInv'
  BY <1>1, <1>5, WaitsKeep
<1>8. ClicksInv'
  <2>1. asked' \in Nat /\ asked <= asked'
    BY <1>1 DEF ApprovalsType
  <2>2. \A w \in 1..asked : about'[w] = about[w] /\ (Waiting(w)' => Waiting(w))
    BY <1>1, <1>5, AskedIsKnown DEF Waiting, MemoryMoves
  <2> QED BY <1>1, <2>1, <2>2, ClicksKeep
<1>9. QueueInv'
  BY <1>1 DEF QueueInv, WriteOK, OrderOK, DecidedFor
<1>10. GrantInv'
  <2>1. ASSUME NEW v \in Waits, memory'.outcome[v] \in {"granted", "refused"}
        PROVE  \E c \in Clicks : DecidedBy(v, c)'
    <3>1. memory'.outcome[v] = memory.outcome[v]
      BY <1>3, <2>1
    <3> QED BY <1>1, <2>1, <3>1, DecisionStays
  <2> QED BY <2>1 DEF GrantInv
<1>11. FileInv'
  BY <1>1 DEF FileInv
<1>12. RecordInv'
  BY <1>1, FaultExcuses
<1> QED BY <1>6, <1>7, <1>8, <1>9, <1>10, <1>11, <1>12 DEF ApprovalsInv

-----------------------------------------------------------------------------
(* A write is done                                                          *)

(* The wait a write decides on. *)
Target(write) == IF write.by = None THEN None ELSE click[write.by].wait

LEMMA TargetIs ==
    ASSUME ApprovalsInv, queue # <<>>, Target(queue[1]) # None
    PROVE  /\ queue[1].by \in Clicks /\ queue[1].by # None /\ click[queue[1].by].wait = Target(queue[1])
           /\ click[queue[1].by].phase = "writing" /\ queue[1].wait = Target(queue[1])
           /\ Target(queue[1]) \in 1..asked /\ queue[1].what = "update" /\ queue[1].status # "expired"
<1>1. ApprovalsType /\ QueueInv /\ 1 \in DOMAIN queue
  BY DEF ApprovalsInv, ApprovalsType
<1>2. queue[1] \in Write /\ queue[1].wait \in 1..asked /\ WriteOK(1)
  BY <1>1, WritesAreAsked DEF QueueInv
<1>3. queue[1].by # None /\ queue[1].by \in Clicks
  BY <1>2 DEF Target, Write
<1> QED BY <1>2, <1>3 DEF Target, WriteOK, DecidedFor

(* What the decision of the first write does to the process. *)
LEMMA ResolveMoves ==
    ASSUME ApprovalsInv, queue # <<>>, UNCHANGED <<asked, about>>,
           IF queue[1].by = None THEN UNCHANGED <<memory, click>>
           ELSE Resolve(queue[1].by, queue[1].status)
    PROVE  LET x == Target(queue[1]) IN
           /\ MemoryMoves /\ click' \in [Clicks -> Click]
           /\ \A c \in Clicks : IF queue[1].by = c THEN click'[c].phase \in {"resolved", "not_found"}
                                ELSE click'[c] = click[c]
           /\ \A c \in Clicks : click'[c].wait = click[c].wait
           /\ \A c \in Clicks : queue[1].by = c => click[c].phase = "writing"
           /\ \A c \in Clicks : queue[1].by = c /\ x # None =>
                 /\ click'[c].phase = "resolved" /\ click'[c].card = click[c].card
                 /\ click'[c].yes = click[c].yes
           /\ \A k \in Keys : memory'.entry[k] = IF x # None /\ k = Key(x) THEN None ELSE memory.entry[k]
           /\ \A v \in Waits : memory'.outcome[v] =
                 IF v = x /\ Waiting(v)
                 THEN (IF click[queue[1].by].yes THEN "granted" ELSE "refused")
                 ELSE memory.outcome[v]
<1> DEFINE x == Target(queue[1])
           by == queue[1].by
           status == queue[1].status
<1>1. ApprovalsType /\ WaitsInv /\ QueueInv /\ 1 \in DOMAIN queue /\ click \in [Clicks -> Click] /\ memory \in Memory
  BY DEF ApprovalsInv, ApprovalsType
<1>2. queue[1] \in Write /\ WriteOK(1)
  BY <1>1, WritesAreAsked DEF QueueInv
<1>3. by \in Clicks \cup {None} /\ (by # None => click[by].phase = "writing")
  BY <1>2 DEF Write, WriteOK
<1>4. ASSUME memory' = memory PROVE MemoryMoves
  BY <1>1, <1>4 DEF MemoryMoves, WaitsInv
<1>5. CASE by = None
  <2>1. x = None /\ memory' = memory /\ click' = click
    BY <1>5 DEF Target
  <2> HIDE DEF x
  <2> QED BY <1>1, <1>4, <1>5, <2>1, NoneIsNoWait DEF x
<1>6. CASE by # None
  <2> DEFINE outcome == IF click[by].yes THEN "granted" ELSE "refused"
             new == CASE status = "expired" -> Answered("not_found")
                      [] status # "expired" /\ click[by].wait = None -> Answered("resolved")
                      [] OTHER -> [click[by] EXCEPT !.phase = "resolved"]
  <2>1. /\ by \in Clicks /\ x = click[by].wait /\ click[by] \in Click
        /\ memory' = IF x = None THEN memory ELSE Finish(memory, x, outcome)
        /\ click' = [click EXCEPT ![by] = new]
    BY <1>1, <1>3, <1>6 DEF Target, Resolve
  <2>2. /\ new \in Click /\ new.phase \in {"resolved", "not_found"} /\ new.wait = x
        /\ x # None => new.phase = "resolved" /\ new.card = click[by].card /\ new.yes = click[by].yes
    <3>1. CASE x = None
      <4>1. new \in {Answered("not_found"), Answered("resolved")}
        BY <2>1, <3>1
      <4>2. \A phase \in {"not_found", "resolved"} :
               /\ Answered(phase) \in Click /\ Answered(phase).phase = phase
               /\ Answered(phase).wait = None
        BY DEF Answered, Click, ClickPhase
      <4> HIDE DEF new
      <4> QED BY <3>1, <4>1, <4>2
    <3>2. CASE x # None
      <4>1. status # "expired"
        BY <3>2, TargetIs
      <4>2. new = [click[by] EXCEPT !.phase = "resolved"]
        BY <2>1, <3>2, <4>1
      <4> HIDE DEF new
      <4>3. /\ new = [phase |-> "resolved", card |-> click[by].card, yes |-> click[by].yes,
                      wait |-> click[by].wait]
        BY <2>1, <4>2 DEF Click
      <4> QED BY <2>1, <4>3 DEF Click, ClickPhase
    <3> QED BY <3>1, <3>2
  <2> HIDE DEF new
  <2>3. /\ click' \in [Clicks -> Click] /\ click'[by] = new
        /\ \A c \in Clicks \ {by} : click'[c] = click[c]
    BY <1>1, <2>1, <2>2
  <2>4. CASE x = None
    <3> HIDE DEF x
    <3>1. memory' = memory
      BY <2>1, <2>4
    <3> QED BY <1>3, <1>4, <2>1, <2>2, <2>3, <2>4, <3>1, NoneIsNoWait DEF x
  <2>5. CASE x # None
    <3>1. x \in 1..asked /\ outcome \in Outcome \ {"none", "waiting"}
      BY <2>5, TargetIs DEF Outcome
    <3> HIDE DEF x, outcome
    <3>2. /\ MemoryMoves /\ x \in Waits
          /\ \A k \in Keys : memory'.entry[k] = IF k = Key(x) THEN None ELSE memory.entry[k]
          /\ \A v \in Waits : memory'.outcome[v] = IF v = x /\ Waiting(x) THEN outcome
                                                   ELSE memory.outcome[v]
      BY <1>1, <2>1, <2>5, <3>1, FinishMoves
    <3>3. \A v \in Waits : memory'.outcome[v] =
             IF v = x /\ Waiting(v) THEN (IF click[by].yes THEN "granted" ELSE "refused")
             ELSE memory.outcome[v]
      BY <3>2 DEF outcome
    <3>4. \A k \in Keys : memory'.entry[k] = IF x # None /\ k = Key(x) THEN None ELSE memory.entry[k]
      BY <2>5, <3>2
    <3>5. /\ \A c \in Clicks : IF by = c THEN click'[c].phase \in {"resolved", "not_found"}
                              ELSE click'[c] = click[c]
          /\ \A c \in Clicks : click'[c].wait = click[c].wait
          /\ \A c \in Clicks : by = c => click[c].phase = "writing"
          /\ \A c \in Clicks : by = c /\ x # None =>
                /\ click'[c].phase = "resolved" /\ click'[c].card = click[c].card
                /\ click'[c].yes = click[c].yes
      BY <1>3, <1>6, <2>1, <2>2, <2>3
    <3>6. MemoryMoves /\ click' \in [Clicks -> Click]
      BY <2>3, <3>2
    <3> HIDE DEF by
    <3> QED BY <3>3, <3>4, <3>5, <3>6, Zenon DEF x, by
  <2> QED BY <2>4, <2>5
<1> QED BY <1>5, <1>6

(* What the first write does to the file. *)
LEMMA WrittenIs ==
    ASSUME ApprovalsInv, queue # <<>>
    PROVE  LET x == queue[1]
               k == Key(queue[1].wait)
               f == Written(queue[1])
           IN  /\ k \in Keys /\ x.wait \in 1..asked /\ f \in [Keys -> Record \cup {None}]
               /\ \A j \in Keys \ {k} : f[j] = file[j]
               /\ broken => f[k] = file[k]
               /\ ~broken /\ x.what = "put" => f[k] = [wait |-> x.wait, status |-> "pending"]
               /\ ~broken /\ x.what = "update" =>
                     IF file[k] = None THEN f[k] = None
                     ELSE f[k].wait = file[k].wait /\ f[k].status = x.status
<1> DEFINE x == queue[1]
           k == Key(queue[1].wait)
           f == Written(queue[1])
<1>1. ApprovalsType /\ QueueInv /\ 1 \in DOMAIN queue /\ file \in [Keys -> Record \cup {None}]
  BY DEF ApprovalsInv, ApprovalsType
<1>2. x \in Write /\ x.wait \in 1..asked /\ k \in Keys
  BY <1>1, WritesAreAsked, AskedIsKnown
<1>3. x.wait \in Waits /\ x.status \in Status /\ x.what \in {"put", "update"}
  BY <1>2 DEF Write
<1> HIDE DEF k, x
<1>4. CASE broken
  <2>1. f = file
    BY <1>4 DEF Written
  <2> QED BY <1>1, <1>2, <1>4, <2>1 DEF x, k
<1>5. CASE ~broken /\ x.what = "put"
  <2>1. f = [file EXCEPT ![k] = [wait |-> x.wait, status |-> "pending"]]
    BY <1>5 DEF Written, x, k, Key
  <2>2. [wait |-> x.wait, status |-> "pending"] \in Record
    BY <1>3 DEF Record, Status
  <2> HIDE DEF f
  <2> QED BY <1>1, <1>2, <1>5, <2>1, <2>2 DEF x, k, f
<1>6. CASE ~broken /\ x.what = "update" /\ file[k] = None
  <2>1. f = file
    BY <1>6 DEF Written, x, k, Key
  <2> HIDE DEF f
  <2> QED BY <1>1, <1>2, <1>6, <2>1 DEF x, k, f
<1>7. CASE ~broken /\ x.what = "update" /\ file[k] # None
  <2> DEFINE r == [file[k] EXCEPT !.status = x.status]
  <2>1. f = [file EXCEPT ![k] = r]
    BY <1>7 DEF Written, x, k, Key
  <2>2. file[k] \in Record
    BY <1>1, <1>2, <1>7
  <2>3. r = [wait |-> file[k].wait, status |-> x.status]
    BY <2>2 DEF Record
  <2> HIDE DEF r, f
  <2>4. r \in Record /\ r.wait = file[k].wait /\ r.status = x.status
    BY <1>3, <2>2, <2>3 DEF Record
  <2> QED BY <1>1, <1>2, <1>7, <2>1, <2>4 DEF x, k, f
<1> QED BY <1>3, <1>4, <1>5, <1>6, <1>7 DEF x, k

LEMMA WriteFileHolds == ApprovalsInv /\ WriteFile => ApprovalsInv'
<1> SUFFICES ASSUME ApprovalsInv, WriteFile PROVE ApprovalsInv'
  OBVIOUS
<1> DEFINE write == queue[1]
           x == Target(write)
           k == Key(write.wait)
<1>1. /\ ApprovalsType /\ WaitsInv /\ ClicksInv /\ QueueInv /\ GrantInv /\ FileInv /\ RecordInv
      /\ asked \in Nat /\ UNCHANGED <<asked, about, stopped>>
  BY DEF ApprovalsInv, WriteFile, ApprovalsType
<1>2. /\ 1 \in DOMAIN queue /\ queue # <<>> /\ queue' = RemoveAt(queue, 1)
      /\ \/ file' = Written(write) /\ broken' = (broken /\ write.what = "update") /\ faults' = faults
         \/ /\ ~broken /\ Fault /\ broken' = (write.what = "update") /\ file' = file
      /\ IF write.by = None THEN UNCHANGED <<memory, click>> ELSE Resolve(write.by, write.status)
  BY <1>1 DEF WriteFile, NextWrites, Fault, ApprovalsType
<1>3. /\ MemoryMoves /\ click' \in [Clicks -> Click]
      /\ \A c \in Clicks : IF write.by = c THEN click'[c].phase \in {"resolved", "not_found"}
                           ELSE click'[c] = click[c]
      /\ \A c \in Clicks : click'[c].wait = click[c].wait
      /\ \A c \in Clicks : write.by = c => click[c].phase = "writing"
      /\ \A c \in Clicks : write.by = c /\ x # None =>
            /\ click'[c].phase = "resolved" /\ click'[c].card = click[c].card
            /\ click'[c].yes = click[c].yes
      /\ \A j \in Keys : memory'.entry[j] = IF x # None /\ j = Key(x) THEN None ELSE memory.entry[j]
      /\ \A v \in Waits : memory'.outcome[v] =
            IF v = x /\ Waiting(v)
            THEN (IF click[write.by].yes THEN "granted" ELSE "refused")
            ELSE memory.outcome[v]
  BY <1>1, <1>2, ResolveMoves
<1>4. x # None => /\ write.by \in Clicks /\ write.by # None /\ click[write.by].wait = x
                  /\ click[write.by].phase = "writing" /\ write.wait = x
                  /\ x \in 1..asked /\ write.what = "update" /\ write.status # "expired"
                  /\ x \in Waits /\ x \in Nat /\ Key(x) = k
  BY <1>1, <1>2, TargetIs, AskedIsKnown
<1>5. /\ k \in Keys /\ write.wait \in 1..asked /\ Written(write) \in [Keys -> Record \cup {None}]
      /\ \A j \in Keys \ {k} : Written(write)[j] = file[j]
      /\ broken => Written(write)[k] = file[k]
      /\ ~broken /\ write.what = "put" => Written(write)[k] = [wait |-> write.wait, status |-> "pending"]
      /\ ~broken /\ write.what = "update" =>
            IF file[k] = None THEN Written(write)[k] = None
            ELSE Written(write)[k].wait = file[k].wait /\ Written(write)[k].status = write.status
  BY <1>2, WrittenIs
<1>6. write.what \in {"put", "update"} /\ write \in Write /\ WriteOK(1)
  <2>1. write \in Write /\ WriteOK(1)
    BY <1>1, <1>2, WritesAreAsked DEF QueueInv
  <2> QED BY <2>1 DEF Write
<1> HIDE DEF write, x, k
<1>7. /\ QueueInv' /\ queue' \in Seq(Write) /\ DOMAIN queue' = 1..(Len(queue) - 1)
      /\ DOMAIN queue = 1..Len(queue) /\ Len(queue) \in Nat \ {0}
      /\ \A i \in DOMAIN queue' : queue'[i] = queue[i + 1]
  <2>1. \A c \in Clicks : IF queue[1].by = c THEN click'[c].phase # "writing" ELSE click'[c] = click[c]
    BY <1>3 DEF write
  <2> QED BY <1>1, <1>2, <2>1, QueueShrinks
<1>8. ApprovalsType'
  <2>1. faults' \in 0..MaxFaults
    BY <1>1, <1>2, ApprovalAssumption DEF Fault, ApprovalsType
  <2>2. file' \in [Keys -> Record \cup {None}]
    BY <1>1, <1>2, <1>5 DEF ApprovalsType
  <2>3. broken' \in BOOLEAN
    BY <1>2
  <2> QED BY <1>1, <1>3, <1>7, <2>1, <2>2, <2>3 DEF ApprovalsType, MemoryMoves
<1>9. WaitsInv'
  BY <1>1, <1>3, WaitsKeep
<1>10. \A v \in 1..asked : about'[v] = about[v] /\ (Waiting(v)' => Waiting(v))
  BY <1>1, <1>3, AskedIsKnown DEF Waiting, MemoryMoves
<1>11. ClicksInv'
  <2>1. ASSUME NEW c \in Clicks, write.by = c PROVE ClickOK(c)' /\ click'[c].phase # "none"
    <3>1. ClickOK(c) /\ click[c].phase = "writing" /\ click'[c].phase \in {"resolved", "not_found"}
          /\ click'[c].wait = click[c].wait
      BY <1>1, <1>3, <2>1 DEF ClicksInv
    <3>2. \A b \in 1..(c - 1) : b \in Clicks /\ b # c /\ click[b].phase # "none"
      BY <3>1, ApprovalAssumption DEF ClickOK, Clicks
    <3>3. \A b \in 1..(c - 1) : click'[b].phase # "none"
      BY <1>3, <2>1, <3>2
    <3>4. CASE click[c].wait = None
      BY <3>1, <3>3, <3>4 DEF ClickOK
    <3>5. CASE click[c].wait # None
      <4>1. x = click[c].wait
        BY <2>1, NoneIsNoWait DEF x, Target
      <4>2. click'[c].phase = "resolved" /\ click'[c].card = click[c].card /\ x # None
        BY <1>3, <2>1, <3>5, <4>1
      <4>3. memory'.outcome[x] # "waiting"
        BY <1>3, <1>4, <4>2 DEF Waiting
      <4>4. /\ click'[c].card \in 1..asked' /\ click'[c].wait \in 1..asked'
            /\ about'[click'[c].card].key = about'[click'[c].wait].key
            /\ about'[click'[c].card].content = about'[click'[c].wait].content
        BY <1>1, <3>1, <3>5, <4>2 DEF ClickOK, Key
      <4> QED BY <3>1, <3>3, <4>1, <4>2, <4>3, <4>4 DEF ClickOK, Key, Waiting
    <3> QED BY <3>1, <3>4, <3>5
  <2>2. \A c \in Clicks : click'[c] = click[c] \/ (ClickOK(c)' /\ click'[c].phase # "none")
    BY <1>3, <2>1
  <2> QED BY <1>1, <1>10, <2>2, ClicksKeep
<1>12. \A c \in Clicks : click[c].phase = "resolved" => click'[c] = click[c]
  BY <1>3
<1>13. GrantInv'
  <2>1. ASSUME NEW v \in Waits, memory'.outcome[v] \in {"granted", "refused"},
               memory'.outcome[v] = memory.outcome[v]
        PROVE  \E c \in Clicks : DecidedBy(v, c)'
    BY <1>1, <1>3, <1>12, <2>1, DecisionStays
  <2>2. ASSUME NEW v \in Waits, memory'.outcome[v] # memory.outcome[v]
        PROVE  \E c \in Clicks : DecidedBy(v, c)'
    <3>1. v = x /\ Waiting(v) /\ x # None
      BY <1>3, <2>2, NoneIsNoWait
    <3>9. PICK c \in Clicks : c = write.by
      BY <1>4, <3>1
    <3>2. /\ c \in Clicks /\ c \in Nat /\ click[c].wait = v
          /\ click'[c].phase = "resolved" /\ click'[c].yes = click[c].yes
          /\ click'[c].wait = v
      BY <1>3, <1>4, <3>1, <3>9, NoneIsNoWait
    <3>3. memory'.outcome[v] = IF click[c].yes THEN "granted" ELSE "refused"
      BY <1>3, <3>1, <3>9
    <3>4. click[c].yes \in BOOLEAN
      BY <1>1, <3>2 DEF ApprovalsType, Click
    <3>5. ASSUME NEW b \in 1..(c - 1), click[b].wait = v PROVE FALSE
      <4>1. b \in Clicks /\ b \in Nat /\ b < c /\ ClickOK(b)
        BY <1>1, <3>2, ApprovalAssumption DEF Clicks, ClicksInv
      <4>2. click[b].phase = "writing"
        BY <3>1, <3>5, <4>1 DEF ClickOK
      <4>3. PICK i \in DOMAIN queue : queue[i].by = b
        BY <1>1, <3>1, <3>5, <4>1, <4>2 DEF QueueInv
      <4>4. i # 1 /\ 1 < i
        <5>1. i # 1
          BY <3>9, <4>1, <4>3 DEF write
        <5> QED BY <1>7, <5>1
      <4>5. OrderOK(1, i)
        BY <1>1, <1>2, <4>4 DEF QueueInv
      <4>6. DecidedFor(1) /\ DecidedFor(i)
        <5>1. b # None
          BY <4>1, NoneIsNoWait
        <5>2. DecidedFor(i)
          BY <3>1, <3>5, <4>3, <5>1 DEF DecidedFor
        <5>3. DecidedFor(1)
          BY <1>4, <3>1 DEF DecidedFor, write
        <5> QED BY <5>2, <5>3
      <4>7. c < b
        BY <3>9, <4>3, <4>5, <4>6 DEF OrderOK, write
      <4> QED BY <3>2, <4>1, <4>7
    <3>6. \A b \in 1..(c - 1) : click'[b].wait # v
      <4>1. \A b \in 1..(c - 1) : b \in Clicks
        BY <3>2, ApprovalAssumption DEF Clicks
      <4> QED BY <1>3, <3>5, <4>1
    <3>7. click'[c].yes = (memory'.outcome[v] = "granted")
      <4>1. CASE click[c].yes = TRUE
        BY <3>2, <3>3, <4>1
      <4>2. CASE click[c].yes = FALSE
        BY <3>2, <3>3, <4>2
      <4> QED BY <3>4, <4>1, <4>2
    <3>8. DecidedBy(v, c)'
      BY <3>2, <3>6, <3>7 DEF DecidedBy
    <3> QED BY <3>2, <3>8
  <2> QED BY <2>1, <2>2 DEF GrantInv
<1>14. FileInv'
  <2>1. ASSUME NEW j \in Keys, file'[j] # None
        PROVE  \E v \in 1..asked : v = file'[j].wait /\ Key(v) = j
    <3>1. CASE file'[j] = file[j]
      BY <1>1, <2>1, <3>1 DEF FileInv
    <3>2. CASE file'[j] # file[j]
      <4>1. j = k /\ ~broken /\ file' = Written(write)
        BY <1>2, <1>5, <3>2
      <4>2. CASE write.what = "put"
        BY <1>5, <4>1, <4>2 DEF k
      <4>3. CASE write.what = "update"
        <5>1. file[k] # None
          BY <1>5, <2>1, <4>1, <4>3
        <5> QED BY <1>1, <1>5, <4>1, <4>3, <5>1 DEF FileInv
      <4> QED BY <1>6, <4>2, <4>3
    <3> QED BY <3>1, <3>2
  <2>2. \A j \in Keys : file'[j] # None =>
           file'[j].wait \in 1..asked' /\ about'[file'[j].wait].key = j
    BY <1>1, <2>1 DEF Key
  <2> QED BY <2>2 DEF FileInv, Key
<1>15. Remembered
  <2>1. \A v \in 1..asked : memory.outcome[v] = "displaced" => memory'.outcome[v] = "displaced"
    BY <1>1, <1>3, AskedIsKnown DEF MemoryMoves, Waiting
  <2> QED BY <1>3, <1>10, <2>1 DEF Remembered
<1>16. ASSUME NEW v \in 1..asked, Holds(v), ~Holds(v)'
       PROVE  /\ x # None /\ Key(v) = k /\ (v # x => Overlapped(v))
  <2>1. v \in Nat /\ Key(v) \in Keys
    BY <1>1, AskedIsKnown
  <2>2. memory.entry[Key(v)] = v /\ memory'.entry[Key(v)] # v
    BY <1>1, <1>16 DEF Holds, Key
  <2>3. x # None /\ Key(v) = Key(x)
    BY <1>3, <2>1, <2>2
  <2>4. x <= v
    BY <1>1, <1>4, <2>1, <2>2, <2>3, NoneIsNoWait, AskedIsKnown DEF WaitsInv
  <2>5. Disturbed(x)
    BY <1>4, <2>3 DEF Disturbed, Decided
  <2>6. v # x => Overlapped(v)
    BY <1>1, <1>4, <1>15, <2>1, <2>3, <2>4, <2>5, OverlapStays
  <2> QED BY <1>4, <2>3, <2>6
<1>17. ASSUME NEW v \in 1..asked, v = x PROVE ~Waiting(v)' /\ Disturbed(v)'
  <2>1. x # None /\ v \in Waits
    BY <1>1, <1>17, AskedIsKnown, NoneIsNoWait
  <2>2. ~Waiting(v)'
    BY <1>3, <1>17, <2>1 DEF Waiting
  <2>3. Decided(v)'
    BY <1>3, <1>4, <1>17, <2>1 DEF Decided
  <2> QED BY <2>2, <2>3 DEF Disturbed
<1>18. ASSUME NEW v \in 1..asked, v # x, Waiting(v) PROVE Waiting(v)'
  <2>1. v \in Waits
    BY <1>1, AskedIsKnown
  <2> QED BY <1>3, <1>18, <2>1 DEF Waiting
<1>19. ASSUME faults' = 0 PROVE RecordInv'
  <2>1. faults = 0 /\ ~broken /\ file' = Written(write) /\ ~broken'
    <3>1. faults = 0
      BY <1>1, <1>2, <1>19 DEF ApprovalsType, Fault
    <3>2. ~Fault
      BY <1>19, <3>1 DEF Fault
    <3>3. ~broken
      BY <1>1, <3>1 DEF RecordInv
    <3> QED BY <1>2, <3>1, <3>2, <3>3
  <2>2. ASSUME NEW v \in 1..asked, Waiting(v)' PROVE Holds(v)' \/ Overlapped(v)'
    <3>1. Waiting(v) /\ v # x
      BY <1>10, <1>17, <2>2
    <3>2. Holds(v) \/ Overlapped(v)
      BY <1>1, <2>1, <3>1 DEF RecordInv
    <3> QED BY <1>1, <1>15, <1>16, <3>1, <3>2, OverlapStays
  <2>3. ASSUME NEW v \in memory'.listeners PROVE Holds(v)' \/ Disturbed(v)'
    <3>1. v \in memory.listeners /\ v \in 1..asked
      BY <1>1, <1>3 DEF MemoryMoves, WaitsInv
    <3>2. Holds(v) \/ Disturbed(v)
      BY <1>1, <2>1, <3>1 DEF RecordInv
    <3>3. v # x => Holds(v)' \/ Disturbed(v)
      BY <1>16, <3>1, <3>2 DEF Disturbed
    <3> QED BY <1>1, <1>15, <1>17, <3>1, <3>3, OverlapStays
  <2>4. ASSUME NEW i \in DOMAIN queue', queue'[i].what = "put"
        PROVE  \E v \in 1..asked :
                  /\ v = queue'[i].wait
                  /\ \/ Waiting(v)' \/ Overlapped(v)'
                     \/ \E j \in DOMAIN queue' : i < j /\ Key(queue'[j].wait) = Key(v)
    <3>1. i + 1 \in DOMAIN queue /\ queue'[i] = queue[i + 1] /\ 1 < i + 1
      BY <1>7
    <3>2. queue[i + 1].wait \in 1..asked
      BY <1>1, <3>1, WritesAreAsked
    <3>3. PICK v \in 1..asked : v = queue[i + 1].wait
      BY <3>2
    <3>4. v # x
      <4>1. write.wait < v
        <5>1. OrderOK(1, i + 1)
          BY <1>1, <1>2, <3>1 DEF QueueInv
        <5> QED BY <2>4, <3>1, <3>3, <5>1 DEF OrderOK, write
      <4>2. x # None => x < v
        BY <1>4, <4>1
      <4> QED BY <1>4, <4>2, NoneIsNoWait, AskedIsKnown, <1>1
    <3>5. \/ Waiting(v) \/ Overlapped(v)
          \/ \E j \in DOMAIN queue : i + 1 < j /\ Key(queue[j].wait) = Key(v)
      BY <1>1, <2>1, <2>4, <3>1, <3>3 DEF RecordInv
    <3>6. ASSUME NEW j \in DOMAIN queue, i + 1 < j, Key(queue[j].wait) = Key(v)
          PROVE  \E l \in DOMAIN queue' : i < l /\ Key(queue'[l].wait) = Key(v)
      <4>1. j - 1 \in DOMAIN queue' /\ i < j - 1 /\ (j - 1) + 1 = j
        BY <1>7, <3>6
      <4>2. queue'[j - 1] = queue[j]
        BY <1>7, <4>1
      <4> QED BY <3>6, <4>1, <4>2
    <3>7. Waiting(v)' \/ Overlapped(v)' \/ \E j \in DOMAIN queue' : i < j /\ Key(queue'[j].wait) = Key(v)
      BY <1>1, <1>15, <1>18, <3>4, <3>5, <3>6, OverlapStays
    <3> QED BY <3>1, <3>3, <3>7
  <2>5. ASSUME NEW j \in Keys, NEW i \in DOMAIN queue, i # 1, Key(queue[i].wait) = j
        PROVE  Behind(j)'
    <3>1. i - 1 \in DOMAIN queue' /\ (i - 1) + 1 = i
      BY <1>7, <2>5
    <3>2. queue'[i - 1] = queue[i]
      BY <1>7, <3>1
    <3>3. about'[queue'[i - 1].wait].key = j
      BY <1>1, <2>5, <3>2 DEF Key
    <3> QED BY <3>1, <3>3 DEF Behind, Key
  <2>6. ASSUME NEW j \in Keys, file'[j] # None, file'[j].status = "pending"
        PROVE  \E v \in 1..asked :
                  v = file'[j].wait /\ (Waiting(v)' \/ Overlapped(v)' \/ Behind(j)')
    <3>1. CASE j # k
      <4>1. file'[j] = file[j]
        BY <1>5, <2>1, <3>1
      <4>2. file[j].wait \in 1..asked /\ Key(file[j].wait) = j
        BY <1>1, <2>6, <4>1 DEF FileInv
      <4>3. PICK v \in 1..asked : v = file[j].wait
        BY <4>2
      <4>4. Waiting(v) \/ Overlapped(v) \/ Behind(j)
        BY <1>1, <2>1, <2>6, <4>1, <4>3 DEF RecordInv
      <4>5. v # x
        BY <1>4, <3>1, <4>2, <4>3, NoneIsNoWait, AskedIsKnown, <1>1
      <4>6. Behind(j) => Behind(j)'
        <5>1. ASSUME NEW i \in DOMAIN queue, Key(queue[i].wait) = j PROVE i # 1
          BY <3>1, <5>1 DEF k, write
        <5> QED BY <2>5, <5>1 DEF Behind
      <4> QED BY <1>1, <1>15, <1>18, <4>1, <4>3, <4>4, <4>5, <4>6, OverlapStays
    <3>2. CASE j = k
      <4>1. write.what = "put"
        <5>1. ASSUME write.what = "update" PROVE FALSE
          <6>1. write.status # "pending"
            BY <1>6, <5>1 DEF WriteOK, write
          <6>2. file[k] # None
            BY <1>5, <2>1, <2>6, <3>2, <5>1
          <6> QED BY <1>5, <2>1, <2>6, <3>2, <5>1, <6>1, <6>2
        <5> QED BY <1>6, <5>1
      <4>2. x = None
        BY <1>4, <4>1
      <4>3. PICK v \in 1..asked : v = write.wait
        BY <1>5
      <4>4. file'[j].wait = v /\ v # x
        BY <1>1, <1>5, <2>1, <3>2, <4>1, <4>2, <4>3, NoneIsNoWait, AskedIsKnown
      <4>5. \/ Waiting(v) \/ Overlapped(v)
            \/ \E i \in DOMAIN queue : 1 < i /\ Key(queue[i].wait) = Key(v)
        BY <1>1, <1>2, <2>1, <4>1, <4>3 DEF RecordInv, write
      <4>6. Key(v) = j
        BY <3>2, <4>3 DEF k
      <4>7. (\E i \in DOMAIN queue : 1 < i /\ Key(queue[i].wait) = Key(v)) => Behind(j)'
        BY <2>5, <4>6
      <4> QED BY <1>1, <1>15, <1>18, <4>4, <4>5, <4>7, OverlapStays
    <3> QED BY <3>1, <3>2
  <2>7. \A v \in 1..asked' : Waiting(v)' => Holds(v)' \/ Overlapped(v)'
    BY <1>1, <2>2
  <2>8. \A i \in DOMAIN queue' : queue'[i].what = "put" =>
            \/ memory'.outcome[queue'[i].wait] = "waiting" \/ Overlapped(queue[i].wait)'
            \/ \E j \in DOMAIN queue' : i < j /\ about'[queue'[j].wait].key = about'[queue'[i].wait].key
    BY <1>1, <2>4 DEF Waiting, Overlapped, Key
  <2>9. \A j \in Keys : file'[j] # None /\ file'[j].status = "pending" =>
            memory'.outcome[file'[j].wait] = "waiting" \/ Overlapped(file[j].wait)' \/ Behind(j)'
    BY <2>6 DEF Waiting, Overlapped
  <2> QED BY <2>1, <2>3, <2>7, <2>8, <2>9 DEF RecordInv, Waiting, Key
<1>20. RecordInv'
  BY <1>19 DEF RecordInv
<1> QED BY <1>8, <1>9, <1>11, <1>7, <1>13, <1>14, <1>20 DEF ApprovalsInv

-----------------------------------------------------------------------------
(* The theorems                                                             *)

LEMMA StutterHolds == ApprovalsInv /\ UNCHANGED vars => ApprovalsInv'
<1> SUFFICES ASSUME ApprovalsInv, UNCHANGED vars PROVE ApprovalsInv'
  OBVIOUS
<1> USE DEF ApprovalsInv, vars
<1>1. ApprovalsType' /\ WaitsInv'
  BY DEF ApprovalsType, WaitsInv, Waiting, Key
<1>2. ClicksInv'
  BY DEF ClicksInv, ClickOK, Waiting, Key
<1>3. QueueInv'
  BY DEF QueueInv, WriteOK, OrderOK, DecidedFor
<1>4. GrantInv' /\ FileInv'
  BY DEF GrantInv, DecidedBy, FileInv, Key
<1>5. RecordInv'
  BY DEF RecordInv, Waiting, Holds, Key, Overlapped, Disturbed, Decided, Behind
<1> QED BY <1>1, <1>2, <1>3, <1>4, <1>5

LEMMA StepHolds == ApprovalsInv /\ [Next]_vars => ApprovalsInv'
<1> SUFFICES ASSUME ApprovalsInv, [Next]_vars PROVE ApprovalsInv'
  OBVIOUS
<1>1. ASSUME NEW w \in Waits, Ask(w) PROVE ApprovalsInv'
  BY <1>1, AskHolds
<1>2. ASSUME NEW w \in Waits, Expire(w) PROVE ApprovalsInv'
  BY <1>2, ExpireHolds
<1>3. ASSUME NEW r \in Requests, Stop(r) PROVE ApprovalsInv'
  BY <1>3, StopHolds
<1>4. ASSUME NEW c \in Clicks, Decide(c) PROVE ApprovalsInv'
  BY <1>4, DecideHolds
<1>5. ASSUME NEW c \in Clicks, ReadRecord(c) PROVE ApprovalsInv'
  BY <1>5, ReadRecordHolds
<1>6. CASE WriteFile
  BY <1>6, WriteFileHolds
<1>7. CASE Restart
  BY <1>7, RestartHolds
<1>8. CASE ClearApprovalQueue
  BY <1>8, ClearHolds
<1>9. CASE Quiet \/ UNCHANGED vars
  BY <1>9, StutterHolds DEF Quiet
<1> QED BY <1>1, <1>2, <1>3, <1>4, <1>5, <1>6, <1>7, <1>8, <1>9 DEF Next

(* The inductive invariant of the approvals: what the entries, timers and   *)
(* listeners of waits, the queued writes, the decisions and the file say of *)
(* each other after every step of liveApprovals.ts.                         *)
THEOREM ApprovalsInvariant == Spec => []ApprovalsInv
<1>1. Init => ApprovalsInv
  BY InitHolds
<1>2. ApprovalsInv /\ [Next]_vars => ApprovalsInv'
  BY StepHolds
<1> QED BY <1>1, <1>2, PTL DEF Spec

(* Every entry of pendingApprovals is a wait that is not settled and whose  *)
(* timer runs, and no timer runs for a wait without an entry; the variables *)
(* have their types.                                                        *)
THEOREM EntriesAreLiveHolds == Spec => []EntriesAreLive
<1>1. ApprovalsInv => EntriesAreLive
  <2> SUFFICES ASSUME ApprovalsInv PROVE EntriesAreLive
    OBVIOUS
  <2>1. /\ asked \in 0..MaxWaits /\ memory \in Memory /\ broken \in BOOLEAN /\ stopped \in SUBSET Requests
        /\ faults \in 0..MaxFaults /\ queue \in Seq(Write) /\ click \in [Clicks -> Click]
        /\ about \in [Waits -> Call \cup {None}] /\ file \in [Keys -> Record \cup {None}]
    BY DEF ApprovalsInv, ApprovalsType
  <2>2. /\ memory.entry \in [Keys -> Waits \cup {None}] /\ memory.timers \in SUBSET Waits
        /\ memory.listeners \in SUBSET Waits /\ memory.outcome \in [Waits -> Outcome]
    BY <2>1 DEF Memory
  <2>3. \A i \in DOMAIN queue : queue[i] \in Write
    BY <2>1
  <2>4. ASSUME NEW c \in Clicks
        PROVE  /\ click[c].phase \in ClickPhase /\ click[c].card \in Waits \cup {None}
               /\ click[c].wait \in Waits \cup {None} /\ click[c].yes \in BOOLEAN
    BY <2>1 DEF Click
  <2>5. TypeOK
    BY <2>1, <2>2, <2>3, <2>4 DEF TypeOK, Call, Record
  <2>6. \A k \in Keys : memory.entry[k] # None =>
          Waiting(memory.entry[k]) /\ about[memory.entry[k]].key = k
    BY DEF ApprovalsInv, WaitsInv, Key
  <2>7. memory.timers = {memory.entry[k] : k \in Keys} \ {None}
    BY DEF ApprovalsInv, WaitsInv
  <2> QED BY <2>5, <2>6, <2>7 DEF EntriesAreLive
<1> QED BY <1>1, ApprovalsInvariant, PTL

(* A call is granted only by a yes on a card that showed the same tool and  *)
(* preview under its key, whatever timers, stops and later waits of the key *)
(* came while resolveLiveApproval() awaited the write of the decision.      *)
THEOREM GrantIsForThisCallHolds == Spec => []GrantIsForThisCall
<1>1. ApprovalsInv => GrantIsForThisCall
  <2> SUFFICES ASSUME ApprovalsInv, NEW w \in Waits, memory.outcome[w] = "granted"
               PROVE  \E c \in Clicks :
                         /\ click[c].yes /\ click[c].wait = w
                         /\ about[click[c].card].key = about[w].key
                         /\ about[click[c].card].content = about[w].content
    BY DEF GrantIsForThisCall
  <2>1. PICK c \in Clicks : DecidedBy(w, c)
    BY DEF ApprovalsInv, GrantInv
  <2>2. click[c].wait = w /\ ClickOK(c) /\ click[c].yes = TRUE
    BY <2>1 DEF DecidedBy, ApprovalsInv, ClicksInv
  <2>3. about[click[c].card].key = about[w].key /\ about[click[c].card].content = about[w].content
    BY <2>2, NoneIsNoWait DEF ClickOK, Key
  <2> QED BY <2>2, <2>3
<1> QED BY <1>1, ApprovalsInvariant, PTL

(* Of two opposite decisions on a wait the one made first counts, in        *)
(* whatever order their writes, timers and stops come.                      *)
THEOREM FirstDecisionWinsHolds == Spec => []FirstDecisionWins
<1>1. ApprovalsInv => FirstDecisionWins
  BY DEF ApprovalsInv, GrantInv, DecidedBy, FirstDecisionWins
<1> QED BY <1>1, ApprovalsInvariant, PTL

(* Once a wait is settled and the writes are done, its record says so,      *)
(* unless a write failed, the queue was reset or another wait took the key. *)
THEOREM RecordSettlesHolds == Spec => []RecordSettles
<1>1. ApprovalsInv => RecordSettles
  <2> SUFFICES ASSUME ApprovalsInv, NEW k \in Keys, file[k] # None, file[k].status = "pending",
                      ~(faults > 0)
               PROVE  \/ Waiting(file[k].wait)
                      \/ \E i \in DOMAIN queue : about[queue[i].wait].key = k
                      \/ Overlapped(file[k].wait)
    BY DEF RecordSettles
  <2>1. faults = 0
    BY DEF ApprovalsInv, ApprovalsType
  <2> QED BY <2>1 DEF ApprovalsInv, RecordInv, Behind, Key
<1> QED BY <1>1, ApprovalsInvariant, PTL

==============================================================================
