----------------------------- MODULE LiveApprovals -----------------------------
(***************************************************************************)
(* The approvals a chat request waits for (packages/web/lib/server/        *)
(* liveApprovals.ts, its caller in packages/web/app/api/chat/route.ts and  *)
(* the decision route).  A tool call that needs approval asks with a key   *)
(* - actor, conversation and approval id, which is the id of the call -,   *)
(* and waits until the user decides, the request is stopped or the time is *)
(* up.  Keys are not unique: two requests of a conversation run beside     *)
(* each other in the web process, and providers without call ids number    *)
(* them anew.                                                              *)
(*                                                                         *)
(* What a wait leaves in the process is in `memory': its entry in the map  *)
(* pendingApprovals, its timer and its abort listener.  A record of it is  *)
(* kept in a file, written through a promise chain (writeQueue).           *)
(***************************************************************************)
EXTENDS Integers, Sequences, FiniteSets, SequencesExt

CONSTANTS MaxWaits,  \* bound: the waits of tool calls, numbered as they are asked
          Requests,  \* the chat requests they belong to
          Keys,      \* the approval keys
          Contents,  \* what a call does: tool name and preview
          Calls,     \* Calls[w]: the calls wait w may be about
          MaxClicks, \* bound: the decisions of the user, numbered as they are made
          None,      \* the absent value
          MaxFaults  \* bound: failed writes, restarts and factory resets

ASSUME ApprovalAssumption ==
    /\ MaxWaits \in Nat /\ MaxClicks \in Nat /\ MaxFaults \in Nat /\ None \notin Nat
    /\ Calls \in [1..MaxWaits -> SUBSET [request : Requests, key : Keys, content : Contents]]

Waits == 1..MaxWaits
Clicks == 1..MaxClicks

VARIABLES asked,    \* how many waits were asked
          about,    \* about[w]: the request, key and content of wait w
          memory,   \* what the process remembers of the waits
          queue,    \* writeQueue: the writes that are not done yet
          broken,   \* the last write of the chain was rejected
          file,     \* file[k]: the record of key k, or None
          stopped,  \* the requests whose signal is aborted
          click,    \* click[c]: how far decision c is
          faults    \* how many faults there were

vars == <<asked, about, memory, queue, broken, file, stopped, click, faults>>

Outcome == {"none", "waiting", "granted", "refused", "expired", "aborted", "displaced", "lost"}
Status == {"pending", "approved", "rejected", "expired", "aborted"}
Write == [what : {"put", "update"}, wait : Waits, status : Status, by : Clicks \cup {None}]
ClickPhase == {"none", "reading", "writing", "resolved", "mismatch", "not_found", "dropped"}

TypeOK ==
    /\ asked \in 0..MaxWaits
    /\ about \in [Waits -> [request : Requests, key : Keys, content : Contents] \cup {None}]
    /\ memory.entry \in [Keys -> Waits \cup {None}]
    /\ memory.timers \in SUBSET Waits
    /\ memory.listeners \in SUBSET Waits
    /\ memory.outcome \in [Waits -> Outcome]
    /\ \A i \in DOMAIN queue : queue[i] \in Write
    /\ broken \in BOOLEAN
    /\ file \in [Keys -> [wait : Waits, status : Status] \cup {None}]
    /\ stopped \in SUBSET Requests
    /\ \A c \in Clicks :
          /\ click[c].phase \in ClickPhase
          /\ click[c].card \in Waits \cup {None} /\ click[c].wait \in Waits \cup {None}
          /\ click[c].yes \in BOOLEAN
    /\ faults \in 0..MaxFaults

Init ==
    /\ asked = 0
    /\ about = [w \in Waits |-> None]
    /\ memory = [entry |-> [k \in Keys |-> None], timers |-> {}, listeners |-> {},
                 outcome |-> [w \in Waits |-> "none"]]
    /\ queue = <<>>
    /\ broken = FALSE
    /\ file = [k \in Keys |-> None]
    /\ stopped = {}
    /\ click = [c \in Clicks |-> [phase |-> "none", card |-> None, yes |-> FALSE, wait |-> None]]
    /\ faults = 0

Waiting(w) == memory.outcome[w] = "waiting"

-----------------------------------------------------------------------------
(* A promise settles once.                                                  *)
Settle(m, w, outcome) ==
    IF m.outcome[w] = "waiting" THEN [m EXCEPT !.outcome[w] = outcome] ELSE m

(* Broken: the timer goes on.                                               *)
TakeEntryOnly(m, k) == [m EXCEPT !.entry[k] = None]

(* The entry of a key is taken away and the timer of its wait cleared.      *)
TakeEntry(m, k) ==
    [m EXCEPT !.entry[k] = None, !.timers = @ \ {m.entry[k]}]

(* finish() of wait w: whoever holds the entry of its key loses it.  The    *)
(* listener is taken off w's own signal only.                               *)
Finish(m, w, outcome) ==
    LET k == about[w].key
        holder == m.entry[k]
        taken == IF holder = None \/ about[holder].request # about[w].request
                 THEN {} ELSE {holder}
    IN  IF holder = None
        THEN Settle(m, w, outcome)
        ELSE Settle([TakeEntry(m, k) EXCEPT !.listeners = @ \ taken], w, outcome)

(* Broken: only the wait is settled.                                        *)
UpdateOfNothing(m, w, status) == <<>>

(* The write of a finish() without a decision, if it found an entry.        *)
StatusUpdate(w, status) == [what |-> "update", wait |-> w, status |-> status, by |-> None]
UpdateOf(m, w, status) ==
    IF m.entry[about[w].key] = None THEN <<>> ELSE <<StatusUpdate(w, status)>>

(* clearPending(): the wait that holds the key is answered with no; its     *)
(* listener stays.                                                          *)
ClearPending(m, k) ==
    IF m.entry[k] = None
    THEN m
    ELSE Settle(TakeEntry(m, k), m.entry[k], "displaced")

(* waitForLiveApproval().  A call may ask in a request that was stopped     *)
(* already: that listener is never called.  The calls of a request that     *)
(* need approval run one after the other.                                   *)
Ask(w) ==
    /\ w = asked + 1
    /\ \E call \in Calls[w] : LET r == call.request
                                k == call.key IN
          /\ \A v \in 1..asked : about[v].request = r => ~Waiting(v)
          /\ about' = [about EXCEPT ![w] = call]
          /\ memory' = LET cleared == ClearPending(memory, k)
                       IN  [entry |-> [cleared.entry EXCEPT ![k] = w],
                            timers |-> cleared.timers \cup {w},
                            listeners |-> IF r \in stopped THEN cleared.listeners
                                          ELSE cleared.listeners \cup {w},
                            outcome |-> [cleared.outcome EXCEPT ![w] = "waiting"]]
    /\ asked' = w
    /\ queue' = Append(queue, [what |-> "put", wait |-> w, status |-> "pending", by |-> None])
    /\ UNCHANGED <<broken, file, stopped, click, faults>>

(* Broken: the timer clears the entry and leaves the call waiting.          *)
ExpireQuietly(w) ==
    /\ w \in memory.timers
    /\ memory' = TakeEntry([memory EXCEPT !.timers = @ \ {w}], about[w].key)
    /\ queue' = queue \o UpdateOf(memory, w, "expired")
    /\ UNCHANGED <<asked, about, broken, file, stopped, click, faults>>

(* The timer of a wait.                                                     *)
Expire(w) ==
    /\ w \in memory.timers
    /\ memory' = Finish([memory EXCEPT !.timers = @ \ {w}], w, "expired")
    /\ queue' = queue \o UpdateOf(memory, w, "expired")
    /\ UNCHANGED <<asked, about, broken, file, stopped, click, faults>>

(* A request is stopped: its listeners are called, oldest first.  Of a key  *)
(* that has an entry the oldest takes it, with the listener of the wait     *)
(* that holds it; the later ones find no entry and only settle.             *)
Stop(r) ==
    LET called == {w \in memory.listeners : about[w].request = r}
        Holder(w) == memory.entry[about[w].key]
        first == {w \in called : /\ Holder(w) # None
                                 /\ \A v \in called : about[v].key = about[w].key => w <= v}
        taken == {Holder(w) : w \in first}
    IN  /\ r \notin stopped
        /\ stopped' = stopped \cup {r}
        /\ memory' = [entry |-> [k \in Keys |-> IF \E w \in first : about[w].key = k
                                                THEN None ELSE memory.entry[k]],
                      timers |-> memory.timers \ taken,
                      listeners |-> memory.listeners \ called,
                      outcome |-> [w \in Waits |-> IF Waiting(w) /\ w \in called \ (taken \ first)
                                                   THEN "aborted" ELSE memory.outcome[w]]]
        /\ \E order \in [1..Cardinality(first) -> first] :
              /\ \A i, j \in DOMAIN order : i < j => order[i] < order[j]
              /\ queue' = queue \o [i \in DOMAIN order |-> StatusUpdate(order[i], "aborted")]
        /\ UNCHANGED <<asked, about, broken, file, click, faults>>

-----------------------------------------------------------------------------
(* A decision that reaches no wait; what it was about no longer matters.    *)
Answered(phase) == [phase |-> phase, card |-> None, yes |-> FALSE, wait |-> None]

(* resolveLiveApproval(): the decision on a card, which shows the call of   *)
(* some wait.  It counts for the wait that holds the key now, if that is    *)
(* about the same tool and preview.                                         *)
Decide(c) ==
    /\ click[c].phase = "none" /\ \A b \in 1..(c - 1) : click[b].phase # "none"
    /\ \E card \in 1..asked, yes \in BOOLEAN :
          LET holder == memory.entry[about[card].key]
              Now(phase, wait) ==
                 click' = [click EXCEPT ![c] = [phase |-> phase, card |-> card,
                                                yes |-> yes, wait |-> wait]]
          IN  CASE holder = None ->
                     Now("reading", None) /\ UNCHANGED queue
                [] holder # None /\ about[holder].content # about[card].content ->
                     click' = [click EXCEPT ![c] = Answered("mismatch")] /\ UNCHANGED queue
                [] OTHER ->
                     /\ Now("writing", holder)
                     /\ queue' = Append(queue, [what |-> "update", wait |-> holder, by |-> c,
                                                status |-> IF yes THEN "approved" ELSE "rejected"])
    /\ UNCHANGED <<asked, about, memory, broken, file, stopped, faults>>

(* Nobody waits: the record of the file decides.  It may be out of date.    *)
ReadRecord(c) ==
    LET card == click[c].card
        record == file[about[card].key]
        Answer(phase) == click' = [click EXCEPT ![c] = Answered(phase)] /\ UNCHANGED queue
        Update(status) ==
            /\ click' = [click EXCEPT ![c].phase = "writing"]
            /\ queue' = Append(queue, [what |-> "update", wait |-> card, by |-> c, status |-> status])
    IN  /\ click[c].phase = "reading"
        /\ \/ /\ record # None => record.status # "pending"
              /\ Answer("not_found")
           \/ /\ record # None /\ record.status = "pending"
              /\ \/ Update("expired")
                 \/ /\ about[record.wait].content # about[card].content
                    /\ Answer("mismatch")
                 \/ /\ about[record.wait].content = about[card].content
                    /\ Update(IF click[c].yes THEN "approved" ELSE "rejected")
        /\ UNCHANGED <<asked, about, memory, broken, file, stopped, faults>>

(* Broken: the wait is looked up again after the write.                     *)
ResolveByKey(c, status) ==
    LET holder == memory.entry[about[click[c].card].key]
    IN  /\ memory' = IF holder = None
                     THEN memory
                     ELSE Finish(memory, holder, IF click[c].yes THEN "granted" ELSE "refused")
        /\ click' = [click EXCEPT ![c].phase = "resolved"]

(* What a decision does once its write is done: the wait it was made for    *)
(* gets it, unless it settled before.                                       *)
Resolve(c, status) ==
    /\ memory' = IF click[c].wait = None
                 THEN memory
                 ELSE Finish(memory, click[c].wait, IF click[c].yes THEN "granted" ELSE "refused")
    /\ click' = [click EXCEPT ![c] =
                    CASE status = "expired" -> Answered("not_found")
                      [] status # "expired" /\ click[c].wait = None -> Answered("resolved")
                      [] OTHER -> [@ EXCEPT !.phase = "resolved"]]

(* What a write does to the file.  After a rejected write the next one is   *)
(* skipped, and so on up to a new record, which is skipped too.             *)
Written(write) ==
    LET k == about[write.wait].key
    IN  CASE broken -> file
          [] ~broken /\ write.what = "put" ->
                [file EXCEPT ![k] = [wait |-> write.wait, status |-> "pending"]]
          [] ~broken /\ write.what = "update" /\ file[k] = None -> file
          [] OTHER -> [file EXCEPT ![k].status = write.status]

(* Broken: the writes are not chained.                                      *)
AnyWrite == DOMAIN queue

(* The write that is done next.                                             *)
NextWrites == {1} \cap DOMAIN queue

(* The next write of the chain is done, or rejected by the file system.     *)
WriteFile ==
    /\ \E i \in NextWrites : LET write == queue[i] IN
          /\ \/ /\ file' = Written(write)
                /\ broken' = (broken /\ write.what = "update")
                /\ UNCHANGED faults
             \/ /\ ~broken /\ faults < MaxFaults /\ faults' = faults + 1
                /\ broken' = (write.what = "update")
                /\ UNCHANGED file
          /\ queue' = RemoveAt(queue, i)
          /\ IF write.by = None THEN UNCHANGED <<memory, click>> ELSE Resolve(write.by, write.status)
    /\ UNCHANGED <<asked, about, stopped>>

-----------------------------------------------------------------------------
Fault == faults < MaxFaults /\ faults' = faults + 1

(* The web process dies with its requests and starts again.                 *)
Restart ==
    /\ Fault
    /\ memory' = [memory EXCEPT
                    !.entry = [k \in Keys |-> None], !.timers = {}, !.listeners = {},
                    !.outcome = [w \in Waits |-> IF Waiting(w) THEN "lost" ELSE @[w]]]
    /\ click' = [c \in Clicks |-> IF click[c].phase \in {"reading", "writing"}
                                  THEN Answered("dropped") ELSE click[c]]
    /\ queue' = <<>> /\ broken' = FALSE
    /\ stopped' = stopped \cup {about[w].request : w \in 1..asked}
    /\ UNCHANGED <<asked, about, file>>

(* clearApprovalQueue() of the factory reset: all waits that hold a key are *)
(* cleared and the file is removed, but not what is queued for it.          *)
ClearApprovalQueue ==
    LET held == {memory.entry[k] : k \in Keys}
    IN  /\ Fault
        /\ memory' = [memory EXCEPT
                        !.entry = [k \in Keys |-> None], !.timers = @ \ held,
                        !.outcome = [w \in Waits |-> IF w \in held /\ Waiting(w)
                                                     THEN "displaced" ELSE @[w]]]
        /\ file' = [k \in Keys |-> None]
        /\ UNCHANGED <<asked, about, queue, broken, stopped, click>>

(* Nothing is left to do.                                                   *)
Quiet ==
    /\ asked = MaxWaits /\ stopped = Requests /\ queue = <<>> /\ memory.timers = {}
    /\ UNCHANGED vars

Next ==
    \/ \E w \in Waits : Ask(w) \/ Expire(w)
    \/ \E r \in Requests : Stop(r)
    \/ \E c \in Clicks : Decide(c) \/ ReadRecord(c)
    \/ WriteFile
    \/ Restart
    \/ ClearApprovalQueue
    \/ Quiet

Spec == Init /\ [][Next]_vars

(* Timers fire, and the file system and the event loop go on.               *)
Fairness ==
    /\ \A w \in Waits : WF_vars(Expire(w))
    /\ \A c \in Clicks : WF_vars(ReadRecord(c))
    /\ WF_vars(WriteFile)

FairSpec == Spec /\ Fairness

-----------------------------------------------------------------------------
(* Properties                                                               *)

(* Wait w may have been asked under a key that was in use: a wait asked     *)
(* earlier under it was displaced, or had a click.  That wait may have been *)
(* settled long before w was asked: the model keeps no times, and takes     *)
(* more for an overlap than was one.                                        *)
Overlapped(w) ==
    \E v \in 1..(w - 1) :
       /\ about[v].key = about[w].key
       /\ \/ memory.outcome[v] = "displaced"
          \/ \E c \in Clicks : click[c].wait = v

(* Every entry of pendingApprovals is a wait that is not settled and whose  *)
(* timer runs, and no timer runs for a wait without an entry.               *)
EntriesAreLive ==
    /\ TypeOK
    /\ \A k \in Keys : memory.entry[k] # None =>
          Waiting(memory.entry[k]) /\ about[memory.entry[k]].key = k
    /\ memory.timers = {memory.entry[k] : k \in Keys} \ {None}

(* A call is granted only by a yes on a card that showed the same tool and  *)
(* preview under its key, whatever became of the wait the user saw while    *)
(* the decision was written.                                                *)
GrantIsForThisCall ==
    \A w \in Waits : memory.outcome[w] = "granted" =>
       \E c \in Clicks :
          /\ click[c].yes /\ click[c].wait = w
          /\ about[click[c].card].key = about[w].key
          /\ about[click[c].card].content = about[w].content

(* Of two opposite decisions on a wait the one made first counts, in        *)
(* whatever order their writes, timers and stops come.                      *)
FirstDecisionWins ==
    \A w \in Waits : memory.outcome[w] \in {"granted", "refused"} =>
       \E c \in Clicks :
          /\ click[c].wait = w /\ \A b \in 1..(c - 1) : click[b].wait # w
          /\ click[c].yes = (memory.outcome[w] = "granted")

(* Once a wait is settled and the writes are done, its record says so: a    *)
(* click on its card is not answered as if somebody waited.  Failed writes, *)
(* a reset and an overlap of waits may leave the record behind.             *)
RecordSettles ==
    \A k \in Keys : file[k] # None /\ file[k].status = "pending" =>
       \/ Waiting(file[k].wait)
       \/ \E i \in DOMAIN queue : about[queue[i].wait].key = k
       \/ faults > 0
       \/ Overlapped(file[k].wait)

(* Every wait is settled in the end, though the user never decides and the  *)
(* signal was aborted before it was asked - unless another wait of its key  *)
(* takes its entry, and with it its timer.                                  *)
WaitsSettle ==
    \A w \in Waits : Waiting(w) ~> ~Waiting(w) \/ Overlapped(w)
=============================================================================
