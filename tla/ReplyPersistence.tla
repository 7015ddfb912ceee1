-------------------------- MODULE ReplyPersistence --------------------------
(***************************************************************************)
(* What one reply writes to the durable session, and when:                 *)
(* RunPersistenceBridge (packages/agent/src/persistence/runBridge.ts) as   *)
(* driven by ChatEngine.reply (packages/agent/src/engine/index.ts).        *)
(*                                                                         *)
(* reply() starts the run in the background and streams its deltas; the    *)
(* caller stops listening at `done' or on an abort, and the run then goes  *)
(* on alone.  run[m] is the progress of that background run.               *)
(*                                                                         *)
(* A session is a tree of entries with a current leaf.  Only the path from *)
(* the root to the leaf is ever read, so an entry is stood for by the path *)
(* that ends in it: appending to a parent is appending to the parent's     *)
(* path, and an entry with a stale parent leaves the others off the branch.*)
(* Tool calls, artifacts and work spaces append in the same way and are    *)
(* left out; so is the moment between inserting a row and moving the leaf. *)
(***************************************************************************)
EXTENDS Integers, Sequences, FiniteSets, ConversationCalls

CONSTANTS MaxEpoch,      \* bound on the history epochs of a conversation
          SharedEngine,  \* one cached engine per thread (gateway), or a fresh
                         \* one per call (web: per-request overrides)
          StoreMayFail   \* whether writes to the store may fail

ASSUME PersistenceAssumption ==
    /\ MaxEpoch \in Nat
    /\ None \notin 0..MaxEpoch   \* no epoch is the absent value
    /\ SharedEngine \in BOOLEAN
    /\ StoreMayFail \in BOOLEAN

Epochs == 0..MaxEpoch
Threads == Keys \X Epochs
Engines == IF SharedEngine THEN Threads ELSE Calls
Entries == Calls \X {"user", "assistant"}

VARIABLES thread,    \* thread[m]: the thread m's turn runs on, once known
          branch,    \* branch[t]: the entries from the root to t's leaf
          rows,      \* every entry ever written
          leafRead,  \* leafRead[m]: the leaf beginReply read
          active,    \* active[e]: the turn engine e's bridge projects
          steps,     \* steps[e]: the runs whose open space bridge e buffers
          parent,    \* parent[e]: the parent for the next entry of bridge e
          run,       \* run[m]: the background run of m's reply
          replied    \* history: the turns whose run produced reply text

persistenceVars ==
    <<thread, branch, rows, leafRead, active, steps, parent, run, replied>>

RunState == {"none", "dispatched", "recalled", "inspace", "exited", "ending", "ended"}

PersistenceTypeOK ==
    /\ thread \in [Calls -> Threads \cup {None}]
    /\ branch \in [Threads -> Seq(Entries)]
    /\ rows \in SUBSET Entries
    /\ leafRead \in [Calls -> Seq(Entries)]
    /\ active \in [Engines -> Calls \cup {None}]
    /\ steps \in [Engines -> SUBSET Calls]
    /\ parent \in [Engines -> Seq(Entries)]
    /\ run \in [Calls -> RunState]
    /\ replied \in SUBSET Calls

PersistenceInit ==
    /\ thread = [m \in Calls |-> None]
    /\ branch = [t \in Threads |-> <<>>]
    /\ rows = {}
    /\ leafRead = [m \in Calls |-> <<>>]
    /\ active = [e \in Engines |-> None]
    /\ steps = [e \in Engines |-> {}]
    /\ parent = [e \in Engines |-> <<>>]
    /\ run = [m \in Calls |-> "none"]
    /\ replied = {}

EngineOf(m) == IF SharedEngine THEN thread[m] ELSE m

-----------------------------------------------------------------------------
(* Broken: the new turn hangs at the root of the session. *)
ReadNoLeaf(m) ==
    /\ leafRead' = [leafRead EXCEPT ![m] = <<>>]
    /\ UNCHANGED <<thread, branch, rows, active, steps, parent, run, replied>>

(* beginReply, first half: read the thread and its session with its leaf. *)
ReadLeaf(m) ==
    /\ leafRead' = [leafRead EXCEPT ![m] = branch[thread[m]]]
    /\ UNCHANGED <<thread, branch, rows, active, steps, parent, run, replied>>

(* Broken: the row is inserted and the leaf not moved. *)
InsertUnder(m, path, entry) ==
    /\ parent' = [parent EXCEPT ![EngineOf(m)] = Append(path, entry)]
    /\ rows' = rows \cup {entry}
    /\ UNCHANGED branch

(* appendEntry on the bridge of m's engine: a row under the parent the     *)
(* bridge remembers, and the leaf moved onto it.                           *)
AppendUnder(m, path, entry) ==
    /\ branch' = [branch EXCEPT ![thread[m]] = Append(path, entry)]
    /\ parent' = [parent EXCEPT ![EngineOf(m)] = Append(path, entry)]
    /\ rows' = rows \cup {entry}

(* beginReply, second half: the bridge becomes m's, the user's message is  *)
(* appended under the leaf read before.  A failure is swallowed and leaves *)
(* the bridge inactive: the turn runs, unrecorded.                         *)
BeginReply(m) ==
    /\ run' = [run EXCEPT ![m] = "dispatched"]
    /\ \/ /\ active' = [active EXCEPT ![EngineOf(m)] = m]
          /\ AppendUnder(m, leafRead[m], <<m, "user">>)
       \/ /\ StoreMayFail
          /\ active' = [active EXCEPT ![EngineOf(m)] = None]
          /\ UNCHANGED <<branch, parent, rows>>
    /\ UNCHANGED <<thread, leafRead, steps, replied>>

(* activeDurableProviderContext: the run of an active bridge reads its      *)
(* thread's branch again, and takes it for the caller's history if m's own *)
(* message is the last from the user on it.                                *)
Recalled(m, given) ==
    LET path == branch[thread[m]] IN
    IF /\ active[EngineOf(m)] # None
       /\ \E i \in 1..Len(path) :
             path[i] = <<m, "user">> /\ \A j \in i+1..Len(path) : path[j][2] # "user"
    THEN path ELSE given

Recall(m) ==
    /\ run[m] = "dispatched"
    /\ run' = [run EXCEPT ![m] = "recalled"]
    /\ UNCHANGED <<thread, branch, rows, leafRead, active, steps, parent, replied>>

(* space_enter of the main space: an active bridge opens a buffer for it. *)
EnterSpace(m) ==
    /\ run[m] = "recalled"
    /\ run' = [run EXCEPT ![m] = "inspace"]
    /\ steps' = IF active[EngineOf(m)] = None THEN steps
                ELSE [steps EXCEPT ![EngineOf(m)] = @ \cup {m}]
    /\ UNCHANGED <<thread, branch, rows, leafRead, active, parent, replied>>

(* space_exit: the bridge appends the buffered reply - if there is any     *)
(* text, if the bridge is active and if it still has the run's buffer.     *)
ExitSpace(m, text) ==
    /\ run[m] = "inspace"
    /\ run' = [run EXCEPT ![m] = "exited"]
    /\ replied' = IF text THEN replied \cup {m} ELSE replied
    /\ LET e == EngineOf(m)
           recorded == text /\ active[e] # None /\ m \in steps[e]
       IN \/ recorded /\ AppendUnder(m, parent[e], <<m, "assistant">>)
          \/ /\ ~recorded \/ StoreMayFail
             /\ UNCHANGED <<branch, parent, rows>>
    /\ UNCHANGED <<thread, leafRead, active, steps>>

(* The run resolves - also one that was aborted or failed before it got    *)
(* into a space: `done' or `error' is pushed and endReply called, which    *)
(* returns at once when the bridge is inactive.                            *)
FinishRun(m) ==
    /\ run[m] \in {"dispatched", "recalled", "exited"}
    /\ run' = [run EXCEPT ![m] =
                  IF active[EngineOf(m)] = None THEN "ended" ELSE "ending"]
    /\ UNCHANGED <<thread, branch, rows, leafRead, active, steps, parent, replied>>

(* endReply comes back from its audit insert and resets the bridge. *)
EndReply(m) ==
    /\ run[m] = "ending"
    /\ run' = [run EXCEPT ![m] = "ended"]
    /\ active' = [active EXCEPT ![EngineOf(m)] = None]
    /\ steps' = [steps EXCEPT ![EngineOf(m)] = {}]
    /\ UNCHANGED <<thread, branch, rows, leafRead, parent, replied>>

(* The process dies: the engines are gone, the rows stay. *)
PersistenceCrash ==
    /\ active' = [e \in Engines |-> None]
    /\ steps' = [e \in Engines |-> {}]
    /\ parent' = [e \in Engines |-> <<>>]
    /\ run' = [m \in Calls |-> IF run[m] = "none" THEN "none" ELSE "ended"]
    /\ UNCHANGED <<thread, branch, rows, leafRead, replied>>
=============================================================================
