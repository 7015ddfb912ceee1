------------------------------- MODULE AgentTurn -------------------------------
(***************************************************************************)
(* One reply of the agent: the run of the main space and the runs of the   *)
(* work spaces it dispatches to.  Three layers of the code meet here:      *)
(*                                                                         *)
(*   AgentRuntime (packages/core/src/runtime.ts): run, work, step, and the *)
(*       execution of a tool call under the abort signal;                  *)
(*   runTurnLoop (packages/agent/src/workspaces/turnLoop.ts): model turn,  *)
(*       tool calls, results, until the space answers or exits;            *)
(*   ChatEngine (packages/agent/src/engine/index.ts): the switchWorkspace  *)
(*       tool of main, which runs a task in a work space and follows the   *)
(*       handoffs that space asks for.                                     *)
(*                                                                         *)
(* A frame is a space with its current run.  Every await of the code is a  *)
(* place where another frame, another call of a parallel batch or the      *)
(* abort may come first.  Of a tool call only its kind matters:            *)
(*                                                                         *)
(*   read    a parallel-safe tool;      plain   one that must run alone;   *)
(*   write   one that needs approval;   switch  switchWorkspace;           *)
(*   finish  finishTask (work spaces);                                     *)
(*   local   a call the loop answers itself: malformed or missing          *)
(*           arguments, a tool out of scope, a skill or cache read.        *)
(***************************************************************************)
EXTENDS Integers, FiniteSets, Sequences, SequencesExt, ProviderReplay

CONSTANTS Main,               \* the main space
          Spaces,             \* the work spaces
          None,               \* no space
          History,            \* the conversation main starts from
          MainTools,          \* the kinds of calls the model makes in main
          WorkTools,          \* and in a work space
          MaxCalls,           \* bound: tool calls of one model turn
          MaxTurns,           \* bound: model turns with tool calls in the reply
          MaxToolIterations,  \* 200 in turnLoop.ts
          MaxExitNudges,      \* MAX_MISSING_EXIT_NUDGES, 2 in turnLoop.ts
          MaxContinueNudges,  \* 2 in turnLoop.ts
          MaxHandoffDepth     \* WORKSPACE_HANDOFF_MAX_DEPTH, 4 in engine/index.ts

ASSUME AgentTurnAssumption ==
    /\ Main \notin Spaces /\ None \notin {Main} \cup Spaces
    /\ MaxCalls \in Nat \ {0} /\ MaxTurns \in Nat /\ MaxToolIterations \in Nat \ {0}
    /\ MaxExitNudges \in Nat /\ MaxContinueNudges \in Nat /\ MaxHandoffDepth \in Nat
    /\ MainTools \subseteq {"read", "plain", "write", "switch", "local"}
    /\ WorkTools \subseteq {"read", "plain", "write", "switch", "finish", "local"}

ASSUME HistoryAssumption == History \in Seq(Messages)

Frames == {Main} \cup Spaces
CallIds == 1..MaxCalls

VARIABLES aborted,   \* the abort signal, one for the reply and all its runs
          at,        \* at[f]: where the code of frame f is
          run,       \* run[f]: the status of its run,
          work,      \* work[f]: of the run's work,
          step,      \* step[f]: and of the work's step
          loop,      \* loop[f]: the locals of runTurnLoop
          call,      \* call[f][i]: how far call i of the current turn is
          task,      \* task[s]: the dispatch that runs work space s
          lastDone,  \* lastDispatchHandoff: the space whose task completed last
          turns      \* how many turns had tool calls, for the bound only

vars == <<aborted, at, run, work, step, loop, call, task, lastDone, turns>>
runtimeVars == <<run, work, step>>

Ended == {"ended", "denied", "carried", "closing"}
CallState == {"none", "asking", "started", "running"} \cup Ended
Place == {"idle", "created", "queued", "entering", "model", "calls", "wrapUp", "threw", "left",
          "stepEnded", "workEnded", "ended"}
TaskStatus == {"none", "completed", "failed", "blocked", "needs_approval"}

FreshLoop(messages) ==
    [messages |-> messages,  \* what the next request is made from
     iteration |-> 0, toolSteps |-> 0, continueNudges |-> 0, exitNudges |-> 0,
     turn |-> <<>>,          \* the tool calls of the last turn that had any,
     called |-> 0,           \* and the iteration it was
     first |-> 1, next |-> 1,\* calls first..next-1 are executing
     spoke |-> FALSE,        \* parts is not empty
     files |-> FALSE,        \* some file was written
     closed |-> FALSE,       \* a carry-back closed the reply
     missingExit |-> FALSE, hitToolLimit |-> TRUE,
     result |-> "none",      \* the status of workspaceResult,
     handoff |-> None]       \* and the space it hands over to

NoCalls == [i \in CallIds |-> "none"]
NoTask == [call |-> 0, path |-> <<>>, answered |-> FALSE]

TypeOK ==
    /\ aborted \in BOOLEAN
    /\ at \in [Frames -> Place]
    /\ run \in [Frames -> {"none", "working", "completed", "failed", "aborted"}]
    /\ work \in [Frames -> {"none", "queued", "exited", "failed", "aborted"}]
    /\ step \in [Frames -> {"none", "active", "exited", "failed", "aborted"}]
    /\ call \in [Frames -> [CallIds -> CallState]]
    /\ \A f \in Frames :
          /\ loop[f].iteration \in 0..MaxToolIterations
          /\ loop[f].toolSteps \in 0..MaxToolIterations
          /\ loop[f].exitNudges \in 0..MaxExitNudges
          /\ loop[f].continueNudges \in 0..MaxContinueNudges
          /\ loop[f].first <= loop[f].next
          /\ loop[f].next <= Len(loop[f].turn) + 1
          /\ loop[f].result \in TaskStatus
          /\ loop[f].handoff \in Spaces \cup {None}
    /\ \A s \in Spaces :
          /\ task[s].call \in 0..MaxCalls
          /\ ToSet(task[s].path) \subseteq Spaces
          /\ task[s].answered \in BOOLEAN
    /\ lastDone \in Spaces \cup {None}
    /\ turns \in 0..MaxTurns

Init ==
    /\ aborted = FALSE
    /\ at = [f \in Frames |-> IF f = Main THEN "created" ELSE "idle"]
    /\ run = [f \in Frames |-> IF f = Main THEN "working" ELSE "none"]
    /\ work = [f \in Frames |-> "none"]
    /\ step = [f \in Frames |-> "none"]
    /\ loop = [f \in Frames |-> FreshLoop(IF f = Main THEN Append(History, User) ELSE <<User>>)]
    /\ call = [f \in Frames |-> NoCalls]
    /\ task = [s \in Spaces |-> NoTask]
    /\ lastDone = None
    /\ turns = 0

(* The user stops the reply.                                               *)
Abort ==
    /\ at[Main] # "ended" /\ ~aborted
    /\ aborted' = TRUE
    /\ UNCHANGED <<at, runtimeVars, loop, call, task, lastDone, turns>>

-----------------------------------------------------------------------------
(* The runtime: run(), work() and runStep() around the space's handler.     *)

(* run(): nothing is started for a signal that is aborted already.          *)
StartRun(f) ==
    /\ at[f] = "created"
    /\ IF aborted
       THEN /\ run' = [run EXCEPT ![f] = "aborted"]
            /\ at' = [at EXCEPT ![f] = "ended"]
            /\ UNCHANGED work
       ELSE /\ work' = [work EXCEPT ![f] = "queued"]
            /\ at' = [at EXCEPT ![f] = "queued"]
            /\ UNCHANGED run
    /\ UNCHANGED <<aborted, step, loop, call, task, lastDone, turns>>

(* work(): the check before the space's step.                               *)
StartStep(f) ==
    /\ at[f] = "queued"
    /\ IF aborted
       THEN /\ work' = [work EXCEPT ![f] = "aborted"]
            /\ at' = [at EXCEPT ![f] = "workEnded"]
            /\ UNCHANGED step
       ELSE /\ step' = [step EXCEPT ![f] = "active"]
            /\ at' = [at EXCEPT ![f] = "entering"]
            /\ UNCHANGED work
    /\ UNCHANGED <<aborted, run, loop, call, task, lastDone, turns>>

(* runStep(): the check after space_enter, before the handler.              *)
EnterSpace(f) ==
    /\ at[f] = "entering"
    /\ IF aborted
       THEN /\ step' = [step EXCEPT ![f] = "aborted"]
            /\ at' = [at EXCEPT ![f] = "stepEnded"]
       ELSE /\ at' = [at EXCEPT ![f] = "model"]
            /\ UNCHANGED step
    /\ UNCHANGED <<aborted, run, work, loop, call, task, lastDone, turns>>

(* Broken: whatever the space said last is its answer.                      *)
FallbackResultAnyText(l) ==
    IF l.hitToolLimit THEN {"blocked"} ELSE IF l.spoke THEN {"completed"} ELSE {"failed"}

(* fallbackWorkspaceResult(): the status of a space that did not say.  A    *)
(* text that narrates an intended tool call does not count as its answer.   *)
FallbackResult(l) ==
    IF l.hitToolLimit THEN {"blocked"}
    ELSE IF ~l.missingExit THEN {"completed"}
    ELSE IF l.spoke /\ l.files THEN {"completed", "failed"}
    ELSE {"failed"}

(* The handler returned or threw.                                           *)
EndStep(f) ==
    /\ at[f] \in {"left", "threw"}
    /\ step' = [step EXCEPT ![f] = CASE at[f] = "threw" -> "failed"
                                     [] at[f] = "left" /\ aborted -> "aborted"
                                     [] OTHER -> "exited"]
    /\ IF at[f] = "left" /\ f # Main /\ loop[f].result = "none"
       THEN \E status \in FallbackResult(loop[f]) :
               loop' = [loop EXCEPT ![f].result = status]
       ELSE UNCHANGED loop
    /\ at' = [at EXCEPT ![f] = "stepEnded"]
    /\ UNCHANGED <<aborted, run, work, call, task, lastDone, turns>>

EndWork(f) ==
    /\ at[f] = "stepEnded"
    /\ work' = [work EXCEPT ![f] = step[f]]
    /\ at' = [at EXCEPT ![f] = "workEnded"]
    /\ UNCHANGED <<aborted, run, step, loop, call, task, lastDone, turns>>

(* An abort that is noticed only now ends the run of an exited work too.    *)
EndRun(f) ==
    /\ at[f] = "workEnded"
    /\ run' = [run EXCEPT ![f] = CASE work[f] # "exited" -> work[f]
                                   [] work[f] = "exited" /\ aborted -> "aborted"
                                   [] OTHER -> "completed"]
    /\ at' = [at EXCEPT ![f] = "ended"]
    /\ UNCHANGED <<aborted, work, step, loop, call, task, lastDone, turns>>

-----------------------------------------------------------------------------
(* The turn loop: the model's turns.  With the signal aborted the provider  *)
(* only fails.                                                              *)

(* What is put after a turn: the text of the model, if any, and a note.     *)
(* Texts in a row count as one message; only calls and results matter.      *)
Noted(messages) == Append(messages, User)

(* What follows the loop: a wrap-up turn if the space stopped by itself and *)
(* said nothing at all.                                                     *)
LeaveLoop(f, l) ==
    IF l.hitToolLimit \/ l.spoke
    THEN /\ loop' = [loop EXCEPT ![f] = l]
         /\ at' = [at EXCEPT ![f] = "left"]
    ELSE /\ loop' = [loop EXCEPT ![f] = [l EXCEPT !.messages = Noted(@)]]
         /\ at' = [at EXCEPT ![f] = "wrapUp"]

NextIteration(f, l) ==
    IF l.iteration + 1 < MaxToolIterations
    THEN /\ loop' = [loop EXCEPT ![f] = [l EXCEPT !.iteration = @ + 1]]
         /\ at' = [at EXCEPT ![f] = "model"]
    ELSE LeaveLoop(f, l)

ModelRan(f) == at[f] = "model" /\ ~aborted

(* A turn with tool calls.  Providers without call ids number them anew in  *)
(* every turn.                                                              *)
ModelCalls(f) ==
    /\ ModelRan(f)
    /\ turns < MaxTurns /\ turns' = turns + 1
    /\ \E n \in CallIds : \E calls \in [1..n -> IF f = Main THEN MainTools ELSE WorkTools] :
       \E text \in BOOLEAN :
          loop' = [loop EXCEPT
                     ![f].turn = calls,
                     ![f].called = loop[f].iteration,
                     ![f].first = 1, ![f].next = 1,
                     ![f].spoke = @ \/ text,
                     ![f].messages = Append(@, Assistant([i \in 1..n |-> i]))]
    /\ call' = [call EXCEPT ![f] = NoCalls]
    /\ at' = [at EXCEPT ![f] = "calls"]
    /\ UNCHANGED <<aborted, runtimeVars, task, lastDone>>

(* A truncated turn, or one that only announces a call: asked to go on.     *)
ModelIsNudged(f) ==
    /\ ModelRan(f)
    /\ loop[f].continueNudges < MaxContinueNudges
    /\ NextIteration(f, [loop[f] EXCEPT !.continueNudges = @ + 1, !.messages = Noted(@)])
    /\ UNCHANGED <<aborted, runtimeVars, call, task, lastDone, turns>>

(* A work space stops without a control call: reminded of it.               *)
ModelForgetsExit(f) ==
    /\ ModelRan(f)
    /\ f # Main
    /\ loop[f].exitNudges < MaxExitNudges
    /\ \E text \in BOOLEAN :
          NextIteration(f, [loop[f] EXCEPT !.exitNudges = @ + 1,
                                           !.spoke = @ \/ text,
                                           !.messages = Noted(@)])
    /\ UNCHANGED <<aborted, runtimeVars, call, task, lastDone, turns>>

(* A final answer; of a work space, one too many without a control call.    *)
ModelStops(f) ==
    /\ ModelRan(f)
    /\ f = Main \/ loop[f].exitNudges = MaxExitNudges
    /\ \E text \in BOOLEAN :
          LeaveLoop(f, [loop[f] EXCEPT !.hitToolLimit = FALSE,
                                       !.missingExit = f # Main,
                                       !.spoke = @ \/ text])
    /\ UNCHANGED <<aborted, runtimeVars, call, task, lastDone, turns>>

(* The wrap-up turn: its text ends the loop, calls in it are ignored.       *)
WrapUp(f) ==
    /\ at[f] = "wrapUp" /\ ~aborted
    /\ \E text \in BOOLEAN : loop' = [loop EXCEPT ![f].spoke = text]
    /\ at' = [at EXCEPT ![f] = "left"]
    /\ UNCHANGED <<aborted, runtimeVars, call, task, lastDone, turns>>

(* Broken: a failed request is made again, as often as it fails.            *)
ModelRetries(f) ==
    /\ at[f] \in {"model", "wrapUp"}
    /\ at' = [at EXCEPT ![f] = IF aborted THEN "threw" ELSE "entering"]
    /\ UNCHANGED <<aborted, runtimeVars, loop, call, task, lastDone, turns>>

(* The provider fails, or the signal ends the stream.                       *)
ModelFails(f) ==
    /\ at[f] \in {"model", "wrapUp"}
    /\ at' = [at EXCEPT ![f] = "threw"]
    /\ UNCHANGED <<aborted, runtimeVars, loop, call, task, lastDone, turns>>

-----------------------------------------------------------------------------
(* The turn loop: the tool calls of a turn.                                 *)
Kind(f, i) == loop[f].turn[i]

(* Broken: a dispatch may run beside another one.                           *)
CanRunInParallelDispatch(kind) == kind \in {"read", "switch"}

(* canRunInParallel()                                                       *)
CanRunInParallel(kind) == kind = "read"

(* A control call ends the run of a work space; in main switchWorkspace is  *)
(* a tool like others.                                                      *)
IsControl(f, kind) == f # Main /\ kind \in {"switch", "finish"}

MayTakeCalls(f) ==
    /\ at[f] = "calls"
    /\ loop[f].first = loop[f].next
    /\ loop[f].next <= Len(loop[f].turn)
    /\ loop[f].toolSteps < MaxToolIterations
    /\ ~loop[f].closed

(* The calls that start together: the parallel-safe ones in a row, as far   *)
(* as the limit allows, or else one.                                        *)
Batch(f) ==
    LET l == loop[f]
        room == {e \in l.next..Len(l.turn) : e - l.next < MaxToolIterations - l.toolSteps}
        safe == {e \in room : \A i \in l.next..e : CanRunInParallel(Kind(f, i))}
    IN  IF l.result = "none" /\ safe # {} THEN safe ELSE {l.next}

(* Broken: a call after the exit of its space is executed.                  *)
FirstStateAfterExit(f, kind) ==
    IF kind = "local" \/ IsControl(f, kind) THEN "ended"
    ELSE IF kind = "write" THEN "asking"
    ELSE IF aborted THEN "ended" ELSE "started"

(* executeToolCall() and callTool() up to their first await.  After the     *)
(* exit of the space a call is only answered.                               *)
FirstState(f, kind) ==
    IF loop[f].result # "none" \/ kind = "local" THEN "ended"
    ELSE IF kind = "write" THEN "asking"
    ELSE IF aborted THEN "ended" ELSE "started"

ExecuteCalls(f) ==
    /\ MayTakeCalls(f)
    /\ IsControl(f, Kind(f, loop[f].next)) => loop[f].result # "none"
    /\ call' = [call EXCEPT ![f] = [i \in CallIds |->
                    IF i \in Batch(f) THEN FirstState(f, Kind(f, i)) ELSE @[i]]]
    /\ loop' = [loop EXCEPT ![f].next = @ + Cardinality(Batch(f)),
                            ![f].toolSteps = @ + Cardinality(Batch(f))]
    /\ UNCHANGED <<aborted, at, runtimeVars, task, lastDone, turns>>

(* finishTask or switchWorkspace in a work space: its result.  A control    *)
(* call that is refused - a status that is neither completed nor failed,    *)
(* the space itself as the target - is a local one.                         *)
ExitSpace(f) ==
    /\ MayTakeCalls(f)
    /\ IsControl(f, Kind(f, loop[f].next)) /\ loop[f].result = "none"
    /\ \E status \in {"completed", "failed"}, target \in (Spaces \ {f}) \cup {None} :
          /\ Kind(f, loop[f].next) = "switch" => status = "completed"
          /\ Kind(f, loop[f].next) = "finish" => target = None
          /\ loop' = [loop EXCEPT ![f].result = status, ![f].handoff = target,
                                  ![f].spoke = TRUE,
                                  ![f].next = @ + 1, ![f].toolSteps = @ + 1]
    /\ call' = [call EXCEPT ![f][loop[f].next] = "ended"]
    /\ UNCHANGED <<aborted, at, runtimeVars, task, lastDone, turns>>

(* confirm() answers - the user's yes or no, or no after a timeout or an    *)
(* abort; a denial is the exit of a work space.                             *)
Approve(f, i) ==
    /\ call[f][i] = "asking"
    /\ call' = [call EXCEPT ![f][i] = IF aborted THEN "ended" ELSE "started"]
    /\ UNCHANGED <<aborted, at, runtimeVars, loop, task, lastDone, turns>>

Deny(f, i) ==
    /\ call[f][i] = "asking"
    /\ call' = [call EXCEPT ![f][i] = "denied"]
    /\ loop' = IF f = Main
               THEN loop
               ELSE [loop EXCEPT ![f].result = "needs_approval", ![f].spoke = TRUE]
    /\ UNCHANGED <<aborted, at, runtimeVars, task, lastDone, turns>>

(* Broken: callTool() does not look at the signal again.                    *)
StartHandlerUnchecked(f, i) ==
    /\ call[f][i] = "started"
    /\ call' = [call EXCEPT ![f][i] = "running"]
    /\ UNCHANGED <<aborted, at, runtimeVars, loop, task, lastDone, turns>>

(* callTool(): the second look at the signal, and the handler.  The hooks   *)
(* before a call are awaited in between; none is registered (only afterRun  *)
(* is), so nothing but microtasks fits in, and the two are one step.        *)
(* registerHook() is public: a hook that waits would part them.             *)
StartHandler(f, i) ==
    /\ call[f][i] = "started" /\ ~aborted
    /\ call' = [call EXCEPT ![f][i] = "running"]
    /\ UNCHANGED <<aborted, at, runtimeVars, loop, task, lastDone, turns>>

(* The signal is aborted, or the arguments do not have the tool's shape.    *)
RejectCall(f, i) ==
    /\ call[f][i] = "started"
    /\ call' = [call EXCEPT ![f][i] = "ended"]
    /\ UNCHANGED <<aborted, at, runtimeVars, loop, task, lastDone, turns>>

(* A task of main's call i is under way.                                    *)
Dispatched(i) == \E s \in Spaces : at[s] # "idle" /\ task[s].call = i

(* The handler returns or throws; after an abort its result is dropped.     *)
(* For a dispatch: it is refused, or fails before the task is run.          *)
HandlerReturns(f, i) ==
    /\ call[f][i] = "running"
    /\ f = Main => ~Dispatched(i)
    /\ call' = [call EXCEPT ![f][i] = "ended"]
    /\ \E written \in (IF Kind(f, i) = "write" /\ ~aborted THEN BOOLEAN ELSE {FALSE}) :
          loop' = [loop EXCEPT ![f].files = @ \/ written]
    /\ UNCHANGED <<aborted, at, runtimeVars, task, lastDone, turns>>

(* Broken: the first call of a batch that ends ends the batch.              *)
AppendResultsEarly(f) ==
    LET l == loop[f]
        batch == [k \in 1..(l.next - l.first) |-> l.first + k - 1]
    IN  /\ at[f] = "calls" /\ batch # <<>>
        /\ \E i \in ToSet(batch) : call[f][i] \in Ended
        /\ loop' = [loop EXCEPT
                       ![f].messages = @ \o [k \in DOMAIN batch |->
                                               ToolResult(batch[k], <<l.called, batch[k]>>)],
                       ![f].first = l.next]
        /\ UNCHANGED <<aborted, at, runtimeVars, call, task, lastDone, turns>>

(* Broken: what was carried back is put before the results.                 *)
AppendResultsLate(f) ==
    LET l == loop[f]
        batch == [k \in 1..(l.next - l.first) |-> l.first + k - 1]
        results == [k \in DOMAIN batch |-> ToolResult(batch[k], <<l.called, batch[k]>>)]
    IN  /\ at[f] = "calls" /\ batch # <<>>
        /\ \A i \in ToSet(batch) : call[f][i] \in Ended
        /\ loop' = [loop EXCEPT ![f].messages = Noted(@) \o results, ![f].first = l.next]
        /\ UNCHANGED <<aborted, at, runtimeVars, call, task, lastDone, turns>>

(* appendToolExecutions(): the results of the batch in the order of its     *)
(* calls, then what the dispatched spaces said, as main's own messages, and *)
(* unless that closes the reply a note for the model.                       *)
AppendResults(f) ==
    LET l == loop[f]
        batch == [k \in 1..(l.next - l.first) |-> l.first + k - 1]
        carried == \E i \in ToSet(batch) : call[f][i] \in {"carried", "closing"}
        results == [k \in DOMAIN batch |-> ToolResult(batch[k], <<l.called, batch[k]>>)]
        closes == \E i \in ToSet(batch) : call[f][i] = "closing"
    IN  /\ at[f] = "calls" /\ batch # <<>>
        /\ \A i \in ToSet(batch) : call[f][i] \in Ended
        /\ loop' = [loop EXCEPT
                       ![f].messages = IF carried THEN Noted(@ \o results) ELSE @ \o results,
                       ![f].first = l.next,
                       ![f].spoke = @ \/ carried,
                       ![f].closed = closes]
        /\ UNCHANGED <<aborted, at, runtimeVars, call, task, lastDone, turns>>

(* The turn is over: the space has exited, the reply is closed, the limit   *)
(* is reached, or the model is asked again.                                 *)
EndTurn(f) ==
    LET l == loop[f]
    IN  /\ at[f] = "calls" /\ l.first = l.next
        /\ ~MayTakeCalls(f)
        /\ CASE l.result # "none" \/ l.closed ->
                   LeaveLoop(f, [l EXCEPT !.hitToolLimit = FALSE])
             [] ~(l.result # "none" \/ l.closed) /\ l.toolSteps >= MaxToolIterations ->
                   LeaveLoop(f, l)
             [] OTHER -> NextIteration(f, l)
        /\ UNCHANGED <<aborted, runtimeVars, call, task, lastDone, turns>>

-----------------------------------------------------------------------------
(* The dispatch: main's switchWorkspace runs a task in a work space.        *)

(* The work, the step and the locals of a run that is over are gone.        *)
Forget(s) ==
    /\ work' = [f \in Frames |-> IF f = s THEN "none" ELSE work[f]]
    /\ step' = [f \in Frames |-> IF f = s THEN "none" ELSE step[f]]
    /\ loop' = [f \in Frames |-> IF f = s THEN FreshLoop(<<User>>) ELSE loop[f]]

(* runTask(): a run of its own for space s, under the same signal, for call *)
(* i of main; the run of space from, if any, is over.  What a finished run  *)
(* leaves behind is not looked at again.                                    *)
Enter(s, newTask, from) ==
    /\ at' = [f \in Frames |-> IF f = s THEN "created" ELSE IF f = from THEN "idle" ELSE at[f]]
    /\ run' = [f \in Frames |-> IF f = s THEN "working" ELSE IF f = from THEN "none" ELSE run[f]]
    /\ task' = [t \in Spaces |-> IF t = s THEN newTask ELSE IF t = from THEN NoTask ELSE task[t]]
    /\ Forget(from)

IsDispatch(i) ==
    call[Main][i] = "running" /\ Kind(Main, i) = "switch" /\ ~Dispatched(i)

Dispatch(i, s) ==
    /\ IsDispatch(i)
    /\ at[s] = "idle"
    /\ Enter(s, [call |-> i, path |-> <<s>>, answered |-> FALSE], None)
    /\ UNCHANGED <<aborted, call, lastDone, turns>>

(* duplicateDispatchHandoff(): the same task again for the space that just  *)
(* completed it; the earlier answer is carried back once more.              *)
DispatchAgain(i) ==
    /\ IsDispatch(i) /\ lastDone # None
    /\ call' = [call EXCEPT ![Main][i] = IF aborted THEN "ended" ELSE "carried"]
    /\ UNCHANGED <<aborted, at, runtimeVars, loop, task, lastDone, turns>>

(* buildTaskResult(): the workspaceStatus.  The result of the space counts  *)
(* once its work has exited, even if an abort ended the run after that.     *)
WorkspaceStatus(s) == IF work[s] = "exited" THEN loop[s].result ELSE "failed"

(* The space to go on with.  It is not entered twice in a chain, and the    *)
(* chain has an end.                                                        *)
FollowsHandoff(s) ==
    /\ WorkspaceStatus(s) = "completed"
    /\ loop[s].handoff # None
    /\ loop[s].handoff \notin ToSet(task[s].path)
    /\ Len(task[s].path) <= MaxHandoffDepth

(* The first task of the chain has an answer: if the task was the whole     *)
(* goal, that closes the reply (shouldAutoCloseDispatch()).                 *)
Answered(s) ==
    IF Len(task[s].path) = 1
    THEN run[s] = "completed" /\ ~loop[s].hitToolLimit
    ELSE task[s].answered

(* followWorkspaceHandoffs()                                                *)
FollowHandoff(s) ==
    LET target == loop[s].handoff
    IN  /\ at[s] = "ended" /\ FollowsHandoff(s)
        /\ Enter(target, [task[s] EXCEPT !.path = Append(@, target),
                                         !.answered = Answered(s)], s)
        /\ call' = [call EXCEPT ![s] = NoCalls]
        /\ UNCHANGED <<aborted, lastDone, turns>>

(* The chain is over and the dispatch returns with what its spaces said.    *)
EndDispatch(s) ==
    /\ at[s] = "ended" /\ ~FollowsHandoff(s)
    /\ \E outcome \in (IF aborted THEN {"ended"}
                       ELSE IF Answered(s) THEN {"carried", "closing"} ELSE {"carried"}) :
          call' = [call EXCEPT ![s] = NoCalls, ![Main][task[s].call] = outcome]
    /\ lastDone' = IF WorkspaceStatus(s) = "completed" THEN s ELSE None
    /\ at' = [at EXCEPT ![s] = "idle"]
    /\ run' = [run EXCEPT ![s] = "none"]
    /\ task' = [task EXCEPT ![s] = NoTask]
    /\ Forget(s)
    /\ UNCHANGED <<aborted, turns>>

(* The reply is over.                                                       *)
ReplyEnded == at[Main] = "ended" /\ UNCHANGED vars

-----------------------------------------------------------------------------
Runtime(f) == StartRun(f) \/ StartStep(f) \/ EnterSpace(f) \/ EndStep(f) \/ EndWork(f) \/ EndRun(f)

Model(f) ==
    \/ ModelCalls(f)
    \/ ModelIsNudged(f)
    \/ ModelForgetsExit(f)
    \/ ModelStops(f)
    \/ WrapUp(f)
    \/ ModelFails(f)

Calls(f) ==
    \/ ExecuteCalls(f)
    \/ ExitSpace(f)
    \/ AppendResults(f)
    \/ EndTurn(f)

CallSteps(f, i) ==
    \/ Approve(f, i)
    \/ Deny(f, i)
    \/ StartHandler(f, i)
    \/ RejectCall(f, i)
    \/ HandlerReturns(f, i)

Dispatches ==
    \/ \E i \in CallIds : DispatchAgain(i) \/ \E s \in Spaces : Dispatch(i, s)
    \/ \E s \in Spaces : FollowHandoff(s) \/ EndDispatch(s)

Next ==
    \/ Abort
    \/ \E f \in Frames : Runtime(f) \/ Model(f) \/ Calls(f)
    \/ \E f \in Frames, i \in CallIds : CallSteps(f, i)
    \/ Dispatches
    \/ ReplyEnded

Spec == Init /\ [][Next]_vars

(* The program goes on by itself and an approval times out.  That a         *)
(* provider answers or fails, and that a handler returns, is assumed: the   *)
(* code puts no timeout on the providers, only on some handlers.            *)
Fairness ==
    /\ \A f \in Frames :
          /\ WF_vars(Runtime(f)) /\ WF_vars(Model(f)) /\ WF_vars(Calls(f))
          /\ \A i \in CallIds : WF_vars(CallSteps(f, i))
    /\ WF_vars(Dispatches)

FairSpec == Spec /\ Fairness

-----------------------------------------------------------------------------
(* Properties                                                               *)

(* Whatever came before - an interrupted reply in the history, nudges, a    *)
(* batch cut short by the step limit, results put between the messages of   *)
(* a carry-back - every request a provider gets is legal: each tool call    *)
(* is followed by its results at once, and there is no result without a     *)
(* call.                                                                    *)
RequestsAreLegal ==
    \A f \in Frames :
       at[f] \in {"model", "wrapUp"} => Legal(PrepareMessages(loop[f].messages))

(* The result of every executed call is in the next request to the model,   *)
(* unless a dispatch earlier in the same turn carried its answer back: the  *)
(* messages put after that dispatch's result cut off the results that       *)
(* follow, and the model is told that those calls produced none.            *)
ResultsReachTheModel ==
    \A f \in Frames : \A i \in DOMAIN loop[f].turn :
       at[f] \in {"model", "wrapUp"} /\ i < loop[f].next =>
          \/ ToolResult(i, <<loop[f].called, i>>)
                \in ToSet(PrepareMessages(loop[f].messages))
          \/ \E j \in 1..(i - 1) : call[f][j] = "carried"

(* Workspaces run serially: at most one work space is entered at a time,    *)
(* under a dispatch of main that is still running, and a chain of handoffs  *)
(* enters no space twice.                                                   *)
OneSpaceAtATime ==
    /\ \A s, t \in Spaces : at[s] # "idle" /\ at[t] # "idle" => s = t
    /\ \A s \in Spaces : at[s] # "idle" =>
          /\ call[Main][task[s].call] = "running" /\ at[Main] = "calls"
          /\ IsInjective(task[s].path)

(* When a run is over, so are its work, its step and its tool calls; and no *)
(* layer ever has a status that its type does not know.                     *)
RunsEndInsideOut ==
    /\ TypeOK
    /\ \A f \in Frames : at[f] = "ended" =>
          /\ run[f] # "working"
          /\ work[f] # "queued"
          /\ step[f] # "active"
          /\ \A i \in CallIds : call[f][i] \in {"none"} \cup Ended

(* A task counts as completed only if its space said so with a control call *)
(* and no call of that turn was refused before, or if it wrote files and    *)
(* gave an answer.                                                          *)
CompletedOnPurpose ==
    \A s \in Spaces : at[s] = "ended" /\ WorkspaceStatus(s) = "completed" =>
       \/ /\ \E i \in 1..(loop[s].next - 1) : IsControl(s, Kind(s, i))
          /\ \A i \in CallIds : call[s][i] # "denied"
       \/ loop[s].files /\ loop[s].spoke

(* A call is executed only before the exit of its space: after a control    *)
(* call or a denial the calls that follow in the turn are only answered.    *)
NoHandlerAfterExit ==
    [][\A s \in Spaces, i \in CallIds :
          loop[s].result # "none" /\ at[s] = "calls" /\ call'[s][i] # call[s][i] =>
             call'[s][i] \notin {"asking", "started", "running"}]_vars

(* After the abort no tool's handler starts, no space is entered, no answer *)
(* of a model is acted upon and no run completes work that had not exited.  *)
AbortStops ==
    [][aborted =>
          \A f \in Frames :
             /\ \A i \in CallIds : call'[f][i] = "running" => call[f][i] = "running"
             /\ at'[f] \in {"entering", "model"} => at[f] = at'[f] \/ at[f] = "calls"
             /\ loop'[f].turn # loop[f].turn => loop'[f].turn = <<>>
             /\ step'[f] = "exited" => step[f] = "exited"]_vars

(* A reply ends, stopped or not, and so does every task it started.         *)
ReplyEnds == <>(at[Main] = "ended")
=============================================================================
