---------------------------- MODULE AgentTurnProofs ----------------------------
(***************************************************************************)
(* Proofs about AgentTurn, for any set of work spaces and any limits.      *)
(*                                                                         *)
(* The inductive invariant TurnInv has four parts: the types (TurnType);   *)
(* for each frame, that its status is that of the place it is at and that  *)
(* every call that waits or executes belongs to the current batch          *)
(* (FrameInv); for each work space, what its result is based on            *)
(* (ResultInv); and the dispatch under which a space is entered            *)
(* (DispatchInv).  The part that carries the rest is CallsOK: a call that  *)
(* is not parallel-safe is the whole batch.  From it follow that main has  *)
(* one dispatch at a time, that a denied call was the only one that could  *)
(* still change anything, and that no call outlives its turn.              *)
(*                                                                         *)
(* Most steps are those of one frame, and most of them change some locals  *)
(* of its turn loop.  StepOfKeeps says what the frame owes the others;     *)
(* LoopBecomes and LoopMoves say which locals may differ, so that a step   *)
(* needs only what it is about.                                            *)
(*                                                                         *)
(* The second invariant, MessagesInv, is about what main and the spaces    *)
(* send: what a call of the turn was answered is in the replay of the      *)
(* messages, unless a dispatch before it carried its answer back, and the  *)
(* calls the replay leaves open are those still to be answered.  How one   *)
(* more message changes a replay is proved in ProviderReplayProofs.        *)
(***************************************************************************)
EXTENDS AgentTurn, ProviderReplayProofs, FiniteSetTheorems, TLAPS

(* The kinds of calls, and the locals of a turn loop. *)
Kinds == {"read", "plain", "write", "switch", "finish", "local"}
Locals == {"messages", "iteration", "toolSteps", "continueNudges", "exitNudges", "turn", "called",
           "first", "next", "spoke", "files", "closed", "missingExit", "hitToolLimit", "result",
           "handoff"}

LocalsType(l) ==
    /\ DOMAIN l = Locals
    /\ l.iteration \in 0..(MaxToolIterations - 1) /\ l.toolSteps \in 0..MaxToolIterations
    /\ l.exitNudges \in 0..MaxExitNudges /\ l.continueNudges \in 0..MaxContinueNudges
    /\ l.turn \in Seq(Kinds) /\ Len(l.turn) <= MaxCalls
    /\ l.first \in Nat \ {0} /\ l.next \in Nat
    /\ l.first <= l.next /\ l.next <= Len(l.turn) + 1
    /\ {l.spoke, l.files, l.closed, l.missingExit, l.hitToolLimit} \subseteq BOOLEAN
    /\ l.result \in TaskStatus /\ l.handoff \in Spaces \cup {None}

Task == [call : 0..MaxCalls, path : Seq(Spaces), answered : BOOLEAN]

(* What each variable may hold. *)
RuntimeType ==
    /\ at \in [Frames -> Place]
    /\ run \in [Frames -> {"none", "working", "completed", "failed", "aborted"}]
    /\ work \in [Frames -> {"none", "queued", "exited", "failed", "aborted"}]
    /\ step \in [Frames -> {"none", "active", "exited", "failed", "aborted"}]

LoopType == DOMAIN loop = Frames /\ \A f \in Frames : LocalsType(loop[f])

TurnType ==
    /\ RuntimeType /\ LoopType
    /\ aborted \in BOOLEAN
    /\ call \in [Frames -> [CallIds -> CallState]]
    /\ task \in [Spaces -> Task]
    /\ lastDone \in Spaces \cup {None}
    /\ turns \in 0..MaxTurns

(* Whatever frame f does, it has left what it entered before it goes on. *)
StatusOK(f) ==
    /\ at[f] \in {"idle", "created"} => work[f] = "none"
    /\ at[f] \in {"idle", "created", "queued"} => step[f] = "none"
    /\ at[f] = "stepEnded" => step[f] \in {"exited", "failed", "aborted"}
    /\ at[f] = "workEnded" => step[f] # "active" /\ work[f] \in {"exited", "failed", "aborted"}
    /\ at[f] = "ended" => step[f] # "active" /\ work[f] # "queued" /\ run[f] # "working"

(* Call i of frame f waits for its approval or executes. *)
Active(f, i) == call[f][i] \in {"asking", "started", "running"}

(* A call that is active belongs to the current batch, and is all of it     *)
(* unless it is parallel-safe; a space that has exited has none.            *)
CallsOK(f) ==
    \A i \in CallIds : Active(f, i) =>
        /\ at[f] = "calls" /\ loop[f].first <= i /\ i < loop[f].next
        /\ Kind(f, i) # "read" => loop[f].first = i /\ loop[f].next = i + 1
        /\ call[f][i] = "asking" => Kind(f, i) = "write"
        /\ f \in Spaces => loop[f].result = "none"

(* What the result of work space s is based on. *)
OnPurpose(s) ==
    \/ /\ \E i \in 1..(loop[s].next - 1) : IsControl(s, Kind(s, i))
       /\ \A i \in CallIds : call[s][i] # "denied"
    \/ loop[s].files /\ loop[s].spoke

ResultOK(s) ==
    /\ at[s] \notin {"calls", "left", "stepEnded", "workEnded", "ended"} => loop[s].result = "none"
    /\ at[s] = "calls" /\ loop[s].result # "none" => loop[s].spoke
    /\ \A i \in CallIds : /\ call[s][i] = "denied" => loop[s].result = "needs_approval"
                          /\ call[s][i] \notin {"carried", "closing"}
    /\ ~loop[s].closed
    /\ loop[s].result = "none" /\ ~loop[s].hitToolLimit => loop[s].missingExit
    /\ loop[s].result = "completed" => OnPurpose(s)

FrameInv == \A f \in Frames : StatusOK(f) /\ CallsOK(f)
ResultInv == \A s \in Spaces : ResultOK(s)

(* The dispatch a work space is entered under. *)
DispatchInv ==
    /\ \A s, t \in Spaces : at[s] # "idle" /\ at[t] # "idle" => s = t
    /\ \A s \in Spaces : at[s] # "idle" =>
          /\ task[s].call \in CallIds
          /\ call[Main][task[s].call] = "running" /\ Kind(Main, task[s].call) = "switch"
          /\ s \in ToSet(task[s].path) /\ IsInjective(task[s].path)

TurnInv == TurnType /\ FrameInv /\ ResultInv /\ DispatchInv

-----------------------------------------------------------------------------
(* Steps of one frame                                                       *)

(* What the other frames hold stays, and so do the dispatches. *)
StepOf(f) ==
    /\ \A g \in Frames \ {f} :
          /\ at'[g] = at[g] /\ run'[g] = run[g] /\ work'[g] = work[g] /\ step'[g] = step[g]
          /\ loop'[g] = loop[g] /\ call'[g] = call[g]
    /\ UNCHANGED <<task, lastDone>>

(* A step of a frame keeps the invariant if it keeps it for that frame and  *)
(* does not end a call under which a space is entered.                      *)
LEMMA StepOfKeeps ==
    ASSUME FrameInv, ResultInv, DispatchInv, NEW f \in Frames, StepOf(f),
           StatusOK(f)', CallsOK(f)', f \in Spaces => at[f] # "idle" /\ ResultOK(f)',
           f = Main => \A i \in CallIds : Dispatched(i) /\ call[Main][i] = "running" =>
                          call'[Main][i] = "running" /\ Kind(Main, i)' = Kind(Main, i)
    PROVE  FrameInv' /\ ResultInv' /\ DispatchInv'
<1>1. Main \notin Spaces /\ Spaces \subseteq Frames
  BY AgentTurnAssumption DEF Frames
<1>2. FrameInv'
  <2> SUFFICES ASSUME NEW g \in Frames, g # f PROVE StatusOK(g)' /\ CallsOK(g)'
    BY DEF FrameInv
  <2>1. StatusOK(g) /\ CallsOK(g)
    BY DEF FrameInv
  <2>2. StatusOK(g)'
    BY <2>1 DEF StepOf, StatusOK
  <2>3. CallsOK(g)'
    BY <2>1 DEF StepOf, CallsOK, Active, Kind
  <2> QED BY <2>2, <2>3
<1>3. ResultInv'
  <2> SUFFICES ASSUME NEW s \in Spaces, s # f PROVE ResultOK(s)'
    BY <1>1 DEF ResultInv
  <2>1. ResultOK(s) /\ s \in Frames
    BY <1>1 DEF ResultInv
  <2> QED BY <2>1 DEF StepOf, ResultOK, OnPurpose, Kind, IsControl
<1>4. DispatchInv'
  <2>1. \A s \in Spaces : at'[s] # "idle" => at[s] # "idle"
    BY <1>1 DEF StepOf
  <2>2. ASSUME NEW s \in Spaces, at[s] # "idle"
        PROVE  call'[Main][task[s].call] = "running" /\ Kind(Main, task[s].call)' = "switch"
    <3>1. task[s].call \in CallIds /\ Dispatched(task[s].call)
      BY <2>2 DEF DispatchInv, Dispatched
    <3>2. call[Main][task[s].call] = "running" /\ Kind(Main, task[s].call) = "switch"
      BY <2>2 DEF DispatchInv
    <3> QED BY <1>1, <3>1, <3>2 DEF StepOf, Kind, Frames
  <2> QED BY <2>1, <2>2 DEF DispatchInv, StepOf
<1> QED BY <1>2, <1>3, <1>4

(* Frame f has the locals l, but for some. *)
LoopBecomes(f, l, but) ==
    /\ DOMAIN loop' = Frames /\ \A g \in Frames \ {f} : loop'[g] = loop[g]
    /\ DOMAIN loop'[f] = Locals
    /\ \A local \in Locals \ but : loop'[f][local] = l[local]

(* Only these locals of frame f may change. *)
LoopMoves(f, changed) == LoopBecomes(f, loop[f], changed)

LEMMA LocalsBecome ==
    ASSUME NEW f \in Frames, NEW l, NEW but, LoopBecomes(f, l, but)
    PROVE  /\ "iteration" \notin but => loop'[f].iteration = l.iteration
           /\ "toolSteps" \notin but => loop'[f].toolSteps = l.toolSteps
           /\ "continueNudges" \notin but => loop'[f].continueNudges = l.continueNudges
           /\ "exitNudges" \notin but => loop'[f].exitNudges = l.exitNudges
           /\ "turn" \notin but => loop'[f].turn = l.turn
           /\ "first" \notin but => loop'[f].first = l.first
           /\ "next" \notin but => loop'[f].next = l.next
           /\ "spoke" \notin but => loop'[f].spoke = l.spoke
           /\ "files" \notin but => loop'[f].files = l.files
           /\ "closed" \notin but => loop'[f].closed = l.closed
           /\ "missingExit" \notin but => loop'[f].missingExit = l.missingExit
           /\ "hitToolLimit" \notin but => loop'[f].hitToolLimit = l.hitToolLimit
           /\ "result" \notin but => loop'[f].result = l.result
           /\ "handoff" \notin but => loop'[f].handoff = l.handoff
BY DEF LoopBecomes, Locals

(* What did not change is what it was. *)
LEMMA LocalsStay ==
    ASSUME NEW f \in Frames, NEW changed, LoopMoves(f, changed)
    PROVE  /\ "iteration" \notin changed => loop'[f].iteration = loop[f].iteration
           /\ "toolSteps" \notin changed => loop'[f].toolSteps = loop[f].toolSteps
           /\ "continueNudges" \notin changed => loop'[f].continueNudges = loop[f].continueNudges
           /\ "exitNudges" \notin changed => loop'[f].exitNudges = loop[f].exitNudges
           /\ "turn" \notin changed => loop'[f].turn = loop[f].turn
           /\ "first" \notin changed => loop'[f].first = loop[f].first
           /\ "next" \notin changed => loop'[f].next = loop[f].next
           /\ "spoke" \notin changed => loop'[f].spoke = loop[f].spoke
           /\ "files" \notin changed => loop'[f].files = loop[f].files
           /\ "closed" \notin changed => loop'[f].closed = loop[f].closed
           /\ "missingExit" \notin changed => loop'[f].missingExit = loop[f].missingExit
           /\ "hitToolLimit" \notin changed => loop'[f].hitToolLimit = loop[f].hitToolLimit
           /\ "result" \notin changed => loop'[f].result = loop[f].result
           /\ "handoff" \notin changed => loop'[f].handoff = loop[f].handoff
BY LocalsBecome DEF LoopMoves

LEMMA LoopBecomesType ==
    ASSUME LoopType, NEW f \in Frames, NEW l, LocalsType(l),
           LoopBecomes(f, l, {"messages", "iteration"}),
           loop'[f].iteration \in 0..(MaxToolIterations - 1)
    PROVE  LoopType'
<1>1. /\ loop'[f].toolSteps = l.toolSteps /\ loop'[f].continueNudges = l.continueNudges
      /\ loop'[f].exitNudges = l.exitNudges /\ loop'[f].turn = l.turn
      /\ loop'[f].first = l.first /\ loop'[f].next = l.next
      /\ loop'[f].spoke = l.spoke /\ loop'[f].files = l.files /\ loop'[f].closed = l.closed
      /\ loop'[f].missingExit = l.missingExit /\ loop'[f].hitToolLimit = l.hitToolLimit
      /\ loop'[f].result = l.result /\ loop'[f].handoff = l.handoff
  BY LocalsBecome
<1>2. LocalsType(loop'[f])
  BY <1>1 DEF LocalsType, LoopBecomes
<1>3. \A g \in Frames : LocalsType(loop'[g])
  BY <1>2 DEF LoopType, LoopBecomes
<1> QED BY <1>3 DEF LoopType, LocalsType, Locals, LoopBecomes

LEMMA LoopStays ==
    ASSUME LoopType, NEW f \in Frames, DOMAIN loop' = Frames, LocalsType(loop'[f]),
           \A g \in Frames \ {f} : loop'[g] = loop[g]
    PROVE  LoopType'
<1>1. \A g \in Frames : LocalsType(loop'[g])
  BY DEF LoopType
<1> QED BY <1>1 DEF LoopType, LocalsType, Locals

LEMMA LoopMovesType ==
    ASSUME LoopType, NEW f \in Frames, NEW changed, LoopMoves(f, changed),
           "iteration" \in changed => loop'[f].iteration \in 0..(MaxToolIterations - 1),
           "toolSteps" \in changed => loop'[f].toolSteps \in 0..MaxToolIterations,
           "exitNudges" \in changed => loop'[f].exitNudges \in 0..MaxExitNudges,
           "continueNudges" \in changed => loop'[f].continueNudges \in 0..MaxContinueNudges,
           "turn" \in changed => loop'[f].turn \in Seq(Kinds) /\ Len(loop'[f].turn) <= MaxCalls,
           {"turn", "first", "next"} \cap changed # {} =>
               /\ loop'[f].first \in Nat \ {0} /\ loop'[f].next \in Nat
               /\ loop'[f].first <= loop'[f].next /\ loop'[f].next <= Len(loop'[f].turn) + 1,
           "spoke" \in changed => loop'[f].spoke \in BOOLEAN,
           "files" \in changed => loop'[f].files \in BOOLEAN,
           "closed" \in changed => loop'[f].closed \in BOOLEAN,
           "missingExit" \in changed => loop'[f].missingExit \in BOOLEAN,
           "hitToolLimit" \in changed => loop'[f].hitToolLimit \in BOOLEAN,
           "result" \in changed => loop'[f].result \in TaskStatus,
           "handoff" \in changed => loop'[f].handoff \in Spaces \cup {None}
    PROVE  LoopType'
<1>1. LocalsType(loop[f])
  BY DEF LoopType
<1>2. /\ loop'[f].turn \in Seq(Kinds) /\ Len(loop'[f].turn) <= MaxCalls
      /\ loop'[f].first \in Nat \ {0} /\ loop'[f].next \in Nat
      /\ loop'[f].first <= loop'[f].next /\ loop'[f].next <= Len(loop'[f].turn) + 1
  BY <1>1, LocalsStay DEF LocalsType
<1>3. /\ loop'[f].iteration \in 0..(MaxToolIterations - 1)
      /\ loop'[f].toolSteps \in 0..MaxToolIterations
      /\ loop'[f].exitNudges \in 0..MaxExitNudges
      /\ loop'[f].continueNudges \in 0..MaxContinueNudges
      /\ loop'[f].result \in TaskStatus /\ loop'[f].handoff \in Spaces \cup {None}
  BY <1>1, LocalsStay DEF LocalsType
<1>4. {loop'[f].spoke, loop'[f].files, loop'[f].closed, loop'[f].missingExit,
       loop'[f].hitToolLimit} \subseteq BOOLEAN
  BY <1>1, LocalsStay DEF LocalsType
<1>5. LocalsType(loop'[f])
  BY <1>2, <1>3, <1>4 DEF LocalsType, LoopMoves, LoopBecomes
<1>6. \A g \in Frames : LocalsType(loop'[g])
  BY <1>5 DEF LoopType, LoopMoves, LoopBecomes
<1> QED BY <1>6 DEF LoopType, LocalsType, Locals, LoopMoves, LoopBecomes

-----------------------------------------------------------------------------
(* The runtime                                                              *)

(* A frame that does not execute calls has none that is active. *)
LEMMA NoCallsThere ==
    ASSUME FrameInv, NEW f \in Frames, UNCHANGED call, at[f] # "calls"
    PROVE  /\ CallsOK(f)'
           /\ f = Main => \A i \in CallIds : call[Main][i] # "running"
<1>1. \A i \in CallIds : ~Active(f, i)
  BY DEF FrameInv, CallsOK
<1> QED BY <1>1 DEF CallsOK, Active

LEMMA RuntimeStep ==
    ASSUME TurnInv, NEW f \in Frames, Runtime(f)
    PROVE  TurnInv'
<1>1. RuntimeType /\ LoopType /\ StatusOK(f) /\ CallsOK(f) /\ (f \in Spaces => ResultOK(f))
  BY DEF TurnInv, TurnType, FrameInv, ResultInv
<1>2. UNCHANGED <<aborted, call, task, lastDone, turns>> /\ at[f] # "calls" /\ at[f] # "idle"
  BY DEF Runtime, StartRun, StartStep, EnterSpace, EndStep, EndWork, EndRun
<1>3. CASE EndStep(f)
  <2>1. /\ at[f] \in {"left", "threw"} /\ at' = [at EXCEPT ![f] = "stepEnded"]
        /\ UNCHANGED <<run, work>>
    BY <1>3 DEF EndStep
  <2>2. /\ step'[f] \in {"failed", "aborted", "exited"}
        /\ step' \in [Frames -> {"none", "active", "exited", "failed", "aborted"}]
        /\ \A g \in Frames \ {f} : step'[g] = step[g]
    BY <1>1, <1>3 DEF EndStep, RuntimeType
  <2>3. \/ UNCHANGED loop /\ (at[f] = "threw" \/ f = Main \/ loop[f].result # "none")
        \/ \E status \in FallbackResult(loop[f]) :
              loop' = [loop EXCEPT ![f].result = status] /\ at[f] = "left"
    BY <1>3 DEF EndStep
  <2>4. LoopMoves(f, {"result"})
    BY <1>1, <2>3 DEF LoopMoves, LoopBecomes, LoopType, LocalsType
  <2>5. \/ loop'[f].result = loop[f].result /\ (at[f] = "threw" \/ f = Main \/ loop[f].result # "none")
        \/ /\ loop[f].result = "none" /\ at[f] = "left" /\ f \in Spaces
           /\ loop'[f].result \in FallbackResult(loop[f])
    BY <1>1, <1>3 DEF EndStep, LoopType, LocalsType, Locals, Frames
  <2>6. loop'[f].result \in TaskStatus
    BY <1>1, <2>5 DEF LoopType, LocalsType, FallbackResult, TaskStatus
  <2>7. LoopType'
    BY <1>1, <2>4, <2>6, LoopMovesType
  <2>8. f \in Spaces => ResultOK(f)'
    <3> SUFFICES ASSUME f \in Spaces PROVE ResultOK(f)'
      OBVIOUS
    <3>1. /\ at'[f] = "stepEnded" /\ UNCHANGED call
          /\ loop'[f].closed = loop[f].closed /\ loop'[f].hitToolLimit = loop[f].hitToolLimit
          /\ loop'[f].missingExit = loop[f].missingExit /\ loop'[f].turn = loop[f].turn
          /\ loop'[f].next = loop[f].next
          /\ loop'[f].files = loop[f].files /\ loop'[f].spoke = loop[f].spoke
      BY <1>1, <1>2, <2>1, <2>4, LocalsStay DEF RuntimeType
    <3> QED BY <1>1, <2>5, <3>1 DEF ResultOK, OnPurpose, Kind, FallbackResult
  <2>9. StatusOK(f)' /\ StepOf(f) /\ at' \in [Frames -> Place]
    BY <1>1, <1>2, <2>1, <2>2, <2>4 DEF RuntimeType, Place, StatusOK, StepOf, LoopMoves, LoopBecomes
  <2>10. TurnType'
    BY <1>1, <1>2, <2>1, <2>2, <2>7, <2>9 DEF TurnInv, TurnType, RuntimeType
  <2>11. FrameInv' /\ ResultInv' /\ DispatchInv'
    BY <1>2, <2>8, <2>9, NoCallsThere, StepOfKeeps DEF TurnInv
  <2> QED BY <2>10, <2>11 DEF TurnInv
<1>4. CASE StartRun(f) \/ StartStep(f) \/ EnterSpace(f) \/ EndWork(f) \/ EndRun(f)
  <2>1. UNCHANGED loop
    BY <1>4 DEF StartRun, StartStep, EnterSpace, EndWork, EndRun
  <2>2. /\ at' \in [Frames -> Place] /\ \A g \in Frames \ {f} : at'[g] = at[g]
    BY <1>1, <1>4 DEF StartRun, StartStep, EnterSpace, EndWork, EndRun, RuntimeType, Place
  <2>3. /\ run' \in [Frames -> {"none", "working", "completed", "failed", "aborted"}]
        /\ \A g \in Frames \ {f} : run'[g] = run[g]
    BY <1>1, <1>4 DEF StartRun, StartStep, EnterSpace, EndWork, EndRun, RuntimeType, StatusOK
  <2>4. /\ work' \in [Frames -> {"none", "queued", "exited", "failed", "aborted"}]
        /\ \A g \in Frames \ {f} : work'[g] = work[g]
    BY <1>1, <1>4 DEF StartRun, StartStep, EnterSpace, EndWork, EndRun, RuntimeType, StatusOK
  <2>5. /\ step' \in [Frames -> {"none", "active", "exited", "failed", "aborted"}]
        /\ \A g \in Frames \ {f} : step'[g] = step[g]
    BY <1>1, <1>4 DEF StartRun, StartStep, EnterSpace, EndWork, EndRun, RuntimeType, StatusOK
  <2>6. StatusOK(f)'
    BY <1>1, <1>4 DEF StartRun, StartStep, EnterSpace, EndWork, EndRun, RuntimeType, StatusOK
  <2>7. f \in Spaces => ResultOK(f)'
    BY <1>1, <1>2, <1>4, <2>1 DEF StartRun, StartStep, EnterSpace, EndWork, EndRun, RuntimeType,
                                  ResultOK, OnPurpose, Kind
  <2>8. TurnType'
    BY <1>1, <1>2, <2>1, <2>2, <2>3, <2>4, <2>5 DEF TurnInv, TurnType, RuntimeType, LoopType
  <2>9. StepOf(f)
    BY <1>2, <2>1, <2>2, <2>3, <2>4, <2>5 DEF StepOf
  <2>10. FrameInv' /\ ResultInv' /\ DispatchInv'
    BY <1>2, <2>6, <2>7, <2>9, NoCallsThere, StepOfKeeps DEF TurnInv
  <2> QED BY <2>8, <2>10 DEF TurnInv
<1> QED BY <1>3, <1>4 DEF Runtime

-----------------------------------------------------------------------------
(* The turns of the model                                                   *)

(* The locals with which the loop goes on, or is left, are l but for the    *)
(* messages and the iteration. *)
LEMMA LoopIsLeft ==
    ASSUME LoopType, NEW f \in Frames, NEW l, DOMAIN l = Locals, LeaveLoop(f, l)
    PROVE  /\ LoopBecomes(f, l, {"messages"})
           /\ \E place \in {"left", "wrapUp"} :
                 at' = [at EXCEPT ![f] = place] /\ (place = "wrapUp" => ~l.spoke)
<1>1. DOMAIN loop = Frames
  BY DEF LoopType
<1>2. CASE /\ loop' = [loop EXCEPT ![f] = l] /\ at' = [at EXCEPT ![f] = "left"]
  BY <1>1, <1>2 DEF LoopBecomes
<1>3. CASE /\ ~l.spoke /\ loop' = [loop EXCEPT ![f] = [l EXCEPT !.messages = Noted(@)]]
           /\ at' = [at EXCEPT ![f] = "wrapUp"]
  <2>1. loop'[f] = [l EXCEPT !.messages = Noted(@)] /\ DOMAIN loop' = Frames
        /\ \A g \in Frames \ {f} : loop'[g] = loop[g]
    BY <1>1, <1>3
  <2>2. DOMAIN loop'[f] = Locals /\ \A local \in Locals \ {"messages"} : loop'[f][local] = l[local]
    BY <2>1
  <2> QED BY <1>3, <2>1, <2>2 DEF LoopBecomes
<1> QED BY <1>2, <1>3 DEF LeaveLoop

LEMMA LoopGoesOn ==
    ASSUME LoopType, NEW f \in Frames, NEW l, DOMAIN l = Locals,
           l.iteration = loop[f].iteration, NextIteration(f, l)
    PROVE  /\ LoopBecomes(f, l, {"messages", "iteration"})
           /\ loop'[f].iteration \in 0..(MaxToolIterations - 1)
           /\ \E place \in {"model", "left", "wrapUp"} :
                 at' = [at EXCEPT ![f] = place] /\ (place = "wrapUp" => ~l.spoke)
<1>1. DOMAIN loop = Frames /\ l.iteration \in 0..(MaxToolIterations - 1)
  BY DEF LoopType, LocalsType
<1>2. CASE /\ l.iteration + 1 < MaxToolIterations
           /\ loop' = [loop EXCEPT ![f] = [l EXCEPT !.iteration = @ + 1]]
           /\ at' = [at EXCEPT ![f] = "model"]
  <2>1. loop'[f] = [l EXCEPT !.iteration = @ + 1] /\ DOMAIN loop' = Frames
        /\ \A g \in Frames \ {f} : loop'[g] = loop[g]
    BY <1>1, <1>2
  <2>2. /\ DOMAIN loop'[f] = Locals
        /\ \A local \in Locals \ {"iteration"} : loop'[f][local] = l[local]
        /\ loop'[f].iteration = l.iteration + 1
    BY <2>1 DEF Locals
  <2>3. loop'[f].iteration \in 0..(MaxToolIterations - 1)
    BY <1>1, <1>2, <2>2, AgentTurnAssumption
  <2> QED BY <1>2, <2>1, <2>2, <2>3 DEF LoopBecomes
<1>3. CASE LeaveLoop(f, l)
  <2>1. LoopBecomes(f, l, {"messages"})
    BY <1>3, LoopIsLeft
  <2>2. loop'[f].iteration = l.iteration
    BY <2>1 DEF Locals, LoopBecomes
  <2> QED BY <1>1, <1>3, <2>1, <2>2, LoopIsLeft DEF LoopBecomes
<1> QED BY <1>2, <1>3 DEF NextIteration

(* What a turn of the model may do to its frame. *)
LEMMA ModelKeeps ==
    ASSUME TurnInv, NEW f \in Frames, at[f] \in {"model", "wrapUp"},
           UNCHANGED <<aborted, runtimeVars, task, lastDone>>, turns' \in 0..MaxTurns,
           NEW place \in {"model", "calls", "left", "wrapUp", "threw"},
           at' = [at EXCEPT ![f] = place],
           LoopType', LoopMoves(f, Locals \ {"result", "closed"}),
           f \in Spaces => \/ loop'[f].missingExit
                           \/ /\ loop'[f].missingExit = loop[f].missingExit
                              /\ loop'[f].hitToolLimit = loop[f].hitToolLimit,
           UNCHANGED call \/ call' = [call EXCEPT ![f] = NoCalls]
    PROVE  TurnInv'
<1>1. /\ RuntimeType /\ LoopType /\ StatusOK(f) /\ CallsOK(f) /\ (f \in Spaces => ResultOK(f))
      /\ call \in [Frames -> [CallIds -> CallState]]
  BY DEF TurnInv, TurnType, FrameInv, ResultInv
<1>2. /\ at'[f] = place /\ at' \in [Frames -> Place] /\ UNCHANGED <<run, work, step>>
      /\ \A g \in Frames \ {f} : at'[g] = at[g]
  BY <1>1 DEF RuntimeType, Place, runtimeVars
<1>3. \A i \in CallIds : ~Active(f, i)
  BY <1>1 DEF CallsOK
<1>4. /\ \A g \in Frames \ {f} : call'[g] = call[g]
      /\ \A i \in CallIds : call'[f][i] \in {call[f][i], "none"}
      /\ call' \in [Frames -> [CallIds -> CallState]]
  BY <1>1 DEF NoCalls, CallState
<1>5. CallsOK(f)'
  BY <1>3, <1>4 DEF CallsOK, Active
<1>6. StatusOK(f)'
  BY <1>1, <1>2 DEF StatusOK
<1>7. f \in Spaces => ResultOK(f)'
  <2>1. /\ loop'[f].result = loop[f].result /\ loop'[f].closed = loop[f].closed
    BY LocalsStay
  <2> QED BY <1>1, <1>2, <1>4, <2>1 DEF ResultOK
<1>8. StepOf(f)
  BY <1>2, <1>4 DEF StepOf, LoopMoves, LoopBecomes
<1>9. f = Main => \A i \in CallIds : call[Main][i] # "running"
  BY <1>3 DEF Active
<1>10. FrameInv' /\ ResultInv' /\ DispatchInv'
  BY <1>5, <1>6, <1>7, <1>8, <1>9, StepOfKeeps DEF TurnInv
<1>11. TurnType'
  BY <1>1, <1>2, <1>4 DEF TurnInv, TurnType, RuntimeType
<1> QED BY <1>10, <1>11 DEF TurnInv

(* The loop goes on, or is left, with the locals l. *)
LEMMA LoopOfModel ==
    ASSUME TurnInv, NEW f \in Frames, at[f] \in {"model", "wrapUp"},
           UNCHANGED <<aborted, runtimeVars, task, lastDone, turns, call>>,
           NEW l, LocalsType(l), l.iteration = loop[f].iteration,
           NextIteration(f, l) \/ LeaveLoop(f, l),
           l.result = loop[f].result, l.closed = loop[f].closed,
           f \in Spaces => \/ l.missingExit
                           \/ /\ l.missingExit = loop[f].missingExit
                              /\ l.hitToolLimit = loop[f].hitToolLimit
    PROVE  TurnInv'
<1>1. LoopType /\ DOMAIN l = Locals /\ turns \in 0..MaxTurns
  BY DEF TurnInv, TurnType, LocalsType
<1>2. /\ LoopBecomes(f, l, {"messages", "iteration"})
      /\ loop'[f].iteration \in 0..(MaxToolIterations - 1)
      /\ \E place \in {"model", "left", "wrapUp"} : at' = [at EXCEPT ![f] = place]
  <2>1. CASE NextIteration(f, l)
    BY <1>1, <2>1, LoopGoesOn
  <2>2. CASE LeaveLoop(f, l)
    <3>1. LoopBecomes(f, l, {"messages"})
      BY <1>1, <2>2, LoopIsLeft
    <3>2. loop'[f].iteration = l.iteration
      BY <3>1, LocalsBecome
    <3> QED BY <1>1, <2>2, <3>1, <3>2, LoopIsLeft DEF LoopBecomes, LocalsType
  <2> QED BY <2>1, <2>2
<1>3. LoopType'
  BY <1>1, <1>2, LoopBecomesType
<1>4. /\ loop'[f].result = loop[f].result /\ loop'[f].closed = loop[f].closed
      /\ loop'[f].missingExit = l.missingExit /\ loop'[f].hitToolLimit = l.hitToolLimit
  BY <1>2, LocalsBecome
<1>5. LoopMoves(f, Locals \ {"result", "closed"})
  BY <1>2, <1>4 DEF LoopMoves, LoopBecomes
<1> QED BY <1>1, <1>2, <1>3, <1>4, <1>5, ModelKeeps

LEMMA ModelStep ==
    ASSUME TurnInv, NEW f \in Frames, Model(f)
    PROVE  TurnInv'
<1>1. /\ RuntimeType /\ LoopType /\ LocalsType(loop[f]) /\ DOMAIN loop = Frames
      /\ DOMAIN loop[f] = Locals /\ turns \in 0..MaxTurns
      /\ (f \in Spaces <=> f # Main)
  BY AgentTurnAssumption DEF TurnInv, TurnType, LoopType, LocalsType, Frames
<1>2. at[f] \in {"model", "wrapUp"} /\ UNCHANGED <<aborted, runtimeVars, task, lastDone>>
  BY DEF Model, ModelCalls, ModelIsNudged, ModelForgetsExit, ModelStops, WrapUp, ModelFails, ModelRan
<1>3. CASE ModelCalls(f)
  <2> DEFINE Turn(n, calls, text) ==
               loop' = [loop EXCEPT
                          ![f].turn = calls,
                          ![f].called = loop[f].iteration,
                          ![f].first = 1, ![f].next = 1,
                          ![f].spoke = @ \/ text,
                          ![f].messages = Append(@, Assistant([i \in 1..n |-> i]))]
  <2>0. PICK n \in CallIds : \E calls \in [1..n -> IF f = Main THEN MainTools ELSE WorkTools],
                                text \in BOOLEAN : Turn(n, calls, text)
    BY <1>3 DEF ModelCalls
  <2>1. PICK calls \in [1..n -> IF f = Main THEN MainTools ELSE WorkTools], text \in BOOLEAN :
           Turn(n, calls, text)
    BY <2>0
  <2>2. calls \in Seq(Kinds) /\ Len(calls) = n /\ n \in Nat /\ n <= MaxCalls
    <3>1. n \in Nat /\ n <= MaxCalls
      BY AgentTurnAssumption DEF CallIds
    <3>2. calls \in [1..n -> Kinds]
      BY AgentTurnAssumption DEF Kinds
    <3> QED BY <3>1, <3>2
  <2>3. /\ LoopMoves(f, {"turn", "called", "first", "next", "spoke", "messages"})
        /\ loop'[f].turn = calls /\ loop'[f].first = 1 /\ loop'[f].next = 1
        /\ loop'[f].spoke = (loop[f].spoke \/ text)
    BY <1>1, <2>1 DEF LoopMoves, LoopBecomes, Locals, Turn
  <2> HIDE DEF Turn
  <2>4. LoopType'
    <3>1. loop'[f].spoke \in BOOLEAN
      BY <2>3
    <3>2. /\ loop'[f].iteration = loop[f].iteration /\ loop'[f].toolSteps = loop[f].toolSteps
          /\ loop'[f].continueNudges = loop[f].continueNudges
          /\ loop'[f].exitNudges = loop[f].exitNudges
          /\ loop'[f].files = loop[f].files /\ loop'[f].closed = loop[f].closed
          /\ loop'[f].missingExit = loop[f].missingExit
          /\ loop'[f].hitToolLimit = loop[f].hitToolLimit
          /\ loop'[f].result = loop[f].result /\ loop'[f].handoff = loop[f].handoff
      BY <2>3, LocalsStay
    <3>3. DOMAIN loop'[f] = Locals
      BY <2>3 DEF LoopMoves, LoopBecomes
    <3>4. LocalsType(loop'[f])
      BY <1>1, <2>2, <2>3, <3>1, <3>2, <3>3 DEF LocalsType
    <3> QED BY <1>1, <2>3, <3>4, LoopStays DEF LoopMoves, LoopBecomes
  <2>5. LoopMoves(f, Locals \ {"result", "closed"})
    BY <2>3 DEF LoopMoves, LoopBecomes, Locals
  <2>6. /\ loop'[f].missingExit = loop[f].missingExit
        /\ loop'[f].hitToolLimit = loop[f].hitToolLimit
    BY <2>3, LocalsStay
  <2>7. /\ at' = [at EXCEPT ![f] = "calls"] /\ call' = [call EXCEPT ![f] = NoCalls]
        /\ turns' \in 0..MaxTurns
    BY <1>1, <1>3, AgentTurnAssumption DEF ModelCalls
  <2> QED BY <1>2, <2>4, <2>5, <2>6, <2>7, ModelKeeps
<1>4. CASE ModelIsNudged(f)
  <2> DEFINE l == [loop[f] EXCEPT !.continueNudges = @ + 1, !.messages = Noted(@)]
  <2>1. NextIteration(f, l) /\ loop[f].continueNudges < MaxContinueNudges
    BY <1>4 DEF ModelIsNudged
  <2>2. /\ l.iteration = loop[f].iteration /\ l.result = loop[f].result /\ l.closed = loop[f].closed
        /\ l.missingExit = loop[f].missingExit /\ l.hitToolLimit = loop[f].hitToolLimit
    BY <1>1 DEF Locals
  <2>3. LocalsType(l)
    <3>1. l.continueNudges \in 0..MaxContinueNudges
      BY SMTT(30), <1>1, <2>1, AgentTurnAssumption DEF LocalsType, Locals
    <3> QED BY <1>1, <3>1 DEF LocalsType, Locals
  <2> HIDE DEF l
  <2> QED BY <1>1, <1>2, <1>4, <2>1, <2>2, <2>3, LoopOfModel DEF ModelIsNudged
<1>5. CASE ModelForgetsExit(f)
  <2>1. PICK text \in BOOLEAN :
           NextIteration(f, [loop[f] EXCEPT !.exitNudges = @ + 1,
                                            !.spoke = @ \/ text,
                                            !.messages = Noted(@)])
    BY <1>5 DEF ModelForgetsExit
  <2> DEFINE l == [loop[f] EXCEPT !.exitNudges = @ + 1, !.spoke = @ \/ text, !.messages = Noted(@)]
  <2>2. NextIteration(f, l) /\ loop[f].exitNudges < MaxExitNudges
    BY <1>5, <2>1 DEF ModelForgetsExit
  <2>3. /\ l.iteration = loop[f].iteration /\ l.result = loop[f].result /\ l.closed = loop[f].closed
        /\ l.missingExit = loop[f].missingExit /\ l.hitToolLimit = loop[f].hitToolLimit
    BY <1>1 DEF Locals
  <2>4. LocalsType(l)
    <3>1. l.spoke = (loop[f].spoke \/ text)
      BY <1>1 DEF Locals
    <3>2. l.spoke \in BOOLEAN
      BY <3>1
    <3>3. l.exitNudges \in 0..MaxExitNudges
      BY SMTT(30), <1>1, <2>2, AgentTurnAssumption DEF LocalsType, Locals
    <3> QED BY <1>1, <3>2, <3>3 DEF LocalsType, Locals
  <2> HIDE DEF l
  <2> QED BY <1>1, <1>2, <1>5, <2>2, <2>3, <2>4, LoopOfModel DEF ModelForgetsExit
<1>6. CASE ModelStops(f)
  <2>1. PICK text \in BOOLEAN :
           LeaveLoop(f, [loop[f] EXCEPT !.hitToolLimit = FALSE,
                                        !.missingExit = f # Main,
                                        !.spoke = @ \/ text])
    BY <1>6 DEF ModelStops
  <2> DEFINE l == [loop[f] EXCEPT !.hitToolLimit = FALSE, !.missingExit = f # Main,
                                  !.spoke = @ \/ text]
  <2>2. LeaveLoop(f, l)
    BY <2>1
  <2>3. /\ l.missingExit = (f # Main) /\ l.iteration = loop[f].iteration
        /\ l.result = loop[f].result /\ l.closed = loop[f].closed
    BY <1>1 DEF Locals
  <2>4. LocalsType(l)
    <3>1. l.spoke = (loop[f].spoke \/ text) /\ l.hitToolLimit = FALSE
      BY <1>1 DEF Locals
    <3>2. l.hitToolLimit \in BOOLEAN /\ l.missingExit \in BOOLEAN /\ l.spoke \in BOOLEAN
      BY <2>3, <3>1
    <3> QED BY <1>1, <3>2 DEF LocalsType, Locals
  <2> HIDE DEF l
  <2> QED BY <1>1, <1>2, <1>6, <2>2, <2>3, <2>4, LoopOfModel DEF ModelStops
<1>7. CASE WrapUp(f)
  <2>1. PICK text \in BOOLEAN : loop' = [loop EXCEPT ![f].spoke = text]
    BY <1>7 DEF WrapUp
  <2>2. LoopMoves(f, {"spoke"}) /\ loop'[f].spoke = text
    BY <1>1, <2>1 DEF LoopMoves, LoopBecomes, Locals
  <2>3. LoopType'
    BY <1>1, <2>2, LoopMovesType
  <2>4. LoopMoves(f, Locals \ {"result", "closed"})
    BY <2>2 DEF LoopMoves, LoopBecomes, Locals
  <2>5. /\ loop'[f].missingExit = loop[f].missingExit
        /\ loop'[f].hitToolLimit = loop[f].hitToolLimit
    BY <2>2, LocalsStay
  <2> QED BY <1>1, <1>2, <1>7, <2>3, <2>4, <2>5, ModelKeeps DEF WrapUp
<1>8. CASE ModelFails(f)
  <2>1. UNCHANGED <<loop, call, turns>> /\ at' = [at EXCEPT ![f] = "threw"]
    BY <1>8 DEF ModelFails
  <2>2. LoopType' /\ LoopMoves(f, Locals \ {"result", "closed"})
    BY <1>1, <2>1 DEF LoopType, LoopMoves, LoopBecomes
  <2> QED BY <1>1, <1>2, <2>1, <2>2, ModelKeeps
<1> QED BY <1>3, <1>4, <1>5, <1>6, <1>7, <1>8 DEF Model

-----------------------------------------------------------------------------
(* The tool calls                                                           *)

(* A batch is a part of the turn from the next call on, within the limit;   *)
(* a call that is not parallel-safe is a batch of its own. *)
LEMMA BatchIs ==
    ASSUME NEW f \in Frames, LocalsType(loop[f]), MayTakeCalls(f), NEW n, n = Cardinality(Batch(f))
    PROVE  /\ n \in Nat \ {0} /\ loop[f].next + n <= Len(loop[f].turn) + 1
           /\ loop[f].toolSteps + n <= MaxToolIterations
           /\ \A i \in Batch(f) : /\ i \in Nat /\ loop[f].next <= i /\ i < loop[f].next + n
                                  /\ Kind(f, i) # "read" => n = 1 /\ i = loop[f].next
<1> DEFINE next == loop[f].next
           last == Len(loop[f].turn)
           limit == MaxToolIterations - loop[f].toolSteps
           room == {e \in next..last : e - next < limit}
           safe == {e \in room : \A i \in next..e : CanRunInParallel(Kind(f, i))}
<1>1. next \in Nat /\ loop[f].toolSteps \in 0..MaxToolIterations /\ last \in Nat
  BY DEF LocalsType
<1>2. next <= last /\ loop[f].toolSteps < MaxToolIterations
  BY DEF MayTakeCalls
<1>3. limit \in Nat \ {0} /\ loop[f].toolSteps + limit = MaxToolIterations
  BY <1>1, <1>2, AgentTurnAssumption
<1>4. Batch(f) = IF loop[f].result = "none" /\ safe # {} THEN safe ELSE {next}
  BY DEF Batch
<1>5. \A e : e \in safe <=> /\ e \in next..last /\ e - next < limit
                            /\ \A i \in next..e : Kind(f, i) = "read"
  BY DEF CanRunInParallel
<1> HIDE DEF room, safe, next, last, limit
<1>6. CASE Batch(f) = {next}
  <2>1. n = 1
    BY <1>6, FS_Singleton
  <2> QED BY SMTT(30), <1>1, <1>2, <1>3, <1>6, <2>1 DEF next, last
<1>7. CASE Batch(f) = safe /\ safe # {}
  <2>1. /\ IsFiniteSet(next..last) /\ Cardinality(next..last) = last - next + 1
    BY <1>1, <1>2, FS_Interval
  <2>2. /\ IsFiniteSet(next..(next + limit - 1)) /\ Cardinality(next..(next + limit - 1)) = limit
    <3> DEFINE end == next + limit - 1
    <3>1. next \in Int /\ end \in Int /\ ~(next > end) /\ end - next + 1 = limit
      BY <1>1, <1>3
    <3> HIDE DEF end
    <3>2. IsFiniteSet(next..end) /\ Cardinality(next..end) = limit
      BY <3>1, FS_Interval
    <3> QED BY <3>2 DEF end
  <2>3. safe \in SUBSET (next..last) /\ safe \in SUBSET (next..(next + limit - 1))
    <3> SUFFICES ASSUME NEW e \in safe PROVE e \in next..last /\ e \in next..(next + limit - 1)
      OBVIOUS
    <3>1. e \in next..last /\ e - next < limit
      BY <1>5
    <3> QED BY <1>1, <1>3, <3>1
  <2>4. /\ IsFiniteSet(safe) /\ n \in Nat /\ n <= last - next + 1
    <3>1. IsFiniteSet(safe) /\ Cardinality(safe) <= Cardinality(next..last)
      BY <2>1, <2>3, FS_Subset, Zenon
    <3> QED BY <1>7, <2>1, <3>1, FS_CardinalityType
  <2>5. n <= limit
    <3>1. Cardinality(safe) <= Cardinality(next..(next + limit - 1))
      BY <2>2, <2>3, FS_Subset, Zenon
    <3> QED BY <1>7, <2>2, <3>1
  <2>6. ASSUME NEW i \in safe
        PROVE  i \in Nat /\ next <= i /\ i - next + 1 <= n /\ Kind(f, i) = "read"
    <3>1. i \in Nat /\ next <= i /\ i - next < limit /\ i <= last
      BY <1>1, <1>5
    <3>2. next..i \subseteq safe
      <4> SUFFICES ASSUME NEW e \in next..i PROVE e \in safe
        OBVIOUS
      <4>1. e \in Nat /\ next <= e /\ e <= i
        BY <1>1, <3>1
      <4>2. \A j \in next..e : j \in next..i
        BY <1>1, <3>1, <4>1
      <4>3. \A j \in next..e : Kind(f, j) = "read"
        BY <1>5, <4>2
      <4> QED BY <1>1, <1>3, <1>5, <3>1, <4>1, <4>3
    <3>3. Cardinality(next..i) = i - next + 1
      BY <1>1, <3>1, FS_Interval
    <3>4. i - next + 1 <= n
      <4>1. next..i \in SUBSET safe
        BY <3>2
      <4>2. Cardinality(next..i) <= Cardinality(safe)
        BY <2>4, <4>1, FS_Subset, Zenon
      <4> QED BY <1>7, <3>3, <4>2
    <3>5. Kind(f, i) = "read"
      BY <1>1, <1>5, <3>1
    <3> QED BY <3>1, <3>4, <3>5
  <2>7. n # 0
    <3>1. PICK i \in safe : TRUE
      BY <1>7
    <3> QED BY <1>1, <2>4, <2>6, <3>1
  <2>8. n \in Nat \ {0} /\ next + n <= last + 1 /\ loop[f].toolSteps + n <= MaxToolIterations
    BY <1>1, <1>3, <2>4, <2>5, <2>7, AgentTurnAssumption
  <2>9. \A i \in Batch(f) : i \in Nat /\ next <= i /\ i < next + n /\ Kind(f, i) = "read"
    BY <1>1, <1>7, <2>4, <2>6
  <2> QED BY <2>8, <2>9 DEF next, last
<1> QED BY <1>4, <1>6, <1>7

(* Without a batch no call is active. *)
LEMMA NoneActive ==
    ASSUME NEW f \in Frames, LocalsType(loop[f]), CallsOK(f), loop[f].first = loop[f].next
    PROVE  \A i \in CallIds : ~Active(f, i)
<1>1. loop[f].next \in Nat
  BY DEF LocalsType
<1>2. \A i \in CallIds : i \in Nat
  BY AgentTurnAssumption DEF CallIds
<1>3. \A i \in CallIds : Active(f, i) => loop[f].next <= i /\ i < loop[f].next
  BY DEF CallsOK
<1> QED BY <1>1, <1>2, <1>3

(* A step among the calls of a frame that executes calls. *)
LEMMA CallsKeep ==
    ASSUME TurnInv, NEW f \in Frames, at[f] = "calls",
           UNCHANGED <<aborted, at, runtimeVars, task, lastDone, turns>>,
           LoopType', \A g \in Frames \ {f} : loop'[g] = loop[g],
           call' \in [Frames -> [CallIds -> CallState]], \A g \in Frames \ {f} : call'[g] = call[g],
           CallsOK(f)', f \in Spaces => ResultOK(f)',
           f = Main => \A i \in CallIds : Dispatched(i) /\ call[Main][i] = "running" =>
                          call'[Main][i] = "running" /\ loop'[Main].turn = loop[Main].turn
    PROVE  TurnInv'
<1>1. StatusOK(f)'
  BY DEF TurnInv, FrameInv, StatusOK, runtimeVars
<1>2. StepOf(f)
  BY DEF StepOf, runtimeVars
<1>3. FrameInv' /\ ResultInv' /\ DispatchInv'
  BY <1>1, <1>2, StepOfKeeps DEF TurnInv, Kind
<1>4. TurnType'
  BY DEF TurnInv, TurnType, RuntimeType, runtimeVars
<1> QED BY <1>3, <1>4 DEF TurnInv

LEMMA ExecuteCallsStep ==
    ASSUME TurnInv, NEW f \in Frames, ExecuteCalls(f)
    PROVE  TurnInv'
<1> DEFINE n == Cardinality(Batch(f))
<1>1. /\ LoopType /\ LocalsType(loop[f]) /\ CallsOK(f) /\ (f \in Spaces => ResultOK(f))
      /\ call \in [Frames -> [CallIds -> CallState]]
  BY DEF TurnInv, TurnType, LoopType, FrameInv, ResultInv
<1>2. /\ MayTakeCalls(f) /\ at[f] = "calls" /\ loop[f].first = loop[f].next
      /\ UNCHANGED <<aborted, at, runtimeVars, task, lastDone, turns>>
  BY DEF ExecuteCalls, MayTakeCalls
<1>3. /\ n \in Nat \ {0} /\ loop[f].next + n <= Len(loop[f].turn) + 1
      /\ loop[f].toolSteps + n <= MaxToolIterations
      /\ \A i \in Batch(f) : /\ i \in Nat /\ loop[f].next <= i /\ i < loop[f].next + n
                             /\ Kind(f, i) # "read" => n = 1 /\ i = loop[f].next
  BY <1>1, <1>2, BatchIs
<1>4. loop' = [loop EXCEPT ![f].next = @ + n, ![f].toolSteps = @ + n]
  BY DEF ExecuteCalls
<1> HIDE DEF n
<1>5. /\ LoopMoves(f, {"next", "toolSteps"})
      /\ loop'[f].next = loop[f].next + n /\ loop'[f].toolSteps = loop[f].toolSteps + n
  BY <1>1, <1>4 DEF LoopMoves, LoopBecomes, LoopType, LocalsType, Locals
<1>6. /\ loop'[f].first = loop[f].first /\ loop'[f].turn = loop[f].turn
      /\ loop'[f].result = loop[f].result /\ loop'[f].closed = loop[f].closed
      /\ loop'[f].spoke = loop[f].spoke /\ loop'[f].files = loop[f].files
      /\ loop'[f].missingExit = loop[f].missingExit
      /\ loop'[f].hitToolLimit = loop[f].hitToolLimit
  BY <1>5, LocalsStay
<1>7. LoopType'
  <2>1. /\ loop'[f].first \in Nat \ {0} /\ loop'[f].next \in Nat
        /\ loop'[f].first <= loop'[f].next /\ loop'[f].next <= Len(loop'[f].turn) + 1
        /\ loop'[f].toolSteps \in 0..MaxToolIterations
    <3>1. /\ loop[f].first \in Nat \ {0} /\ loop[f].next \in Nat /\ loop[f].first <= loop[f].next
          /\ loop[f].toolSteps \in Nat /\ Len(loop[f].turn) \in Nat /\ MaxToolIterations \in Nat
      BY <1>1, AgentTurnAssumption DEF LocalsType
    <3>2. loop[f].next + n \in Nat /\ loop[f].first <= loop[f].next + n
      BY SMTT(30), <1>3, <3>1
    <3>3. loop[f].toolSteps + n \in 0..MaxToolIterations
      BY <1>3, <3>1
    <3> QED BY <1>3, <1>5, <1>6, <3>1, <3>2, <3>3
  <2> QED BY <1>1, <1>5, <2>1, LoopMovesType
<1>8. \A i \in CallIds : ~Active(f, i)
  BY <1>1, <1>2, NoneActive
<1>9. /\ \A g \in Frames \ {f} : call'[g] = call[g]
      /\ \A i \in CallIds : call'[f][i] = IF i \in Batch(f) THEN FirstState(f, Kind(f, i)) ELSE call[f][i]
  BY <1>1 DEF ExecuteCalls
<1>10. ASSUME NEW kind
       PROVE  /\ FirstState(f, kind) \in {"ended", "asking", "started"}
              /\ FirstState(f, kind) = "asking" => kind = "write"
              /\ FirstState(f, kind) # "ended" => loop[f].result = "none"
  BY DEF FirstState
<1>11. call' \in [Frames -> [CallIds -> CallState]]
  <2> DEFINE calls == [i \in CallIds |->
                          IF i \in Batch(f) THEN FirstState(f, Kind(f, i)) ELSE call[f][i]]
  <2>1. calls \in [CallIds -> CallState]
    BY <1>1, <1>10 DEF CallState, Ended
  <2>2. call' = [call EXCEPT ![f] = calls]
    BY DEF ExecuteCalls
  <2> HIDE DEF calls
  <2> QED BY <1>1, <2>1, <2>2
<1>12. CallsOK(f)'
  <2> SUFFICES ASSUME NEW i \in CallIds, Active(f, i)'
               PROVE  /\ at'[f] = "calls" /\ loop'[f].first <= i /\ i < loop'[f].next
                      /\ loop'[f].turn[i] # "read" => loop'[f].first = i /\ loop'[f].next = i + 1
                      /\ call'[f][i] = "asking" => loop'[f].turn[i] = "write"
                      /\ f \in Spaces => loop'[f].result = "none"
    BY DEF CallsOK, Kind
  <2>1. i \in Batch(f) /\ call'[f][i] = FirstState(f, Kind(f, i))
    BY <1>8, <1>9 DEF Active
  <2>2. FirstState(f, Kind(f, i)) # "ended"
    BY <2>1 DEF Active
  <2>3. /\ loop[f].next <= i /\ i < loop[f].next + n
        /\ Kind(f, i) # "read" => n = 1 /\ i = loop[f].next
    BY <1>3, <2>1
  <2> QED BY <1>2, <1>5, <1>6, <1>10, <2>1, <2>2, <2>3 DEF Kind
<1>13. f \in Spaces => ResultOK(f)'
  <2> SUFFICES ASSUME f \in Spaces PROVE ResultOK(f)'
    OBVIOUS
  <2>1. \A i \in CallIds : /\ call'[f][i] = "denied" => call[f][i] = "denied"
                           /\ call'[f][i] \in {"carried", "closing"} => call'[f][i] = call[f][i]
    BY <1>9, <1>10
  <2>2. OnPurpose(f) => OnPurpose(f)'
    <3>1. \A i \in 1..(loop[f].next - 1) : i \in 1..(loop'[f].next - 1)
      BY <1>1, <1>3, <1>5 DEF LocalsType
    <3> QED BY <1>6, <2>1, <3>1 DEF OnPurpose, Kind, IsControl
  <2> QED BY <1>1, <1>2, <1>6, <2>1, <2>2 DEF ResultOK
<1> QED BY <1>2, <1>5, <1>6, <1>7, <1>8, <1>9, <1>11, <1>12, <1>13, CallsKeep
        DEF Active, LoopMoves, LoopBecomes

LEMMA ExitSpaceStep ==
    ASSUME TurnInv, NEW f \in Frames, ExitSpace(f)
    PROVE  TurnInv'
<1> DEFINE next == loop[f].next
<1>1. /\ LoopType /\ LocalsType(loop[f]) /\ CallsOK(f) /\ ResultOK(f) /\ f \in Spaces /\ f # Main
      /\ call \in [Frames -> [CallIds -> CallState]]
  BY DEF TurnInv, TurnType, LoopType, FrameInv, ResultInv, ExitSpace, IsControl, Frames
<1>2. /\ at[f] = "calls" /\ loop[f].first = next /\ next <= Len(loop[f].turn)
      /\ loop[f].toolSteps < MaxToolIterations
      /\ UNCHANGED <<aborted, at, runtimeVars, task, lastDone, turns>>
      /\ IsControl(f, Kind(f, next)) /\ loop[f].result = "none"
  BY DEF ExitSpace, MayTakeCalls
<1>3. /\ next \in Nat \ {0} /\ Len(loop[f].turn) \in Nat /\ Len(loop[f].turn) <= MaxCalls
      /\ loop[f].toolSteps \in Nat /\ next \in CallIds
  <2>1. /\ loop[f].first \in Nat \ {0} /\ loop[f].turn \in Seq(Kinds) /\ Len(loop[f].turn) <= MaxCalls
        /\ loop[f].toolSteps \in Nat
    BY <1>1, AgentTurnAssumption DEF LocalsType
  <2> QED BY <1>2, <2>1, AgentTurnAssumption DEF CallIds
<1>4. PICK status \in {"completed", "failed"}, target \in (Spaces \ {f}) \cup {None} :
         loop' = [loop EXCEPT ![f].result = status, ![f].handoff = target, ![f].spoke = TRUE,
                              ![f].next = @ + 1, ![f].toolSteps = @ + 1]
  BY DEF ExitSpace
<1>5. /\ LoopMoves(f, {"result", "handoff", "spoke", "next", "toolSteps"})
      /\ loop'[f].result = status /\ loop'[f].handoff = target /\ loop'[f].spoke = TRUE
      /\ loop'[f].next = next + 1 /\ loop'[f].toolSteps = loop[f].toolSteps + 1
  BY <1>1, <1>4 DEF LoopMoves, LoopBecomes, LoopType, LocalsType, Locals
<1>6. /\ loop'[f].first = loop[f].first /\ loop'[f].turn = loop[f].turn
      /\ loop'[f].closed = loop[f].closed
  BY <1>5, LocalsStay
<1>7. LoopType'
  <2>1. /\ loop'[f].first \in Nat \ {0} /\ loop'[f].next \in Nat
        /\ loop'[f].first <= loop'[f].next /\ loop'[f].next <= Len(loop'[f].turn) + 1
        /\ loop'[f].toolSteps \in 0..MaxToolIterations
    BY SMTT(30), <1>2, <1>3, <1>5, <1>6, AgentTurnAssumption
  <2>2. loop'[f].result \in TaskStatus /\ loop'[f].handoff \in Spaces \cup {None}
    BY <1>5 DEF TaskStatus
  <2> QED BY <1>1, <1>5, <2>1, <2>2, LoopMovesType
<1>8. /\ \A i \in CallIds : call'[f][i] = IF i = next THEN "ended" ELSE call[f][i]
      /\ \A g \in Frames \ {f} : call'[g] = call[g]
      /\ call' \in [Frames -> [CallIds -> CallState]]
  <2>1. call' = [call EXCEPT ![f][next] = "ended"]
    BY DEF ExitSpace
  <2> QED BY <1>1, <1>3, <2>1 DEF CallState, Ended
<1>9. CallsOK(f)'
  <2>1. \A i \in CallIds : ~Active(f, i)
    BY <1>1, <1>2, NoneActive
  <2> QED BY <1>8, <2>1 DEF CallsOK, Active
<1>10. ResultOK(f)'
  <2>1. \A i \in CallIds : call[f][i] # "denied" /\ call'[f][i] \notin {"denied", "carried", "closing"}
    BY <1>1, <1>2, <1>8 DEF ResultOK
  <2>2. OnPurpose(f)'
    <3>1. next \in 1..(loop'[f].next - 1) /\ IsControl(f, loop'[f].turn[next])
      BY <1>2, <1>3, <1>5, <1>6 DEF Kind
    <3> QED BY <2>1, <3>1 DEF OnPurpose, Kind
  <2> QED BY <1>1, <1>2, <1>5, <1>6, <2>1, <2>2 DEF ResultOK
<1> QED BY <1>1, <1>2, <1>5, <1>7, <1>8, <1>9, <1>10, CallsKeep DEF LoopMoves, LoopBecomes

(* Approve, Deny, StartHandler, RejectCall and HandlerReturns: one call     *)
(* goes on or ends. *)
LEMMA CallStep ==
    ASSUME TurnInv, NEW f \in Frames, NEW i \in CallIds, CallSteps(f, i)
    PROVE  TurnInv'
<1>1. /\ LoopType /\ LocalsType(loop[f]) /\ CallsOK(f) /\ (f \in Spaces => ResultOK(f))
      /\ call \in [Frames -> [CallIds -> CallState]] /\ (f \in Spaces <=> f # Main)
  BY AgentTurnAssumption DEF TurnInv, TurnType, LoopType, FrameInv, ResultInv, Frames
<1>2. /\ Active(f, i) /\ UNCHANGED <<aborted, at, runtimeVars, task, lastDone, turns>>
  BY DEF CallSteps, Approve, Deny, StartHandler, RejectCall, HandlerReturns, Active
<1>3. /\ at[f] = "calls" /\ loop[f].first <= i /\ i < loop[f].next
      /\ f \in Spaces => loop[f].result = "none"
  BY <1>1, <1>2 DEF CallsOK
<1>4. PICK state \in {"ended", "denied", "started", "running"} :
         /\ call' = [call EXCEPT ![f][i] = state]
         /\ state = "denied" <=> Deny(f, i)
         /\ f = Main /\ call[f][i] = "running" => ~Dispatched(i)
  <2>1. CASE Deny(f, i)
    BY <2>1 DEF Deny
  <2>2. CASE Approve(f, i)
    BY <2>2 DEF Approve, Deny
  <2>3. CASE StartHandler(f, i) \/ RejectCall(f, i) \/ HandlerReturns(f, i)
    BY <2>3 DEF StartHandler, RejectCall, HandlerReturns, Deny
  <2> QED BY <2>1, <2>2, <2>3 DEF CallSteps
<1>5. /\ \A j \in CallIds : call'[f][j] = IF j = i THEN state ELSE call[f][j]
      /\ \A g \in Frames \ {f} : call'[g] = call[g]
      /\ call' \in [Frames -> [CallIds -> CallState]]
  BY <1>1, <1>4 DEF CallState, Ended
<1>6. /\ LoopMoves(f, {"files", "result", "spoke"}) /\ LoopType'
      /\ \/ state # "denied" /\ loop'[f].result = loop[f].result /\ loop'[f].spoke = loop[f].spoke
            /\ (loop[f].files => loop'[f].files)
         \/ f = Main
         \/ state = "denied" /\ loop'[f].result = "needs_approval" /\ loop'[f].spoke = TRUE
  <2>1. CASE UNCHANGED loop /\ (state # "denied" \/ f = Main)
    BY <1>1, <2>1 DEF LoopMoves, LoopBecomes, LoopType, LocalsType
  <2>2. CASE HandlerReturns(f, i)
    <3>1. PICK written \in BOOLEAN : loop' = [loop EXCEPT ![f].files = @ \/ written]
      BY <2>2 DEF HandlerReturns
    <3>2. LoopMoves(f, {"files"}) /\ loop'[f].files = (loop[f].files \/ written)
      BY <1>1, <3>1 DEF LoopMoves, LoopBecomes, LoopType, LocalsType, Locals
    <3>3. loop'[f].files \in BOOLEAN /\ (loop[f].files => loop'[f].files)
      BY <3>2
    <3>4. LoopType'
      BY <1>1, <3>2, <3>3, LoopMovesType
    <3>5. loop'[f].result = loop[f].result /\ loop'[f].spoke = loop[f].spoke
      BY <3>2, LocalsStay
    <3>6. state # "denied"
      BY <1>2, <1>4, <2>2 DEF HandlerReturns, Deny
    <3> QED BY <3>2, <3>3, <3>4, <3>5, <3>6 DEF LoopMoves, LoopBecomes
  <2>3. CASE Deny(f, i) /\ f # Main
    <3>1. loop' = [loop EXCEPT ![f].result = "needs_approval", ![f].spoke = TRUE]
      BY <2>3 DEF Deny
    <3>2. /\ LoopMoves(f, {"result", "spoke"}) /\ loop'[f].result = "needs_approval"
          /\ loop'[f].spoke = TRUE
      BY <1>1, <3>1 DEF LoopMoves, LoopBecomes, LoopType, LocalsType, Locals
    <3>3. loop'[f].result \in TaskStatus
      BY <3>2 DEF TaskStatus
    <3>4. LoopType'
      BY <1>1, <3>2, <3>3, LoopMovesType
    <3> QED BY <1>4, <2>3, <3>2, <3>4 DEF LoopMoves, LoopBecomes
  <2> QED BY <1>4, <2>1, <2>2, <2>3 DEF CallSteps, Approve, Deny, StartHandler, RejectCall
<1>7. /\ loop'[f].first = loop[f].first /\ loop'[f].turn = loop[f].turn
      /\ loop'[f].next = loop[f].next /\ loop'[f].closed = loop[f].closed
      /\ loop'[f].missingExit = loop[f].missingExit
      /\ loop'[f].hitToolLimit = loop[f].hitToolLimit
  BY <1>6, LocalsStay
<1>8. CallsOK(f)'
  <2> SUFFICES ASSUME NEW j \in CallIds, Active(f, j)'
               PROVE  /\ at'[f] = "calls" /\ loop'[f].first <= j /\ j < loop'[f].next
                      /\ loop'[f].turn[j] # "read" => loop'[f].first = j /\ loop'[f].next = j + 1
                      /\ call'[f][j] = "asking" => loop'[f].turn[j] = "write"
                      /\ f \in Spaces => loop'[f].result = "none"
    BY DEF CallsOK, Kind
  <2>1. Active(f, j) /\ (call'[f][j] = "asking" => call[f][j] = "asking")
    BY <1>2, <1>5 DEF Active
  <2>2. ASSUME f \in Spaces PROVE loop'[f].result = "none"
    <3>1. CASE state = "denied"
      <4>1. call[f][i] = "asking"
        BY <1>4, <3>1 DEF Deny
      <4>2. loop[f].first = i /\ loop[f].next = i + 1
        BY <1>1, <1>2, <4>1 DEF CallsOK
      <4>3. loop[f].first <= j /\ j < loop[f].next
        BY <1>1, <2>1 DEF CallsOK
      <4>4. i = j
        BY <4>2, <4>3, AgentTurnAssumption DEF CallIds
      <4> QED BY <1>5, <3>1, <4>4 DEF Active
    <3> QED BY <1>1, <1>3, <1>6, <2>2, <3>1
  <2> QED BY <1>1, <1>2, <1>7, <2>1, <2>2 DEF CallsOK, Kind
<1>9. f \in Spaces => ResultOK(f)'
  <2> SUFFICES ASSUME f \in Spaces PROVE ResultOK(f)'
    OBVIOUS
  <2>1. \A j \in CallIds : call[f][j] # "denied" /\ call'[f][j] \notin {"carried", "closing"}
                           /\ (call'[f][j] = "denied" => state = "denied")
    BY <1>1, <1>3, <1>5 DEF ResultOK
  <2>2. ~loop'[f].closed /\ (loop'[f].hitToolLimit \/ loop'[f].missingExit) /\ at'[f] = "calls"
    BY <1>1, <1>2, <1>3, <1>7 DEF ResultOK
  <2> QED BY <1>1, <1>3, <1>6, <2>1, <2>2 DEF ResultOK
<1>10. f = Main => \A j \in CallIds : Dispatched(j) /\ call[Main][j] = "running" =>
                      call'[Main][j] = "running" /\ loop'[Main].turn = loop[Main].turn
  BY <1>4, <1>5, <1>7
<1> QED BY <1>2, <1>3, <1>5, <1>6, <1>8, <1>9, <1>10, CallsKeep DEF LoopMoves, LoopBecomes

LEMMA AppendResultsStep ==
    ASSUME TurnInv, NEW f \in Frames, AppendResults(f)
    PROVE  TurnInv'
<1> DEFINE first == loop[f].first
           next == loop[f].next
           batch == [k \in 1..(next - first) |-> first + k - 1]
           carried == \E i \in ToSet(batch) : call[f][i] \in {"carried", "closing"}
           closes == \E i \in ToSet(batch) : call[f][i] = "closing"
           results == [k \in DOMAIN batch |-> ToolResult(batch[k], <<loop[f].called, batch[k]>>)]
           more == IF carried THEN Noted(loop[f].messages \o results) ELSE loop[f].messages \o results
<1>1. /\ LoopType /\ LocalsType(loop[f]) /\ CallsOK(f) /\ (f \in Spaces => ResultOK(f))
      /\ call \in [Frames -> [CallIds -> CallState]]
  BY DEF TurnInv, TurnType, LoopType, FrameInv, ResultInv
<1>2. /\ at[f] = "calls" /\ \A i \in ToSet(batch) : call[f][i] \in Ended
      /\ UNCHANGED <<aborted, at, runtimeVars, call, task, lastDone, turns>>
  BY DEF AppendResults
<1>3. ToSet(batch) = {batch[k] : k \in 1..(next - first)}
  BY DEF ToSet
<1>4. first \in Nat \ {0} /\ next \in Nat /\ first <= next
  BY <1>1 DEF LocalsType
<1>5. \A i \in CallIds : first <= i /\ i < next => i \in ToSet(batch)
  <2> SUFFICES ASSUME NEW i \in CallIds, first <= i, i < next PROVE i \in ToSet(batch)
    OBVIOUS
  <2>1. i \in Nat
    BY AgentTurnAssumption DEF CallIds
  <2>2. i - first + 1 \in 1..(next - first) /\ batch[i - first + 1] = i
    BY <1>4, <2>1
  <2> QED BY <1>3, <2>2
<1>6. \A i \in CallIds : ~Active(f, i)
  BY <1>1, <1>2, <1>5 DEF Active, CallsOK, Ended
<1>7. loop' = [loop EXCEPT ![f].messages = IF carried THEN Noted(@ \o results) ELSE @ \o results,
                           ![f].first = next, ![f].spoke = @ \/ carried, ![f].closed = closes]
  BY DEF AppendResults
<1>8. f \in Spaces => ~closes
  <2> SUFFICES ASSUME f \in Spaces, NEW i \in ToSet(batch) PROVE call[f][i] # "closing"
    OBVIOUS
  <2>1. CASE i \in CallIds
    BY <1>1, <2>1 DEF ResultOK
  <2>2. i \in CallIds
    <3>1. PICK k \in 1..(next - first) : i = first + k - 1
      BY <1>3
    <3>2. next <= MaxCalls + 1
      <4>1. next <= Len(loop[f].turn) + 1 /\ loop[f].turn \in Seq(Kinds)
            /\ Len(loop[f].turn) <= MaxCalls
        BY <1>1 DEF LocalsType
      <4> QED BY <1>4, <4>1, AgentTurnAssumption
    <3> QED BY <1>4, <3>1, <3>2, AgentTurnAssumption DEF CallIds
  <2> QED BY <2>1, <2>2
<1>9. carried \in BOOLEAN /\ closes \in BOOLEAN
  OBVIOUS
<1> HIDE DEF batch, results, carried, closes, first, next
<1>10. /\ LoopMoves(f, {"messages", "first", "spoke", "closed"})
       /\ loop'[f].first = next /\ loop'[f].spoke = (loop[f].spoke \/ carried)
       /\ loop'[f].closed = closes
  BY <1>1, <1>7 DEF LoopMoves, LoopBecomes, LoopType, LocalsType, Locals
<1>11. /\ loop'[f].next = next /\ loop'[f].turn = loop[f].turn
       /\ loop'[f].result = loop[f].result /\ loop'[f].files = loop[f].files
       /\ loop'[f].missingExit = loop[f].missingExit
       /\ loop'[f].hitToolLimit = loop[f].hitToolLimit
  BY <1>10, LocalsStay DEF next
<1>12. LoopType'
  <2>1. loop'[f].spoke \in BOOLEAN
    BY <1>10
  <2>2. /\ loop'[f].first \in Nat \ {0} /\ loop'[f].next \in Nat
        /\ loop'[f].first <= loop'[f].next
    BY <1>4, <1>10, <1>11
  <2>3. loop'[f].next <= Len(loop'[f].turn) + 1
    BY <1>1, <1>11 DEF LocalsType, next
  <2> QED BY <1>1, <1>9, <1>10, <2>1, <2>2, <2>3, LoopMovesType
<1>13. CallsOK(f)'
  BY <1>2, <1>6 DEF CallsOK, Active
<1>14. f \in Spaces => ResultOK(f)'
  <2> SUFFICES ASSUME f \in Spaces PROVE ResultOK(f)'
    OBVIOUS
  <2>1. (loop[f].spoke => loop'[f].spoke) /\ ~loop'[f].closed
    BY <1>8, <1>10
  <2>2. OnPurpose(f) => OnPurpose(f)'
    BY <1>2, <1>11, <2>1 DEF OnPurpose, Kind, next
  <2> QED BY <1>1, <1>2, <1>11, <2>1, <2>2 DEF ResultOK
<1> QED BY <1>1, <1>2, <1>10, <1>11, <1>12, <1>13, <1>14, CallsKeep DEF LoopMoves, LoopBecomes

LEMMA EndTurnStep ==
    ASSUME TurnInv, NEW f \in Frames, EndTurn(f)
    PROVE  TurnInv'
<1> DEFINE left == [loop[f] EXCEPT !.hitToolLimit = FALSE]
<1>1. /\ LoopType /\ LocalsType(loop[f]) /\ DOMAIN loop[f] = Locals
      /\ StatusOK(f) /\ CallsOK(f) /\ (f \in Spaces => ResultOK(f))
      /\ call \in [Frames -> [CallIds -> CallState]] /\ RuntimeType
  BY DEF TurnInv, TurnType, LoopType, LocalsType, FrameInv, ResultInv
<1>2. /\ at[f] = "calls" /\ loop[f].first = loop[f].next
      /\ UNCHANGED <<aborted, runtimeVars, call, task, lastDone, turns>>
  BY DEF EndTurn
<1>3. \A i \in CallIds : ~Active(f, i)
  BY <1>1, <1>2, NoneActive
<1>4. /\ DOMAIN left = Locals /\ left.hitToolLimit = FALSE
      /\ left.iteration = loop[f].iteration /\ left.toolSteps = loop[f].toolSteps
      /\ left.continueNudges = loop[f].continueNudges /\ left.exitNudges = loop[f].exitNudges
      /\ left.turn = loop[f].turn /\ left.first = loop[f].first /\ left.next = loop[f].next
      /\ left.spoke = loop[f].spoke /\ left.files = loop[f].files
      /\ left.closed = loop[f].closed /\ left.missingExit = loop[f].missingExit
      /\ left.result = loop[f].result /\ left.handoff = loop[f].handoff
  BY <1>1 DEF Locals
<1>5. LocalsType(left)
  BY <1>1, <1>4 DEF LocalsType
<1>6. \/ LeaveLoop(f, left) /\ (loop[f].result # "none" \/ loop[f].closed)
      \/ (NextIteration(f, loop[f]) \/ LeaveLoop(f, loop[f])) /\ loop[f].result = "none"
  BY DEF EndTurn
<1> HIDE DEF left
<1>7. PICK l \in {left, loop[f]} :
         /\ NextIteration(f, l) \/ LeaveLoop(f, l)
         /\ loop[f].result # "none" => LeaveLoop(f, l)
         /\ l = loop[f] \/ loop[f].result # "none" \/ loop[f].closed
  BY <1>6
<1>8. /\ LocalsType(l) /\ DOMAIN l = Locals /\ l.iteration = loop[f].iteration
      /\ l.turn = loop[f].turn /\ l.next = loop[f].next /\ l.spoke = loop[f].spoke
      /\ l.files = loop[f].files /\ l.closed = loop[f].closed
      /\ l.missingExit = loop[f].missingExit /\ l.result = loop[f].result
  BY <1>1, <1>4, <1>5
<1>9. PICK place \in {"model", "left", "wrapUp"} :
         /\ at' = [at EXCEPT ![f] = place]
         /\ LoopBecomes(f, l, {"messages", "iteration"})
         /\ loop'[f].iteration \in 0..(MaxToolIterations - 1)
         /\ f \in Spaces /\ loop[f].result # "none" => place = "left"
  <2>1. CASE LeaveLoop(f, l)
    <3>1. PICK place \in {"left", "wrapUp"} :
             at' = [at EXCEPT ![f] = place] /\ (place = "wrapUp" => ~l.spoke)
      BY <1>1, <1>8, <2>1, LoopIsLeft
    <3>2. LoopBecomes(f, l, {"messages"})
      BY <1>1, <1>8, <2>1, LoopIsLeft
    <3>3. loop'[f].iteration = l.iteration
      BY <3>2, LocalsBecome
    <3>4. loop'[f].iteration \in 0..(MaxToolIterations - 1)
      BY <1>8, <3>3 DEF LocalsType
    <3>5. LoopBecomes(f, l, {"messages", "iteration"})
      BY <3>2 DEF LoopBecomes
    <3>6. f \in Spaces /\ loop[f].result # "none" => place = "left"
      BY <1>1, <1>2, <1>8, <3>1 DEF ResultOK
    <3> QED BY <3>1, <3>4, <3>5, <3>6
  <2>2. CASE NextIteration(f, l) /\ loop[f].result = "none"
    BY <1>1, <1>8, <2>2, LoopGoesOn
  <2> QED BY <1>7, <2>1, <2>2
<1>10. LoopType'
  BY <1>1, <1>8, <1>9, LoopBecomesType
<1>11. /\ loop'[f].turn = loop[f].turn /\ loop'[f].next = loop[f].next
       /\ loop'[f].spoke = loop[f].spoke /\ loop'[f].files = loop[f].files
       /\ loop'[f].closed = loop[f].closed /\ loop'[f].missingExit = loop[f].missingExit
       /\ loop'[f].result = loop[f].result /\ loop'[f].hitToolLimit = l.hitToolLimit
  BY <1>8, <1>9, LocalsBecome
<1>12. /\ at' \in [Frames -> Place] /\ at'[f] = place /\ \A g \in Frames \ {f} : at'[g] = at[g]
  BY <1>1, <1>9 DEF RuntimeType, Place
<1>13. StatusOK(f)' /\ CallsOK(f)'
  BY <1>1, <1>2, <1>3, <1>12 DEF StatusOK, CallsOK, Active, runtimeVars
<1>14. f \in Spaces => ResultOK(f)'
  <2> SUFFICES ASSUME f \in Spaces PROVE ResultOK(f)'
    OBVIOUS
  <2>1. OnPurpose(f) => OnPurpose(f)'
    BY <1>2, <1>11 DEF OnPurpose, Kind
  <2>2. loop[f].result = "none" => loop'[f].hitToolLimit = loop[f].hitToolLimit
    BY <1>1, <1>7, <1>11 DEF ResultOK
  <2> QED BY <1>1, <1>2, <1>9, <1>11, <1>12, <2>1, <2>2 DEF ResultOK
<1>15. StepOf(f)
  BY <1>2, <1>9, <1>12 DEF StepOf, LoopBecomes, runtimeVars
<1>16. FrameInv' /\ ResultInv' /\ DispatchInv'
  BY <1>2, <1>3, <1>13, <1>14, <1>15, StepOfKeeps DEF TurnInv, Active
<1>17. TurnType'
  BY <1>1, <1>2, <1>10, <1>12 DEF TurnInv, TurnType, RuntimeType, runtimeVars
<1> QED BY <1>16, <1>17 DEF TurnInv

-----------------------------------------------------------------------------
(* The dispatches                                                           *)

(* The invariant of one frame. *)
FrameOK(f) == StatusOK(f) /\ CallsOK(f) /\ (f \in Spaces => ResultOK(f))

LEMMA FrameOKs == TurnInv <=> TurnType /\ DispatchInv /\ \A f \in Frames : FrameOK(f)
BY DEF TurnInv, FrameInv, ResultInv, FrameOK, Frames

LEMMA FrameStays ==
    ASSUME NEW f \in Frames, FrameOK(f), at'[f] = at[f], work'[f] = work[f], step'[f] = step[f],
           run'[f] = run[f], loop'[f] = loop[f], call'[f] = call[f]
    PROVE  FrameOK(f)'
BY DEF FrameOK, StatusOK, CallsOK, Active, Kind, ResultOK, OnPurpose, IsControl

(* A space is entered. *)
LEMMA FrameIsEntered ==
    ASSUME NEW s \in Spaces, FrameOK(s), at[s] = "idle", at'[s] = "created",
           work'[s] = work[s], step'[s] = step[s], loop'[s] = loop[s], call'[s] = call[s]
    PROVE  FrameOK(s)'
BY DEF FrameOK, StatusOK, CallsOK, Active, ResultOK, OnPurpose, Kind, IsControl

(* The run of a space is forgotten. *)
LEMMA FrameIsForgotten ==
    ASSUME NEW s \in Spaces, at'[s] = "idle", work'[s] = "none", step'[s] = "none",
           NEW messages, loop'[s] = FreshLoop(messages), call'[s] = NoCalls
    PROVE  FrameOK(s)'
<1>1. /\ loop'[s].result = "none" /\ loop'[s].closed = FALSE /\ loop'[s].hitToolLimit = TRUE
  BY DEF FreshLoop
<1>2. \A i \in CallIds : call'[s][i] = "none"
  BY DEF NoCalls
<1>3. StatusOK(s)'
  BY DEF StatusOK
<1>4. CallsOK(s)'
  BY <1>2 DEF CallsOK, Active
<1>5. ResultOK(s)'
  BY <1>1, <1>2 DEF ResultOK
<1> QED BY <1>3, <1>4, <1>5 DEF FrameOK

LEMMA FreshLoopType ==
    ASSUME NEW messages PROVE LocalsType(FreshLoop(messages))
<1> DEFINE l == FreshLoop(messages)
<1>1. /\ DOMAIN l = Locals /\ l.iteration = 0 /\ l.toolSteps = 0 /\ l.continueNudges = 0
      /\ l.exitNudges = 0 /\ l.turn = <<>> /\ l.first = 1 /\ l.next = 1
      /\ l.spoke = FALSE /\ l.files = FALSE /\ l.closed = FALSE /\ l.missingExit = FALSE
      /\ l.hitToolLimit = TRUE /\ l.result = "none" /\ l.handoff = None
  BY DEF FreshLoop, Locals
<1>2. <<>> \in Seq(Kinds) /\ Len(<<>>) = 0
  OBVIOUS
<1> HIDE DEF l
<1>3. LocalsType(l)
  <2>1. /\ l.iteration \in 0..(MaxToolIterations - 1) /\ l.toolSteps \in 0..MaxToolIterations
        /\ l.exitNudges \in 0..MaxExitNudges /\ l.continueNudges \in 0..MaxContinueNudges
    BY <1>1, AgentTurnAssumption
  <2>2. l.turn \in Seq(Kinds) /\ Len(l.turn) = 0 /\ Len(l.turn) <= MaxCalls
    BY <1>1, <1>2, AgentTurnAssumption
  <2>3. {l.spoke, l.files, l.closed, l.missingExit, l.hitToolLimit} \subseteq BOOLEAN
    BY <1>1
  <2>4. l.result \in TaskStatus /\ l.handoff \in Spaces \cup {None}
    BY <1>1 DEF TaskStatus
  <2> QED BY <1>1, <2>1, <2>2, <2>3, <2>4 DEF LocalsType
<1> QED BY <1>3 DEF l

(* Under a dispatch of main, main runs no other call. *)
LEMMA OneDispatch ==
    ASSUME TurnInv, NEW i \in CallIds, NEW j \in CallIds,
           call[Main][i] = "running", call[Main][j] = "running", Kind(Main, i) = "switch"
    PROVE  i = j
<1>1. CallsOK(Main) /\ Active(Main, i) /\ Active(Main, j)
  BY DEF TurnInv, FrameInv, Frames, Active
<1>2. loop[Main].first = i /\ loop[Main].next = i + 1 /\ loop[Main].first <= j /\ j < loop[Main].next
  BY <1>1 DEF CallsOK
<1> QED BY <1>2, AgentTurnAssumption DEF CallIds

LEMMA DispatchStep ==
    ASSUME TurnInv, NEW i \in CallIds, NEW s \in Spaces, Dispatch(i, s)
    PROVE  TurnInv'
<1> DEFINE newTask == [call |-> i, path |-> <<s>>, answered |-> FALSE]
<1>1. /\ TurnType /\ RuntimeType /\ LoopType /\ DOMAIN loop = Frames /\ task \in [Spaces -> Task]
      /\ DispatchInv /\ \A f \in Frames : FrameOK(f)
  BY FrameOKs DEF TurnInv, TurnType, LoopType
<1>2. /\ call[Main][i] = "running" /\ Kind(Main, i) = "switch" /\ ~Dispatched(i)
      /\ at[s] = "idle" /\ UNCHANGED <<aborted, call, lastDone, turns>>
  BY DEF Dispatch, IsDispatch
<1>3. Spaces \subseteq Frames /\ Main \notin Spaces /\ None \notin Frames
  BY AgentTurnAssumption DEF Frames
<1>4. \A t \in Spaces : at[t] = "idle"
  <2> SUFFICES ASSUME NEW t \in Spaces, at[t] # "idle" PROVE FALSE
    OBVIOUS
  <2>1. task[t].call \in CallIds /\ call[Main][task[t].call] = "running"
    BY <1>1 DEF DispatchInv
  <2>2. i = task[t].call
    BY <1>2, <2>1, OneDispatch
  <2> QED BY <1>2, <2>2 DEF Dispatched
<1>5. /\ at' = [at EXCEPT ![s] = "created"] /\ run' = [run EXCEPT ![s] = "working"]
      /\ task' = [task EXCEPT ![s] = newTask] /\ UNCHANGED <<work, step>>
      /\ DOMAIN loop' = Frames /\ \A f \in Frames : loop'[f] = loop[f]
  <2> DEFINE anew == newTask
  <2>1. Enter(s, anew, None)
    BY DEF Dispatch
  <2> HIDE DEF anew
  <2>2. at' = [at EXCEPT ![s] = "created"] /\ run' = [run EXCEPT ![s] = "working"]
    BY ZenonT(40), <1>1, <1>3, <2>1 DEF Enter, RuntimeType
  <2>3. task' = [task EXCEPT ![s] = anew]
    BY <1>1, <1>3, <2>1 DEF Enter
  <2>4. UNCHANGED <<work, step>> /\ DOMAIN loop' = Frames /\ \A f \in Frames : loop'[f] = loop[f]
    BY <1>1, <1>3, <2>1 DEF Enter, Forget, RuntimeType
  <2> QED BY <2>2, <2>3, <2>4 DEF anew
<1>6. newTask.call = i /\ newTask.path = <<s>> /\ newTask \in Task
  BY AgentTurnAssumption DEF Task, CallIds
<1> HIDE DEF newTask
<1>7. TurnType'
  <2>1. RuntimeType'
    BY <1>1, <1>5 DEF RuntimeType, Place
  <2>2. LoopType'
    BY <1>1, <1>5 DEF LoopType, LocalsType
  <2>3. task' \in [Spaces -> Task]
    BY <1>1, <1>5, <1>6
  <2> QED BY <1>1, <1>2, <2>1, <2>2, <2>3 DEF TurnType
<1>8. \A f \in Frames : FrameOK(f)'
  <2> SUFFICES ASSUME NEW f \in Frames PROVE FrameOK(f)'
    OBVIOUS
  <2>1. CASE f = s
    BY <1>1, <1>2, <1>3, <1>5, <2>1, FrameIsEntered DEF RuntimeType
  <2>2. CASE f # s
    BY <1>1, <1>2, <1>5, <2>2, FrameStays DEF RuntimeType
  <2> QED BY <2>1, <2>2
<1>9. DispatchInv'
  <2>1. \A t \in Spaces : at'[t] # "idle" => t = s
    BY <1>1, <1>3, <1>4, <1>5 DEF RuntimeType
  <2>2. task'[s].call = i /\ task'[s].path = <<s>>
    BY <1>1, <1>5, <1>6
  <2>3. call'[Main][i] = "running" /\ Kind(Main, i)' = "switch"
    BY <1>2, <1>5 DEF Kind, Frames
  <2>4. s \in ToSet(<<s>>) /\ IsInjective(<<s>>)
    BY DEF ToSet, IsInjective
  <2> QED BY <2>1, <2>2, <2>3, <2>4 DEF DispatchInv
<1> QED BY <1>7, <1>8, <1>9, FrameOKs DEF TurnInv, FrameInv, ResultInv, FrameOK, Frames

LEMMA DispatchAgainStep ==
    ASSUME TurnInv, NEW i \in CallIds, DispatchAgain(i)
    PROVE  TurnInv'
<1>1. /\ Main \in Frames /\ Main \notin Spaces /\ LoopType /\ CallsOK(Main)
      /\ call \in [Frames -> [CallIds -> CallState]]
  BY AgentTurnAssumption DEF TurnInv, TurnType, FrameInv, Frames
<1>2. PICK state \in {"ended", "carried"} : call' = [call EXCEPT ![Main][i] = state]
  BY DEF DispatchAgain
<1>3. /\ call[Main][i] = "running" /\ ~Dispatched(i)
      /\ UNCHANGED <<aborted, at, runtimeVars, loop, task, lastDone, turns>>
  BY DEF DispatchAgain, IsDispatch
<1>4. at[Main] = "calls"
  BY <1>1, <1>3 DEF CallsOK, Active
<1>5. /\ \A j \in CallIds : call'[Main][j] = IF j = i THEN state ELSE call[Main][j]
      /\ \A g \in Frames \ {Main} : call'[g] = call[g]
      /\ call' \in [Frames -> [CallIds -> CallState]]
  BY <1>1, <1>2 DEF CallState, Ended
<1>6. CallsOK(Main)'
  BY <1>1, <1>3, <1>5 DEF CallsOK, Active, Kind
<1>7. LoopType'
  BY <1>1, <1>3 DEF LoopType
<1> QED BY <1>1, <1>3, <1>4, <1>5, <1>6, <1>7, CallsKeep

LEMMA FollowHandoffStep ==
    ASSUME TurnInv, NEW s \in Spaces, FollowHandoff(s)
    PROVE  TurnInv'
<1> DEFINE target == loop[s].handoff
           newTask == [task[s] EXCEPT !.path = Append(@, target), !.answered = Answered(s)]
<1>1. /\ TurnType /\ RuntimeType /\ LoopType /\ DOMAIN loop = Frames /\ task \in [Spaces -> Task]
      /\ DispatchInv /\ \A f \in Frames : FrameOK(f)
      /\ call \in [Frames -> [CallIds -> CallState]]
  BY FrameOKs DEF TurnInv, TurnType, LoopType
<1>2. Spaces \subseteq Frames /\ Main \notin Spaces /\ Main \in Frames
  BY AgentTurnAssumption DEF Frames
<1>3. /\ at[s] = "ended" /\ target # None /\ target \notin ToSet(task[s].path)
      /\ call' = [call EXCEPT ![s] = NoCalls] /\ UNCHANGED <<aborted, lastDone, turns>>
      /\ Enter(target, newTask, s)
  BY DEF FollowHandoff, FollowsHandoff
<1>4. target \in Spaces
  BY <1>1, <1>2, <1>3 DEF LoopType, LocalsType
<1>5. /\ task[s].call \in CallIds /\ call[Main][task[s].call] = "running"
      /\ Kind(Main, task[s].call) = "switch"
      /\ s \in ToSet(task[s].path) /\ IsInjective(task[s].path)
      /\ task[s].path \in Seq(Spaces)
  BY <1>1, <1>3 DEF DispatchInv, Task
<1>6. target # s /\ at[target] = "idle" /\ \A t \in Spaces : t # s => at[t] = "idle"
  BY <1>1, <1>3, <1>4, <1>5 DEF DispatchInv
<1>7. /\ newTask.call = task[s].call /\ newTask.path = Append(task[s].path, target)
      /\ newTask \in Task
  <2>1. Answered(s) \in BOOLEAN
    BY <1>1 DEF Answered, Task
  <2>2. task[s] \in Task
    BY <1>1
  <2>3. Append(task[s].path, target) \in Seq(Spaces)
    BY <1>4, <1>5
  <2> HIDE DEF target
  <2> QED BY <2>1, <2>2, <2>3 DEF Task
<1>8. NoTask \in Task
  BY AgentTurnAssumption DEF NoTask, Task
<1> HIDE DEF newTask, target
<1>9. /\ DOMAIN at' = Frames
      /\ \A f \in Frames : /\ at'[f] = IF f = target THEN "created" ELSE IF f = s THEN "idle" ELSE at[f]
                           /\ work'[f] = IF f = s THEN "none" ELSE work[f]
                           /\ step'[f] = IF f = s THEN "none" ELSE step[f]
                           /\ loop'[f] = IF f = s THEN FreshLoop(<<User>>) ELSE loop[f]
                           /\ call'[f] = IF f = s THEN NoCalls ELSE call[f]
                           /\ f \notin {target, s} => run'[f] = run[f]
      /\ \A t \in Spaces : task'[t] = IF t = target THEN newTask ELSE IF t = s THEN NoTask ELSE task[t]
  BY <1>1, <1>2, <1>3 DEF Enter, Forget
<1>10. TurnType'
  <2>1. RuntimeType'
    BY <1>1, <1>3 DEF RuntimeType, Place, Enter, Forget
  <2>2. LoopType'
    <3>1. DOMAIN loop' = Frames
      BY <1>3 DEF Enter, Forget
    <3>2. \A f \in Frames : LocalsType(loop'[f])
      BY <1>1, <1>9, FreshLoopType DEF LoopType
    <3> QED BY <3>1, <3>2 DEF LoopType, LocalsType
  <2>3. task' \in [Spaces -> Task]
    BY <1>1, <1>3, <1>7, <1>8 DEF Enter
  <2>4. call' \in [Frames -> [CallIds -> CallState]]
    BY <1>1, <1>3 DEF NoCalls, CallState
  <2> QED BY <1>1, <1>3, <2>1, <2>2, <2>3, <2>4 DEF TurnType
<1>11. \A f \in Frames : FrameOK(f)'
  <2> SUFFICES ASSUME NEW f \in Frames PROVE FrameOK(f)'
    OBVIOUS
  <2>1. CASE f = target
    BY <1>1, <1>2, <1>4, <1>6, <1>9, <2>1, FrameIsEntered
  <2>2. CASE f = s
    BY <1>2, <1>6, <1>9, <2>2, FrameIsForgotten
  <2>3. CASE f \notin {target, s}
    BY <1>1, <1>9, <2>3, FrameStays
  <2> QED BY <2>1, <2>2, <2>3
<1>12. DispatchInv'
  <2>1. \A t \in Spaces : at'[t] # "idle" => t = target
    BY <1>2, <1>6, <1>9
  <2>2. task'[target].call = task[s].call /\ task'[target].path = Append(task[s].path, target)
    BY <1>4, <1>7, <1>9
  <2>3. call'[Main][task[s].call] = "running" /\ loop'[Main].turn[task[s].call] = "switch"
    BY <1>2, <1>5, <1>9 DEF Kind
  <2>4. target \in ToSet(Append(task[s].path, target)) /\ IsInjective(Append(task[s].path, target))
    <3> DEFINE p == task[s].path
    <3>1. /\ p \in Seq(Spaces) /\ \A k \in DOMAIN p : p[k] # target
          /\ \A k, l \in DOMAIN p : p[k] = p[l] => k = l
      BY <1>3, <1>5 DEF ToSet, IsInjective
    <3> HIDE DEF p
    <3>2. /\ DOMAIN Append(p, target) = 1..(Len(p) + 1) /\ Append(p, target)[Len(p) + 1] = target
          /\ \A k \in 1..Len(p) : Append(p, target)[k] = p[k]
          /\ DOMAIN p = 1..Len(p) /\ Len(p) \in Nat
      BY <1>4, <3>1
    <3>3. target \in ToSet(Append(p, target))
      BY <3>2 DEF ToSet
    <3>4. ASSUME NEW k \in DOMAIN Append(p, target), NEW l \in DOMAIN Append(p, target),
                 Append(p, target)[k] = Append(p, target)[l]
          PROVE  k = l
      <4>1. k \in 1..Len(p) \/ k = Len(p) + 1
        BY <3>2, <3>4
      <4>2. l \in 1..Len(p) \/ l = Len(p) + 1
        BY <3>2, <3>4
      <4> QED BY <3>1, <3>2, <3>4, <4>1, <4>2
    <3>5. IsInjective(Append(p, target))
      BY <3>4 DEF IsInjective
    <3> QED BY <3>3, <3>5 DEF p
  <2> QED BY <1>5, <2>1, <2>2, <2>3, <2>4 DEF DispatchInv, Kind
<1> QED BY <1>10, <1>11, <1>12, FrameOKs DEF TurnInv, FrameInv, ResultInv, FrameOK, Frames

LEMMA EndDispatchStep ==
    ASSUME TurnInv, NEW s \in Spaces, EndDispatch(s)
    PROVE  TurnInv'
<1> DEFINE c == task[s].call
<1>1. /\ TurnType /\ RuntimeType /\ LoopType /\ DOMAIN loop = Frames /\ task \in [Spaces -> Task]
      /\ DispatchInv /\ \A f \in Frames : FrameOK(f)
      /\ call \in [Frames -> [CallIds -> CallState]]
  BY FrameOKs DEF TurnInv, TurnType, LoopType
<1>2. Spaces \subseteq Frames /\ Main \notin Spaces /\ Main \in Frames /\ s # Main
  BY AgentTurnAssumption DEF Frames
<1>3. PICK outcome \in {"ended", "carried", "closing"} :
         call' = [call EXCEPT ![s] = NoCalls, ![Main][c] = outcome]
  BY DEF EndDispatch
<1>4. /\ at[s] = "ended" /\ lastDone' \in {s, None}
      /\ at' = [at EXCEPT ![s] = "idle"] /\ run' = [run EXCEPT ![s] = "none"]
      /\ task' = [task EXCEPT ![s] = NoTask] /\ Forget(s) /\ UNCHANGED <<aborted, turns>>
  BY DEF EndDispatch
<1>5. c \in CallIds /\ call[Main][c] = "running" /\ \A t \in Spaces : t # s => at[t] = "idle"
  BY <1>1, <1>4 DEF DispatchInv
<1> HIDE DEF c
<1>6. /\ \A i \in CallIds : call'[Main][i] = IF i = c THEN outcome ELSE call[Main][i]
      /\ \A f \in Frames \ {Main} : call'[f] = IF f = s THEN NoCalls ELSE call[f]
      /\ call' \in [Frames -> [CallIds -> CallState]]
  <2>1. NoCalls \in [CallIds -> CallState] /\ outcome \in CallState
    BY DEF NoCalls, CallState, Ended
  <2> QED BY <1>1, <1>2, <1>3, <1>5, <2>1
<1>7. \A f \in Frames : /\ work'[f] = IF f = s THEN "none" ELSE work[f]
                        /\ step'[f] = IF f = s THEN "none" ELSE step[f]
                        /\ loop'[f] = IF f = s THEN FreshLoop(<<User>>) ELSE loop[f]
                        /\ at'[f] = IF f = s THEN "idle" ELSE at[f]
                        /\ f # s => run'[f] = run[f]
  BY <1>1, <1>4 DEF Forget, RuntimeType
<1>8. TurnType'
  <2>1. RuntimeType'
    BY <1>1, <1>4 DEF RuntimeType, Place, Forget
  <2>2. LoopType'
    <3>1. DOMAIN loop' = Frames
      BY <1>4 DEF Forget
    <3>2. \A f \in Frames : LocalsType(loop'[f])
      BY <1>1, <1>7, FreshLoopType DEF LoopType
    <3> QED BY <3>1, <3>2 DEF LoopType, LocalsType
  <2>3. task' \in [Spaces -> Task]
    <3>1. NoTask \in Task
      BY AgentTurnAssumption DEF NoTask, Task
    <3> QED BY <1>1, <1>4, <3>1
  <2> QED BY <1>1, <1>4, <1>6, <2>1, <2>2, <2>3 DEF TurnType
<1>9. \A f \in Frames : FrameOK(f)'
  <2> SUFFICES ASSUME NEW f \in Frames PROVE FrameOK(f)'
    OBVIOUS
  <2>1. CASE f = Main
    <3>1. StatusOK(Main) /\ CallsOK(Main)
      BY <1>1, <1>2 DEF FrameOK
    <3>2. StatusOK(Main)'
      BY <1>2, <1>7, <3>1 DEF StatusOK
    <3>3. CallsOK(Main)'
      BY <1>2, <1>3, <1>6, <1>7, <3>1 DEF CallsOK, Active, Kind
    <3> QED BY <1>2, <2>1, <3>2, <3>3 DEF FrameOK
  <2>2. CASE f = s
    BY <1>2, <1>6, <1>7, <2>2, FrameIsForgotten
  <2>3. CASE f # Main /\ f # s
    BY <1>1, <1>6, <1>7, <2>3, FrameStays
  <2> QED BY <2>1, <2>2, <2>3
<1>10. DispatchInv'
  BY <1>2, <1>5, <1>7 DEF DispatchInv
<1> QED BY <1>8, <1>9, <1>10, FrameOKs DEF TurnInv, FrameInv, ResultInv, FrameOK, Frames

-----------------------------------------------------------------------------
(* The invariant                                                            *)

(* The reply starts with main alone, before its first step. *)
LEMMA TurnInit == Init => TurnInv
<1> SUFFICES ASSUME Init PROVE TurnInv
  OBVIOUS
<1>1. Main \in Frames /\ Main \notin Spaces /\ Spaces \subseteq Frames
  BY AgentTurnAssumption DEF Frames
<1>2. /\ \A s \in Spaces : at[s] = "idle" /\ task[s] = NoTask
      /\ \A f \in Frames : /\ at[f] \in {"idle", "created"} /\ work[f] = "none" /\ step[f] = "none"
                           /\ call[f] = NoCalls
                           /\ \E messages : loop[f] = FreshLoop(messages)
  BY <1>1 DEF Init
<1>3. TurnType
  <2>1. RuntimeType
    BY <1>1 DEF Init, RuntimeType, Place
  <2>2. LoopType
    BY <1>2, FreshLoopType DEF LoopType, Init
  <2>3. task \in [Spaces -> Task]
    BY AgentTurnAssumption DEF Init, NoTask, Task
  <2>4. call \in [Frames -> [CallIds -> CallState]]
    BY DEF Init, NoCalls, CallState
  <2>5. aborted \in BOOLEAN /\ lastDone \in Spaces \cup {None} /\ turns \in 0..MaxTurns
    <3>1. aborted = FALSE /\ lastDone = None /\ turns = 0
      BY DEF Init
    <3>2. aborted \in BOOLEAN
      BY <3>1
    <3>3. lastDone \in Spaces \cup {None} /\ turns \in 0..MaxTurns
      BY <3>1, AgentTurnAssumption
    <3> QED BY <3>2, <3>3
  <2> QED BY <2>1, <2>2, <2>3, <2>4, <2>5 DEF TurnType
<1>4. \A f \in Frames : FrameOK(f)
  <2> SUFFICES ASSUME NEW f \in Frames PROVE FrameOK(f)
    OBVIOUS
  <2>1. \A i \in CallIds : call[f][i] = "none"
    BY <1>2 DEF NoCalls
  <2>2. loop[f].result = "none" /\ loop[f].closed = FALSE /\ loop[f].hitToolLimit = TRUE
    <3>1. PICK messages : loop[f] = FreshLoop(messages)
      BY <1>2
    <3> QED BY <3>1 DEF FreshLoop
  <2>3. StatusOK(f)
    BY <1>2 DEF StatusOK
  <2>4. CallsOK(f)
    BY <2>1 DEF CallsOK, Active
  <2>5. f \in Spaces => ResultOK(f)
    BY <2>1, <2>2 DEF ResultOK
  <2> QED BY <2>3, <2>4, <2>5 DEF FrameOK
<1>5. DispatchInv
  BY <1>2 DEF DispatchInv
<1> QED BY <1>3, <1>4, <1>5, FrameOKs

(* The abort signal moves nothing by itself. *)
LEMMA NothingMoves ==
    ASSUME TurnInv, aborted' \in BOOLEAN,
           UNCHANGED <<at, run, work, step, loop, call, task, lastDone, turns>>
    PROVE  TurnInv'
<1>1. \A f \in Frames : FrameOK(f)'
  BY FrameOKs, FrameStays
<1>2. TurnType'
  BY DEF TurnInv, TurnType, RuntimeType, LoopType
<1>3. DispatchInv'
  BY DEF TurnInv, DispatchInv, Kind
<1> QED BY <1>1, <1>2, <1>3 DEF TurnInv, FrameInv, ResultInv, FrameOK, Frames

(* Every step of the reply keeps the invariant. *)
LEMMA TurnNext == TurnInv /\ [Next]_vars => TurnInv'
<1> SUFFICES ASSUME TurnInv, [Next]_vars PROVE TurnInv'
  OBVIOUS
<1>1. CASE Abort
  BY <1>1, NothingMoves DEF Abort, runtimeVars
<1>2. CASE UNCHANGED vars \/ ReplyEnded
  <2>1. aborted' \in BOOLEAN /\ UNCHANGED <<at, run, work, step, loop, call, task, lastDone, turns>>
    BY <1>2 DEF ReplyEnded, vars, TurnInv, TurnType
  <2> QED BY <2>1, NothingMoves
<1>3. ASSUME NEW f \in Frames, Runtime(f) \/ Model(f) \/ Calls(f) PROVE TurnInv'
  BY <1>3, RuntimeStep, ModelStep, ExecuteCallsStep, ExitSpaceStep, AppendResultsStep, EndTurnStep
     DEF Calls
<1>4. ASSUME NEW f \in Frames, NEW i \in CallIds, CallSteps(f, i) PROVE TurnInv'
  BY <1>4, CallStep
<1>5. CASE Dispatches
  BY <1>5, DispatchStep, DispatchAgainStep, FollowHandoffStep, EndDispatchStep DEF Dispatches
<1> QED BY <1>1, <1>2, <1>3, <1>4, <1>5 DEF Next

(* The invariant holds in every state of a reply. *)
THEOREM TurnInvariant == Spec => []TurnInv
BY TurnInit, TurnNext, PTL DEF Spec

(* Work spaces run serially: at most one is entered at a time, it runs      *)
(* under a call of main that has not returned while main itself waits, and  *)
(* the chain of handoffs that led to it (followWorkspaceHandoffs) names no  *)
(* space twice. *)
THEOREM OneSpaceAtATimeHolds == Spec => []OneSpaceAtATime
<1>1. TurnInv => OneSpaceAtATime
  <2> SUFFICES ASSUME TurnInv PROVE OneSpaceAtATime
    OBVIOUS
  <2>1. DispatchInv /\ CallsOK(Main)
    BY DEF TurnInv, FrameInv, Frames
  <2>2. ASSUME NEW s \in Spaces, at[s] # "idle"
        PROVE  call[Main][task[s].call] = "running" /\ at[Main] = "calls" /\ IsInjective(task[s].path)
    <3>1. task[s].call \in CallIds /\ call[Main][task[s].call] = "running" /\ IsInjective(task[s].path)
      BY <2>1, <2>2 DEF DispatchInv
    <3> QED BY <2>1, <3>1 DEF CallsOK, Active
  <2> QED BY <2>1, <2>2 DEF OneSpaceAtATime, DispatchInv
<1> QED BY <1>1, TurnInvariant, PTL

(* AgentRuntime.run() returns only when the work, the step and the tool     *)
(* calls inside it are over, in whatever order the abort, the answers and   *)
(* the parallel calls came; and every variable has a value of its type. *)
THEOREM RunsEndInsideOutHolds == Spec => []RunsEndInsideOut
<1>1. TurnInv => RunsEndInsideOut
  <2> SUFFICES ASSUME TurnInv PROVE RunsEndInsideOut
    OBVIOUS
  <2>1. /\ TurnType /\ RuntimeType /\ LoopType /\ \A f \in Frames : StatusOK(f) /\ CallsOK(f)
        /\ call \in [Frames -> [CallIds -> CallState]]
    BY DEF TurnInv, TurnType, FrameInv
  <2>2. TypeOK
    <3>1. ASSUME NEW f \in Frames
          PROVE  /\ loop[f].iteration \in 0..MaxToolIterations
                 /\ loop[f].toolSteps \in 0..MaxToolIterations
                 /\ loop[f].exitNudges \in 0..MaxExitNudges
                 /\ loop[f].continueNudges \in 0..MaxContinueNudges
                 /\ loop[f].first <= loop[f].next
                 /\ loop[f].next <= Len(loop[f].turn) + 1
                 /\ loop[f].result \in TaskStatus
                 /\ loop[f].handoff \in Spaces \cup {None}
      <4>1. LocalsType(loop[f])
        BY <2>1 DEF LoopType
      <4> QED BY <4>1, AgentTurnAssumption DEF LocalsType
    <3>2. ASSUME NEW s \in Spaces
          PROVE  /\ task[s].call \in 0..MaxCalls /\ ToSet(task[s].path) \subseteq Spaces
                 /\ task[s].answered \in BOOLEAN
      <4>1. /\ task[s].call \in 0..MaxCalls /\ task[s].path \in Seq(Spaces)
            /\ task[s].answered \in BOOLEAN
        BY <2>1 DEF TurnType, Task
      <4> QED BY <4>1 DEF ToSet
    <3> QED BY <2>1, <3>1, <3>2 DEF TypeOK, TurnType, RuntimeType
  <2>3. ASSUME NEW f \in Frames, at[f] = "ended"
        PROVE  /\ run[f] # "working" /\ work[f] # "queued" /\ step[f] # "active"
               /\ \A i \in CallIds : call[f][i] \in {"none"} \cup Ended
    <3>1. StatusOK(f) /\ CallsOK(f)
      BY <2>1
    <3>2. \A i \in CallIds : ~Active(f, i) /\ call[f][i] \in CallState
      BY <2>1, <2>3, <3>1 DEF CallsOK
    <3> QED BY <2>3, <3>1, <3>2 DEF StatusOK, Active, CallState
  <2> QED BY <2>2, <2>3 DEF RunsEndInsideOut
<1> QED BY <1>1, TurnInvariant, PTL

(* buildTaskResult(): a task counts as completed only if its space said so  *)
(* with a control call, with no call of that turn denied, or if it wrote    *)
(* files and gave an answer. *)
THEOREM CompletedOnPurposeHolds == Spec => []CompletedOnPurpose
<1>1. TurnInv => CompletedOnPurpose
  BY DEF TurnInv, ResultInv, ResultOK, OnPurpose, CompletedOnPurpose, WorkspaceStatus
<1> QED BY <1>1, TurnInvariant, PTL

-----------------------------------------------------------------------------
(* What a step may never do                                                 *)

(* A call waits or executes only if it did so before, or if it is taken up  *)
(* now, before the exit of its space; and no handler starts after the       *)
(* abort. *)
LEMMA CallGoesOn ==
    ASSUME TurnInv, [Next]_vars, NEW f \in Frames, NEW i \in CallIds,
           call'[f][i] # call[f][i], call'[f][i] \in {"asking", "started", "running"}
    PROVE  /\ Active(f, i) \/ loop[f].result = "none"
           /\ call'[f][i] = "running" => ~aborted
<1>1. call \in [Frames -> [CallIds -> CallState]] /\ call' # call
      /\ Main \in Frames /\ Spaces \subseteq Frames /\ Main \notin Spaces
  BY AgentTurnAssumption DEF TurnInv, TurnType, Frames
<1>2. ~UNCHANGED call
  BY <1>1
<1>3. ASSUME NEW g \in Frames, Model(g) PROVE FALSE
  <2>1. UNCHANGED call \/ call' = [call EXCEPT ![g] = NoCalls]
    BY <1>3 DEF Model, ModelCalls, ModelIsNudged, ModelForgetsExit, ModelStops, WrapUp, ModelFails
  <2> QED BY <1>1, <2>1 DEF NoCalls
<1>4. ASSUME NEW g \in Frames, Calls(g)
      PROVE  loop[f].result = "none" /\ call'[f][i] # "running"
  <2>1. CASE ExecuteCalls(g)
    <3>1. call' = [call EXCEPT ![g] = [k \in CallIds |->
                      IF k \in Batch(g) THEN FirstState(g, Kind(g, k)) ELSE @[k]]]
      BY <2>1 DEF ExecuteCalls
    <3>2. f = g /\ call'[f][i] = FirstState(f, Kind(f, i))
      BY <1>1, <3>1
    <3> QED BY <3>2 DEF FirstState
  <2>2. CASE ExitSpace(g)
    <3>1. call' = [call EXCEPT ![g][loop[g].next] = "ended"]
      BY <2>2 DEF ExitSpace
    <3> QED BY <1>1, <3>1
  <2> QED BY <1>2, <1>4, <2>1, <2>2 DEF Calls, AppendResults, EndTurn
<1>5. ASSUME NEW g \in Frames, NEW k \in CallIds, CallSteps(g, k)
      PROVE  Active(f, i) /\ (call'[f][i] = "running" => ~aborted)
  <2>1. PICK state \in {"ended", "denied", "started", "running"} :
           /\ call' = [call EXCEPT ![g][k] = state] /\ Active(g, k)
           /\ state = "running" => ~aborted
    <3>1. CASE Approve(g, k)
      BY <3>1 DEF Approve, Active
    <3>2. CASE StartHandler(g, k)
      BY <3>2 DEF StartHandler, Active
    <3>3. CASE Deny(g, k) \/ RejectCall(g, k) \/ HandlerReturns(g, k)
      BY <3>3 DEF Deny, RejectCall, HandlerReturns, Active
    <3> QED BY <1>5, <3>1, <3>2, <3>3 DEF CallSteps
  <2>2. f = g /\ i = k /\ call'[f][i] = state
    BY <1>1, <2>1
  <2> QED BY <2>1, <2>2
<1>6. ASSUME Dispatches PROVE FALSE
  <2>1. ASSUME NEW k \in CallIds, DispatchAgain(k) PROVE FALSE
    <3>1. PICK state \in {"ended", "carried"} : call' = [call EXCEPT ![Main][k] = state]
      BY <2>1 DEF DispatchAgain
    <3> QED BY <1>1, <3>1
  <2>2. ASSUME NEW s \in Spaces, FollowHandoff(s) PROVE FALSE
    <3>1. call' = [call EXCEPT ![s] = NoCalls]
      BY <2>2 DEF FollowHandoff
    <3> QED BY <1>1, <3>1 DEF NoCalls
  <2>3. ASSUME NEW s \in Spaces, EndDispatch(s) PROVE FALSE
    <3>1. PICK outcome \in {"ended", "carried", "closing"} :
             call' = [call EXCEPT ![s] = NoCalls, ![Main][task[s].call] = outcome]
      BY <2>3 DEF EndDispatch
    <3> QED BY <1>1, <3>1 DEF NoCalls
  <2> QED BY <1>2, <1>6, <2>1, <2>2, <2>3 DEF Dispatches, Dispatch
<1>7. ASSUME NEW g \in Frames, Runtime(g) PROVE FALSE
  BY <1>2, <1>7 DEF Runtime, StartRun, StartStep, EnterSpace, EndStep, EndWork, EndRun
<1> QED BY <1>2, <1>3, <1>4, <1>5, <1>6, <1>7 DEF Next, Abort, ReplyEnded, vars

(* After the exit of a work space - a control call or a denial - the calls  *)
(* that follow in the turn are answered but never executed. *)
THEOREM NoHandlerAfterExitHolds == Spec => NoHandlerAfterExit
<1>1. ASSUME TurnInv, [Next]_vars, NEW s \in Spaces, NEW i \in CallIds,
             loop[s].result # "none", call'[s][i] # call[s][i]
      PROVE  call'[s][i] \notin {"asking", "started", "running"}
  <2>1. s \in Frames /\ CallsOK(s)
    BY <1>1 DEF TurnInv, FrameInv, Frames
  <2>2. ~Active(s, i)
    BY <1>1, <2>1 DEF CallsOK
  <2> QED BY <1>1, <2>1, <2>2, CallGoesOn
<1>2. TurnInv /\ [Next]_vars =>
         [\A s \in Spaces, i \in CallIds :
             loop[s].result # "none" /\ at[s] = "calls" /\ call'[s][i] # call[s][i] =>
                call'[s][i] \notin {"asking", "started", "running"}]_vars
  BY <1>1
<1> QED BY <1>2, TurnInvariant, PTL DEF Spec, NoHandlerAfterExit

(* After the abort, of frame f. *)
Stopped(f) ==
    /\ \A i \in CallIds : call'[f][i] = "running" => call[f][i] = "running"
    /\ at'[f] \in {"entering", "model"} => at[f] = at'[f] \/ at[f] = "calls"
    /\ loop'[f].turn # loop[f].turn => loop'[f].turn = <<>>
    /\ step'[f] = "exited" => step[f] = "exited"

LEMMA StepIsStopped ==
    ASSUME TurnInv, [Next]_vars, aborted, NEW f \in Frames
    PROVE  Stopped(f)
<1>1. /\ RuntimeType /\ DOMAIN loop = Frames /\ Main \in Frames /\ Spaces \subseteq Frames
      /\ \A g \in Frames : LocalsType(loop[g]) /\ DOMAIN loop[g] = Locals
  BY DEF TurnInv, TurnType, LoopType, LocalsType, Frames
<1>2. \A i \in CallIds : call'[f][i] = "running" => call[f][i] = "running"
  BY CallGoesOn
<1>3. SUFFICES /\ at'[f] \in {"entering", "model"} => at[f] = at'[f] \/ at[f] = "calls"
               /\ loop'[f].turn # loop[f].turn => loop'[f].turn = <<>>
               /\ step'[f] = "exited" => step[f] = "exited"
  BY <1>2 DEF Stopped
<1>4. CASE UNCHANGED <<at, loop, step>>
  BY <1>4
<1>5. ASSUME NEW g \in Frames, Runtime(g)
      PROVE  /\ at'[f] \in {"entering", "model"} => at[f] = at'[f] \/ at[f] = "calls"
             /\ loop'[f].turn = loop[f].turn
             /\ step'[f] = "exited" => step[f] = "exited"
  <2>1. CASE EndStep(g)
    <3>1. at' = [at EXCEPT ![g] = "stepEnded"]
      BY <2>1 DEF EndStep
    <3>2. UNCHANGED loop \/ \E status \in FallbackResult(loop[g]) : loop' = [loop EXCEPT ![g].result = status]
      BY <2>1 DEF EndStep
    <3>3. loop'[f].turn = loop[f].turn
      BY <1>1, <3>2 DEF Locals
    <3>4. step'[f] = "exited" => step[f] = "exited"
      BY <1>1, <2>1 DEF EndStep, RuntimeType
    <3> QED BY <1>1, <3>1, <3>3, <3>4 DEF RuntimeType
  <2>2. CASE StartRun(g) \/ StartStep(g) \/ EnterSpace(g) \/ EndWork(g) \/ EndRun(g)
    BY <1>1, <2>2 DEF StartRun, StartStep, EnterSpace, EndWork, EndRun, RuntimeType
  <2> QED BY <1>5, <2>1, <2>2 DEF Runtime
<1>6. ASSUME NEW g \in Frames, Model(g)
      PROVE  at' = [at EXCEPT ![g] = "threw"] /\ UNCHANGED <<loop, step>>
  BY <1>6 DEF Model, ModelCalls, ModelIsNudged, ModelForgetsExit, ModelStops, WrapUp, ModelFails,
              ModelRan, runtimeVars
<1>7. ASSUME NEW g \in Frames, Calls(g)
      PROVE  /\ at[g] = "calls" /\ UNCHANGED step /\ \A h \in Frames \ {g} : at'[h] = at[h]
             /\ loop'[f].turn = loop[f].turn
  <2>1. at[g] = "calls" /\ UNCHANGED step
    BY <1>7 DEF Calls, ExecuteCalls, ExitSpace, AppendResults, EndTurn, MayTakeCalls, runtimeVars
  <2>2. CASE ExecuteCalls(g)
    <3>1. /\ UNCHANGED at
          /\ loop' = [loop EXCEPT ![g].next = @ + Cardinality(Batch(g)),
                                  ![g].toolSteps = @ + Cardinality(Batch(g))]
      BY <2>2 DEF ExecuteCalls
    <3> QED BY <1>1, <2>1, <3>1 DEF Locals
  <2>3. CASE ExitSpace(g)
    <3>1. UNCHANGED at
      BY <2>3 DEF ExitSpace
    <3>2. \E status \in {"completed", "failed"}, target \in (Spaces \ {g}) \cup {None} :
             loop' = [loop EXCEPT ![g].result = status, ![g].handoff = target, ![g].spoke = TRUE,
                                  ![g].next = @ + 1, ![g].toolSteps = @ + 1]
      BY <2>3 DEF ExitSpace
    <3> QED BY <1>1, <2>1, <3>1, <3>2 DEF Locals
  <2>4. CASE AppendResults(g)
    <3> DEFINE Appends(more, first, spoke, closed) ==
                 loop' = [loop EXCEPT ![g].messages = more, ![g].first = first,
                                      ![g].spoke = spoke, ![g].closed = closed]
    <3>1. UNCHANGED at
      BY <2>4 DEF AppendResults
    <3>2. \E more, first, spoke, closed : Appends(more, first, spoke, closed)
      BY <2>4 DEF AppendResults
    <3>3. loop'[f].turn = loop[f].turn
      BY <1>1, <3>2 DEF Locals
    <3> QED BY <2>1, <3>1, <3>3
  <2>5. CASE EndTurn(g)
    <3> DEFINE left == [loop[g] EXCEPT !.hitToolLimit = FALSE]
    <3>1. /\ DOMAIN left = Locals /\ left.turn = loop[g].turn
          /\ left.iteration = loop[g].iteration
      BY <1>1 DEF Locals
    <3>2. LeaveLoop(g, left) \/ NextIteration(g, loop[g]) \/ LeaveLoop(g, loop[g])
      BY <2>5 DEF EndTurn
    <3> HIDE DEF left
    <3>3. PICK l \in {left, loop[g]} : NextIteration(g, l) \/ LeaveLoop(g, l)
      BY <3>2
    <3>4. DOMAIN l = Locals /\ l.turn = loop[g].turn /\ l.iteration = loop[g].iteration
      BY <1>1, <3>1
    <3>5. LoopType
      BY DEF TurnInv, TurnType
    <3>6. /\ LoopBecomes(g, l, {"messages", "iteration"})
          /\ \E place \in {"model", "left", "wrapUp"} : at' = [at EXCEPT ![g] = place]
      <4>1. CASE NextIteration(g, l)
        BY <3>4, <3>5, <4>1, LoopGoesOn
      <4>2. CASE LeaveLoop(g, l)
        BY <3>4, <3>5, <4>2, LoopIsLeft DEF LoopBecomes
      <4> QED BY <3>3, <4>1, <4>2
    <3>7. loop'[g].turn = loop[g].turn
      BY <3>4, <3>6, LocalsBecome
    <3> QED BY <1>1, <2>1, <3>6, <3>7 DEF LoopBecomes, RuntimeType
  <2> QED BY <1>7, <2>2, <2>3, <2>4, <2>5 DEF Calls
<1>8. ASSUME NEW g \in Frames, NEW k \in CallIds, CallSteps(g, k)
      PROVE  UNCHANGED <<at, step>> /\ loop'[f].turn = loop[f].turn
  <2>1. UNCHANGED <<at, step>>
    BY <1>8 DEF CallSteps, Approve, Deny, StartHandler, RejectCall, HandlerReturns, runtimeVars
  <2>2. CASE HandlerReturns(g, k)
    <3>1. \E written \in BOOLEAN : loop' = [loop EXCEPT ![g].files = @ \/ written]
      BY <2>2 DEF HandlerReturns
    <3> QED BY <1>1, <2>1, <3>1 DEF Locals
  <2>3. CASE Deny(g, k)
    <3>1. \/ UNCHANGED loop
          \/ loop' = [loop EXCEPT ![g].result = "needs_approval", ![g].spoke = TRUE]
      BY <2>3 DEF Deny
    <3> QED BY <1>1, <2>1, <3>1 DEF Locals
  <2> QED BY <1>8, <2>1, <2>2, <2>3 DEF CallSteps, Approve, StartHandler, RejectCall
<1>9. ASSUME Dispatches
      PROVE  /\ at'[f] \in {at[f], "created", "idle"}
             /\ loop'[f].turn # loop[f].turn => loop'[f].turn = <<>>
             /\ step'[f] \in {step[f], "none"}
  <2>1. ASSUME NEW s, NEW newTask, NEW from, Enter(s, newTask, from)
        PROVE  /\ at'[f] \in {at[f], "created", "idle"}
               /\ loop'[f].turn # loop[f].turn => loop'[f].turn = <<>>
               /\ step'[f] \in {step[f], "none"}
    BY <2>1 DEF Enter, Forget, FreshLoop
  <2>2. ASSUME NEW s \in Spaces, EndDispatch(s)
        PROVE  /\ at'[f] \in {at[f], "created", "idle"}
               /\ loop'[f].turn # loop[f].turn => loop'[f].turn = <<>>
               /\ step'[f] \in {step[f], "none"}
    <3>1. at' = [at EXCEPT ![s] = "idle"] /\ Forget(s)
      BY <2>2 DEF EndDispatch
    <3> QED BY <1>1, <3>1 DEF Forget, FreshLoop, RuntimeType
  <2>3. ASSUME NEW k \in CallIds, NEW s \in Spaces, Dispatch(k, s)
        PROVE  \E newTask : Enter(s, newTask, None)
    BY <2>3 DEF Dispatch
  <2>4. ASSUME NEW s \in Spaces, FollowHandoff(s)
        PROVE  \E newTask : Enter(loop[s].handoff, newTask, s)
    BY <2>4 DEF FollowHandoff
  <2>5. ASSUME NEW k \in CallIds, DispatchAgain(k) PROVE UNCHANGED <<at, step, loop>>
    BY <2>5 DEF DispatchAgain, runtimeVars
  <2> QED BY <1>9, <2>1, <2>2, <2>3, <2>4, <2>5 DEF Dispatches
<1> QED BY <1>1, <1>4, <1>5, <1>6, <1>7, <1>8, <1>9 DEF Next, Abort, ReplyEnded, vars, runtimeVars,
                                                     RuntimeType

(* After the abort no handler starts, no space is entered, no answer of a   *)
(* model is acted upon, and no step exits that had not. *)
THEOREM AbortStopsHolds == Spec => AbortStops
<1>1. TurnInv /\ [Next]_vars =>
         [aborted =>
             \A f \in Frames :
                /\ \A i \in CallIds : call'[f][i] = "running" => call[f][i] = "running"
                /\ at'[f] \in {"entering", "model"} => at[f] = at'[f] \/ at[f] = "calls"
                /\ loop'[f].turn # loop[f].turn => loop'[f].turn = <<>>
                /\ step'[f] = "exited" => step[f] = "exited"]_vars
  BY StepIsStopped DEF Stopped
<1> QED BY <1>1, TurnInvariant, PTL DEF Spec, AbortStops

-----------------------------------------------------------------------------
(* The messages of a turn loop                                              *)

(* The locals l of a loop, with the calls c of its turn, calling or not:    *)
(* what was answered is in the replay of the messages, but for calls after  *)
(* a dispatch that carried its answer back; and unless there was one, the   *)
(* open calls of the replay are those that are still to be answered.        *)
MessagesFit(l, c, calling) ==
    /\ l.messages \in Seq(Messages) /\ l.called \in Nat
    /\ ~calling \/ l.closed => l.first = l.next
    /\ \A i \in 1..(l.first - 1) : \/ Outcome(l.called, i) \in ToSet(Prepared(l.messages).out)
                                   \/ \E j \in 1..(i - 1) : c[j] = "carried"
    /\ calling /\ ~l.closed /\ (\A j \in 1..(l.first - 1) : c[j] # "carried") =>
          Prepared(l.messages).pending = Ids(l.first, Len(l.turn))

MessagesOK(f) == MessagesFit(loop[f], call[f], at[f] = "calls")

MessagesInv == \A f \in Frames : MessagesOK(f)

(* More messages, with all that was replayed before. *)
GoesOn(messages, more) ==
    /\ more \in Seq(Messages)
    /\ ToSet(Prepared(messages).out) \subseteq ToSet(Prepared(more).out)

LEMMA OneNoteGoesOn ==
    ASSUME NEW messages \in Seq(Messages)
    PROVE  GoesOn(messages, messages) /\ GoesOn(messages, Noted(messages))
<1>1. User \in Messages
  BY DEF Messages
<1>2. Noted(messages) \in Seq(Messages)
  BY <1>1 DEF Noted
<1>3. ToSet(Prepared(messages).out) \subseteq ToSet(Prepared(Noted(messages)).out)
  BY <1>1, OutGrows DEF Noted
<1> QED BY <1>2, <1>3 DEF GoesOn

LEMMA NotedGoesOn ==
    ASSUME NEW messages \in Seq(Messages)
    PROVE  /\ GoesOn(messages, messages)
           /\ GoesOn(messages, Noted(messages))
           /\ GoesOn(messages, Noted(Noted(messages)))
<1> DEFINE noted == Noted(messages)
<1>1. GoesOn(messages, messages) /\ GoesOn(messages, noted) /\ noted \in Seq(Messages)
  BY OneNoteGoesOn DEF GoesOn
<1> HIDE DEF noted
<1>2. GoesOn(noted, Noted(noted))
  BY <1>1, OneNoteGoesOn
<1>3. GoesOn(messages, Noted(noted))
  BY <1>1, <1>2 DEF GoesOn
<1> QED BY <1>1, <1>3 DEF noted

(* Steps that the messages do not depend on; steps among the calls, which   *)
(* do not touch those before the batch; and steps outside the calls.        *)
LEMMA FitStays ==
    ASSUME NEW l, NEW k, NEW c, NEW d, NEW calling \in BOOLEAN, MessagesFit(l, c, calling),
           k.messages = l.messages, k.called = l.called, k.turn = l.turn, k.first = l.first,
           k.closed = l.closed, l.first \in Nat,
           ~calling \/ k.closed => k.first = k.next,
           \A j \in 1..(l.first - 1) : d[j] = c[j]
    PROVE  MessagesFit(k, d, calling)
<1>1. \A i \in 1..(l.first - 1) : \A j \in 1..(i - 1) : j \in 1..(l.first - 1)
  OBVIOUS
<1>2. \A i \in 1..(l.first - 1) : \/ Outcome(l.called, i) \in ToSet(Prepared(l.messages).out)
                                  \/ \E j \in 1..(i - 1) : d[j] = "carried"
  BY <1>1 DEF MessagesFit
<1> QED BY <1>2 DEF MessagesFit

LEMMA FitGoesOn ==
    ASSUME NEW l, NEW k, NEW c, NEW calling \in BOOLEAN, MessagesFit(l, c, calling),
           GoesOn(l.messages, k.messages), k.called = l.called,
           k.first = l.first, k.first = k.next
    PROVE  MessagesFit(k, c, FALSE)
BY DEF MessagesFit, GoesOn

LEMMA FitFresh ==
    ASSUME NEW messages \in Seq(Messages), NEW c
    PROVE  MessagesFit(FreshLoop(messages), c, FALSE)
<1> DEFINE l == FreshLoop(messages)
<1>1. l.messages = messages /\ l.called = 0 /\ l.first = 1 /\ l.next = 1
  BY DEF FreshLoop
<1> HIDE DEF l
<1> QED BY <1>1 DEF MessagesFit, l

(* What a step of the others leaves alone. *)
LEMMA MessagesStay ==
    ASSUME NEW f \in Frames, MessagesOK(f), loop'[f] = loop[f], call'[f] = call[f],
           at'[f] = "calls" <=> at[f] = "calls"
    PROVE  MessagesOK(f)'
BY DEF MessagesOK


LEMMA RuntimeMessages ==
    ASSUME TurnInv, MessagesInv, NEW f \in Frames, Runtime(f)
    PROVE  MessagesInv'
<1>1. /\ at \in [Frames -> Place] /\ DOMAIN loop = Frames
      /\ \A g \in Frames : LocalsType(loop[g]) /\ MessagesOK(g)
  BY DEF TurnInv, TurnType, RuntimeType, LoopType, MessagesInv
<1>2. UNCHANGED call /\ at[f] # "calls"
  BY DEF Runtime, StartRun, StartStep, EnterSpace, EndStep, EndWork, EndRun
<1>3. \E place \in Place \ {"calls"} : at' = [at EXCEPT ![f] = place]
  BY DEF Runtime, StartRun, StartStep, EnterSpace, EndStep, EndWork, EndRun, Place
<1>4. \A g \in Frames : at'[g] = "calls" <=> at[g] = "calls"
  BY <1>1, <1>2, <1>3
<1>5. UNCHANGED loop \/ \E status : loop' = [loop EXCEPT ![f].result = status]
  BY DEF Runtime, StartRun, StartStep, EnterSpace, EndStep, EndWork, EndRun
<1>6. ASSUME NEW g \in Frames PROVE MessagesOK(g)'
  <2>1. CASE loop'[g] = loop[g]
    BY <1>1, <1>2, <1>4, <2>1, MessagesStay
  <2>2. CASE loop'[g] # loop[g]
    <3>1. PICK status : loop' = [loop EXCEPT ![f].result = status]
      BY <1>5, <2>2
    <3>2. /\ g = f /\ loop'[f].messages = loop[f].messages /\ loop'[f].called = loop[f].called
          /\ loop'[f].turn = loop[f].turn /\ loop'[f].first = loop[f].first
          /\ loop'[f].next = loop[f].next /\ loop'[f].closed = loop[f].closed
      BY <1>1, <2>2, <3>1 DEF LocalsType, Locals
    <3>3. loop[f].first \in Nat /\ loop[f].first = loop[f].next /\ at'[f] # "calls"
      BY <1>1, <1>2, <1>4 DEF LocalsType, MessagesOK, MessagesFit
    <3>4. MessagesFit(loop[f], call[f], FALSE)
      BY <1>1, <1>2 DEF MessagesOK
    <3>5. MessagesFit(loop'[f], call[f], FALSE)
      BY <3>2, <3>3, <3>4, FitStays
    <3> QED BY <1>2, <3>2, <3>3, <3>5 DEF MessagesOK
  <2> QED BY <2>1, <2>2
<1> QED BY <1>6 DEF MessagesInv

(* Where the loop goes on or is left, at most notes are added. *)
LEMMA LeftMessages ==
    ASSUME NEW f \in Frames, DOMAIN loop = Frames, NEW l, DOMAIN l = Locals,
           NextIteration(f, l) \/ LeaveLoop(f, l)
    PROVE  /\ loop'[f].messages \in {l.messages, Noted(l.messages)}
           /\ loop'[f].called = l.called /\ loop'[f].first = l.first /\ loop'[f].next = l.next
           /\ \A g \in Frames \ {f} : loop'[g] = loop[g]
           /\ \E place \in Place \ {"calls"} : at' = [at EXCEPT ![f] = place]
<1>1. PICK k \in {l, [l EXCEPT !.messages = Noted(@)], [l EXCEPT !.iteration = @ + 1]} :
         loop' = [loop EXCEPT ![f] = k]
  BY DEF NextIteration, LeaveLoop
<1>2. /\ k.messages \in {l.messages, Noted(l.messages)}
      /\ k.called = l.called /\ k.first = l.first /\ k.next = l.next
  BY <1>1 DEF Locals
<1>3. \E place \in Place \ {"calls"} : at' = [at EXCEPT ![f] = place]
  BY DEF NextIteration, LeaveLoop, Place
<1>4. loop'[f] = k /\ \A g \in Frames \ {f} : loop'[g] = loop[g]
  BY <1>1
<1> QED BY <1>2, <1>3, <1>4

(* A step of a frame outside its calls, or one that ends its turn. *)
LEMMA MessagesGoOn ==
    ASSUME TurnInv, MessagesInv, NEW f \in Frames, UNCHANGED call,
           loop[f].first = loop[f].next,
           \E place \in Place \ {"calls"} : at' = [at EXCEPT ![f] = place],
           \A g \in Frames \ {f} : loop'[g] = loop[g],
           GoesOn(loop[f].messages, loop'[f].messages), loop'[f].called = loop[f].called,
           loop'[f].first = loop[f].first, loop'[f].next = loop[f].next
    PROVE  MessagesInv'
<1>1. at \in [Frames -> Place] /\ \A g \in Frames : MessagesOK(g)
  BY DEF TurnInv, TurnType, RuntimeType, MessagesInv
<1>2. at'[f] # "calls" /\ \A g \in Frames \ {f} : at'[g] = at[g]
  BY <1>1
<1>3. MessagesFit(loop[f], call[f], at[f] = "calls") /\ (at[f] = "calls") \in BOOLEAN
  BY <1>1 DEF MessagesOK
<1>4. MessagesFit(loop'[f], call[f], FALSE)
  BY <1>3, FitGoesOn
<1>5. MessagesOK(f)'
  BY <1>2, <1>4 DEF MessagesOK
<1>6. \A g \in Frames \ {f} : MessagesOK(g)'
  BY <1>1, <1>2, MessagesStay
<1> QED BY <1>5, <1>6 DEF MessagesInv

LEMMA EndTurnMessages ==
    ASSUME TurnInv, MessagesInv, NEW f \in Frames, EndTurn(f)
    PROVE  MessagesInv'
<1> DEFINE left == [loop[f] EXCEPT !.hitToolLimit = FALSE]
<1>1. DOMAIN loop = Frames /\ DOMAIN loop[f] = Locals
  BY DEF TurnInv, TurnType, LoopType, LocalsType
<1>2. /\ DOMAIN left = Locals /\ left.messages = loop[f].messages /\ left.called = loop[f].called
      /\ left.first = loop[f].first /\ left.next = loop[f].next
  BY <1>1 DEF Locals
<1>3. UNCHANGED call /\ loop[f].first = loop[f].next
  BY DEF EndTurn
<1>4. LeaveLoop(f, left) \/ NextIteration(f, loop[f]) \/ LeaveLoop(f, loop[f])
  BY DEF EndTurn
<1> HIDE DEF left
<1>5. PICK l \in {left, loop[f]} : NextIteration(f, l) \/ LeaveLoop(f, l)
  BY <1>4
<1>6. /\ DOMAIN l = Locals /\ l.messages = loop[f].messages /\ l.called = loop[f].called
      /\ l.first = loop[f].first /\ l.next = loop[f].next
  BY <1>1, <1>2
<1>7. /\ loop'[f].messages \in {loop[f].messages, Noted(loop[f].messages)}
      /\ loop'[f].called = loop[f].called /\ loop'[f].first = loop[f].first
      /\ loop'[f].next = loop[f].next
      /\ \A g \in Frames \ {f} : loop'[g] = loop[g]
      /\ \E place \in Place \ {"calls"} : at' = [at EXCEPT ![f] = place]
  BY <1>1, <1>5, <1>6, LeftMessages
<1>8. GoesOn(loop[f].messages, loop'[f].messages)
  BY <1>7, NotedGoesOn DEF MessagesInv, MessagesOK, MessagesFit
<1> QED BY <1>3, <1>7, <1>8, MessagesGoOn


LEMMA ModelMessages ==
    ASSUME TurnInv, MessagesInv, NEW f \in Frames, Model(f)
    PROVE  MessagesInv'
<1>1. /\ DOMAIN loop = Frames /\ at \in [Frames -> Place]
      /\ call \in [Frames -> [CallIds -> CallState]]
      /\ \A g \in Frames : LocalsType(loop[g]) /\ DOMAIN loop[g] = Locals /\ MessagesOK(g)
  BY DEF TurnInv, TurnType, RuntimeType, LoopType, LocalsType, MessagesInv
<1>2. at[f] \in {"model", "wrapUp"}
  BY DEF Model, ModelCalls, ModelIsNudged, ModelForgetsExit, ModelStops, ModelRan, WrapUp, ModelFails
<1>3. loop[f].first = loop[f].next /\ loop[f].messages \in Seq(Messages)
  BY <1>1, <1>2 DEF MessagesOK, MessagesFit
<1>4. CASE ModelCalls(f)
  <2>1. PICK n \in CallIds :
           \E calls \in [1..n -> IF f = Main THEN MainTools ELSE WorkTools], text \in BOOLEAN :
              loop' = [loop EXCEPT
                         ![f].turn = calls,
                         ![f].called = loop[f].iteration,
                         ![f].first = 1, ![f].next = 1,
                         ![f].spoke = @ \/ text,
                         ![f].messages = Append(@, Assistant([i \in 1..n |-> i]))]
    BY <1>4 DEF ModelCalls
  <2>2. PICK calls \in [1..n -> IF f = Main THEN MainTools ELSE WorkTools], text \in BOOLEAN :
              loop' = [loop EXCEPT
                         ![f].turn = calls,
                         ![f].called = loop[f].iteration,
                         ![f].first = 1, ![f].next = 1,
                         ![f].spoke = @ \/ text,
                         ![f].messages = Append(@, Assistant([i \in 1..n |-> i]))]
    BY <2>1
  <2> DEFINE ids == [i \in 1..n |-> i]
  <2>3. n \in Nat \ {0}
    BY AgentTurnAssumption DEF CallIds
  <2>4. ids \in Seq(Nat) /\ ids = Ids(1, n)
    BY <2>3 DEF Ids
  <2>5. Len(calls) = n
    BY <2>3
  <2> HIDE DEF ids
  <2>6. /\ loop'[f].turn = calls /\ loop'[f].called = loop[f].iteration
        /\ loop'[f].first = 1 /\ loop'[f].next = 1
        /\ loop'[f].messages = Append(loop[f].messages, Assistant(ids))
        /\ \A g \in Frames \ {f} : loop'[g] = loop[g]
    <3> DEFINE m == Assistant(ids)
    <3>1. loop' = [loop EXCEPT ![f].turn = calls, ![f].called = loop[f].iteration,
                               ![f].first = 1, ![f].next = 1, ![f].spoke = @ \/ text,
                               ![f].messages = Append(@, m)]
      BY <2>2 DEF ids
    <3> HIDE DEF m
    <3>2. loop'[f] = [loop[f] EXCEPT !.turn = calls, !.called = loop[f].iteration,
                                     !.first = 1, !.next = 1, !.spoke = @ \/ text,
                                     !.messages = Append(@, m)]
      BY <1>1, <3>1
    <3>3. \A g \in Frames \ {f} : loop'[g] = loop[g]
      BY <1>1, <3>1
    <3>4. /\ loop'[f].turn = calls /\ loop'[f].called = loop[f].iteration
          /\ loop'[f].first = 1 /\ loop'[f].next = 1
          /\ loop'[f].messages = Append(loop[f].messages, m)
      BY <1>1, <3>2 DEF Locals
    <3> QED BY <3>3, <3>4 DEF m
  <2>7. /\ loop'[f].messages \in Seq(Messages)
        /\ Prepared(loop'[f].messages).pending = Ids(1, n)
    <3>1. /\ Assistant(ids) \in Messages
          /\ Prepared(Append(loop[f].messages, Assistant(ids))).pending = ids
      BY <1>3, <2>4, CallsAreOpen
    <3>2. Append(loop[f].messages, Assistant(ids)) \in Seq(Messages)
      BY <1>3, <3>1
    <3> QED BY <2>4, <2>6, <3>1, <3>2
  <2>8. loop'[f].called \in Nat
    BY <1>1, <2>6 DEF LocalsType
  <2>9. at' = [at EXCEPT ![f] = "calls"] /\ call' = [call EXCEPT ![f] = NoCalls]
    BY <1>4 DEF ModelCalls
  <2>10. MessagesFit(loop'[f], call'[f], TRUE)
    <3>1. 1..(loop'[f].first - 1) = {}
      BY <2>6
    <3> QED BY <2>5, <2>6, <2>7, <2>8, <3>1 DEF MessagesFit
  <2>11. MessagesOK(f)'
    BY <1>1, <2>9, <2>10 DEF MessagesOK
  <2>12. \A g \in Frames \ {f} : MessagesOK(g)'
    BY <1>1, <2>6, <2>9, MessagesStay
  <2> QED BY <2>11, <2>12 DEF MessagesInv
<1>5. CASE ~ModelCalls(f)
  <2>1. UNCHANGED call
    BY <1>5 DEF Model, ModelIsNudged, ModelForgetsExit, ModelStops, WrapUp, ModelFails
  <2>2. ASSUME NEW l, DOMAIN l = Locals, l.messages \in {loop[f].messages, Noted(loop[f].messages)},
               l.called = loop[f].called, l.first = loop[f].first, l.next = loop[f].next,
               NextIteration(f, l) \/ LeaveLoop(f, l)
        PROVE  MessagesInv'
    <3>1. /\ loop'[f].messages \in {l.messages, Noted(l.messages)}
          /\ loop'[f].called = l.called /\ loop'[f].first = l.first /\ loop'[f].next = l.next
          /\ \A g \in Frames \ {f} : loop'[g] = loop[g]
          /\ \E place \in Place \ {"calls"} : at' = [at EXCEPT ![f] = place]
      BY <1>1, <2>2, LeftMessages
    <3>2. loop'[f].messages \in {loop[f].messages, Noted(loop[f].messages),
                                 Noted(Noted(loop[f].messages))}
      BY <2>2, <3>1
    <3>3. GoesOn(loop[f].messages, loop'[f].messages)
      BY <1>3, <3>2, NotedGoesOn
    <3> QED BY <1>3, <2>1, <2>2, <3>1, <3>3, MessagesGoOn
  <2>3. CASE ModelIsNudged(f)
    <3> DEFINE l == [loop[f] EXCEPT !.continueNudges = @ + 1, !.messages = Noted(@)]
    <3>1. /\ DOMAIN l = Locals /\ l.messages = Noted(loop[f].messages)
          /\ l.called = loop[f].called /\ l.first = loop[f].first /\ l.next = loop[f].next
      BY <1>1 DEF Locals
    <3>2. NextIteration(f, l)
      BY <2>3 DEF ModelIsNudged
    <3> HIDE DEF l
    <3> QED BY <2>2, <3>1, <3>2
  <2>4. CASE ModelForgetsExit(f)
    <3> DEFINE l(text) == [loop[f] EXCEPT !.exitNudges = @ + 1, !.spoke = @ \/ text, !.messages = Noted(@)]
    <3>1. PICK text \in BOOLEAN : NextIteration(f, l(text))
      BY <2>4 DEF ModelForgetsExit
    <3>2. /\ DOMAIN l(text) = Locals /\ l(text).messages = Noted(loop[f].messages)
          /\ l(text).called = loop[f].called /\ l(text).first = loop[f].first
          /\ l(text).next = loop[f].next
      BY <1>1 DEF Locals
    <3> HIDE DEF l
    <3> QED BY <2>2, <3>1, <3>2
  <2>5. CASE ModelStops(f)
    <3> DEFINE l(text) == [loop[f] EXCEPT !.hitToolLimit = FALSE, !.missingExit = f # Main, !.spoke = @ \/ text]
    <3>1. PICK text \in BOOLEAN : LeaveLoop(f, l(text))
      BY <2>5 DEF ModelStops
    <3>2. /\ DOMAIN l(text) = Locals /\ l(text).messages = loop[f].messages
          /\ l(text).called = loop[f].called /\ l(text).first = loop[f].first
          /\ l(text).next = loop[f].next
      BY <1>1 DEF Locals
    <3> HIDE DEF l
    <3> QED BY <2>2, <3>1, <3>2
  <2>6. CASE WrapUp(f) \/ ModelFails(f)
    <3>1. \E place \in {"left", "threw"} : at' = [at EXCEPT ![f] = place]
      BY <2>6 DEF WrapUp, ModelFails
    <3>2. UNCHANGED loop \/ \E text \in BOOLEAN : loop' = [loop EXCEPT ![f].spoke = text]
      BY <2>6 DEF WrapUp, ModelFails
    <3>3. /\ loop'[f].messages = loop[f].messages /\ loop'[f].called = loop[f].called
          /\ loop'[f].first = loop[f].first /\ loop'[f].next = loop[f].next
          /\ \A g \in Frames \ {f} : loop'[g] = loop[g]
      BY <1>1, <3>2 DEF Locals
    <3>4. GoesOn(loop[f].messages, loop'[f].messages)
      BY <1>3, <3>3, NotedGoesOn
    <3>5. \E place \in Place \ {"calls"} : at' = [at EXCEPT ![f] = place]
      BY <3>1 DEF Place
    <3> QED BY <1>3, <2>1, <3>3, <3>4, <3>5, MessagesGoOn
  <2> QED BY <1>5, <2>3, <2>4, <2>5, <2>6 DEF Model
<1> QED BY <1>4, <1>5

(* A step among the calls of a frame that adds no message. *)
LEMMA MessagesWait ==
    ASSUME TurnInv, MessagesInv, NEW f \in Frames, UNCHANGED at,
           \A g \in Frames \ {f} : loop'[g] = loop[g] /\ call'[g] = call[g],
           loop'[f].messages = loop[f].messages, loop'[f].called = loop[f].called,
           loop'[f].turn = loop[f].turn, loop'[f].first = loop[f].first,
           loop'[f].closed = loop[f].closed,
           loop'[f].next = loop[f].next \/ (at[f] = "calls" /\ ~loop[f].closed),
           \A j \in 1..(loop[f].first - 1) : call'[f][j] = call[f][j]
    PROVE  MessagesInv'
<1>1. \A g \in Frames : LocalsType(loop[g]) /\ MessagesOK(g)
  BY DEF TurnInv, TurnType, LoopType, MessagesInv
<1> DEFINE calling == at[f] = "calls"
<1>2. calling \in BOOLEAN /\ MessagesFit(loop[f], call[f], calling) /\ loop[f].first \in Nat
  BY <1>1 DEF MessagesOK, LocalsType
<1>3. ~calling \/ loop'[f].closed => loop'[f].first = loop'[f].next
  BY <1>2 DEF MessagesFit
<1> HIDE DEF calling
<1>4. MessagesFit(loop'[f], call'[f], calling)
  BY <1>2, <1>3, FitStays
<1>5. MessagesOK(f)'
  BY <1>4 DEF MessagesOK, calling
<1>6. \A g \in Frames \ {f} : MessagesOK(g)'
  BY <1>1, MessagesStay
<1> QED BY <1>5, <1>6 DEF MessagesInv

(* The calls that were answered are calls, and those that go on are others. *)
LEMMA AnsweredCalls ==
    ASSUME NEW f \in Frames, LocalsType(loop[f])
    PROVE  1..(loop[f].first - 1) \subseteq CallIds
<1> DEFINE turn == loop[f].turn
<1>1. /\ turn \in Seq(Kinds) /\ Len(turn) <= MaxCalls /\ loop[f].first \in Nat
      /\ loop[f].next \in Nat /\ loop[f].first <= loop[f].next /\ loop[f].next <= Len(turn) + 1
  BY DEF LocalsType
<1> HIDE DEF turn
<1>2. Len(turn) \in Nat /\ MaxCalls \in Nat
  BY <1>1, AgentTurnAssumption
<1> SUFFICES ASSUME NEW j \in 1..(loop[f].first - 1) PROVE j \in CallIds
  OBVIOUS
<1>3. j \in Nat \ {0} /\ j <= MaxCalls
  BY <1>1, <1>2
<1> QED BY <1>2, <1>3 DEF CallIds

LEMMA ActiveIsLater ==
    ASSUME TurnInv, NEW f \in Frames, NEW i \in CallIds, Active(f, i)
    PROVE  \A j \in 1..(loop[f].first - 1) : j \in CallIds /\ j # i
<1>1. LocalsType(loop[f]) /\ loop[f].first <= i
  <2>1. LocalsType(loop[f]) /\ CallsOK(f)
    BY DEF TurnInv, TurnType, LoopType, FrameInv
  <2> QED BY <2>1 DEF CallsOK
<1>2. i \in Nat /\ loop[f].first \in Nat
  BY <1>1, AgentTurnAssumption DEF LocalsType, CallIds
<1> QED BY <1>1, <1>2, AnsweredCalls

LEMMA CallMessages ==
    ASSUME TurnInv, MessagesInv, NEW f \in Frames, NEW i \in CallIds, CallSteps(f, i)
    PROVE  MessagesInv'
<1>1. /\ DOMAIN loop = Frames /\ call \in [Frames -> [CallIds -> CallState]]
      /\ DOMAIN loop[f] = Locals
  BY DEF TurnInv, TurnType, LoopType, LocalsType
<1>2. UNCHANGED at /\ Active(f, i)
  BY DEF CallSteps, Approve, Deny, StartHandler, RejectCall, HandlerReturns, Active
<1>3. \E state \in CallState : call' = [call EXCEPT ![f][i] = state]
  BY DEF CallSteps, Approve, Deny, StartHandler, RejectCall, HandlerReturns, CallState, Ended
<1>4. \/ UNCHANGED loop
      \/ loop' = [loop EXCEPT ![f].result = "needs_approval", ![f].spoke = TRUE]
      \/ \E written \in BOOLEAN : loop' = [loop EXCEPT ![f].files = @ \/ written]
  BY DEF CallSteps, Approve, Deny, StartHandler, RejectCall, HandlerReturns
<1>5. /\ loop'[f].messages = loop[f].messages /\ loop'[f].called = loop[f].called
      /\ loop'[f].turn = loop[f].turn /\ loop'[f].first = loop[f].first
      /\ loop'[f].closed = loop[f].closed /\ loop'[f].next = loop[f].next
      /\ \A g \in Frames \ {f} : loop'[g] = loop[g]
  BY <1>1, <1>4 DEF Locals
<1>6. \A g \in Frames \ {f} : call'[g] = call[g]
  BY <1>1, <1>3
<1>7. \A j \in 1..(loop[f].first - 1) : call'[f][j] = call[f][j]
  <2>1. PICK state \in CallState : call' = [call EXCEPT ![f][i] = state]
    BY <1>3
  <2>2. call'[f] = [call[f] EXCEPT ![i] = state] /\ call[f] \in [CallIds -> CallState]
    BY <1>1, <2>1
  <2>3. \A j \in CallIds : j # i => call'[f][j] = call[f][j]
    BY <2>2
  <2> QED BY <1>2, <2>3, ActiveIsLater
<1>8. \A g \in Frames \ {f} : loop'[g] = loop[g] /\ call'[g] = call[g]
  BY <1>5, <1>6
<1>9. UNCHANGED at
  BY <1>2
<1> QED BY <1>5, <1>7, <1>8, <1>9, MessagesWait

LEMMA ExecuteMessages ==
    ASSUME TurnInv, MessagesInv, NEW f \in Frames, ExecuteCalls(f) \/ ExitSpace(f)
    PROVE  MessagesInv'
<1>1. /\ DOMAIN loop = Frames /\ call \in [Frames -> [CallIds -> CallState]]
      /\ DOMAIN loop[f] = Locals /\ LocalsType(loop[f])
  BY DEF TurnInv, TurnType, LoopType, LocalsType
<1>2. /\ UNCHANGED at /\ MayTakeCalls(f)
      /\ at[f] = "calls" /\ ~loop[f].closed /\ loop[f].first = loop[f].next
  BY DEF ExecuteCalls, ExitSpace, MayTakeCalls
<1>3. CASE ExecuteCalls(f)
  <2>1. /\ call' = [call EXCEPT ![f] = [i \in CallIds |->
                       IF i \in Batch(f) THEN FirstState(f, Kind(f, i)) ELSE @[i]]]
        /\ loop' = [loop EXCEPT ![f].next = @ + Cardinality(Batch(f)),
                                ![f].toolSteps = @ + Cardinality(Batch(f))]
    BY <1>3 DEF ExecuteCalls
  <2>2. /\ loop'[f].messages = loop[f].messages /\ loop'[f].called = loop[f].called
        /\ loop'[f].turn = loop[f].turn /\ loop'[f].first = loop[f].first
        /\ loop'[f].closed = loop[f].closed
        /\ \A g \in Frames \ {f} : loop'[g] = loop[g]
    BY <1>1, <2>1 DEF Locals
  <2>3. \A g \in Frames \ {f} : call'[g] = call[g]
    BY <1>1, <2>1
  <2>4. ASSUME NEW j \in 1..(loop[f].first - 1) PROVE call'[f][j] = call[f][j]
    <3>1. j \in CallIds
      BY <1>1, <2>4, AnsweredCalls
    <3>2. j \notin Batch(f)
      <4>1. \A e \in Batch(f) : e \in Nat /\ loop[f].next <= e
        BY <1>1, <1>2, BatchIs
      <4>2. loop[f].next \in Nat
        BY <1>1 DEF LocalsType
      <4> QED BY <1>2, <2>4, <4>1, <4>2
    <3> QED BY <1>1, <2>1, <3>1, <3>2
  <2> QED BY <1>2, <2>2, <2>3, <2>4, MessagesWait
<1>4. CASE ExitSpace(f)
  <2>1. /\ call' = [call EXCEPT ![f][loop[f].next] = "ended"]
        /\ \E status \in {"completed", "failed"}, target \in (Spaces \ {f}) \cup {None} :
              loop' = [loop EXCEPT ![f].result = status, ![f].handoff = target, ![f].spoke = TRUE,
                                   ![f].next = @ + 1, ![f].toolSteps = @ + 1]
    BY <1>4 DEF ExitSpace
  <2>2. /\ loop'[f].messages = loop[f].messages /\ loop'[f].called = loop[f].called
        /\ loop'[f].turn = loop[f].turn /\ loop'[f].first = loop[f].first
        /\ loop'[f].closed = loop[f].closed
        /\ \A g \in Frames \ {f} : loop'[g] = loop[g]
    BY <1>1, <2>1 DEF Locals
  <2>3. \A g \in Frames \ {f} : call'[g] = call[g]
    BY <1>1, <2>1
  <2>4. \A j \in 1..(loop[f].first - 1) : call'[f][j] = call[f][j]
    <3>1. loop[f].next \in Nat
      BY <1>1 DEF LocalsType
    <3>2. \A j \in 1..(loop[f].first - 1) : j \in CallIds /\ j # loop[f].next
      BY <1>1, <1>2, <3>1, AnsweredCalls
    <3> QED BY <1>1, <2>1, <3>2
  <2> QED BY <1>2, <2>2, <2>3, <2>4, MessagesWait
<1> QED BY <1>3, <1>4


LEMMA AppendMessages ==
    ASSUME TurnInv, MessagesInv, NEW f \in Frames, AppendResults(f)
    PROVE  MessagesInv'
<1> DEFINE first == loop[f].first
           next == loop[f].next
           n == next - first
           batch == [k \in 1..n |-> first + k - 1]
           carried == \E i \in ToSet(batch) : call[f][i] \in {"carried", "closing"}
           closes == \E i \in ToSet(batch) : call[f][i] = "closing"
           results == [k \in DOMAIN batch |-> ToolResult(batch[k], <<loop[f].called, batch[k]>>)]
           all == loop[f].messages \o results
           more == IF carried THEN Noted(all) ELSE all
<1>1. /\ DOMAIN loop = Frames /\ LocalsType(loop[f]) /\ DOMAIN loop[f] = Locals
      /\ \A g \in Frames : MessagesOK(g)
  BY DEF TurnInv, TurnType, LoopType, LocalsType, MessagesInv
<1>2. at[f] = "calls" /\ UNCHANGED <<at, call>> /\ batch # <<>>
  BY DEF AppendResults
<1>3. /\ first \in Nat \ {0} /\ next \in Nat /\ Len(loop[f].turn) \in Nat
      /\ next <= Len(loop[f].turn) + 1 /\ first <= next
  <2>1. loop[f].turn \in Seq(Kinds)
    BY <1>1 DEF LocalsType
  <2>2. Len(loop[f].turn) \in Nat
    BY <2>1
  <2> QED BY <1>1, <2>2 DEF LocalsType
<1>4. n \in Nat /\ first + n = next /\ first # next
  <2>1. first = next => n = 0
    BY <1>3
  <2>2. n = 0 => batch = <<>>
    OBVIOUS
  <2> QED BY <1>2, <1>3, <2>1, <2>2
<1>5. /\ loop[f].messages \in Seq(Messages) /\ loop[f].called \in Nat /\ ~loop[f].closed
      /\ \A i \in 1..(first - 1) : \/ Outcome(loop[f].called, i) \in ToSet(Prepared(loop[f].messages).out)
                                   \/ \E j \in 1..(i - 1) : call[f][j] = "carried"
      /\ (\A j \in 1..(first - 1) : call[f][j] # "carried") =>
            Prepared(loop[f].messages).pending = Ids(first, Len(loop[f].turn))
  BY <1>1, <1>2, <1>4 DEF MessagesOK, MessagesFit
<1>6. loop' = [loop EXCEPT ![f].messages = IF carried THEN Noted(@ \o results) ELSE @ \o results,
                           ![f].first = next, ![f].spoke = @ \/ carried, ![f].closed = closes]
  BY DEF AppendResults
<1>7. results = Outcomes(loop[f].called, first, n)
  BY DEF Outcomes, Outcome
<1>8. \A i : i \in ToSet(batch) <=> i \in first..(next - 1)
  <2>1. ToSet(batch) = {batch[k] : k \in 1..n}
    BY DEF ToSet
  <2> HIDE DEF first, next, n
  <2>2. \A k \in 1..n : batch[k] \in first..(next - 1)
    BY <1>3, <1>4
  <2>3. ASSUME NEW i \in first..(next - 1) PROVE i - first + 1 \in 1..n /\ batch[i - first + 1] = i
    <3> DEFINE k == i - first + 1
    <3>1. k \in 1..n /\ first + k - 1 = i
      BY <1>3, <1>4
    <3> HIDE DEF k
    <3>2. batch[k] = i
      BY <3>1
    <3> QED BY <3>1, <3>2 DEF k
  <2> HIDE DEF batch
  <2> QED BY <2>1, <2>2, <2>3
<1> HIDE DEF batch, results, first, next, n
<1>9. /\ loop'[f].messages = more /\ loop'[f].first = next /\ loop'[f].closed = closes
      /\ loop'[f].called = loop[f].called /\ loop'[f].turn = loop[f].turn
      /\ loop'[f].next = loop[f].next
      /\ \A g \in Frames \ {f} : loop'[g] = loop[g]
  <2> HIDE DEF closes, carried
  <2> QED BY <1>1, <1>6 DEF Locals
<1>10. all \in Seq(Messages) /\ GoesOn(loop[f].messages, all) /\ GoesOn(all, more)
  <2>1. results \in Seq(Messages)
    BY <1>3, <1>4, <1>5, <1>7, OutcomesTyped
  <2>2. all \in Seq(Messages)
    BY <1>5, <2>1, Concatenation
  <2>3. ToSet(Prepared(loop[f].messages).out) \subseteq ToSet(Prepared(all).out)
    BY <1>5, <2>1, OutGrowsOn
  <2> HIDE DEF all, carried
  <2>4. GoesOn(all, more)
    BY <2>2, NotedGoesOn
  <2> QED BY <2>2, <2>3, <2>4 DEF GoesOn
<1>11. ASSUME \A j \in 1..(first - 1) : call[f][j] # "carried"
       PROVE  /\ Prepared(all).pending = Ids(next, Len(loop[f].turn))
              /\ \A i \in first..(next - 1) : Outcome(loop[f].called, i) \in ToSet(Prepared(all).out)
  <2>1. Prepared(loop[f].messages).pending = Ids(first, Len(loop[f].turn))
    BY <1>5, <1>11
  <2> DEFINE turn == loop[f].called
             last == Len(loop[f].turn)
             p == Prepared(loop[f].messages \o Outcomes(turn, first, n))
  <2>2. first + n <= last + 1 /\ last \in Nat /\ turn \in Nat
    BY <1>3, <1>4, <1>5
  <2>3. /\ p.pending = Ids(first + n, last)
        /\ \A i \in first..(first + n - 1) : Outcome(turn, i) \in ToSet(p.out)
    <3>1. Prepared(loop[f].messages).pending = Ids(first, last)
      BY <2>1
    <3> HIDE DEF turn, last
    <3> QED BY <1>3, <1>4, <1>5, <2>2, <3>1, OutcomesAreTaken
  <2>4. p = Prepared(all) /\ first + n = next
    BY <1>4, <1>7
  <2>5. first + n - 1 = next - 1
    BY <1>3, <1>4
  <2> HIDE DEF all, p
  <2> QED BY <2>3, <2>4, <2>5
<1> HIDE DEF all, more
<1>12. ASSUME NEW i \in 1..(next - 1)
       PROVE  \/ Outcome(loop[f].called, i) \in ToSet(Prepared(more).out)
              \/ \E j \in 1..(i - 1) : call[f][j] = "carried"
  <2>1. CASE i < first
    <3>1. i \in 1..(first - 1)
      BY <1>3, <2>1
    <3> QED BY <1>5, <1>10, <3>1 DEF GoesOn
  <2>2. CASE first <= i
    <3>1. i \in first..(next - 1) /\ \A j \in 1..(first - 1) : j \in 1..(i - 1)
      BY <1>3, <2>2
    <3> QED BY <1>10, <1>11, <3>1 DEF GoesOn
  <2> QED BY <1>3, <2>1, <2>2
<1>13. ASSUME ~closes, \A j \in 1..(next - 1) : call[f][j] # "carried"
       PROVE  Prepared(more).pending = Ids(next, Len(loop[f].turn))
  <2>1. \A j \in first..(next - 1) : j \in 1..(next - 1)
    BY <1>3
  <2>2. ~carried
    BY <1>8, <1>13, <2>1
  <2>3. \A j \in 1..(first - 1) : j \in 1..(next - 1)
    BY <1>3
  <2> QED BY <1>11, <1>13, <2>2, <2>3 DEF more
<1>14. MessagesFit(loop'[f], call[f], TRUE)
  <2>1. more \in Seq(Messages)
    BY <1>10 DEF GoesOn
  <2> HIDE DEF closes
  <2>2. ~TRUE \/ loop'[f].closed => loop'[f].first = loop'[f].next
    BY <1>9 DEF next
  <2> QED BY <1>5, <1>9, <1>12, <1>13, <2>1, <2>2 DEF MessagesFit
<1>15. MessagesOK(f)'
  BY <1>2, <1>14 DEF MessagesOK
<1>16. \A g \in Frames \ {f} : MessagesOK(g)'
  BY <1>1, <1>2, <1>9, MessagesStay
<1> QED BY <1>15, <1>16 DEF MessagesInv


(* A space whose run is over starts anew, and nobody else's loop moves. *)
LEMMA ForgetMessages ==
    ASSUME TurnInv, MessagesInv, NEW s \in Spaces, NEW others,
           loop' = [f \in Frames |-> IF f = s THEN FreshLoop(<<User>>) ELSE loop[f]],
           at'[s] # "calls", \A f \in Frames \ {s} : at'[f] = "calls" <=> at[f] = "calls",
           \A f \in Frames \ {s} : \A j \in 1..(loop[f].first - 1) : call'[f][j] = call[f][j]
    PROVE  MessagesInv'
<1>1. \A f \in Frames : LocalsType(loop[f]) /\ MessagesOK(f)
  BY DEF TurnInv, TurnType, LoopType, MessagesInv
<1>2. ASSUME NEW f \in Frames, f # s PROVE MessagesOK(f)'
  <2> DEFINE calling == at[f] = "calls"
  <2>1. /\ calling \in BOOLEAN /\ MessagesFit(loop[f], call[f], calling)
        /\ loop[f].first \in Nat /\ loop'[f] = loop[f]
    BY <1>1, <1>2 DEF MessagesOK, LocalsType
  <2>2. ~calling \/ loop'[f].closed => loop'[f].first = loop'[f].next
    BY <2>1 DEF MessagesFit
  <2>3. (at'[f] = "calls") = calling
    BY <1>2
  <2> HIDE DEF calling
  <2>4. \A j \in 1..(loop[f].first - 1) : call'[f][j] = call[f][j]
    BY <1>2
  <2>5. MessagesFit(loop'[f], call'[f], calling)
    BY <2>1, <2>2, <2>4, FitStays
  <2> QED BY <2>3, <2>5 DEF MessagesOK
<1>3. MessagesOK(s)'
  <2>1. s \in Frames /\ <<User>> \in Seq(Messages)
    BY DEF Frames, Messages
  <2>2. MessagesFit(FreshLoop(<<User>>), call'[s], FALSE)
    BY <2>1, FitFresh
  <2>3. loop'[s] = FreshLoop(<<User>>)
    BY <2>1
  <2> QED BY <2>2, <2>3 DEF MessagesOK
<1> QED BY <1>2, <1>3 DEF MessagesInv

LEMMA DispatchMessages ==
    ASSUME TurnInv, MessagesInv, Dispatches
    PROVE  MessagesInv'
<1>1. /\ DOMAIN loop = Frames /\ at \in [Frames -> Place]
      /\ call \in [Frames -> [CallIds -> CallState]]
      /\ \A f \in Frames : LocalsType(loop[f]) /\ MessagesOK(f)
      /\ DispatchInv
  BY DEF TurnInv, TurnType, RuntimeType, LoopType, MessagesInv
<1>2. Spaces \subseteq Frames /\ Main \notin Spaces /\ Main \in Frames /\ None \notin Frames
  BY AgentTurnAssumption DEF Frames
<1>3. ASSUME NEW i \in CallIds, DispatchAgain(i) PROVE MessagesInv'
  <2>1. PICK state \in {"ended", "carried"} : call' = [call EXCEPT ![Main][i] = state]
    BY <1>3 DEF DispatchAgain
  <2>2. UNCHANGED <<at, loop>> /\ Active(Main, i)
    BY <1>3 DEF DispatchAgain, IsDispatch, Active
  <2>3. \A j \in 1..(loop[Main].first - 1) : call'[Main][j] = call[Main][j]
    <3>1. \A j \in CallIds : j # i => call'[Main][j] = call[Main][j]
      BY <1>1, <1>2, <2>1
    <3> QED BY <1>2, <2>2, <3>1, ActiveIsLater
  <2>4. \A g \in Frames \ {Main} : loop'[g] = loop[g] /\ call'[g] = call[g]
    BY <1>1, <1>2, <2>1, <2>2
  <2> QED BY <1>2, <2>2, <2>3, <2>4, MessagesWait
<1>4. ASSUME NEW i \in CallIds, NEW s \in Spaces, Dispatch(i, s) PROVE MessagesInv'
  <2>1. /\ UNCHANGED call /\ at[s] = "idle"
        /\ at' = [f \in Frames |-> IF f = s THEN "created" ELSE IF f = None THEN "idle" ELSE at[f]]
        /\ loop' = [f \in Frames |-> IF f = None THEN FreshLoop(<<User>>) ELSE loop[f]]
    BY <1>4 DEF Dispatch, Enter, Forget
  <2>2. \A f \in Frames : loop'[f] = loop[f] /\ (at'[f] = "calls" <=> at[f] = "calls")
    BY <1>1, <1>2, <2>1
  <2>3. \A f \in Frames : MessagesOK(f)'
    BY <1>1, <2>1, <2>2, MessagesStay
  <2> QED BY <2>3 DEF MessagesInv
<1>5. ASSUME NEW s \in Spaces, FollowHandoff(s) PROVE MessagesInv'
  <2> DEFINE target == loop[s].handoff
  <2>1. /\ at[s] = "ended" /\ target # None /\ target \notin ToSet(task[s].path)
        /\ call' = [call EXCEPT ![s] = NoCalls]
        /\ at' = [f \in Frames |-> IF f = target THEN "created" ELSE IF f = s THEN "idle" ELSE at[f]]
        /\ loop' = [f \in Frames |-> IF f = s THEN FreshLoop(<<User>>) ELSE loop[f]]
    BY <1>5 DEF FollowHandoff, FollowsHandoff, Enter, Forget
  <2>2. target \in Spaces
    BY <1>1, <1>2, <2>1 DEF LocalsType
  <2>3. target # s /\ at[target] = "idle"
    BY <1>1, <2>1, <2>2 DEF DispatchInv
  <2> HIDE DEF target
  <2>4. /\ at'[s] # "calls"
        /\ \A f \in Frames \ {s} : at'[f] = "calls" <=> at[f] = "calls"
    BY <1>1, <1>2, <2>1, <2>2, <2>3
  <2>5. \A f \in Frames \ {s} : call'[f] = call[f]
    BY <1>1, <2>1
  <2> QED BY <2>1, <2>4, <2>5, ForgetMessages
<1>6. ASSUME NEW s \in Spaces, EndDispatch(s) PROVE MessagesInv'
  <2>1. PICK outcome \in {"ended", "carried", "closing"} :
           call' = [call EXCEPT ![s] = NoCalls, ![Main][task[s].call] = outcome]
    BY <1>6 DEF EndDispatch
  <2>2. /\ at[s] = "ended" /\ at' = [at EXCEPT ![s] = "idle"]
        /\ loop' = [f \in Frames |-> IF f = s THEN FreshLoop(<<User>>) ELSE loop[f]]
    BY <1>6 DEF EndDispatch, Forget
  <2>3. task[s].call \in CallIds /\ Active(Main, task[s].call)
    BY <1>1, <2>2 DEF DispatchInv, Active
  <2> DEFINE i == task[s].call
  <2> HIDE DEF i
  <2>4. \A j \in 1..(loop[Main].first - 1) : call'[Main][j] = call[Main][j]
    <3>1. call' = [call EXCEPT ![s] = NoCalls, ![Main][i] = outcome]
      BY <2>1 DEF i
    <3>2. \A j \in CallIds : j # i => call'[Main][j] = call[Main][j]
      BY <1>1, <1>2, <3>1
    <3>3. \A j \in 1..(loop[Main].first - 1) : j \in CallIds /\ j # i
      BY <1>2, <2>3, ActiveIsLater DEF i
    <3> QED BY <3>2, <3>3
  <2>5. \A f \in Frames \ {s} : f # Main => call'[f] = call[f]
    BY <1>1, <1>2, <2>1
  <2>6. \A f \in Frames \ {s} : \A j \in 1..(loop[f].first - 1) : call'[f][j] = call[f][j]
    BY <2>4, <2>5
  <2>7. at'[s] # "calls" /\ \A f \in Frames \ {s} : at'[f] = at[f]
    BY <1>1, <1>2, <2>2
  <2> QED BY <2>2, <2>6, <2>7, ForgetMessages
<1> QED BY <1>3, <1>4, <1>5, <1>6 DEF Dispatches

LEMMA MessagesInit == Init => MessagesInv
<1> SUFFICES ASSUME Init, NEW f \in Frames PROVE MessagesOK(f)
  BY DEF MessagesInv
<1>1. User \in Messages /\ <<User>> \in Seq(Messages) /\ Append(History, User) \in Seq(Messages)
  <2>1. User \in Messages
    BY DEF Messages
  <2> QED BY <2>1, HistoryAssumption
<1>2. at[f] # "calls"
  BY DEF Init
<1>3. \E messages \in Seq(Messages) : loop[f] = FreshLoop(messages)
  BY <1>1 DEF Init
<1> QED BY <1>2, <1>3, FitFresh DEF MessagesOK

LEMMA MessagesNext == TurnInv /\ MessagesInv /\ [Next]_vars => MessagesInv'
<1> SUFFICES ASSUME TurnInv, MessagesInv, [Next]_vars PROVE MessagesInv'
  OBVIOUS
<1>1. CASE UNCHANGED <<at, loop, call>>
  BY <1>1 DEF MessagesInv, MessagesOK
<1>2. CASE \E f \in Frames : Runtime(f) \/ Model(f) \/ Calls(f)
  BY <1>2, RuntimeMessages, ModelMessages, ExecuteMessages, AppendMessages, EndTurnMessages DEF Calls
<1>3. CASE \E f \in Frames, i \in CallIds : CallSteps(f, i)
  BY <1>3, CallMessages
<1>4. CASE Dispatches
  BY <1>4, DispatchMessages
<1> QED BY <1>1, <1>2, <1>3, <1>4 DEF Next, Abort, ReplyEnded, vars

THEOREM MessagesInvariant == Spec => []MessagesInv
<1>1. Init => MessagesInv
  BY MessagesInit
<1>2. TurnInv /\ TurnInv' /\ MessagesInv /\ [Next]_vars => MessagesInv'
  BY MessagesNext
<1> QED BY <1>1, <1>2, TurnInvariant, PTL DEF Spec

(* stream(): every request a provider gets is legal, whatever the history   *)
(* of the conversation and however the turn went: each tool call is         *)
(* followed by its results at once, and there is no result without a call.  *)
THEOREM RequestsAreLegalHolds == Spec => []RequestsAreLegal
<1>1. MessagesInv => RequestsAreLegal
  BY ReplayIsLegal DEF MessagesInv, MessagesOK, MessagesFit, RequestsAreLegal
<1> QED BY <1>1, MessagesInvariant, PTL

(* appendToolExecutions() and prepareMessages(): the result of every call   *)
(* of the turn is in the next request, but for those that follow a dispatch *)
(* that carried its answer back.                                            *)
THEOREM ResultsReachTheModelHolds == Spec => []ResultsReachTheModel
<1>1. TurnInv /\ MessagesInv => ResultsReachTheModel
  <2> SUFFICES ASSUME TurnInv, MessagesInv, NEW f \in Frames, NEW i \in DOMAIN loop[f].turn,
                      at[f] \in {"model", "wrapUp"}, i < loop[f].next
               PROVE  \/ ToolResult(i, <<loop[f].called, i>>)
                            \in ToSet(PrepareMessages(loop[f].messages))
                      \/ \E j \in 1..(i - 1) : call[f][j] = "carried"
    BY DEF ResultsReachTheModel
  <2>1. LocalsType(loop[f]) /\ MessagesOK(f)
    BY DEF TurnInv, TurnType, LoopType, MessagesInv
  <2>2. i \in Nat \ {0} /\ loop[f].first \in Nat
    <3>1. loop[f].turn \in Seq(Kinds) /\ loop[f].first \in Nat
      BY <2>1 DEF LocalsType
    <3> QED BY <3>1
  <2>3. i \in 1..(loop[f].first - 1)
    <3>1. loop[f].first = loop[f].next
      BY <2>1 DEF MessagesOK, MessagesFit
    <3> QED BY <2>2, <3>1
  <2>4. \/ Outcome(loop[f].called, i) \in ToSet(Prepared(loop[f].messages).out)
        \/ \E j \in 1..(i - 1) : call[f][j] = "carried"
    BY <2>1, <2>3 DEF MessagesOK, MessagesFit
  <2> DEFINE p == Prepared(loop[f].messages)
  <2>5. p.out \in Seq(Messages) /\ MissingResults(p.pending) \in Seq(Messages)
    BY <2>1, PreparedRound, MissingTyped DEF Round, MessagesOK, MessagesFit
  <2>6. PrepareMessages(loop[f].messages) = p.out \o MissingResults(p.pending)
    BY DEF PrepareMessages
  <2> HIDE DEF p
  <2>7. ToSet(p.out) \subseteq ToSet(PrepareMessages(loop[f].messages))
    BY <2>5, <2>6, InConcatenation
  <2> QED BY <2>4, <2>7 DEF p, Outcome
<1> QED BY <1>1, TurnInvariant, MessagesInvariant, PTL

==============================================================================
