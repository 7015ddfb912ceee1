-------------------------------- MODULE Gateway --------------------------------
(***************************************************************************)
(* A channel of the gateway process: the ChannelSupervisor (packages/      *)
(* gateway/src/supervisor.ts), the GatewayRunner (runner.ts) and the       *)
(* ConnectionsService (packages/agent/src/conversation/connections.ts)     *)
(* over the WeChat adapters.                                               *)
(*                                                                         *)
(* The web and the gateway share rows of one table: the configuration, the *)
(* session, the state that is shown and the last command.  On a timer the  *)
(* supervisor makes a pass: it reads the configuration, attaches, detaches *)
(* or restarts the adapter, and dispatches the command.  The process may   *)
(* crash or be stopped between any two steps, and the host starts it       *)
(* again.  The channel has no configuration in the environment.            *)
(***************************************************************************)
EXTENDS WeChatAdapter

CONSTANTS MaxPasses,   \* bound: the passes that could run beside each other
          MaxCommands, \* bound: the commands, numbered; a number is the nonce
          CommandTypes \* the commands the user gives

ASSUME GatewayAssumption == MaxCommands \in Nat /\ MaxPasses \in Nat

Passes == 1..MaxPasses
Nonces == 1..MaxCommands

VARIABLES config,     \* the configuration row: a configuration, or None if disabled
          command,    \* the command row, or None
          issued,     \* how many commands were given
          web,        \* the row a deletion of the integration deletes next
          up,         \* whether the process runs, is being stopped or is down
          pass,       \* pass[p]: where pass p is, and what it has read
          running,    \* the adapter in the map running, or None
          sender,     \* the adapter whose sender is registered, or None
          permission, \* the tool policy of the channel: a configuration, or None
          lastNonce,  \* the nonce dispatched last, or None
          dispatched  \* dispatched[n]: how often command n was carried out

gatewayVars ==
    <<config, command, issued, web, up, pass, running, sender, permission, lastNonce, dispatched>>
vars == <<adapterVars, gatewayVars>>

Command == [type : CommandTypes, nonce : Nonces]
PassAt == {"idle", "resolved", "detaching", "disabling", "attaching", "reading", "clearing",
           "loggingOut", "reauth"}
PassRecord == [at : PassAt, desired : Configs \cup {None}, adapter : Adapters \cup {None}]
NoPass == [at |-> "idle", desired |-> None, adapter |-> None]

TypeOK ==
    /\ AdapterTypeOK
    /\ config \in Configs \cup {None}
    /\ command \in Command \cup {None}
    /\ issued \in 0..MaxCommands
    /\ web \in {"idle", "session", "state", "command"}
    /\ up \in {"up", "stopping", "down"}
    /\ pass \in [Passes -> PassRecord]
    /\ {running, sender} \subseteq Adapters \cup {None}
    /\ permission \in Configs \cup {None}
    /\ lastNonce \in Nonces \cup {None}
    /\ dispatched \in [Nonces -> Nat]

Init ==
    /\ AdapterInit
    /\ config = None /\ command = None /\ issued = 0 /\ web = "idle"
    /\ up = "up"
    /\ pass = [p \in Passes |-> NoPass]
    /\ running = None /\ sender = None /\ permission = None
    /\ lastNonce = None
    /\ dispatched = [n \in Nonces |-> 0]

-----------------------------------------------------------------------------
(* The web and the command line                                             *)

(* The integration is saved: enabled, changed or disabled.                  *)
SaveConfig ==
    /\ web = "idle"
    /\ config' \in (Configs \cup {None}) \ {config}
    /\ UNCHANGED <<adapterVars, command, issued, web, up, pass, running, sender, permission,
                   lastNonce, dispatched>>

(* requestCommand() overwrites the command row.                             *)
RequestCommand ==
    /\ issued < MaxCommands
    /\ issued' = issued + 1
    /\ \E type \in CommandTypes : command' = [type |-> type, nonce |-> issued']
    /\ UNCHANGED <<adapterVars, config, web, up, pass, running, sender, permission, lastNonce,
                   dispatched>>

(* deleteWeChatIntegration() deletes row after row.                         *)
DeleteIntegration ==
    /\ \/ /\ web = "idle" /\ Happens("delete")
          /\ config' = None /\ web' = "session"
          /\ UNCHANGED <<command, shown, session, saves, loggedOut>>
       \/ /\ web = "session" /\ Calm
          /\ ClearSession /\ web' = "state"
          /\ UNCHANGED <<config, command, shown>>
       \/ /\ web = "state" /\ Calm
          /\ shown' = None /\ web' = "command"
          /\ UNCHANGED <<config, command, session, saves, loggedOut>>
       \/ /\ web = "command" /\ Calm
          /\ command' = None /\ web' = "idle"
          /\ UNCHANGED <<config, shown, session, saves, loggedOut>>
    /\ UNCHANGED <<adapter, logins, overtaken, issued, up, pass, running, sender, permission,
                   lastNonce, dispatched>>

-----------------------------------------------------------------------------
(* A pass of the supervisor: reconcile() and reconcileChannel()             *)

(* The next step of a pass, which needs nothing of the steps before.        *)
PassGoes(p, at) == pass' = [pass EXCEPT ![p] = [NoPass EXCEPT !.at = at]]
PassEnds(p) == pass' = [pass EXCEPT ![p] = NoPass]

(* Broken: the passes of two ticks overlap.                                 *)
MayStartAlways(p) ==
    up = "up" /\ pass[p].at = "idle" /\ \A q \in 1..(p - 1) : pass[q].at # "idle"

(* A tick of the timer starts no pass beside another, nor once stopped.     *)
MayStart(p) == up = "up" /\ p = 1 /\ \A q \in Passes : pass[q].at = "idle"

(* resolve() reads the configuration; if it cannot, the channel counts as   *)
(* disabled.                                                                *)
Tick(p) ==
    /\ MayStart(p)
    /\ \/ Calm /\ pass' = [pass EXCEPT ![p] = [at |-> "resolved", desired |-> config,
                                               adapter |-> None]]
       \/ Happens("fault") /\ pass' = [pass EXCEPT ![p].at = "resolved"]
    /\ UNCHANGED <<adapter, session, saves, logins, shown, loggedOut, overtaken,
                   config, command, issued, web, up, running, sender, permission, lastNonce,
                   dispatched>>

(* runner.detach(): disconnect() tells the loop to end.                     *)
StartDetach(p, a) ==
    /\ adapter' = [adapter EXCEPT ![a].on = FALSE]
    /\ pass' = [pass EXCEPT ![p].at = "detaching", ![p].adapter = a]

(* attach() builds an adapter, sets the policy, registers the sender and    *)
(* connects.                                                                *)
StartAttach(p) ==
    LET desired == pass[p].desired
        a == CHOOSE b \in Adapters : At(b, "off")
    IN  /\ \E b \in Adapters : At(b, "off")
        /\ adapter' = [adapter EXCEPT ![a] = [Off EXCEPT !.phase = "loading", !.on = TRUE,
                                                         !.config = desired]]
        /\ pass' = [pass EXCEPT ![p].at = "attaching", ![p].adapter = a]
        /\ permission' = desired /\ sender' = a

(* What the configuration asks of the adapter that runs now.                *)
Reconcile(p) ==
    LET desired == pass[p].desired
    IN  /\ pass[p].at = "resolved"
        /\ \/ /\ desired = None /\ running = None
              /\ PassEnds(p) /\ UNCHANGED <<adapter, permission, sender>>
           \/ /\ running # None /\ desired # adapter[running].config
              /\ StartDetach(p, running) /\ UNCHANGED <<permission, sender>>
           \/ /\ desired # None /\ running = None
              /\ StartAttach(p)
           \/ /\ running # None /\ desired = adapter[running].config
              /\ permission' = desired
              /\ PassGoes(p, "reading") /\ UNCHANGED <<adapter, sender>>
        /\ UNCHANGED <<session, saves, logins, shown, loggedOut, overtaken, trouble,
                       config, command, issued, web, up, running, lastNonce, dispatched>>

(* Broken: the policy of the channel stays.                                 *)
DropChannelOnly == sender' = None /\ UNCHANGED permission

(* The end of runner.detach().                                              *)
DropChannel == sender' = None /\ permission' = None

(* Broken: the adapter need not be off.                                     *)
DisconnectedAtOnce(a) == ~adapter[a].on

(* disconnect() returns once the loop has ended and the cursor is saved.    *)
Disconnected(a) == At(a, "off")

(* The adapter is detached; a changed configuration attaches a new one.     *)
Detached(p) ==
    /\ pass[p].at = "detaching" /\ Disconnected(pass[p].adapter)
    /\ running' = None
    /\ DropChannel
    /\ adapter' = [adapter EXCEPT ![pass[p].adapter].config = None]
    /\ pass' = [pass EXCEPT ![p].at = IF pass[p].desired = None THEN "disabling" ELSE "resolved",
                            ![p].adapter = None]
    /\ UNCHANGED <<session, saves, logins, shown, loggedOut, overtaken, trouble, config, command, issued, web, up, lastNonce, dispatched>>

(* The channel is shown as disabled, or the store fails.                    *)
PublishDisabled(p) ==
    /\ pass[p].at = "disabling"
    /\ \/ Calm /\ shown' = "disabled"
       \/ Happens("fault") /\ UNCHANGED shown
    /\ PassEnds(p)
    /\ UNCHANGED <<adapter, session, saves, logins, loggedOut, overtaken, config, command,
                   issued, web, up, running, sender, permission, lastNonce, dispatched>>

(* connect() returns, or cannot read the session: the adapter is dropped,   *)
(* but not its sender.                                                      *)
Attached(p) ==
    LET a == pass[p].adapter
    IN  /\ pass[p].at = "attaching"
        /\ \/ Calm /\ Loaded(a) /\ running' = a /\ PassGoes(p, "reading")
           \/ /\ Happens("fault")
              /\ Goes(a, "off")
              /\ PassEnds(p) /\ UNCHANGED <<shown, running>>
        /\ UNCHANGED <<session, saves, logins, loggedOut, overtaken, config, command, issued,
                       web, up, sender, permission, lastNonce, dispatched>>

(* Broken: every pending command is new.                                    *)
IsAnyCommand == command # None

(* A command is dispatched once.                                            *)
IsNewCommand == command # None /\ command.nonce # lastNonce

(* dispatchCommand() reads the command row.                                 *)
ReadCommand(p) ==
    /\ pass[p].at = "reading"
    /\ \/ ~IsNewCommand /\ PassEnds(p) /\ UNCHANGED <<adapter, lastNonce, dispatched>>
       \/ /\ IsNewCommand
          /\ lastNonce' = command.nonce
          /\ IF running = None
             THEN PassGoes(p, "clearing") /\ UNCHANGED <<adapter, dispatched>>
             ELSE /\ dispatched' = [dispatched EXCEPT ![command.nonce] = @ + 1]
                  /\ IF command.type = "logout"
                     THEN pass' = [pass EXCEPT ![p].at = "loggingOut", ![p].adapter = running]
                     ELSE PassGoes(p, "clearing")
                  /\ IF command.type = "refresh" THEN Reauth(running) ELSE UNCHANGED adapter
    /\ UNCHANGED <<session, saves, logins, shown, loggedOut, overtaken, trouble, config,
                   command, issued, web, up, running, sender, permission>>

(* logout() of the adapter clears the session, or the store fails, and then *)
(* logs in again.                                                           *)
Logout(p) ==
    /\ \/ /\ pass[p].at = "loggingOut"
          /\ Calm /\ ClearSession
          /\ pass' = [pass EXCEPT ![p].at = "reauth"] /\ UNCHANGED adapter
       \/ /\ pass[p].at = "loggingOut"
          /\ Happens("fault") /\ UNCHANGED <<session, saves, loggedOut>>
          /\ pass' = [pass EXCEPT ![p].at = "reauth"] /\ UNCHANGED adapter
       \/ /\ pass[p].at = "reauth"
          /\ Reauth(pass[p].adapter)
          /\ PassGoes(p, "clearing") /\ UNCHANGED <<session, saves, loggedOut, trouble>>
    /\ UNCHANGED <<logins, shown, overtaken, config, command, issued, web, up, running, sender,
                   permission, lastNonce, dispatched>>

(* clearCommand() deletes the command row, whatever it holds by now, or the *)
(* store fails and the command stays.                                       *)
ClearCommand(p) ==
    /\ pass[p].at = "clearing"
    /\ \/ Calm /\ command' = None
       \/ Happens("fault") /\ UNCHANGED command
    /\ PassEnds(p)
    /\ UNCHANGED <<adapter, session, saves, logins, shown, loggedOut, overtaken, config, issued,
                   web, up, running, sender, permission, lastNonce, dispatched>>

Pass(p) ==
    \/ Tick(p) \/ Reconcile(p) \/ Detached(p) \/ PublishDisabled(p) \/ Attached(p)
    \/ ReadCommand(p) \/ Logout(p) \/ ClearCommand(p)

-----------------------------------------------------------------------------
(* The process                                                              *)

(* stop() tells the running adapter to end.  It does not wait for a pass,   *)
(* which may attach another adapter.                                        *)
Stop ==
    /\ \/ up = "up" /\ Happens("stop")
       \/ up = "stopping" /\ Calm /\ running # None /\ adapter[running].on
    /\ up' = "stopping"
    /\ adapter' = IF running = None THEN adapter ELSE [adapter EXCEPT ![running].on = FALSE]
    /\ UNCHANGED <<session, saves, logins, shown, loggedOut, overtaken, config, command, issued,
                   web, pass, running, sender, permission, lastNonce, dispatched>>

(* The adapter that stop() waits for is detached.                           *)
StopDetaches ==
    /\ up = "stopping" /\ running # None /\ Disconnected(running)
    /\ adapter' = [adapter EXCEPT ![running].config = None]
    /\ running' = None
    /\ DropChannel
    /\ UNCHANGED <<session, saves, logins, shown, loggedOut, overtaken, trouble,
                   config, command, issued, web, up, pass, lastNonce, dispatched>>

(* All of the process is lost but the rows.                                 *)
ProcessEnds ==
    /\ up' = "down"
    /\ adapter' = [a \in Adapters |-> Off] /\ saves' = <<>>
    /\ pass' = [p \in Passes |-> NoPass]
    /\ running' = None /\ sender' = None /\ permission' = None /\ lastNonce' = None
    /\ UNCHANGED <<session, logins, shown, loggedOut, overtaken, config, command, issued, web,
                   dispatched>>

(* The process exits after stop().                                          *)
Exit ==
    /\ up = "stopping" /\ IF running = None THEN TRUE ELSE adapter[running].on
    /\ Calm /\ ProcessEnds

Crash == up # "down" /\ Happens("crash") /\ ProcessEnds

(* The host starts the process again.                                       *)
Start ==
    /\ up = "down" /\ up' = "up"
    /\ UNCHANGED <<adapterVars, config, command, issued, web, pass, running, sender, permission,
                   lastNonce, dispatched>>

Next ==
    \/ AdapterNext /\ UNCHANGED gatewayVars
    \/ SaveConfig \/ RequestCommand \/ DeleteIntegration
    \/ \E p \in Passes : Pass(p)
    \/ Stop \/ StopDetaches \/ Exit \/ Crash \/ Start

Spec == Init /\ [][Next]_vars

(* The timer ticks, the store and the platform answer or fail, and the host *)
(* restarts the process.  The user need not do anything.                    *)
Fairness ==
    /\ \A a \in Adapters : WF_vars(LoopSteps(a) /\ UNCHANGED gatewayVars)
    /\ WF_vars(SaveEnds /\ UNCHANGED gatewayVars)
    /\ WF_vars(\E p \in Passes : Pass(p))
    /\ WF_vars(StopDetaches) /\ WF_vars(Exit) /\ WF_vars(Start)

FairSpec == Spec /\ Fairness

-----------------------------------------------------------------------------
(* Properties                                                               *)

(* However ticks, restarts of a changed channel, stop() and failed          *)
(* connects interleave, two adapters never poll the platform at once: they  *)
(* would answer every message twice and fight for the session row.          *)
OnePoller == \A a, b \in Adapters : Looping(a) /\ Looping(b) => a = b

(* A message is handled under the policy of the channel at that moment,     *)
(* though its adapter may be detached by then.  That policy is the one of   *)
(* the adapter that is registered, and there is none without one.           *)
PolicyIsOfTheAdapter ==
    permission # None => sender # None /\ adapter[sender].config = permission

(* The state row does not say that the channel is connected or waits for a  *)
(* scan when no adapter is there.  A crash, a stop or a failed write leave  *)
(* such a row behind, and no later pass corrects it.                        *)
ShownStateIsTrue ==
    (running = None /\ \A p \in Passes : pass[p].at = "idle") =>
       \/ shown \in {None, "disabled"}
       \/ trouble \cap {"crash", "stop", "fault"} # {}

(* The session row never holds a token that was logged out, and it does     *)
(* hold the token the adapter polls with, so that a restart needs no new    *)
(* scan.  The exception is a save that wrote over a write it did not see;   *)
(* it can bring back a token after a logout.                                *)
SessionIsTrue ==
    \/ overtaken
    \/ /\ session \in loggedOut => "fault" \in trouble
       /\ \A a \in Adapters : At(a, "poll") /\ adapter[a].token # None =>
             session = adapter[a].token \/ adapter[a].token \in loggedOut \/ "fault" \in trouble

(* "the gateway dispatches a command at most once per nonce": once per      *)
(* process, even if the command row could not be deleted.                   *)
CommandsAtMostOnce ==
    \A n \in Nonces : dispatched[n] <= 1 + Cardinality(trouble \cap {"crash", "stop"})

(* Adapter and configuration agree.                                         *)
Agreed ==
    IF config = None THEN running = None
    ELSE running # None /\ adapter[running].config = config

(* Command n waits in its row.                                              *)
Pending(n) == command # None /\ command.nonce = n

(* Unless the user changes the configuration for ever, it takes effect; and *)
(* a command that stays is carried out unless the channel is disabled - in  *)
(* spite of crashes and of failures of the store.  A command may not stay:  *)
(* a newer one replaces it, and the pass that carries out an older one      *)
(* deletes the newer one unread.                                            *)
RequestsAreFollowed ==
    /\ []<>Agreed \/ []<><<SaveConfig>>_vars
    /\ \A n \in Nonces :
          (up = "up" /\ Pending(n)) ~>
             (up # "up" \/ ~Pending(n) \/ config = None \/ dispatched[n] > 0)
==============================================================================
