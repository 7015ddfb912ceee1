----------------------------- MODULE WeChatAdapter -----------------------------
(***************************************************************************)
(* The WeChat adapters of the gateway process (packages/gateway/src/       *)
(* platforms/wechat/index.ts) and the row they keep their session in       *)
(* (session.ts).  An adapter runs a loop of its own: it long-polls with a  *)
(* bot token, and without one it shows a QR code until the user scans it.  *)
(* save() of the session reads the row, merges a patch into it and writes  *)
(* it back; the save of the poll cursor is not awaited.                    *)
(*                                                                         *)
(* The cursor itself, the base url and the messages are left out: of a     *)
(* patch only its token matters.                                           *)
(***************************************************************************)
EXTENDS Integers, FiniteSets, SequencesExt

CONSTANTS Adapters,  \* adapter objects; one that is off may be built again
          Configs,   \* the configurations of an enabled channel
          None,      \* the absent value
          MaxLogins, \* bound: the tokens the platform gives out, numbered
          MaxSaves,  \* bound: the saves in flight when a cursor save starts
          Troubles,  \* what may go wrong, and what is rare
          MaxTroubles \* bound: how much of it happens

ASSUME AdapterAssumption ==
    /\ MaxLogins \in Nat /\ MaxSaves \in Nat /\ MaxTroubles \in Nat /\ None \notin Nat
    /\ None \notin Configs \cup Adapters

Tokens == 1..MaxLogins

VARIABLES adapter,   \* adapter[a]: its fields and where its loop is
          session,   \* the token in the session row, or None
          saves,     \* the saves that have read the row but not written it
          logins,    \* how many tokens were given out
          shown,     \* what the state row of the channel says, or None
          loggedOut, \* the tokens known when the session row was cleared
          overtaken, \* a save has written over a write it did not see
          trouble    \* what went wrong so far

adapterVars == <<adapter, session, saves, logins, shown, loggedOut, overtaken, trouble>>

Phase == {"off", "loading", "poll", "revoked", "login", "scan", "saving", "done", "closing"}
SaveKind == {"cursor", "revoke", "login", "close"}
(* Whether the state row says that the channel is enabled; its phases are   *)
(* left out.                                                                *)
Shown == {None, "disabled", "enabled"}

Fields == [phase : Phase, on : BOOLEAN, config : Configs \cup {None},
           token : Tokens \cup {None}, relogin : BOOLEAN]
Save == [by : Adapters, kind : SaveKind, writes : Tokens \cup {None}, late : BOOLEAN]

AdapterTypeOK ==
    /\ adapter \in [Adapters -> Fields]
    /\ session \in Tokens \cup {None}
    /\ saves \in Seq(Save)
    /\ logins \in 0..MaxLogins
    /\ shown \in Shown
    /\ loggedOut \subseteq Tokens
    /\ overtaken \in BOOLEAN
    /\ trouble \subseteq Troubles

Off == [phase |-> "off", on |-> FALSE, config |-> None, token |-> None, relogin |-> FALSE]

AdapterInit ==
    /\ adapter = [a \in Adapters |-> Off]
    /\ session = None
    /\ saves = <<>>
    /\ logins = 0
    /\ shown = None
    /\ loggedOut = {} /\ overtaken = FALSE
    /\ trouble = {}

(* Something rare happens, once.                                            *)
Happens(what) ==
    /\ what \in Troubles \ trouble /\ Cardinality(trouble) < MaxTroubles
    /\ trouble' = trouble \cup {what}

Calm == UNCHANGED trouble

At(a, phase) == adapter[a].phase = phase
Goes(a, phase) == adapter' = [adapter EXCEPT ![a].phase = phase]

(* An adapter whose loop runs.                                              *)
Looping(a) == adapter[a].phase \notin {"off", "loading", "closing"}

-----------------------------------------------------------------------------
(* The session row                                                          *)

(* save() has read the row: what it is going to write.                      *)
SaveStarts(a, kind, token) ==
    saves' = Append(saves, [by |-> a, kind |-> kind, writes |-> token, late |-> FALSE])

(* Broken: what the adapter knows of the session is saved with the cursor.  *)
CursorSaveOfAll(a) == SaveStarts(a, "cursor", adapter[a].token)

(* Broken: a session without a token is saved with an empty one.            *)
CursorSaveOfEmpty(a) == SaveStarts(a, "cursor", IF session = None THEN 0 ELSE session)

(* The save of a new cursor, which is not awaited.                          *)
CursorSave(a) == SaveStarts(a, "cursor", session)

(* The row was changed: every save in flight has missed it.                 *)
Missed(list) == [i \in DOMAIN list |-> [list[i] EXCEPT !.late = TRUE]]

(* The head of pollLoop(), where every way through the loop comes back to.  *)
LoopHead(fields) ==
    CASE ~fields.on -> [fields EXCEPT !.phase = "done"]
      [] fields.on /\ (fields.relogin \/ fields.token = None) ->
            [fields EXCEPT !.phase = "login", !.relogin = FALSE, !.token = None]
      [] OTHER -> [fields EXCEPT !.phase = "poll"]

LoopsOn(a) == adapter' = [adapter EXCEPT ![a] = LoopHead(@)]

(* The adapter goes on after a save it awaits.  A login whose token was not *)
(* saved ends like one that failed, but for the token.                      *)
Saved(save, done) ==
    LET a == save.by
    IN  CASE save.kind = "revoke" ->
                /\ adapter' = [adapter EXCEPT ![a] = LoopHead([@ EXCEPT !.token = None])]
                /\ UNCHANGED shown
          [] save.kind = "login" ->
                LoopsOn(a) /\ shown' = IF done THEN "enabled" ELSE shown
          [] save.kind = "close" ->
                /\ adapter' = [adapter EXCEPT ![a] = [Off EXCEPT !.config = adapter[a].config]]
                /\ UNCHANGED shown
          [] save.kind = "cursor" -> UNCHANGED <<adapter, shown>>

(* A save writes the row, or the store fails.                               *)
SaveEnds ==
    \E i \in DOMAIN saves : LET save == saves[i] IN
       /\ \/ /\ Calm
             /\ session' = save.writes
             /\ overtaken' = (overtaken \/ (save.late /\ session' # session))
             /\ saves' = IF session' = session THEN RemoveAt(saves, i)
                         ELSE Missed(RemoveAt(saves, i))
             /\ Saved(save, TRUE)
          \/ /\ Happens("fault")
             /\ saves' = RemoveAt(saves, i)
             /\ UNCHANGED <<session, overtaken>>
             /\ Saved(save, FALSE)
       /\ UNCHANGED <<logins, loggedOut>>

(* clear(), and the deletion by the web: the row goes, and the tokens that  *)
(* are known should not come back.                                          *)
ClearSession ==
    /\ session' = None
    /\ saves' = Missed(saves)
    /\ loggedOut' = loggedOut \cup (({session} \cup {adapter[a].token : a \in Adapters}) \ {None})

-----------------------------------------------------------------------------
(* The loop of an adapter                                                   *)

(* connect() has read the session.                                          *)
Loaded(a) ==
    /\ adapter' = [adapter EXCEPT ![a] = LoopHead([@ EXCEPT !.token = session])]
    /\ shown' = IF session = None THEN shown ELSE "enabled"

(* getUpdates() returns, with a new cursor or without, or fails.            *)
PollReturns(a) ==
    /\ At(a, "poll")
    /\ LoopsOn(a)
    /\ \/ UNCHANGED saves
       \/ Len(saves) < MaxSaves /\ CursorSave(a)
    /\ UNCHANGED <<session, logins, shown, loggedOut, overtaken, trouble>>

(* The platform no longer takes the token.                                  *)
TokenExpires(a) ==
    /\ At(a, "poll") /\ Happens("expiry")
    /\ Goes(a, "revoked")
    /\ SaveStarts(a, "revoke", None)
    /\ UNCHANGED <<session, logins, shown, loggedOut, overtaken>>

(* refreshQr() shows a code, or the platform fails and the loop tries again.*)
Login(a) ==
    /\ At(a, "login")
    /\ \/ Goes(a, "scan") /\ shown' = "enabled"
       \/ LoopsOn(a) /\ UNCHANGED shown
    /\ UNCHANGED <<session, saves, logins, loggedOut, overtaken, trouble>>

(* Broken: the login does not end with the adapter.                         *)
ScanGoesOnForEver(a) ==
    /\ At(a, "scan")
    /\ adapter' = [adapter EXCEPT ![a].phase = "login", ![a].relogin = FALSE]
    /\ UNCHANGED <<session, saves, logins, shown, loggedOut, overtaken, trouble>>

(* login() between two polls of the status: it ends with the adapter; a     *)
(* requested refresh or an expired code gets a new code.                    *)
ScanGoesOn(a) ==
    /\ At(a, "scan")
    /\ \/ ~adapter[a].on /\ LoopsOn(a)
       \/ /\ adapter[a].on
          /\ adapter' = [adapter EXCEPT ![a].phase = "login", ![a].relogin = FALSE]
    /\ UNCHANGED <<session, saves, logins, shown, loggedOut, overtaken, trouble>>

(* The status says that the user has confirmed: the adapter takes the token *)
(* and saves it, even if it was stopped or told to log in again meanwhile.  *)
ScanConfirmed(a) ==
    /\ At(a, "scan") /\ logins < MaxLogins
    /\ logins' = logins + 1
    /\ adapter' = [adapter EXCEPT ![a].phase = "saving", ![a].token = logins']
    /\ SaveStarts(a, "login", logins')
    /\ UNCHANGED <<session, shown, loggedOut, overtaken, trouble>>

(* disconnect() after the loop: the cursor is saved.                        *)
Close(a) ==
    /\ At(a, "done") /\ ~adapter[a].on
    /\ Goes(a, "closing")
    /\ SaveStarts(a, "close", session)
    /\ UNCHANGED <<session, logins, shown, loggedOut, overtaken, trouble>>

(* reauth(): the token is dropped and the loop told to log in again.        *)
Reauth(a) == adapter' = [adapter EXCEPT ![a].token = None, ![a].relogin = TRUE]

LoopSteps(a) == PollReturns(a) \/ Login(a) \/ ScanGoesOn(a) \/ Close(a)

AdapterNext ==
    \/ \E a \in Adapters : LoopSteps(a) \/ TokenExpires(a) \/ ScanConfirmed(a)
    \/ SaveEnds
==============================================================================
