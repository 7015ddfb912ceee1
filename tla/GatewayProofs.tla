----------------------------- MODULE GatewayProofs -----------------------------
(***************************************************************************)
(* Proofs about Gateway, for any adapters, configurations, commands, logins *)
(* and troubles: two adapters never poll at once; the policy of the channel *)
(* is that of its adapter; a command is carried out at most once per        *)
(* process; the state row shows no channel that is not there, and the       *)
(* session row no token that was logged out, but for named failures.        *)
(*                                                                          *)
(* None of the five is inductive.  The first two need that passes do not    *)
(* overlap, that a pass which waits for an adapter knows where it is        *)
(* (PassKnows), and that a save goes on with the adapter that awaits it     *)
(* and with no other (SavesAreAwaited).  The state row needs the passes     *)
(* that are going to write it (ShownIsKnown).  The session row needs what   *)
(* every save in flight is going to write (TokensAreKnown, SavesAreTrue)    *)
(* and that only one adapter polls.                                         *)
(***************************************************************************)
EXTENDS Gateway, FiniteSetTheorems, TLAPS

(* Only the first pass ever runs. *)
OnePass == \A p \in Passes : pass[p].at # "idle" => p = 1

(* What a pass that waits for its adapter can rely on. *)
PassKnows ==
    \A p \in Passes :
        /\ pass[p].at = "attaching" =>
              /\ pass[p].adapter \in Adapters
              /\ At(pass[p].adapter, "loading")
              /\ running = None /\ sender = pass[p].adapter
        /\ pass[p].at = "detaching" =>
              /\ pass[p].adapter \in Adapters
              /\ running \in {None, pass[p].adapter}

(* Pass p attaches adapter a. *)
Attaches(p, a) == pass[p].at = "attaching" /\ pass[p].adapter = a

(* An adapter that is not off is the running one, or is being attached. *)
ActiveIsKnown ==
    \A a \in Adapters :
        ~At(a, "off") => running = a \/ \E p \in Passes : Attaches(p, a)

RunningSends == running # None => sender = running

(* Where the loop of an adapter waits for a save. *)
AwaitedAt == [revoke |-> "revoked", login |-> "saving", close |-> "closing"]

(* Save i is one that its adapter awaits. *)
Awaited(i) == saves[i].kind # "cursor"

SavesAreAwaited ==
    /\ \A i \in DOMAIN saves :
          Awaited(i) => adapter[saves[i].by].phase = AwaitedAt[saves[i].kind]
    /\ \A i, j \in DOMAIN saves :
          Awaited(i) /\ Awaited(j) /\ saves[i].by = saves[j].by => i = j

(* Everything of the invariant of the channel but the saves. *)
PassInv == OnePass /\ PassKnows /\ ActiveIsKnown /\ RunningSends /\ PolicyIsOfTheAdapter

ChannelInv == PassInv /\ SavesAreAwaited

(* How often the process ended or is about to end. *)
Ends == Cardinality(trouble \cap {"crash", "stop"})

(* Commands are numbered as they come, so that the last one dispatched is   *)
(* not after the one in the row; and every command up to it may have been   *)
(* carried out once by this process, the others only by processes before.   *)
CommandInv ==
    /\ command # None => command.nonce <= issued
    /\ lastNonce # None => lastNonce <= issued
    /\ command # None /\ lastNonce # None => lastNonce <= command.nonce
    /\ \A n \in Nonces :
          dispatched[n] + (IF up = "stopping" THEN 1 ELSE 0)
            <= Ends + (IF lastNonce # None /\ n <= lastNonce THEN 1 ELSE 0)

GatewayInv == TypeOK /\ ChannelInv /\ CommandInv

-----------------------------------------------------------------------------
(* What the helpers return                                                  *)

(* RemoveAt closes the gap. *)
LEMMA RemoveAtList ==
    ASSUME NEW S, NEW s \in Seq(S), NEW i \in DOMAIN s
    PROVE  /\ RemoveAt(s, i) \in Seq(S)
           /\ DOMAIN RemoveAt(s, i) = 1..(Len(s) - 1)
           /\ \A j \in 1..(Len(s) - 1) :
                 RemoveAt(s, i)[j] = IF j < i THEN s[j] ELSE s[j + 1]
<1> DEFINE before == SubSeq(s, 1, i - 1)
           after == SubSeq(s, i + 1, Len(s))
<1>1. Len(s) \in Nat /\ i \in 1..Len(s)
  OBVIOUS
<1>2. /\ before \in Seq(S) /\ Len(before) = i - 1
      /\ \A j \in 1..(i - 1) : before[j] = s[j]
  BY <1>1
<1>3. /\ after \in Seq(S) /\ Len(after) = Len(s) - i
      /\ \A j \in 1..(Len(s) - i) : after[j] = s[i + j]
  BY <1>1
<1> HIDE DEF before, after
<1>4. /\ before \o after \in Seq(S) /\ Len(before \o after) = Len(s) - 1
      /\ \A j \in 1..(Len(s) - 1) :
            (before \o after)[j] = IF j < i THEN before[j] ELSE after[j - i + 1]
  BY SMTT(30), <1>1, <1>2, <1>3
<1>5. RemoveAt(s, i) = before \o after
  BY DEF RemoveAt, before, after
<1>6. /\ RemoveAt(s, i) \in Seq(S)
      /\ DOMAIN RemoveAt(s, i) = 1..(Len(s) - 1)
  BY <1>1, <1>4, <1>5
<1>7. ASSUME NEW j \in 1..(Len(s) - 1)
      PROVE  RemoveAt(s, i)[j] = IF j < i THEN s[j] ELSE s[j + 1]
  <2>1. CASE j < i
    BY <1>1, <1>2, <1>4, <1>5, <2>1
  <2>2. CASE j >= i
    <3>1. j - i + 1 \in 1..(Len(s) - i) /\ i + (j - i + 1) = j + 1
      BY <1>1, <2>2
    <3>2. RemoveAt(s, i)[j] = after[j - i + 1]
      BY <1>1, <1>4, <1>5, <2>2
    <3>3. after[j - i + 1] = s[i + (j - i + 1)]
      BY <1>3, <3>1
    <3> QED BY <1>1, <2>2, <3>1, <3>2, <3>3
  <2> QED BY <1>1, <2>1, <2>2
<1> QED BY <1>6, <1>7

(* Missed changes nothing but that the saves are late. *)
LEMMA MissedList ==
    ASSUME NEW list \in Seq(Save)
    PROVE  /\ Missed(list) \in Seq(Save) /\ DOMAIN Missed(list) = DOMAIN list
           /\ \A i \in DOMAIN list :
                 Missed(list)[i].by = list[i].by /\ Missed(list)[i].kind = list[i].kind
<1>1. ASSUME NEW save \in Save
      PROVE  /\ [save EXCEPT !.late = TRUE] \in Save
             /\ [save EXCEPT !.late = TRUE].by = save.by
             /\ [save EXCEPT !.late = TRUE].kind = save.kind
  BY DEF Save
<1>2. Len(list) \in Nat /\ DOMAIN list = 1..Len(list) /\ \A i \in 1..Len(list) : list[i] \in Save
  OBVIOUS
<1>3. Missed(list) \in [1..Len(list) -> Save]
  BY <1>1, <1>2 DEF Missed
<1>4. Missed(list) \in Seq(Save)
  BY <1>2, <1>3
<1>5. \A i \in DOMAIN list :
        Missed(list)[i].by = list[i].by /\ Missed(list)[i].kind = list[i].kind
  BY <1>1, <1>2 DEF Missed
<1> QED BY <1>4, <1>5 DEF Missed

(* The head of the loop keeps the configuration and ends in a phase of a    *)
(* loop that waits for no save.                                             *)
LEMMA LoopHeadFields ==
    ASSUME NEW fields \in Fields
    PROVE  /\ LoopHead(fields) \in Fields
           /\ LoopHead(fields).config = fields.config
           /\ LoopHead(fields).phase \in {"done", "login", "poll"}
BY DEF LoopHead, Fields, Phase

LEMMA OffFields == Off \in Fields
BY DEF Off, Fields, Phase

-----------------------------------------------------------------------------
(* Types                                                                    *)

LEMMA NoPassRecord == NoPass \in PassRecord
BY DEF NoPass, PassRecord, PassAt

LEMMA InitType == Init => TypeOK
<1> SUFFICES ASSUME Init PROVE TypeOK
  OBVIOUS
<1>1. <<>> \in Seq(Save)
  OBVIOUS
<1>2. AdapterTypeOK
  <2>1. adapter \in [Adapters -> Fields]
    BY OffFields DEF Init, AdapterInit
  <2>2. saves \in Seq(Save)
    BY <1>1 DEF Init, AdapterInit
  <2>3. overtaken \in BOOLEAN
    BY DEF Init, AdapterInit
  <2> QED BY <2>1, <2>2, <2>3, AdapterAssumption DEF Init, AdapterInit, AdapterTypeOK, Shown
<1>3. pass \in [Passes -> PassRecord]
  BY NoPassRecord DEF Init
<1> QED BY <1>2, <1>3, GatewayAssumption DEF Init, TypeOK

(* The save that an adapter starts is a save. *)
LEMMA SaveStartsType ==
    ASSUME NEW a \in Adapters, NEW kind \in SaveKind, NEW token \in Tokens \cup {None},
           saves \in Seq(Save), SaveStarts(a, kind, token)
    PROVE  saves' \in Seq(Save)
<1>1. [by |-> a, kind |-> kind, writes |-> token, late |-> FALSE] \in Save
  BY DEF Save
<1> QED BY <1>1 DEF SaveStarts

(* A loop that goes on, or an adapter that goes to another phase, has the   *)
(* fields of an adapter.                                                    *)
LEMMA AdapterStepsType ==
    ASSUME NEW a \in Adapters, adapter \in [Adapters -> Fields]
    PROVE  /\ LoopsOn(a) => adapter' \in [Adapters -> Fields]
           /\ \A phase \in Phase : Goes(a, phase) => adapter' \in [Adapters -> Fields]
           /\ Reauth(a) => adapter' \in [Adapters -> Fields]
           /\ [adapter EXCEPT ![a].on = FALSE] \in [Adapters -> Fields]
           /\ [adapter EXCEPT ![a].config = None] \in [Adapters -> Fields]
<1>1. adapter[a] \in Fields
  OBVIOUS
<1>2. LoopHead(adapter[a]) \in Fields
  BY <1>1, LoopHeadFields
<1>3. LoopsOn(a) => adapter' \in [Adapters -> Fields]
  BY <1>2 DEF LoopsOn
<1>4. ASSUME NEW phase \in Phase, Goes(a, phase) PROVE adapter' \in [Adapters -> Fields]
  BY <1>1, <1>4 DEF Goes, Fields
<1>5. Reauth(a) => adapter' \in [Adapters -> Fields]
  <2>1. [adapter EXCEPT ![a].token = None, ![a].relogin = TRUE] \in [Adapters -> Fields]
    BY DEF Fields
  <2> QED BY <2>1 DEF Reauth
<1>6. /\ [adapter EXCEPT ![a].on = FALSE] \in [Adapters -> Fields]
      /\ [adapter EXCEPT ![a].config = None] \in [Adapters -> Fields]
  BY <1>1 DEF Fields
<1> QED BY <1>3, <1>4, <1>5, <1>6

(* The adapter that goes on after its save. *)
LEMMA SavedType ==
    ASSUME AdapterTypeOK, NEW save \in Save, NEW done \in BOOLEAN, Saved(save, done)
    PROVE  adapter' \in [Adapters -> Fields] /\ shown' \in Shown
<1>1. save.by \in Adapters /\ save.kind \in SaveKind
  BY DEF Save
<1>2. adapter \in [Adapters -> Fields] /\ adapter[save.by] \in Fields /\ shown \in Shown
  BY <1>1 DEF AdapterTypeOK
<1>3. CASE save.kind = "revoke"
  <2>1. [adapter[save.by] EXCEPT !.token = None] \in Fields
    BY <1>2 DEF Fields
  <2>2. LoopHead([adapter[save.by] EXCEPT !.token = None]) \in Fields
    BY <2>1, LoopHeadFields
  <2> QED BY <1>2, <1>3, <2>2 DEF Saved
<1>4. CASE save.kind = "login"
  BY <1>1, <1>2, <1>4, AdapterStepsType DEF Saved, Shown
<1>5. CASE save.kind = "close"
  <2>1. [Off EXCEPT !.config = adapter[save.by].config] \in Fields
    BY <1>2, OffFields DEF Fields, Off
  <2> QED BY <1>2, <1>5, <2>1 DEF Saved
<1>6. CASE save.kind = "cursor"
  BY <1>2, <1>6 DEF Saved
<1> QED BY <1>1, <1>3, <1>4, <1>5, <1>6 DEF SaveKind

LEMMA AdapterTypeStep == AdapterTypeOK /\ AdapterNext => AdapterTypeOK'
<1> SUFFICES ASSUME AdapterTypeOK, AdapterNext PROVE AdapterTypeOK'
  OBVIOUS
<1> USE AdapterAssumption
<1>1. ASSUME NEW a \in Adapters, PollReturns(a) PROVE AdapterTypeOK'
  <2>1. adapter' \in [Adapters -> Fields]
    BY <1>1, AdapterStepsType DEF PollReturns, AdapterTypeOK
  <2>2. saves' \in Seq(Save)
    BY <1>1, SaveStartsType DEF PollReturns, AdapterTypeOK, CursorSave, SaveKind
  <2> QED BY <1>1, <2>1, <2>2 DEF PollReturns, AdapterTypeOK
<1>2. ASSUME NEW a \in Adapters, TokenExpires(a) PROVE AdapterTypeOK'
  <2>1. adapter' \in [Adapters -> Fields]
    BY <1>2, AdapterStepsType DEF TokenExpires, AdapterTypeOK, Phase
  <2>2. saves' \in Seq(Save)
    BY <1>2, SaveStartsType DEF TokenExpires, AdapterTypeOK, SaveKind
  <2> QED BY <1>2, <2>1, <2>2 DEF TokenExpires, AdapterTypeOK, Happens
<1>3. ASSUME NEW a \in Adapters, Login(a) PROVE AdapterTypeOK'
  <2>1. adapter' \in [Adapters -> Fields]
    BY <1>3, AdapterStepsType DEF Login, AdapterTypeOK, Phase
  <2> QED BY <1>3, <2>1 DEF Login, AdapterTypeOK, Shown
<1>4. ASSUME NEW a \in Adapters, ScanGoesOn(a) PROVE AdapterTypeOK'
  <2>1. LoopsOn(a) => adapter' \in [Adapters -> Fields]
    BY AdapterStepsType DEF AdapterTypeOK
  <2>2. [adapter EXCEPT ![a].phase = "login", ![a].relogin = FALSE] \in [Adapters -> Fields]
    BY ZenonT(40) DEF AdapterTypeOK, Fields, Phase
  <2> QED BY <1>4, <2>1, <2>2 DEF ScanGoesOn, AdapterTypeOK
<1>5. ASSUME NEW a \in Adapters, ScanConfirmed(a) PROVE AdapterTypeOK'
  <2>1. logins' \in Tokens /\ logins' \in 0..MaxLogins
    BY <1>5 DEF ScanConfirmed, AdapterTypeOK, Tokens
  <2>2. adapter' \in [Adapters -> Fields]
    <3>1. [adapter EXCEPT ![a].phase = "saving", ![a].token = logins'] \in [Adapters -> Fields]
      BY ZenonT(40), <2>1 DEF AdapterTypeOK, Fields, Phase
    <3> QED BY <1>5, <3>1 DEF ScanConfirmed
  <2>3. saves' \in Seq(Save)
    BY <1>5, <2>1, SaveStartsType DEF ScanConfirmed, AdapterTypeOK, SaveKind
  <2> QED BY <1>5, <2>1, <2>2, <2>3 DEF ScanConfirmed, AdapterTypeOK
<1>6. ASSUME NEW a \in Adapters, Close(a) PROVE AdapterTypeOK'
  <2>1. adapter' \in [Adapters -> Fields]
    BY <1>6, AdapterStepsType DEF Close, AdapterTypeOK, Phase
  <2>2. saves' \in Seq(Save)
    BY <1>6, SaveStartsType DEF Close, AdapterTypeOK, SaveKind
  <2> QED BY <1>6, <2>1, <2>2 DEF Close, AdapterTypeOK
<1>7. CASE SaveEnds
  <2>1. PICK i \in DOMAIN saves :
          /\ \/ /\ Calm
                /\ session' = saves[i].writes
                /\ overtaken' = (overtaken \/ (saves[i].late /\ session' # session))
                /\ saves' = IF session' = session THEN RemoveAt(saves, i)
                            ELSE Missed(RemoveAt(saves, i))
                /\ Saved(saves[i], TRUE)
             \/ /\ Happens("fault")
                /\ saves' = RemoveAt(saves, i)
                /\ UNCHANGED <<session, overtaken>>
                /\ Saved(saves[i], FALSE)
          /\ UNCHANGED <<logins, loggedOut>>
    BY <1>7 DEF SaveEnds
  <2>2. saves[i] \in Save /\ RemoveAt(saves, i) \in Seq(Save)
    BY RemoveAtList DEF AdapterTypeOK
  <2>3. Missed(RemoveAt(saves, i)) \in Seq(Save)
    BY <2>2, MissedList
  <2>4. saves[i].writes \in Tokens \cup {None} /\ saves[i].late \in BOOLEAN
    BY <2>2 DEF Save
  <2>5. adapter' \in [Adapters -> Fields] /\ shown' \in Shown
    BY <2>1, <2>2, SavedType
  <2> QED BY <2>1, <2>2, <2>3, <2>4, <2>5 DEF AdapterTypeOK, Calm, Happens
<1> QED BY <1>1, <1>2, <1>3, <1>4, <1>5, <1>6, <1>7 DEF AdapterNext, LoopSteps

(* The records a step of a pass leaves. *)
LEMMA PassType ==
    ASSUME NEW p \in Passes, pass \in [Passes -> PassRecord]
    PROVE  /\ PassEnds(p) => pass' \in [Passes -> PassRecord]
           /\ \A at \in PassAt : PassGoes(p, at) => pass' \in [Passes -> PassRecord]
           /\ \A at \in PassAt : [pass EXCEPT ![p].at = at] \in [Passes -> PassRecord]
           /\ \A at \in PassAt, a \in Adapters \cup {None} :
                 [pass EXCEPT ![p].at = at, ![p].adapter = a] \in [Passes -> PassRecord]
<1>1. PassEnds(p) => pass' \in [Passes -> PassRecord]
  BY NoPassRecord DEF PassEnds
<1>2. ASSUME NEW at \in PassAt, PassGoes(p, at) PROVE pass' \in [Passes -> PassRecord]
  <2>1. [NoPass EXCEPT !.at = at] \in PassRecord
    BY NoPassRecord DEF PassRecord
  <2> QED BY <1>2, <2>1 DEF PassGoes
<1>3. ASSUME NEW at \in PassAt
      PROVE  [pass EXCEPT ![p].at = at] \in [Passes -> PassRecord]
  BY DEF PassRecord
<1>4. ASSUME NEW at \in PassAt, NEW a \in Adapters \cup {None}
      PROVE  [pass EXCEPT ![p].at = at, ![p].adapter = a] \in [Passes -> PassRecord]
  BY DEF PassRecord
<1> QED BY <1>1, <1>2, <1>3, <1>4

LEMMA ClearSessionType ==
    ASSUME AdapterTypeOK, ClearSession
    PROVE  /\ session' \in Tokens \cup {None} /\ saves' \in Seq(Save)
           /\ loggedOut' \subseteq Tokens
<1>1. saves' \in Seq(Save)
  BY MissedList DEF ClearSession, AdapterTypeOK
<1>2. {adapter[a].token : a \in Adapters} \subseteq Tokens \cup {None}
  BY DEF AdapterTypeOK, Fields
<1>3. loggedOut' \subseteq Tokens
  BY <1>2 DEF ClearSession, AdapterTypeOK
<1> QED BY <1>1, <1>3 DEF ClearSession

(* The configuration asks for an adapter, or for none. *)
LEMMA ReconcileType ==
    ASSUME TypeOK, NEW p \in Passes, Reconcile(p)
    PROVE  TypeOK'
<1> DEFINE desired == pass[p].desired
<1>1. /\ adapter \in [Adapters -> Fields] /\ pass \in [Passes -> PassRecord]
      /\ running \in Adapters \cup {None} /\ sender \in Adapters \cup {None}
      /\ permission \in Configs \cup {None} /\ desired \in Configs \cup {None}
  BY DEF TypeOK, AdapterTypeOK, PassRecord
<1>2. /\ adapter' \in [Adapters -> Fields] /\ pass' \in [Passes -> PassRecord]
      /\ sender' \in Adapters \cup {None} /\ permission' \in Configs \cup {None}
  <2>1. CASE PassEnds(p) /\ UNCHANGED <<adapter, permission, sender>>
    BY <1>1, <2>1, PassType
  <2>2. CASE running # None /\ StartDetach(p, running) /\ UNCHANGED <<permission, sender>>
    BY <1>1, <2>2, AdapterStepsType, PassType DEF StartDetach, PassAt
  <2>3. CASE desired # None /\ StartAttach(p)
    <3> DEFINE a == CHOOSE b \in Adapters : At(b, "off")
    <3>1. a \in Adapters
      BY <2>3 DEF StartAttach
    <3>2. [Off EXCEPT !.phase = "loading", !.on = TRUE, !.config = desired] \in Fields
      BY <1>1, OffFields DEF Fields, Phase
    <3>3. adapter' = [adapter EXCEPT ![a] = [Off EXCEPT !.phase = "loading", !.on = TRUE,
                                                         !.config = desired]]
          /\ pass' = [pass EXCEPT ![p].at = "attaching", ![p].adapter = a]
          /\ permission' = desired /\ sender' = a
      BY <2>3 DEF StartAttach
    <3> HIDE DEF a
    <3> QED BY <1>1, <3>1, <3>2, <3>3, PassType DEF PassAt
  <2>4. CASE permission' = desired /\ PassGoes(p, "reading") /\ UNCHANGED <<adapter, sender>>
    BY <1>1, <2>4, PassType DEF PassAt
  <2> QED BY <2>1, <2>2, <2>3, <2>4 DEF Reconcile
<1> QED BY <1>2 DEF Reconcile, TypeOK, AdapterTypeOK

LEMMA PassTypeStep ==
    ASSUME TypeOK, NEW p \in Passes, Pass(p)
    PROVE  TypeOK'
<1> USE AdapterAssumption, GatewayAssumption
<1>1. /\ adapter \in [Adapters -> Fields] /\ pass \in [Passes -> PassRecord]
      /\ pass[p].adapter \in Adapters \cup {None}
      /\ running \in Adapters \cup {None} /\ sender \in Adapters \cup {None}
  BY DEF TypeOK, AdapterTypeOK, PassRecord
<1>2. CASE Tick(p)
  <2>1. [at |-> "resolved", desired |-> config, adapter |-> None] \in PassRecord
    BY DEF PassRecord, PassAt, TypeOK
  <2>2. pass' \in [Passes -> PassRecord]
    <3>1. "resolved" \in PassAt
      BY DEF PassAt
    <3>2. [pass EXCEPT ![p].at = "resolved"] \in [Passes -> PassRecord]
      BY <1>1, <3>1, PassType
    <3> QED BY <1>1, <1>2, <2>1, <3>2 DEF Tick
  <2> QED BY <1>2, <2>2 DEF Tick, TypeOK, AdapterTypeOK, Calm, Happens
<1>3. CASE Reconcile(p)
  BY <1>3, ReconcileType
<1>4. CASE Detached(p)
  <2>1. adapter' \in [Adapters -> Fields]
    BY <1>1, <1>4, AdapterStepsType DEF Detached
  <2>2. pass' \in [Passes -> PassRecord]
    <3> DEFINE at == IF pass[p].desired = None THEN "disabling" ELSE "resolved"
    <3>1. at \in PassAt
      BY DEF PassAt
    <3>2. pass' = [pass EXCEPT ![p].at = at, ![p].adapter = None]
      BY <1>4 DEF Detached
    <3> HIDE DEF at
    <3> QED BY <1>1, <3>1, <3>2, PassType
  <2> QED BY <1>4, <2>1, <2>2 DEF Detached, DropChannel, TypeOK, AdapterTypeOK
<1>5. CASE PublishDisabled(p)
  <2>1. pass' \in [Passes -> PassRecord]
    BY <1>1, <1>5, PassType DEF PublishDisabled
  <2> QED BY <1>5, <2>1 DEF PublishDisabled, TypeOK, AdapterTypeOK, Calm, Happens, Shown
<1>6. CASE Attached(p)
  <2>1. pass' \in [Passes -> PassRecord]
    BY <1>1, <1>6, PassType DEF Attached, PassAt
  <2>2. CASE Calm /\ Loaded(pass[p].adapter) /\ running' = pass[p].adapter
    <3> DEFINE a == pass[p].adapter
    <3>1. ASSUME a \in Adapters PROVE adapter' \in [Adapters -> Fields]
      <4>1. [adapter[a] EXCEPT !.token = session] \in Fields
        <5>1. adapter[a] \in Fields /\ session \in Tokens \cup {None}
          BY <1>1, <3>1 DEF TypeOK, AdapterTypeOK
        <5> QED BY <5>1 DEF Fields
      <4>2. LoopHead([adapter[a] EXCEPT !.token = session]) \in Fields
        BY <4>1, LoopHeadFields
      <4> QED BY <1>1, <2>2, <4>2 DEF Loaded
    <3>2. ASSUME a \notin Adapters PROVE adapter' \in [Adapters -> Fields]
      BY <1>1, <2>2, <3>2 DEF Loaded
    <3>3. shown' \in Shown
      BY <2>2 DEF Loaded, TypeOK, AdapterTypeOK, Shown
    <3> QED BY <1>1, <1>6, <2>1, <2>2, <3>1, <3>2, <3>3 DEF Attached, TypeOK, AdapterTypeOK, Calm
  <2>3. CASE Happens("fault") /\ Goes(pass[p].adapter, "off") /\ UNCHANGED <<shown, running>>
    <3>1. adapter' \in [Adapters -> Fields]
      BY ZenonT(40), <1>1, <2>3 DEF Goes, Fields, Phase
    <3> QED BY <1>6, <2>1, <2>3, <3>1 DEF Attached, TypeOK, AdapterTypeOK, Happens
  <2> QED BY <1>6, <2>2, <2>3 DEF Attached
<1>7. CASE ReadCommand(p)
  <2>1. pass' \in [Passes -> PassRecord]
    <3>1. {"loggingOut", "clearing"} \subseteq PassAt
      BY DEF PassAt
    <3>2. \/ PassEnds(p) \/ PassGoes(p, "clearing")
          \/ pass' = [pass EXCEPT ![p].at = "loggingOut", ![p].adapter = running]
      BY <1>7 DEF ReadCommand
    <3>3. [pass EXCEPT ![p].at = "loggingOut", ![p].adapter = running] \in [Passes -> PassRecord]
      BY <1>1, <3>1, PassType
    <3>4. PassEnds(p) \/ PassGoes(p, "clearing") => pass' \in [Passes -> PassRecord]
      BY <1>1, <3>1, PassType
    <3> QED BY <3>2, <3>3, <3>4
  <2>2. adapter' \in [Adapters -> Fields]
    BY <1>1, <1>7, AdapterStepsType DEF ReadCommand
  <2>3. lastNonce' \in Nonces \cup {None} /\ dispatched' \in [Nonces -> Nat]
    BY <1>7 DEF ReadCommand, TypeOK, Command, IsNewCommand
  <2> QED BY <1>7, <2>1, <2>2, <2>3 DEF ReadCommand, TypeOK, AdapterTypeOK
<1>8. CASE Logout(p)
  <2>1. pass' \in [Passes -> PassRecord]
    <3>1. {"reauth", "clearing"} \subseteq PassAt
      BY DEF PassAt
    <3>2. pass' = [pass EXCEPT ![p].at = "reauth"] \/ PassGoes(p, "clearing")
      BY <1>8 DEF Logout
    <3>3. [pass EXCEPT ![p].at = "reauth"] \in [Passes -> PassRecord]
      BY <1>1, <3>1, PassType
    <3>4. PassGoes(p, "clearing") => pass' \in [Passes -> PassRecord]
      BY <1>1, <3>1, PassType
    <3> QED BY <3>2, <3>3, <3>4
  <2>2. adapter' \in [Adapters -> Fields]
    BY <1>1, <1>8, AdapterStepsType DEF Logout, Reauth
  <2>3. session' \in Tokens \cup {None} /\ saves' \in Seq(Save) /\ loggedOut' \subseteq Tokens
    BY <1>8, ClearSessionType DEF Logout, TypeOK, AdapterTypeOK
  <2> QED BY <1>8, <2>1, <2>2, <2>3 DEF Logout, TypeOK, AdapterTypeOK, Calm, Happens
<1>9. CASE ClearCommand(p)
  <2>1. pass' \in [Passes -> PassRecord]
    BY <1>1, <1>9, PassType DEF ClearCommand
  <2> QED BY <1>9, <2>1 DEF ClearCommand, TypeOK, AdapterTypeOK, Calm, Happens
<1> QED BY <1>2, <1>3, <1>4, <1>5, <1>6, <1>7, <1>8, <1>9 DEF Pass

LEMMA TypeStep == TypeOK /\ [Next]_vars => TypeOK'
<1> SUFFICES ASSUME TypeOK, [Next]_vars PROVE TypeOK'
  OBVIOUS
<1> USE AdapterAssumption, GatewayAssumption
<1>1. CASE AdapterNext /\ UNCHANGED gatewayVars
  BY <1>1, AdapterTypeStep DEF TypeOK, gatewayVars
<1>2. CASE SaveConfig
  BY <1>2 DEF SaveConfig, adapterVars, TypeOK, AdapterTypeOK
<1>3. CASE RequestCommand
  BY <1>3 DEF RequestCommand, adapterVars, TypeOK, AdapterTypeOK, Command, Nonces
<1>4. CASE DeleteIntegration
  <2>1. session' \in Tokens \cup {None} /\ saves' \in Seq(Save) /\ loggedOut' \subseteq Tokens
    BY <1>4, ClearSessionType DEF DeleteIntegration, TypeOK, AdapterTypeOK
  <2> QED BY <1>4, <2>1 DEF DeleteIntegration, TypeOK, AdapterTypeOK, Calm, Happens, Shown
<1>5. ASSUME NEW p \in Passes, Pass(p) PROVE TypeOK'
  BY <1>5, PassTypeStep
<1>6. CASE Stop
  <2>1. adapter' \in [Adapters -> Fields]
    BY <1>6, AdapterStepsType DEF Stop, TypeOK, AdapterTypeOK
  <2> QED BY <1>6, <2>1 DEF Stop, TypeOK, AdapterTypeOK, Calm, Happens
<1>7. CASE StopDetaches
  <2>1. adapter' \in [Adapters -> Fields]
    BY <1>7, AdapterStepsType DEF StopDetaches, TypeOK, AdapterTypeOK
  <2> QED BY <1>7, <2>1 DEF StopDetaches, DropChannel, TypeOK, AdapterTypeOK
<1>8. CASE Exit \/ Crash
  <2>1. ProcessEnds /\ trouble' \subseteq Troubles
    BY <1>8 DEF Exit, Crash, Calm, Happens, TypeOK, AdapterTypeOK
  <2>2. adapter' \in [Adapters -> Fields] /\ saves' \in Seq(Save)
    BY <2>1, OffFields DEF ProcessEnds
  <2>3. pass' \in [Passes -> PassRecord]
    BY <2>1, NoPassRecord DEF ProcessEnds
  <2> QED BY <2>1, <2>2, <2>3 DEF ProcessEnds, TypeOK, AdapterTypeOK
<1>9. CASE Start
  BY <1>9 DEF Start, adapterVars, TypeOK, AdapterTypeOK
<1>10. CASE UNCHANGED vars
  BY <1>10 DEF vars, adapterVars, gatewayVars, TypeOK, AdapterTypeOK
<1> QED BY <1>1, <1>2, <1>3, <1>4, <1>5, <1>6, <1>7, <1>8, <1>9, <1>10 DEF Next

(* Whatever happens, every row, field and list is what it is meant to be.   *)
THEOREM TypeCorrect == Spec => []TypeOK
<1> QED BY InitType, TypeStep, PTL DEF Spec

-----------------------------------------------------------------------------
(* Commands                                                                 *)

(* The count of the ends goes up with a crash or a stop, and only then. *)
LEMMA EndsCount ==
    /\ Ends \in Nat
    /\ trouble' \cap {"crash", "stop"} = trouble \cap {"crash", "stop"} => Ends' = Ends
    /\ \A what \in {"crash", "stop"} : Happens(what) => Ends' = Ends + 1
<1> DEFINE ends == trouble \cap {"crash", "stop"}
<1>1. IsFiniteSet({"crash", "stop"})
  <2>1. IsFiniteSet({"crash"})
    BY FS_Singleton
  <2> QED BY <2>1, FS_AddElement
<1>2. IsFiniteSet(ends) /\ Cardinality(ends) \in Nat
  BY <1>1, FS_Subset, FS_CardinalityType
<1>3. ASSUME NEW what \in {"crash", "stop"}, Happens(what)
      PROVE  Ends' = Ends + 1
  <2>1. what \notin ends /\ ends' = ends \cup {what}
    BY <1>3 DEF Happens
  <2>2. Cardinality(ends \cup {what}) = Cardinality(ends) + 1
    BY <1>2, <2>1, FS_AddElement
  <2> QED BY <2>1, <2>2 DEF Ends
<1> QED BY <1>2, <1>3 DEF Ends

(* Steps that leave the process and its commands alone. *)
LEMMA CommandsKept ==
    ASSUME CommandInv, command' \in {command, None},
           UNCHANGED <<issued, lastNonce, dispatched, up>>,
           trouble' \cap {"crash", "stop"} = trouble \cap {"crash", "stop"}
    PROVE  CommandInv'
BY EndsCount DEF CommandInv

LEMMA CommandStep == TypeOK /\ CommandInv /\ [Next]_vars => CommandInv'
<1> SUFFICES ASSUME TypeOK, CommandInv, [Next]_vars PROVE CommandInv'
  OBVIOUS
<1> USE AdapterAssumption, GatewayAssumption
<1>1. /\ issued \in Nat /\ dispatched \in [Nonces -> Nat] /\ Nonces \subseteq Nat
      /\ None \notin Nonces /\ lastNonce \in Nonces \cup {None}
      /\ command # None => command.nonce \in Nonces
  BY DEF TypeOK, Command, Nonces
<1>2. CASE AdapterNext /\ UNCHANGED gatewayVars
  <2>1. trouble' \cap {"crash", "stop"} = trouble \cap {"crash", "stop"}
    BY <1>2 DEF AdapterNext, LoopSteps, PollReturns, Login, ScanGoesOn, Close, TokenExpires,
                ScanConfirmed, SaveEnds, Calm, Happens
  <2> QED BY <1>2, <2>1, CommandsKept DEF gatewayVars
<1>3. CASE SaveConfig \/ DeleteIntegration \/ Start \/ UNCHANGED vars
  <2>1. CASE SaveConfig \/ UNCHANGED vars
    BY <2>1, CommandsKept DEF SaveConfig, vars, gatewayVars, adapterVars
  <2>2. CASE DeleteIntegration
    BY <2>2, CommandsKept DEF DeleteIntegration, Calm, Happens
  <2>3. CASE Start
    BY <1>1, <2>3, EndsCount DEF Start, adapterVars, CommandInv
  <2> QED BY <1>3, <2>1, <2>2, <2>3
<1>4. CASE RequestCommand
  <2>1. issued' = issued + 1 /\ command' # None => command'.nonce = issued'
    BY <1>4 DEF RequestCommand
  <2> QED BY <1>1, <1>4, <2>1, EndsCount DEF RequestCommand, adapterVars, CommandInv
<1>5. ASSUME NEW p \in Passes, ReadCommand(p) PROVE CommandInv'
  <2>1. CASE ~IsNewCommand
    BY <1>5, <2>1, CommandsKept DEF ReadCommand
  <2>2. CASE IsNewCommand
    <3>1. /\ command # None /\ command.nonce \in Nonces /\ command.nonce # lastNonce
          /\ lastNonce' = command.nonce /\ UNCHANGED <<command, issued, up, trouble>>
          /\ \/ dispatched' = dispatched
             \/ dispatched' = [dispatched EXCEPT ![command.nonce] = @ + 1]
      BY <1>1, <1>5, <2>2 DEF ReadCommand, IsNewCommand
    <3>2. Ends' = Ends /\ Ends \in Nat
      BY <3>1, EndsCount
    <3>3. ASSUME NEW n \in Nonces
          PROVE  dispatched'[n] + (IF up = "stopping" THEN 1 ELSE 0)
                    <= Ends + (IF n <= command.nonce THEN 1 ELSE 0)
      <4>1. dispatched[n] + (IF up = "stopping" THEN 1 ELSE 0)
               <= Ends + (IF lastNonce # None /\ n <= lastNonce THEN 1 ELSE 0)
        BY DEF CommandInv
      <4>2. lastNonce # None => lastNonce \in Nat /\ lastNonce <= command.nonce
        BY <1>1, <3>1 DEF CommandInv
      <4>3. n \in Nat /\ command.nonce \in Nat /\ dispatched[n] \in Nat
        BY <1>1, <3>1
      <4>4. CASE n = command.nonce
        <5>1. dispatched'[n] <= dispatched[n] + 1 /\ dispatched'[n] \in Nat
          BY <1>1, <3>1, <4>3
        <5>2. ~(lastNonce # None /\ n <= lastNonce)
          BY <3>1, <4>2, <4>3, <4>4
        <5> QED BY <3>2, <4>1, <4>3, <4>4, <5>1, <5>2
      <4>5. CASE n # command.nonce
        <5>1. dispatched'[n] = dispatched[n]
          BY <1>1, <3>1, <4>5
        <5> QED BY <3>2, <4>1, <4>2, <4>3, <5>1
      <4> QED BY <4>4, <4>5
    <3>4. command.nonce <= issued /\ command.nonce <= command.nonce
      <4>1. command.nonce \in Nat
        BY <1>1, <3>1
      <4>2. command.nonce <= issued
        BY <3>1 DEF CommandInv
      <4> QED BY <4>1, <4>2
    <3> QED BY <1>1, <3>1, <3>2, <3>3, <3>4 DEF CommandInv
  <2> QED BY <2>1, <2>2
<1>6. ASSUME NEW p \in Passes,
             \/ Tick(p) \/ Reconcile(p) \/ Detached(p) \/ PublishDisabled(p) \/ Attached(p)
             \/ Logout(p) \/ ClearCommand(p)
      PROVE  CommandInv'
  <2>1. /\ trouble' \cap {"crash", "stop"} = trouble \cap {"crash", "stop"}
        /\ command' \in {command, None} /\ UNCHANGED <<issued, lastNonce, dispatched, up>>
    BY <1>6 DEF Tick, Reconcile, Detached, PublishDisabled, Attached, Logout, ClearCommand, Calm,
                Happens
  <2> QED BY <2>1, CommandsKept
<1>7. CASE StopDetaches
  BY <1>7, CommandsKept DEF StopDetaches
<1>8. CASE Stop
  <2>1. \/ up = "up" /\ Ends' = Ends + 1
        \/ up = "stopping" /\ Ends' = Ends
    BY <1>8, EndsCount DEF Stop, Calm
  <2>2. up' = "stopping" /\ UNCHANGED <<command, issued, lastNonce, dispatched>>
    BY <1>8 DEF Stop
  <2>3. Ends \in Nat
    BY EndsCount
  <2>4. ASSUME NEW n \in Nonces
        PROVE  dispatched[n] + 1
                  <= Ends' + (IF lastNonce # None /\ n <= lastNonce THEN 1 ELSE 0)
    <3>1. dispatched[n] \in Nat
      BY <1>1
    <3>2. dispatched[n] + (IF up = "stopping" THEN 1 ELSE 0)
             <= Ends + (IF lastNonce # None /\ n <= lastNonce THEN 1 ELSE 0)
      BY DEF CommandInv
    <3> QED BY <2>1, <2>3, <3>1, <3>2
  <2> QED BY <2>2, <2>4 DEF CommandInv
<1>9. CASE Exit \/ Crash
  <2>1. /\ up' = "down" /\ lastNonce' = None
        /\ UNCHANGED <<command, issued, dispatched>>
    BY <1>9 DEF Exit, Crash, ProcessEnds
  <2>2. \/ up = "stopping" /\ Ends' = Ends
        \/ Ends' = Ends + 1
    BY <1>9, EndsCount DEF Exit, Crash, Calm
  <2>3. ASSUME NEW n \in Nonces PROVE dispatched[n] <= Ends'
    <3>1. dispatched[n] \in Nat /\ Ends \in Nat
      BY <1>1, EndsCount
    <3>2. dispatched[n] + (IF up = "stopping" THEN 1 ELSE 0) <= Ends + 1
      BY <3>1 DEF CommandInv
    <3> QED BY <2>2, <3>1, <3>2
  <2>4. \A n \in Nonces : dispatched[n] + 0 <= Ends' + 0
    BY <1>1, <2>2, <2>3, EndsCount
  <2> QED BY <2>1, <2>4 DEF CommandInv
<1> QED BY <1>2, <1>3, <1>4, <1>5, <1>6, <1>7, <1>8, <1>9 DEF Next, Pass

(* A process carries out a command at most once, whatever the store loses   *)
(* and however commands replace each other: with every crash or stop, one   *)
(* more run of a command may come.                                          *)
THEOREM CommandsCorrect == Spec => []CommandsAtMostOnce
<1>1. Init => TypeOK /\ CommandInv
  <2> SUFFICES ASSUME Init PROVE TypeOK /\ CommandInv
    OBVIOUS
  <2>1. Ends \in Nat
    BY EndsCount
  <2> QED BY <2>1, InitType DEF Init, CommandInv
<1>2. TypeOK /\ CommandInv /\ [Next]_vars => (TypeOK /\ CommandInv)'
  BY TypeStep, CommandStep
<1>3. TypeOK /\ CommandInv => CommandsAtMostOnce
  <2> SUFFICES ASSUME TypeOK, CommandInv, NEW n \in Nonces
               PROVE  dispatched[n] <= 1 + Ends
    BY DEF CommandsAtMostOnce, Ends
  <2>1. dispatched[n] \in Nat /\ Ends \in Nat
    BY EndsCount DEF TypeOK
  <2>2. dispatched[n] + (IF up = "stopping" THEN 1 ELSE 0)
           <= Ends + (IF lastNonce # None /\ n <= lastNonce THEN 1 ELSE 0)
    BY DEF CommandInv
  <2> QED BY <2>1, <2>2
<1> QED BY <1>1, <1>2, <1>3, PTL DEF Spec

-----------------------------------------------------------------------------
(* Saves and the adapters that await them                                   *)

(* The phases in which a loop waits for a save. *)
Waiting == {"revoked", "saving", "closing"}

(* An adapter that waits for no save has none it awaits. *)
LEMMA NoSaveAwaited ==
    ASSUME SavesAreAwaited, saves \in Seq(Save), NEW a \in Adapters,
           adapter[a].phase \notin Waiting
    PROVE  \A i \in DOMAIN saves : Awaited(i) => saves[i].by # a
<1>1. \A i \in DOMAIN saves : saves[i] \in Save
  OBVIOUS
<1>2. \A i \in DOMAIN saves : Awaited(i) => saves[i].kind \in {"revoke", "login", "close"}
  BY <1>1 DEF Awaited, Save, SaveKind
<1>3. \A kind \in {"revoke", "login", "close"} : AwaitedAt[kind] \in Waiting
  BY DEF AwaitedAt, Waiting
<1> QED BY <1>2, <1>3 DEF SavesAreAwaited

(* The adapters move while the list of saves stays. *)
LEMMA SavesMove ==
    ASSUME SavesAreAwaited, saves \in Seq(Save), UNCHANGED saves,
           \A a \in Adapters :
              adapter'[a].phase # adapter[a].phase => adapter[a].phase \notin Waiting
    PROVE  SavesAreAwaited'
<1>1. \A i \in DOMAIN saves : saves[i].by \in Adapters
  <2>1. \A i \in DOMAIN saves : saves[i] \in Save
    OBVIOUS
  <2> QED BY <2>1 DEF Save
<1>2. ASSUME NEW i \in DOMAIN saves, Awaited(i)
      PROVE  adapter'[saves[i].by].phase = AwaitedAt[saves[i].kind]
  BY <1>1, <1>2, NoSaveAwaited DEF SavesAreAwaited
<1> QED BY <1>2 DEF SavesAreAwaited, Awaited

(* All saves in flight are late now. *)
LEMMA SavesMissed ==
    ASSUME SavesAreAwaited, saves \in Seq(Save), saves' = Missed(saves),
           \A a \in Adapters : adapter'[a].phase = adapter[a].phase
    PROVE  SavesAreAwaited'
<1>1. \A i \in DOMAIN saves : saves[i].by \in Adapters
  <2>1. \A i \in DOMAIN saves : saves[i] \in Save
    OBVIOUS
  <2> QED BY <2>1 DEF Save
<1>2. /\ DOMAIN saves' = DOMAIN saves
      /\ \A i \in DOMAIN saves : saves'[i].by = saves[i].by /\ saves'[i].kind = saves[i].kind
  BY MissedList
<1> QED BY <1>1, <1>2 DEF SavesAreAwaited, Awaited

(* An adapter that waits for nothing starts a save. *)
LEMMA SavesAppend ==
    ASSUME SavesAreAwaited, saves \in Seq(Save), NEW a \in Adapters, NEW kind \in SaveKind,
           NEW token, SaveStarts(a, kind, token),
           adapter[a].phase \notin Waiting,
           kind # "cursor" => adapter'[a].phase = AwaitedAt[kind],
           \A b \in Adapters \ {a} : adapter'[b].phase = adapter[b].phase
    PROVE  SavesAreAwaited'
<1> DEFINE save == [by |-> a, kind |-> kind, writes |-> token, late |-> FALSE]
           n == Len(saves) + 1
<1>1. Len(saves) \in Nat /\ DOMAIN saves = 1..Len(saves)
  OBVIOUS
<1>2. /\ DOMAIN saves' = 1..n
      /\ \A i \in DOMAIN saves : saves'[i] = saves[i]
      /\ saves'[n] = save
  <2> HIDE DEF save
  <2> QED BY <1>1 DEF SaveStarts, save
<1>3. \A i \in DOMAIN saves : saves[i].by \in Adapters
  <2>1. \A i \in DOMAIN saves : saves[i] \in Save
    OBVIOUS
  <2> QED BY <2>1 DEF Save
<1>4. \A i \in DOMAIN saves : Awaited(i) => saves[i].by # a
  BY NoSaveAwaited
<1>5. save.by = a /\ save.kind = kind
  OBVIOUS
<1>6. \A i \in DOMAIN saves' : i \in DOMAIN saves \/ i = n
  BY <1>1, <1>2
<1> HIDE DEF n, save
<1>7. ASSUME NEW i \in DOMAIN saves', Awaited(i)'
      PROVE  adapter'[saves'[i].by].phase = AwaitedAt[saves'[i].kind]
  BY <1>2, <1>3, <1>4, <1>5, <1>6, <1>7 DEF SavesAreAwaited, Awaited
<1>8. ASSUME NEW i \in DOMAIN saves', NEW j \in DOMAIN saves', Awaited(i)', Awaited(j)',
             saves'[i].by = saves'[j].by
      PROVE  i = j
  BY <1>2, <1>4, <1>5, <1>6, <1>8 DEF SavesAreAwaited, Awaited
<1> QED BY <1>7, <1>8 DEF SavesAreAwaited

(* A save ends, and the adapter that awaits it goes on. *)
LEMMA SavesEnd ==
    ASSUME SavesAreAwaited, saves \in Seq(Save), NEW k \in DOMAIN saves,
           saves' = RemoveAt(saves, k) \/ saves' = Missed(RemoveAt(saves, k)),
           \A b \in Adapters :
              adapter'[b].phase # adapter[b].phase => Awaited(k) /\ saves[k].by = b
    PROVE  SavesAreAwaited'
<1> DEFINE Old(i) == IF i < k THEN i ELSE i + 1
<1>1. Len(saves) \in Nat /\ DOMAIN saves = 1..Len(saves)
  OBVIOUS
<1>2. /\ RemoveAt(saves, k) \in Seq(Save) /\ DOMAIN RemoveAt(saves, k) = 1..(Len(saves) - 1)
      /\ \A i \in 1..(Len(saves) - 1) :
            RemoveAt(saves, k)[i] = IF i < k THEN saves[i] ELSE saves[i + 1]
  BY RemoveAtList
<1>3. /\ DOMAIN saves' = 1..(Len(saves) - 1)
      /\ \A i \in DOMAIN saves' : /\ saves'[i].by = saves[Old(i)].by
                                  /\ saves'[i].kind = saves[Old(i)].kind
  BY SMTT(30), <1>2, MissedList
<1>4. /\ \A i \in DOMAIN saves' : Old(i) \in DOMAIN saves \ {k}
      /\ \A i, j \in DOMAIN saves' : Old(i) = Old(j) => i = j
  BY <1>1, <1>3
<1>5. \A i \in DOMAIN saves : saves[i].by \in Adapters
  <2>1. \A i \in DOMAIN saves : saves[i] \in Save
    OBVIOUS
  <2> QED BY <2>1 DEF Save
<1> HIDE DEF Old
<1>6. ASSUME NEW i \in DOMAIN saves', Awaited(i)'
      PROVE  adapter'[saves'[i].by].phase = AwaitedAt[saves'[i].kind]
  <2>1. Awaited(Old(i)) /\ Old(i) \in DOMAIN saves /\ Old(i) # k
    BY <1>3, <1>4, <1>6 DEF Awaited
  <2>2. ~(Awaited(k) /\ saves[k].by = saves[Old(i)].by)
    BY <2>1 DEF SavesAreAwaited
  <2> QED BY <1>3, <1>5, <2>1, <2>2 DEF SavesAreAwaited
<1>7. ASSUME NEW i \in DOMAIN saves', NEW j \in DOMAIN saves', Awaited(i)', Awaited(j)',
             saves'[i].by = saves'[j].by
      PROVE  i = j
  BY <1>3, <1>4, <1>7 DEF SavesAreAwaited, Awaited
<1> QED BY <1>6, <1>7 DEF SavesAreAwaited

-----------------------------------------------------------------------------
(* The channel                                                              *)

(* Adapters stay off, stay in the passes that attach them, and keep their   *)
(* configuration.                                                           *)
AdaptersStay ==
    \A a \in Adapters :
        /\ At(a, "off") => At(a, "off")'
        /\ At(a, "loading") => At(a, "loading")'
        /\ adapter'[a].config = adapter[a].config

(* A pass that waits for its adapter goes on waiting, and none begins to.   *)
PassesStay ==
    \A p \in Passes :
        /\ pass'[p].at # "idle" => p = 1
        /\ pass[p].at = "attaching" => pass'[p] = pass[p]
        /\ pass'[p].at \in {"attaching", "detaching"} => pass'[p] = pass[p]

LEMMA PassInvStays ==
    ASSUME TypeOK, PassInv, AdaptersStay, PassesStay, UNCHANGED <<running, sender, permission>>
    PROVE  PassInv'
<1> USE AdapterAssumption
<1>1. OnePass'
  BY DEF PassesStay, OnePass
<1>2. PassKnows'
  BY DEF PassInv, PassKnows, PassesStay, AdaptersStay, At
<1>3. ActiveIsKnown'
  BY DEF PassInv, ActiveIsKnown, Attaches, PassesStay, AdaptersStay, At
<1>4. RunningSends'
  BY DEF PassInv, RunningSends
<1>5. PolicyIsOfTheAdapter'
  BY DEF PassInv, PolicyIsOfTheAdapter, AdaptersStay, TypeOK
<1> QED BY <1>1, <1>2, <1>3, <1>4, <1>5 DEF PassInv

(* No adapter is active when no pass waits and none runs. *)
LEMMA AllOff ==
    ASSUME PassInv, NEW p \in Passes, pass[p].at \notin {"idle", "attaching"}
    PROVE  \A a \in Adapters : ~At(a, "off") => running = a
BY DEF PassInv, OnePass, ActiveIsKnown, Attaches

(* The steps of the adapters themselves. *)
LEMMA AdapterChannelStep ==
    ASSUME TypeOK, PassInv, SavesAreAwaited, AdapterNext, UNCHANGED gatewayVars
    PROVE  PassInv' /\ SavesAreAwaited'
<1> USE DEF Waiting, Phase
<1>1. /\ adapter \in [Adapters -> Fields] /\ saves \in Seq(Save)
      /\ \A a \in Adapters : adapter[a] \in Fields
  BY DEF TypeOK, AdapterTypeOK
<1>2. PassesStay /\ UNCHANGED <<running, sender, permission>>
  BY DEF PassInv, OnePass, PassesStay, gatewayVars
<1>3. ASSUME NEW a \in Adapters, LoopsOn(a)
      PROVE  /\ adapter'[a].phase \in {"done", "login", "poll"}
             /\ adapter'[a].config = adapter[a].config
             /\ \A b \in Adapters \ {a} : adapter'[b] = adapter[b]
  BY <1>1, <1>3, LoopHeadFields DEF LoopsOn
<1>4. ASSUME NEW a \in Adapters, NEW phase, Goes(a, phase)
      PROVE  /\ adapter'[a].phase = phase
             /\ adapter'[a].config = adapter[a].config
             /\ \A b \in Adapters \ {a} : adapter'[b] = adapter[b]
  BY <1>1, <1>4 DEF Goes, Fields
<1>5. ASSUME NEW a \in Adapters, PollReturns(a) PROVE AdaptersStay /\ SavesAreAwaited'
  <2>1. AdaptersStay /\ adapter[a].phase = "poll"
    BY <1>3, <1>5 DEF PollReturns, AdaptersStay, At
  <2>2. CASE UNCHANGED saves
    BY <1>1, <1>3, <1>5, <2>1, <2>2, SavesMove DEF PollReturns
  <2>3. CASE CursorSave(a)
    <3>1. SaveStarts(a, "cursor", session) /\ "cursor" \in SaveKind
      BY <2>3 DEF CursorSave, SaveKind
    <3> QED BY <1>1, <1>3, <1>5, <2>1, <3>1, SavesAppend DEF PollReturns
  <2> QED BY <1>5, <2>1, <2>2, <2>3 DEF PollReturns
<1>6. ASSUME NEW a \in Adapters, TokenExpires(a) PROVE AdaptersStay /\ SavesAreAwaited'
  <2>1. adapter[a].phase = "poll" /\ Goes(a, "revoked") /\ SaveStarts(a, "revoke", None)
    BY <1>6 DEF TokenExpires, At
  <2>2. AdaptersStay
    BY <1>4, <2>1 DEF AdaptersStay, At
  <2>3. "revoke" \in SaveKind /\ AwaitedAt["revoke"] = "revoked"
    BY DEF SaveKind, AwaitedAt
  <2> QED BY <1>1, <1>4, <2>1, <2>2, <2>3, SavesAppend
<1>7. ASSUME NEW a \in Adapters, Close(a) PROVE AdaptersStay /\ SavesAreAwaited'
  <2>1. adapter[a].phase = "done" /\ Goes(a, "closing") /\ SaveStarts(a, "close", session)
    BY <1>7 DEF Close, At
  <2>2. AdaptersStay
    BY <1>4, <2>1 DEF AdaptersStay, At
  <2>3. "close" \in SaveKind /\ AwaitedAt["close"] = "closing"
    BY DEF SaveKind, AwaitedAt
  <2> QED BY <1>1, <1>4, <2>1, <2>2, <2>3, SavesAppend
<1>8. ASSUME NEW a \in Adapters, Login(a) PROVE AdaptersStay /\ SavesAreAwaited'
  <2>1. adapter[a].phase = "login" /\ UNCHANGED saves /\ (Goes(a, "scan") \/ LoopsOn(a))
    BY <1>8 DEF Login, At
  <2>2. /\ adapter'[a].phase \in {"scan", "done", "login", "poll"}
        /\ adapter'[a].config = adapter[a].config
        /\ \A b \in Adapters \ {a} : adapter'[b] = adapter[b]
    BY <1>3, <1>4, <2>1
  <2>3. AdaptersStay
    BY <2>1, <2>2 DEF AdaptersStay, At
  <2> QED BY <1>1, <2>1, <2>2, <2>3, SavesMove
<1>9. ASSUME NEW a \in Adapters, ScanGoesOn(a) PROVE AdaptersStay /\ SavesAreAwaited'
  <2>1. adapter[a].phase = "scan" /\ UNCHANGED saves
    BY <1>9 DEF ScanGoesOn, At
  <2>2. /\ adapter'[a].config = adapter[a].config
        /\ \A b \in Adapters \ {a} : adapter'[b] = adapter[b]
    <3>1. CASE LoopsOn(a)
      BY <1>3, <3>1
    <3>2. CASE adapter' = [adapter EXCEPT ![a].phase = "login", ![a].relogin = FALSE]
      BY <1>1, <3>2 DEF Fields
    <3> QED BY <1>9, <3>1, <3>2 DEF ScanGoesOn
  <2>3. AdaptersStay
    BY <2>1, <2>2 DEF AdaptersStay, At
  <2> QED BY <1>1, <2>1, <2>2, <2>3, SavesMove
<1>10. ASSUME NEW a \in Adapters, ScanConfirmed(a) PROVE AdaptersStay /\ SavesAreAwaited'
  <2>1. /\ adapter[a].phase = "scan" /\ SaveStarts(a, "login", logins')
        /\ adapter' = [adapter EXCEPT ![a].phase = "saving", ![a].token = logins']
    BY <1>10 DEF ScanConfirmed, At
  <2>2. /\ adapter'[a].phase = "saving" /\ adapter'[a].config = adapter[a].config
        /\ \A b \in Adapters \ {a} : adapter'[b] = adapter[b]
    BY <1>1, <2>1 DEF Fields
  <2>3. AdaptersStay
    BY <2>1, <2>2 DEF AdaptersStay, At
  <2>4. "login" \in SaveKind /\ AwaitedAt["login"] = "saving"
    BY DEF SaveKind, AwaitedAt
  <2> QED BY <1>1, <2>1, <2>2, <2>3, <2>4, SavesAppend
<1>11. ASSUME SaveEnds PROVE AdaptersStay /\ SavesAreAwaited'
  <2>1. PICK i \in DOMAIN saves, done \in BOOLEAN :
          /\ saves' = RemoveAt(saves, i) \/ saves' = Missed(RemoveAt(saves, i))
          /\ Saved(saves[i], done)
    BY <1>11 DEF SaveEnds
  <2> DEFINE a == saves[i].by
  <2>2. saves[i] \in Save /\ a \in Adapters /\ saves[i].kind \in SaveKind
    <3>1. saves[i] \in Save
      BY <1>1
    <3> QED BY <3>1 DEF Save
  <2>3. CASE ~Awaited(i)
    <3>1. UNCHANGED adapter
      BY <2>1, <2>3 DEF Saved, Awaited
    <3>2. AdaptersStay
      BY <3>1 DEF AdaptersStay, At
    <3>3. SavesAreAwaited'
      BY <1>1, <2>1, <3>1, SavesEnd
    <3> QED BY <3>2, <3>3
  <2>4. CASE Awaited(i)
    <3>1. adapter[a].phase \in Waiting
      <4>1. adapter[a].phase = AwaitedAt[saves[i].kind]
        BY <2>4 DEF SavesAreAwaited
      <4>2. saves[i].kind \in {"revoke", "login", "close"}
        BY <2>2, <2>4 DEF Awaited, SaveKind
      <4> QED BY <4>1, <4>2 DEF AwaitedAt
    <3>2. /\ adapter'[a].config = adapter[a].config
          /\ \A b \in Adapters \ {a} : adapter'[b] = adapter[b]
      <4>1. CASE saves[i].kind = "revoke"
        <5>1. [adapter[a] EXCEPT !.token = None] \in Fields
          BY <1>1, <2>2 DEF Fields
        <5>2. [adapter[a] EXCEPT !.token = None].config = adapter[a].config
          BY <1>1, <2>2 DEF Fields
        <5> QED BY <1>1, <2>1, <2>2, <4>1, <5>1, <5>2, LoopHeadFields DEF Saved
      <4>2. CASE saves[i].kind = "login"
        <5>1. LoopsOn(a)
          BY <2>1, <4>2 DEF Saved
        <5> QED BY <1>3, <2>2, <5>1
      <4>3. CASE saves[i].kind = "close"
        BY <1>1, <2>1, <2>2, <4>3 DEF Saved, Off
      <4> QED BY <2>2, <2>4, <4>1, <4>2, <4>3 DEF Awaited, SaveKind
    <3>3. AdaptersStay
      BY <3>1, <3>2 DEF AdaptersStay, At
    <3>4. SavesAreAwaited'
      BY <1>1, <2>1, <2>2, <2>4, <3>2, SavesEnd
    <3> QED BY <3>3, <3>4
  <2> QED BY <2>3, <2>4
<1>12. AdaptersStay /\ SavesAreAwaited'
  BY <1>5, <1>6, <1>7, <1>8, <1>9, <1>10, <1>11 DEF AdapterNext, LoopSteps
<1> QED BY <1>2, <1>12, PassInvStays

(* The steps of a pass that leave the adapters where they are. *)
LEMMA QuietPassStep ==
    ASSUME TypeOK, PassInv, SavesAreAwaited, NEW p \in Passes,
           Tick(p) \/ PublishDisabled(p) \/ ReadCommand(p) \/ Logout(p) \/ ClearCommand(p)
    PROVE  PassInv' /\ SavesAreAwaited'
<1>1. /\ adapter \in [Adapters -> Fields] /\ saves \in Seq(Save)
      /\ pass \in [Passes -> PassRecord]
  BY DEF TypeOK, AdapterTypeOK
<1>2. \A q \in Passes : pass[q].at # "idle" => q = 1
  BY DEF PassInv, OnePass
<1>3. \A a \in Adapters : /\ adapter'[a].phase = adapter[a].phase
                          /\ adapter'[a].config = adapter[a].config
  <2>1. \/ UNCHANGED adapter
        \/ \E b : Reauth(b)
    BY DEF Tick, PublishDisabled, ReadCommand, Logout, ClearCommand
  <2>2. ASSUME NEW b, Reauth(b)
        PROVE  \A a \in Adapters : /\ adapter'[a].phase = adapter[a].phase
                                   /\ adapter'[a].config = adapter[a].config
    BY <1>1, <2>2 DEF Reauth, Fields
  <2> QED BY <2>1, <2>2
<1>4. /\ pass[p].at \notin {"attaching", "detaching"}
      /\ \A q \in Passes \ {p} : pass'[q] = pass[q]
      /\ pass'[p].at \notin {"attaching", "detaching"}
      /\ p = 1
  <2>1. CASE Tick(p)
    BY <1>1, <2>1 DEF Tick, MayStart, PassRecord
  <2>2. CASE PublishDisabled(p)
    BY <1>1, <1>2, <2>2 DEF PublishDisabled, PassEnds, NoPass
  <2>3. CASE ReadCommand(p)
    <3>1. \/ PassEnds(p) \/ PassGoes(p, "clearing")
          \/ pass' = [pass EXCEPT ![p].at = "loggingOut", ![p].adapter = running]
      BY <2>3 DEF ReadCommand
    <3> QED BY <1>1, <1>2, <2>3, <3>1 DEF ReadCommand, PassEnds, PassGoes, NoPass, PassRecord
  <2>4. CASE Logout(p)
    <3>1. pass' = [pass EXCEPT ![p].at = "reauth"] \/ PassGoes(p, "clearing")
      BY <2>4 DEF Logout
    <3>2. pass[p].at \in {"loggingOut", "reauth"}
      BY <2>4 DEF Logout
    <3> QED BY <1>1, <1>2, <3>1, <3>2 DEF PassGoes, NoPass, PassRecord
  <2>5. CASE ClearCommand(p)
    BY <1>1, <1>2, <2>5 DEF ClearCommand, PassEnds, NoPass
  <2> QED BY <2>1, <2>2, <2>3, <2>4, <2>5
<1>5. PassesStay
  BY <1>2, <1>4 DEF PassesStay
<1>6. AdaptersStay
  BY <1>3 DEF AdaptersStay, At
<1>7. UNCHANGED <<running, sender, permission>>
  BY DEF Tick, PublishDisabled, ReadCommand, Logout, ClearCommand
<1>8. PassInv'
  BY <1>5, <1>6, <1>7, PassInvStays
<1>9. SavesAreAwaited'
  <2>1. UNCHANGED saves \/ saves' = Missed(saves)
    BY DEF Tick, PublishDisabled, ReadCommand, Logout, ClearCommand, ClearSession
  <2> QED BY <1>1, <1>3, <2>1, SavesMove, SavesMissed
<1> QED BY <1>8, <1>9

(* reconcileChannel() detaches, attaches or lets the adapter be. *)
LEMMA ReconcileStep ==
    ASSUME TypeOK, PassInv, SavesAreAwaited, NEW p \in Passes, Reconcile(p)
    PROVE  PassInv' /\ SavesAreAwaited'
<1> USE AdapterAssumption
<1> DEFINE desired == pass[p].desired
<1>1. /\ adapter \in [Adapters -> Fields] /\ saves \in Seq(Save)
      /\ pass \in [Passes -> PassRecord] /\ running \in Adapters \cup {None}
      /\ \A a \in Adapters : adapter[a] \in Fields
      /\ UNCHANGED <<running, saves>> /\ pass[p].at = "resolved"
  BY DEF TypeOK, AdapterTypeOK, Reconcile
<1>2. p = 1 /\ \A q \in Passes \ {p} : pass[q].at = "idle"
  BY <1>1 DEF PassInv, OnePass
<1>3. \A a \in Adapters : ~At(a, "off") => running = a
  BY <1>1, AllOff
<1>4. CASE PassEnds(p) /\ UNCHANGED <<adapter, permission, sender>>
  <2>1. AdaptersStay /\ PassesStay
    BY <1>1, <1>2, <1>4 DEF AdaptersStay, At, PassesStay, PassEnds, NoPass
  <2>2. SavesAreAwaited'
    BY <1>1, <1>4, SavesMove
  <2> QED BY <1>1, <1>4, <2>1, <2>2, PassInvStays
<1>5. CASE running # None /\ StartDetach(p, running) /\ UNCHANGED <<permission, sender>>
  <2>1. running \in Adapters
    BY <1>1, <1>5
  <2>2. \A a \in Adapters : /\ adapter'[a].phase = adapter[a].phase
                            /\ adapter'[a].config = adapter[a].config
    BY <1>1, <1>5, <2>1 DEF StartDetach, Fields
  <2>3. /\ pass'[p].at = "detaching" /\ pass'[p].adapter = running
        /\ \A q \in Passes \ {p} : pass'[q] = pass[q]
    BY <1>1, <1>5 DEF StartDetach, PassRecord
  <2>4. OnePass' /\ PassKnows'
    BY <1>1, <1>2, <2>1, <2>3 DEF OnePass, PassKnows
  <2>5. ActiveIsKnown'
    BY <1>1, <1>3, <2>2 DEF ActiveIsKnown, At
  <2>6. RunningSends' /\ PolicyIsOfTheAdapter'
    BY <1>1, <1>5, <2>2 DEF PassInv, RunningSends, PolicyIsOfTheAdapter, TypeOK
  <2>7. SavesAreAwaited'
    BY <1>1, <2>2, SavesMove
  <2> QED BY <2>4, <2>5, <2>6, <2>7 DEF PassInv
<1>6. CASE running = None /\ desired # None /\ StartAttach(p)
  <2> DEFINE a == CHOOSE b \in Adapters : At(b, "off")
  <2>1. a \in Adapters /\ At(a, "off")
    BY <1>6 DEF StartAttach
  <2>2. /\ adapter' = [adapter EXCEPT ![a] = [Off EXCEPT !.phase = "loading", !.on = TRUE,
                                                         !.config = desired]]
        /\ pass' = [pass EXCEPT ![p].at = "attaching", ![p].adapter = a]
        /\ permission' = desired /\ sender' = a
    BY <1>6 DEF StartAttach
  <2> HIDE DEF a
  <2>3. /\ adapter'[a].phase = "loading" /\ adapter'[a].config = desired
        /\ \A b \in Adapters \ {a} : adapter'[b] = adapter[b]
    BY <1>1, <2>1, <2>2 DEF Off
  <2>4. /\ pass'[p].at = "attaching" /\ pass'[p].adapter = a
        /\ \A q \in Passes \ {p} : pass'[q] = pass[q]
    BY <1>1, <2>2 DEF PassRecord
  <2>5. OnePass' /\ PassKnows'
    BY <1>1, <1>2, <1>6, <2>1, <2>2, <2>3, <2>4 DEF OnePass, PassKnows, At
  <2>6. ActiveIsKnown'
    BY <1>1, <1>3, <1>6, <2>3, <2>4 DEF ActiveIsKnown, Attaches, At
  <2>7. RunningSends' /\ PolicyIsOfTheAdapter'
    BY <1>1, <1>6, <2>1, <2>2, <2>3 DEF RunningSends, PolicyIsOfTheAdapter
  <2>8. SavesAreAwaited'
    <3>1. adapter[a].phase \notin Waiting
      BY <2>1 DEF At, Waiting
    <3> QED BY <1>1, <2>1, <2>3, <3>1, SavesMove
  <2> QED BY <2>5, <2>6, <2>7, <2>8 DEF PassInv
<1>7. CASE /\ running # None /\ desired = adapter[running].config
           /\ permission' = desired
           /\ PassGoes(p, "reading") /\ UNCHANGED <<adapter, sender>>
  <2>1. /\ pass'[p].at = "reading"
        /\ \A q \in Passes \ {p} : pass'[q] = pass[q]
    BY <1>1, <1>7 DEF PassGoes, NoPass
  <2>2. OnePass' /\ PassKnows'
    BY <1>1, <1>2, <2>1 DEF OnePass, PassKnows
  <2>3. ActiveIsKnown'
    BY <1>1, <1>3, <1>7 DEF ActiveIsKnown, At
  <2>4. RunningSends' /\ PolicyIsOfTheAdapter'
    BY <1>1, <1>7 DEF PassInv, RunningSends, PolicyIsOfTheAdapter
  <2>5. SavesAreAwaited'
    BY <1>1, <1>7, SavesMove
  <2> QED BY <2>2, <2>3, <2>4, <2>5 DEF PassInv
<1> QED BY <1>4, <1>5, <1>6, <1>7 DEF Reconcile

(* An adapter that is off leaves the channel: the end of a detach(). *)
LEMMA DetachStep ==
    ASSUME TypeOK, PassInv, SavesAreAwaited, NEW a \in Adapters, At(a, "off"),
           running \in {None, a}, \A p \in Passes : pass[p].at # "attaching",
           adapter' = [adapter EXCEPT ![a].config = None], running' = None, DropChannel,
           \A p \in Passes : /\ pass'[p].at # "idle" => p = 1
                             /\ pass'[p].at # "attaching"
                             /\ pass'[p].at = "detaching" => pass'[p] = pass[p],
           UNCHANGED saves
    PROVE  PassInv' /\ SavesAreAwaited'
<1>1. adapter \in [Adapters -> Fields] /\ saves \in Seq(Save)
  BY DEF TypeOK, AdapterTypeOK
<1>2. \A b \in Adapters : adapter'[b].phase = adapter[b].phase
  BY <1>1 DEF Fields
<1>3. OnePass' /\ PassKnows'
  BY DEF OnePass, PassInv, PassKnows
<1>4. ActiveIsKnown'
  BY <1>2 DEF PassInv, ActiveIsKnown, Attaches, At
<1>5. RunningSends' /\ PolicyIsOfTheAdapter'
  BY DEF RunningSends, PolicyIsOfTheAdapter, DropChannel
<1>6. SavesAreAwaited'
  BY <1>1, <1>2, SavesMove
<1> QED BY <1>3, <1>4, <1>5, <1>6 DEF PassInv

LEMMA DetachedStep ==
    ASSUME TypeOK, PassInv, SavesAreAwaited, NEW p \in Passes, Detached(p)
    PROVE  PassInv' /\ SavesAreAwaited'
<1> DEFINE a == pass[p].adapter
<1>1. pass \in [Passes -> PassRecord] /\ pass[p].at = "detaching"
  BY DEF TypeOK, Detached
<1>2. p = 1 /\ \A q \in Passes \ {p} : pass[q].at = "idle"
  BY <1>1 DEF PassInv, OnePass
<1>3. a \in Adapters /\ running \in {None, a} /\ At(a, "off")
  BY <1>1 DEF PassInv, PassKnows, Detached, Disconnected
<1>4. /\ pass'[p].at \in {"disabling", "resolved"}
      /\ \A q \in Passes \ {p} : pass'[q] = pass[q]
  <2> DEFINE at == IF pass[p].desired = None THEN "disabling" ELSE "resolved"
  <2>1. pass' = [pass EXCEPT ![p].at = at, ![p].adapter = None]
    BY DEF Detached
  <2>2. at \in {"disabling", "resolved"}
    OBVIOUS
  <2> HIDE DEF at
  <2> QED BY <1>1, <2>1, <2>2 DEF PassRecord
<1>5. /\ adapter' = [adapter EXCEPT ![a].config = None]
      /\ running' = None /\ DropChannel /\ UNCHANGED saves
  BY DEF Detached
<1>6. \A q \in Passes : pass[q].at # "attaching"
  BY <1>1, <1>2
<1>7. \A q \in Passes : /\ pass'[q].at # "idle" => q = 1
                        /\ pass'[q].at # "attaching"
                        /\ pass'[q].at = "detaching" => pass'[q] = pass[q]
  BY <1>2, <1>4
<1> QED BY <1>3, <1>5, <1>6, <1>7, DetachStep

(* connect() returns or fails. *)
LEMMA AttachedStep ==
    ASSUME TypeOK, PassInv, SavesAreAwaited, NEW p \in Passes, Attached(p)
    PROVE  PassInv' /\ SavesAreAwaited'
<1> USE AdapterAssumption
<1> DEFINE a == pass[p].adapter
<1>1. /\ adapter \in [Adapters -> Fields] /\ saves \in Seq(Save)
      /\ pass \in [Passes -> PassRecord] /\ session \in Tokens \cup {None}
      /\ pass[p].at = "attaching" /\ UNCHANGED <<sender, permission, saves>>
  BY DEF TypeOK, AdapterTypeOK, Attached
<1>2. p = 1 /\ \A q \in Passes \ {p} : pass[q].at = "idle"
  BY <1>1 DEF PassInv, OnePass
<1>3. a \in Adapters /\ At(a, "loading") /\ running = None /\ sender = a /\ adapter[a] \in Fields
  BY <1>1 DEF PassInv, PassKnows
<1>4. \A b \in Adapters \ {a} : At(b, "off")
  BY <1>2, <1>3, AdapterAssumption DEF PassInv, ActiveIsKnown, Attaches
<1>5. SUFFICES ASSUME /\ adapter'[a].config = adapter[a].config
                      /\ \A b \in Adapters \ {a} : adapter'[b] = adapter[b]
                      /\ pass'[p].at \in {"reading", "idle"}
                      /\ \A q \in Passes \ {p} : pass'[q] = pass[q]
                      /\ running' = a \/ (running' = None /\ adapter'[a].phase = "off")
               PROVE  PassInv' /\ SavesAreAwaited'
  <2>1. CASE Loaded(a) /\ running' = a /\ PassGoes(p, "reading")
    <3>1. [adapter[a] EXCEPT !.token = session] \in Fields
      BY <1>1, <1>3 DEF Fields
    <3>2. [adapter[a] EXCEPT !.token = session].config = adapter[a].config
      BY <1>3 DEF Fields
    <3>3. /\ adapter'[a].config = adapter[a].config
          /\ \A b \in Adapters \ {a} : adapter'[b] = adapter[b]
      BY <1>1, <1>3, <2>1, <3>1, <3>2, LoopHeadFields DEF Loaded
    <3>4. pass'[p].at = "reading" /\ \A q \in Passes \ {p} : pass'[q] = pass[q]
      BY <1>1, <2>1 DEF PassGoes, NoPass
    <3> QED BY <1>5, <2>1, <3>3, <3>4
  <2>2. CASE Goes(a, "off") /\ PassEnds(p) /\ UNCHANGED running
    <3>1. /\ adapter'[a].config = adapter[a].config /\ adapter'[a].phase = "off"
          /\ \A b \in Adapters \ {a} : adapter'[b] = adapter[b]
      BY <1>1, <1>3, <2>2 DEF Goes, Fields
    <3>2. pass'[p].at = "idle" /\ \A q \in Passes \ {p} : pass'[q] = pass[q]
      BY <1>1, <2>2 DEF PassEnds, NoPass
    <3> QED BY <1>3, <1>5, <2>2, <3>1, <3>2
  <2> QED BY <2>1, <2>2 DEF Attached
<1>6. OnePass' /\ PassKnows'
  BY ZenonT(40), <1>2, <1>5 DEF OnePass, PassKnows
<1>7. ActiveIsKnown'
  BY <1>4, <1>5 DEF ActiveIsKnown, At
<1>8. RunningSends' /\ PolicyIsOfTheAdapter'
  BY <1>1, <1>3, <1>5 DEF PassInv, RunningSends, PolicyIsOfTheAdapter
<1>9. SavesAreAwaited'
  <2>1. adapter[a].phase \notin Waiting
    BY <1>3 DEF At, Waiting
  <2> QED BY <1>1, <1>5, <2>1, SavesMove
<1> QED BY <1>6, <1>7, <1>8, <1>9 DEF PassInv

(* stop() waits for the adapter that runs; a pass may go on. *)
LEMMA StopSteps ==
    ASSUME TypeOK, PassInv, SavesAreAwaited, Stop \/ StopDetaches
    PROVE  PassInv' /\ SavesAreAwaited'
<1> USE AdapterAssumption
<1>1. /\ adapter \in [Adapters -> Fields] /\ saves \in Seq(Save) /\ UNCHANGED <<pass, saves>>
      /\ running \in Adapters \cup {None}
      /\ \A p \in Passes : pass[p].at # "idle" => p = 1
  BY DEF TypeOK, AdapterTypeOK, Stop, StopDetaches, PassInv, OnePass
<1>2. CASE Stop
  <2>1. \A a \in Adapters : /\ adapter'[a].phase = adapter[a].phase
                            /\ adapter'[a].config = adapter[a].config
    BY <1>1, <1>2 DEF Stop, Fields
  <2>2. AdaptersStay /\ PassesStay
    BY <1>1, <2>1 DEF AdaptersStay, At, PassesStay
  <2>3. SavesAreAwaited'
    BY <1>1, <2>1, SavesMove
  <2>4. UNCHANGED <<running, sender, permission>>
    BY <1>2 DEF Stop
  <2> QED BY <2>2, <2>3, <2>4, PassInvStays
<1>3. CASE StopDetaches
  <2>1. running \in Adapters /\ At(running, "off")
    BY <1>1, <1>3 DEF StopDetaches, Disconnected
  <2>2. \A p \in Passes : pass[p].at # "attaching"
    BY <2>1 DEF PassInv, PassKnows
  <2>3. adapter' = [adapter EXCEPT ![running].config = None] /\ running' = None /\ DropChannel
    BY <1>3 DEF StopDetaches
  <2> QED BY <1>1, <2>1, <2>2, <2>3, DetachStep
<1> QED BY <1>2, <1>3

LEMMA ProcessEndsStep ==
    ASSUME ProcessEnds
    PROVE  PassInv' /\ SavesAreAwaited'
<1>1. \A p \in Passes : pass'[p].at = "idle"
  BY DEF ProcessEnds, NoPass
<1>2. \A a \in Adapters : At(a, "off")'
  BY DEF ProcessEnds, Off, At
<1>3. saves' = <<>> /\ running' = None /\ permission' = None
  BY DEF ProcessEnds
<1>4. OnePass' /\ PassKnows' /\ ActiveIsKnown'
  BY <1>1, <1>2 DEF OnePass, PassKnows, ActiveIsKnown, At
<1>5. RunningSends' /\ PolicyIsOfTheAdapter' /\ SavesAreAwaited'
  BY <1>3 DEF RunningSends, PolicyIsOfTheAdapter, SavesAreAwaited
<1> QED BY <1>4, <1>5 DEF PassInv

LEMMA ChannelStep == TypeOK /\ ChannelInv /\ [Next]_vars => ChannelInv'
<1> SUFFICES ASSUME TypeOK, PassInv, SavesAreAwaited, [Next]_vars
             PROVE  PassInv' /\ SavesAreAwaited'
  BY DEF ChannelInv
<1>1. CASE AdapterNext /\ UNCHANGED gatewayVars
  BY <1>1, AdapterChannelStep
<1>2. CASE SaveConfig \/ RequestCommand \/ DeleteIntegration \/ Start \/ UNCHANGED vars
  <2>1. /\ UNCHANGED <<adapter, pass, running, sender, permission>>
        /\ UNCHANGED saves \/ saves' = Missed(saves)
    BY <1>2 DEF SaveConfig, RequestCommand, DeleteIntegration, ClearSession, Start, vars,
                adapterVars, gatewayVars
  <2>2. AdaptersStay /\ PassesStay
    BY <2>1 DEF AdaptersStay, At, PassesStay, PassInv, OnePass
  <2>3. saves \in Seq(Save)
    BY DEF TypeOK, AdapterTypeOK
  <2> QED BY <2>1, <2>2, <2>3, PassInvStays, SavesMove, SavesMissed
<1>3. ASSUME NEW p \in Passes, Pass(p) PROVE PassInv' /\ SavesAreAwaited'
  BY <1>3, QuietPassStep, ReconcileStep, DetachedStep, AttachedStep DEF Pass
<1>4. CASE Stop \/ StopDetaches
  BY <1>4, StopSteps
<1>5. CASE Exit \/ Crash
  BY <1>5, ProcessEndsStep DEF Exit, Crash
<1> QED BY <1>1, <1>2, <1>3, <1>4, <1>5 DEF Next

LEMMA InitChannel == Init => ChannelInv
<1> SUFFICES ASSUME Init PROVE ChannelInv
  OBVIOUS
<1>1. \A p \in Passes : pass[p].at = "idle"
  BY DEF Init, NoPass
<1>2. \A a \in Adapters : At(a, "off")
  BY DEF Init, AdapterInit, Off, At
<1>3. saves = <<>> /\ running = None /\ permission = None
  BY DEF Init, AdapterInit
<1>4. OnePass /\ PassKnows /\ ActiveIsKnown
  BY <1>1, <1>2 DEF OnePass, PassKnows, ActiveIsKnown
<1>5. RunningSends /\ PolicyIsOfTheAdapter /\ SavesAreAwaited
  BY <1>3 DEF RunningSends, PolicyIsOfTheAdapter, SavesAreAwaited
<1> QED BY <1>4, <1>5 DEF ChannelInv, PassInv

(* The whole invariant: what GatewayInv says of a state, every state has.   *)
LEMMA GatewayInvariant == Spec => []GatewayInv
<1>1. Init => GatewayInv
  <2> SUFFICES ASSUME Init PROVE GatewayInv
    OBVIOUS
  <2>1. Ends \in Nat
    BY EndsCount
  <2>2. CommandInv
    BY <2>1 DEF Init, CommandInv
  <2> QED BY <2>2, InitType, InitChannel DEF GatewayInv
<1>2. GatewayInv /\ [Next]_vars => GatewayInv'
  BY TypeStep, ChannelStep, CommandStep DEF GatewayInv
<1> QED BY <1>1, <1>2, PTL DEF Spec

(* Two adapters never poll at once: an adapter whose loop runs is the       *)
(* running one, as the only others that are not off have not connected yet. *)
THEOREM OnePollerCorrect == Spec => []OnePoller
<1>1. GatewayInv => OnePoller
  <2> SUFFICES ASSUME ChannelInv, NEW a \in Adapters, NEW b \in Adapters, Looping(a), Looping(b)
               PROVE  a = b
    BY DEF GatewayInv, OnePoller
  <2>1. ASSUME NEW c \in Adapters, Looping(c) PROVE running = c
    <3>1. ~At(c, "off") /\ ~At(c, "loading")
      BY <2>1 DEF Looping, At
    <3>2. \A p \in Passes : ~Attaches(p, c)
      BY <3>1 DEF ChannelInv, PassInv, PassKnows, Attaches
    <3> QED BY <3>1, <3>2 DEF ChannelInv, PassInv, ActiveIsKnown
  <2> QED BY <2>1
<1> QED BY <1>1, GatewayInvariant, PTL

(* The policy of the channel is always that of the adapter whose sender is  *)
(* registered, and there is none without one - also while a pass and stop() *)
(* detach the same adapter, and after a connect() that failed.              *)
THEOREM PolicyCorrect == Spec => []PolicyIsOfTheAdapter
<1>1. GatewayInv => PolicyIsOfTheAdapter
  BY DEF GatewayInv, ChannelInv, PassInv
<1> QED BY <1>1, GatewayInvariant, PTL

-----------------------------------------------------------------------------
(* What the state row and the session row say                               *)

(* A pass that, undisturbed, will write the state row or attach an adapter. *)
WillShow(p) ==
    \/ pass[p].at \in {"detaching", "disabling", "attaching"}
    \/ pass[p].at = "resolved" /\ pass[p].desired # None

(* A row that shows a channel without an adapter is about to be true again, *)
(* unless the process ended or a write failed.                              *)
ShownIsKnown ==
    /\ up = "stopping" => "stop" \in trouble
    /\ \/ trouble \cap {"crash", "stop", "fault"} # {}
       \/ shown \in {None, "disabled"}
       \/ running # None
       \/ \E p \in Passes : WillShow(p)

(* The tokens that were given out so far. *)
Given == 1..logins

(* Every token was given out; a loop that logs in has none; and the save of *)
(* a login writes the token its adapter has, or had before a reauth().      *)
TokensAreKnown ==
    /\ loggedOut \subseteq Given /\ session \in Given \cup {None}
    /\ \A a \in Adapters : /\ adapter[a].token \in Given \cup {None}
                           /\ adapter[a].phase \in {"login", "scan"} => adapter[a].token = None
    /\ \A i \in DOMAIN saves :
          /\ saves[i].writes \in Given \cup {None}
          /\ saves[i].kind = "login" => adapter[saves[i].by].token \in {None, saves[i].writes}
          /\ saves[i].kind = "revoke" => saves[i].writes = None

(* A save that is not late writes what the row holds, or a new token, which *)
(* nobody logged out, or none.                                              *)
SavesAreTrue ==
    \A i \in DOMAIN saves : ~saves[i].late =>
        /\ saves[i].kind \in {"cursor", "close"} => saves[i].writes = session
        /\ saves[i].kind = "login" => saves[i].writes \notin loggedOut

(* The token an adapter polls with is in the row, or was logged out.        *)
PollersAreTrue ==
    \A a \in Adapters :
        At(a, "poll") => adapter[a].token \in {None, session} \cup loggedOut

SessionIsKnown ==
    \/ overtaken \/ "fault" \in trouble
    \/ session \notin loggedOut /\ SavesAreTrue /\ PollersAreTrue

(* A row that is shown stays true or is about to be made so. *)
LEMMA ShowsNothing ==
    ASSUME ShownIsKnown, trouble \cap {"crash", "stop", "fault"} = {}, running = None,
           \A p \in Passes : ~WillShow(p)
    PROVE  shown \in {None, "disabled"}
BY DEF ShownIsKnown

(* Who shows the channel as enabled runs, or is the one being attached. *)
LEMMA ShowingRuns ==
    ASSUME TypeOK, ChannelInv, NEW a \in Adapters,
           adapter[a].phase \notin {"off", "loading"}
    PROVE  running # None
<1>1. running = a \/ \E p \in Passes : Attaches(p, a)
  BY DEF ChannelInv, PassInv, ActiveIsKnown, At
<1>2. \A p \in Passes : ~Attaches(p, a)
  BY DEF ChannelInv, PassInv, PassKnows, Attaches, At
<1> QED BY <1>1, <1>2, AdapterAssumption

(* The state row, the map of adapters and the passes stay. *)
LEMMA ShownStays ==
    ASSUME ShownIsKnown, UNCHANGED <<shown, running, pass>>, trouble \subseteq trouble',
           up' = "stopping" => up = "stopping"
    PROVE  ShownIsKnown'
<1>1. \A p \in Passes : WillShow(p)' = WillShow(p)
  BY DEF WillShow
<1>2. (up = "stopping" => "stop" \in trouble)'
  BY DEF ShownIsKnown
<1>3. CASE trouble \cap {"crash", "stop", "fault"} # {}
  <2>1. trouble' \cap {"crash", "stop", "fault"} # {}
    BY <1>3
  <2> QED BY <1>2, <2>1 DEF ShownIsKnown
<1> QED BY <1>1, <1>2, <1>3 DEF ShownIsKnown

LEMMA ShownAdapterStep ==
    ASSUME TypeOK, ChannelInv, ShownIsKnown, AdapterNext, UNCHANGED gatewayVars
    PROVE  ShownIsKnown'
<1>1. UNCHANGED <<running, pass, up>> /\ trouble \subseteq trouble'
  BY DEF gatewayVars, AdapterNext, LoopSteps, PollReturns, Login, ScanGoesOn, Close, TokenExpires,
         ScanConfirmed, SaveEnds, Happens, Calm
<1>2. CASE UNCHANGED shown
  BY <1>1, <1>2, ShownStays
<1>3. CASE running # None
  BY <1>1, <1>3 DEF ShownIsKnown
<1>4. ASSUME NEW a \in Adapters, LoopSteps(a) \/ TokenExpires(a) \/ ScanConfirmed(a)
      PROVE  UNCHANGED shown \/ running # None
  <2>1. CASE Login(a)
    BY <2>1, ShowingRuns DEF Login, At
  <2> QED BY <1>4, <2>1 DEF LoopSteps, PollReturns, ScanGoesOn, Close, TokenExpires, ScanConfirmed
<1>5. ASSUME SaveEnds
      PROVE  UNCHANGED shown \/ running # None
  <2>1. PICK i \in DOMAIN saves, done \in BOOLEAN : Saved(saves[i], done)
    BY <1>5 DEF SaveEnds
  <2>2. saves[i] \in Save /\ saves[i].by \in Adapters /\ saves[i].kind \in SaveKind
    <3>1. saves \in Seq(Save)
      BY DEF TypeOK, AdapterTypeOK
    <3>2. saves[i] \in Save
      BY <3>1
    <3> QED BY <3>2 DEF Save
  <2>3. CASE saves[i].kind = "login"
    <3>1. adapter[saves[i].by].phase = "saving"
      BY <2>3 DEF ChannelInv, SavesAreAwaited, Awaited, AwaitedAt
    <3> QED BY <2>2, <3>1, ShowingRuns
  <2> QED BY <2>1, <2>2, <2>3 DEF Saved, SaveKind
<1> QED BY <1>2, <1>3, <1>4, <1>5 DEF AdapterNext

(* A pass: before it ends it attaches an adapter or corrects the row. *)
LEMMA ShownPassStep ==
    ASSUME TypeOK, ChannelInv, ShownIsKnown, NEW p \in Passes, Pass(p)
    PROVE  ShownIsKnown'
<1> DEFINE Ill(t) == t \cap {"crash", "stop", "fault"} # {}
<1>0. /\ pass \in [Passes -> PassRecord] /\ running \in Adapters \cup {None}
      /\ trouble \subseteq trouble' /\ UNCHANGED up
  BY DEF TypeOK, Pass, Tick, Reconcile, Detached, PublishDisabled, Attached, ReadCommand, Logout,
         ClearCommand, Calm, Happens
<1>1. (up = "stopping" => "stop" \in trouble)'
  BY <1>0 DEF ShownIsKnown
<1>2. \A q \in Passes : pass[q].at # "idle" => q = 1
  BY DEF ChannelInv, PassInv, OnePass
<1>3. CASE Ill(trouble')
  BY <1>1, <1>3 DEF ShownIsKnown
<1>4. CASE ~Ill(trouble')
  <2>0. ~Ill(trouble) /\ ~(Happens("fault")) /\ ~(Happens("stop")) /\ ~(Happens("crash"))
    BY <1>0, <1>4 DEF Happens
  <2>1. CASE Tick(p) \/ ReadCommand(p) \/ Logout(p) \/ ClearCommand(p)
    <3>1. pass[p].at \in {"idle", "reading", "loggingOut", "reauth", "clearing"}
      BY <2>1 DEF Tick, MayStart, ReadCommand, Logout, ClearCommand
    <3>2. \A q \in Passes : ~WillShow(q)
      <4>1. CASE Tick(p)
        BY <4>1 DEF Tick, MayStart, WillShow
      <4>2. CASE pass[p].at # "idle"
        BY <1>2, <3>1, <4>2 DEF WillShow
      <4> QED BY <2>1, <4>1, <4>2 DEF ReadCommand, Logout, ClearCommand
    <3>3. UNCHANGED <<shown, running>>
      BY <2>1 DEF Tick, ReadCommand, Logout, ClearCommand
    <3>4. shown \in {None, "disabled"} \/ running # None
      BY <2>0, <3>2, ShowsNothing
    <3> QED BY <1>1, <3>3, <3>4 DEF ShownIsKnown
  <2>2. CASE Reconcile(p)
    <3>0. pass[p].at = "resolved" /\ UNCHANGED <<shown, running>>
      BY <2>2 DEF Reconcile
    <3>1. CASE running # None
      BY <1>1, <3>0, <3>1 DEF ShownIsKnown
    <3>2. CASE running = None /\ pass[p].desired = None
      <4>1. \A q \in Passes : ~WillShow(q)
        BY <1>2, <3>0, <3>2 DEF WillShow
      <4>2. shown \in {None, "disabled"}
        BY <2>0, <3>2, <4>1, ShowsNothing
      <4> QED BY <1>1, <3>0, <4>2 DEF ShownIsKnown
    <3>3. CASE running = None /\ pass[p].desired # None
      <4>1. StartAttach(p)
        BY <2>2, <3>3 DEF Reconcile
      <4>2. PICK a : pass' = [pass EXCEPT ![p].at = "attaching", ![p].adapter = a]
        BY <4>1 DEF StartAttach
      <4>3. pass'[p].at = "attaching"
        BY <1>0, <4>2 DEF PassRecord
      <4>4. WillShow(p)'
        BY <4>3 DEF WillShow
      <4> QED BY <1>1, <4>4 DEF ShownIsKnown
    <3> QED BY <3>1, <3>2, <3>3
  <2>3. CASE Detached(p)
    <3> DEFINE at == IF pass[p].desired = None THEN "disabling" ELSE "resolved"
    <3>1. pass' = [pass EXCEPT ![p].at = at, ![p].adapter = None]
      BY <2>3 DEF Detached
    <3>2. pass'[p].at = at /\ pass'[p].desired = pass[p].desired
      <4> HIDE DEF at
      <4> QED BY <1>0, <3>1 DEF PassRecord
    <3>3. WillShow(p)'
      BY <3>2 DEF WillShow
    <3> QED BY <1>1, <3>3 DEF ShownIsKnown
  <2>4. CASE PublishDisabled(p)
    BY <1>1, <2>0, <2>4 DEF PublishDisabled, ShownIsKnown
  <2>5. CASE Attached(p)
    <3>1. running' = pass[p].adapter /\ pass[p].at = "attaching"
      BY <2>0, <2>5 DEF Attached
    <3>2. pass[p].adapter # None
      BY <3>1, AdapterAssumption DEF ChannelInv, PassInv, PassKnows
    <3> QED BY <1>1, <3>1, <3>2 DEF ShownIsKnown
  <2> QED BY <2>1, <2>2, <2>3, <2>4, <2>5 DEF Pass
<1> QED BY <1>3, <1>4

LEMMA ShownStep == TypeOK /\ ChannelInv /\ ShownIsKnown /\ [Next]_vars => ShownIsKnown'
<1> SUFFICES ASSUME TypeOK, ChannelInv, ShownIsKnown, [Next]_vars PROVE ShownIsKnown'
  OBVIOUS
<1>1. CASE AdapterNext /\ UNCHANGED gatewayVars
  BY <1>1, ShownAdapterStep
<1>2. CASE SaveConfig \/ RequestCommand \/ Start \/ UNCHANGED vars
  <2>1. /\ UNCHANGED <<shown, running, pass, trouble>> 
        /\ up' = "stopping" => up = "stopping"
    BY <1>2 DEF SaveConfig, RequestCommand, Start, vars, adapterVars, gatewayVars
  <2> QED BY <2>1, ShownStays
<1>3. CASE DeleteIntegration
  <2>1. /\ UNCHANGED <<running, pass, up>> /\ trouble \subseteq trouble'
        /\ UNCHANGED shown \/ shown' = None
    BY <1>3 DEF DeleteIntegration, Happens, Calm
  <2>2. CASE UNCHANGED shown
    BY <2>1, <2>2, ShownStays
  <2>3. CASE shown' = None
    BY <2>1, <2>3 DEF ShownIsKnown
  <2> QED BY <2>1, <2>2, <2>3
<1>4. ASSUME NEW p \in Passes, Pass(p) PROVE ShownIsKnown'
  BY <1>4, ShownPassStep
<1>5. CASE Stop \/ StopDetaches \/ Exit \/ Crash
  <2>1. trouble' \cap {"crash", "stop", "fault"} # {}
    BY <1>5 DEF Stop, StopDetaches, Exit, Crash, Happens, Calm, ShownIsKnown
  <2>2. (up = "stopping" => "stop" \in trouble)'
    BY <1>5 DEF Stop, StopDetaches, Exit, Crash, Happens, Calm, ShownIsKnown, ProcessEnds
  <2> QED BY <2>1, <2>2 DEF ShownIsKnown
<1> QED BY <1>1, <1>2, <1>3, <1>4, <1>5 DEF Next

(* The state row does not say that a channel is there when none is, but for *)
(* a crash, a stop or a failed write: a pass that detached the adapter ends *)
(* only after it corrected the row or attached another one.                 *)
THEOREM ShownStateCorrect == Spec => []ShownStateIsTrue
<1>1. Init => ShownIsKnown
  BY DEF Init, AdapterInit, ShownIsKnown
<1>2. GatewayInv /\ ShownIsKnown /\ [Next]_vars => ShownIsKnown'
  BY ShownStep DEF GatewayInv
<1>3. ShownIsKnown => ShownStateIsTrue
  BY DEF ShownIsKnown, ShownStateIsTrue, WillShow
<1> QED BY <1>1, <1>2, <1>3, GatewayInvariant, PTL DEF Spec

-----------------------------------------------------------------------------
(* Where the saves of the next state come from                              *)

(* Save i of the next state is save j of this one, perhaps late by now. *)
StemsFrom(i, j) ==
    /\ saves'[i].by = saves[j].by /\ saves'[i].kind = saves[j].kind
    /\ saves'[i].writes = saves[j].writes
    /\ saves[j].late => saves'[i].late

NoneIsNew == \A i \in DOMAIN saves' : \E j \in DOMAIN saves : StemsFrom(i, j)
AllAreLate == \A i \in DOMAIN saves' : saves'[i].late

(* The save of adapter a is the only one that may be new. *)
OneIsNew(a, kind, token) ==
    \A i \in DOMAIN saves' :
        \/ \E j \in DOMAIN saves : StemsFrom(i, j)
        \/ saves'[i].by = a /\ saves'[i].kind = kind /\ saves'[i].writes = token

(* Missed keeps what a save writes and makes it late. *)
LEMMA MissedFields ==
    ASSUME NEW list \in Seq(Save)
    PROVE  /\ DOMAIN Missed(list) = DOMAIN list
           /\ \A i \in DOMAIN list : /\ Missed(list)[i].by = list[i].by
                                     /\ Missed(list)[i].kind = list[i].kind
                                     /\ Missed(list)[i].writes = list[i].writes
                                     /\ Missed(list)[i].late
<1>1. ASSUME NEW save \in Save
      PROVE  /\ [save EXCEPT !.late = TRUE].by = save.by
             /\ [save EXCEPT !.late = TRUE].kind = save.kind
             /\ [save EXCEPT !.late = TRUE].writes = save.writes
             /\ [save EXCEPT !.late = TRUE].late
  BY DEF Save
<1>2. DOMAIN list = 1..Len(list) /\ \A i \in 1..Len(list) : list[i] \in Save
  OBVIOUS
<1> QED BY <1>1, <1>2 DEF Missed

LEMMA SavesStem ==
    ASSUME saves \in Seq(Save)
    PROVE  /\ UNCHANGED saves => NoneIsNew
           /\ saves' = <<>> => NoneIsNew
           /\ saves' = Missed(saves) => NoneIsNew /\ AllAreLate
           /\ \A k \in DOMAIN saves :
                 /\ saves' = RemoveAt(saves, k) => NoneIsNew
                 /\ saves' = Missed(RemoveAt(saves, k)) => NoneIsNew /\ AllAreLate
           /\ \A a, kind, token : SaveStarts(a, kind, token) => OneIsNew(a, kind, token)
<1>0. Len(saves) \in Nat /\ DOMAIN saves = 1..Len(saves)
  OBVIOUS
<1>1. UNCHANGED saves => NoneIsNew
  BY DEF NoneIsNew, StemsFrom
<1>2. saves' = <<>> => NoneIsNew
  BY DEF NoneIsNew
<1>3. saves' = Missed(saves) => NoneIsNew /\ AllAreLate
  BY MissedFields DEF NoneIsNew, StemsFrom, AllAreLate
<1>4. ASSUME NEW k \in DOMAIN saves
      PROVE  /\ saves' = RemoveAt(saves, k) => NoneIsNew
             /\ saves' = Missed(RemoveAt(saves, k)) => NoneIsNew /\ AllAreLate
  <2> DEFINE list == RemoveAt(saves, k)
  <2>1. /\ list \in Seq(Save) /\ DOMAIN list = 1..(Len(saves) - 1)
        /\ \A i \in 1..(Len(saves) - 1) : list[i] = IF i < k THEN saves[i] ELSE saves[i + 1]
    BY RemoveAtList
  <2> HIDE DEF list
  <2>2. ASSUME NEW i \in DOMAIN list PROVE \E j \in DOMAIN saves : list[i] = saves[j]
    <3>1. i \in DOMAIN saves /\ i + 1 \in DOMAIN saves
      BY <1>0, <2>1
    <3>2. list[i] = saves[i] \/ list[i] = saves[i + 1]
      BY <2>1
    <3> QED BY <3>1, <3>2
  <2>3. saves' = list => NoneIsNew
    BY <2>2 DEF NoneIsNew, StemsFrom
  <2>4. saves' = Missed(list) => AllAreLate
    BY <2>1, MissedFields DEF AllAreLate
  <2>5. saves' = Missed(list) => NoneIsNew
    BY <2>1, <2>2, MissedFields DEF NoneIsNew, StemsFrom
  <2> QED BY <2>3, <2>4, <2>5 DEF list
<1>5. ASSUME NEW a, NEW kind, NEW token, SaveStarts(a, kind, token)
      PROVE  OneIsNew(a, kind, token)
  <2> DEFINE save == [by |-> a, kind |-> kind, writes |-> token, late |-> FALSE]
  <2>1. save.by = a /\ save.kind = kind /\ save.writes = token
    OBVIOUS
  <2>2. saves' = Append(saves, save)
    BY <1>5 DEF SaveStarts
  <2> HIDE DEF save
  <2>3. /\ DOMAIN saves' = 1..(Len(saves) + 1) /\ saves'[Len(saves) + 1] = save
        /\ \A i \in DOMAIN saves : saves'[i] = saves[i]
    BY <1>0, <2>2
  <2>4. \A i \in DOMAIN saves' : i \in DOMAIN saves \/ i = Len(saves) + 1
    BY <1>0, <2>3
  <2> QED BY <2>1, <2>3, <2>4 DEF OneIsNew, StemsFrom
<1> QED BY <1>1, <1>2, <1>3, <1>4, <1>5

-----------------------------------------------------------------------------
(* The tokens of the adapters                                               *)

(* The adapter keeps its token or drops it; it logs in without one, and it  *)
(* does not begin to poll with one.                                         *)
TokenStays(a) ==
    /\ adapter'[a].token \in {None, adapter[a].token}
    /\ adapter'[a].phase \in {"login", "scan"} => adapter'[a].token = None
    /\ adapter'[a].phase = "poll" => adapter[a].phase = "poll" \/ adapter'[a].token = None

(* The head of the loop drops the token or goes on to poll with it. *)
LEMMA LoopHeadToken ==
    ASSUME NEW fields \in Fields
    PROVE  /\ LoopHead(fields).token \in {None, fields.token}
           /\ LoopHead(fields).phase = "login" => LoopHead(fields).token = None
           /\ LoopHead(fields).phase # "scan"
           /\ LoopHead(fields).phase = "poll" => fields.token # None
BY DEF LoopHead, Fields, Phase

LEMMA LoopsOnToken ==
    ASSUME adapter \in [Adapters -> Fields], NEW a \in Adapters, LoopsOn(a),
           adapter[a].phase = "poll" \/ adapter[a].token = None
    PROVE  TokenStays(a)
<1>1. adapter'[a] = LoopHead(adapter[a]) /\ adapter[a] \in Fields
  BY DEF LoopsOn
<1> QED BY <1>1, LoopHeadToken DEF TokenStays

(* The steps that neither read nor write the session row, start no save and *)
(* give out no token.                                                       *)
LEMMA QuietAdapters ==
    ASSUME adapter \in [Adapters -> Fields], TokensAreKnown,
           NEW a \in Adapters, NEW b,
           \/ UNCHANGED adapter
           \/ Goes(b, "revoked") \/ Goes(b, "closing") \/ Goes(b, "off")
           \/ Goes(b, "scan") /\ adapter[b].phase = "login"
           \/ adapter' = [adapter EXCEPT ![b].on = FALSE]
           \/ adapter' = [adapter EXCEPT ![b].config = None]
           \/ Reauth(b)
           \/ \E c \in Configs \cup {None} :
                adapter' = [adapter EXCEPT ![b] = [Off EXCEPT !.phase = "loading", !.on = TRUE,
                                                              !.config = c]]
    PROVE  TokenStays(a)
<1>0. adapter[a].phase \in {"login", "scan"} => adapter[a].token = None
  BY DEF TokensAreKnown
<1>1. CASE UNCHANGED adapter
  BY <1>0, <1>1 DEF TokenStays
<1>2. ASSUME NEW phase \in {"revoked", "closing", "off", "scan"}, Goes(b, phase),
             phase = "scan" => adapter[b].phase = "login"
      PROVE  TokenStays(a)
  <2>1. adapter'[a].token = adapter[a].token
    BY <1>2 DEF Goes, Fields
  <2>2. adapter'[a].phase = IF a = b THEN phase ELSE adapter[a].phase
    BY ZenonT(40), <1>2 DEF Goes, Fields
  <2> QED BY <1>0, <1>2, <2>1, <2>2 DEF TokenStays
<1>3. CASE \/ adapter' = [adapter EXCEPT ![b].on = FALSE]
           \/ adapter' = [adapter EXCEPT ![b].config = None]
  <2>1. CASE adapter' = [adapter EXCEPT ![b].on = FALSE]
    <3>1. adapter'[a].token = adapter[a].token /\ adapter'[a].phase = adapter[a].phase
      BY <2>1 DEF Fields
    <3> QED BY <1>0, <3>1 DEF TokenStays
  <2>2. CASE adapter' = [adapter EXCEPT ![b].config = None]
    <3>1. adapter'[a].token = adapter[a].token /\ adapter'[a].phase = adapter[a].phase
      BY <2>2 DEF Fields
    <3> QED BY <1>0, <3>1 DEF TokenStays
  <2> QED BY <1>3, <2>1, <2>2
<1>4. CASE Reauth(b)
  <2>1. adapter'[a].phase = adapter[a].phase
    BY <1>4 DEF Reauth, Fields
  <2>2. adapter'[a].token = IF a = b THEN None ELSE adapter[a].token
    BY <1>4 DEF Reauth, Fields
  <2> QED BY <1>0, <2>1, <2>2 DEF TokenStays
<1>5. ASSUME NEW c \in Configs \cup {None},
             adapter' = [adapter EXCEPT ![b] = [Off EXCEPT !.phase = "loading", !.on = TRUE,
                                                           !.config = c]]
      PROVE  TokenStays(a)
  <2>1. adapter'[a] = IF a = b THEN [Off EXCEPT !.phase = "loading", !.on = TRUE, !.config = c]
                               ELSE adapter[a]
    BY <1>5
  <2>2. a = b => adapter'[a].token = None /\ adapter'[a].phase = "loading"
    BY <2>1 DEF Off
  <2> QED BY <1>0, <2>1, <2>2 DEF TokenStays
<1> QED BY <1>1, <1>2, <1>3, <1>4, <1>5

-----------------------------------------------------------------------------
(* What the steps do to the session                                         *)

(* Tokens and rows stay; no save is new. *)
QuietRow ==
    /\ \A a \in Adapters : TokenStays(a)
    /\ UNCHANGED <<session, logins, loggedOut, overtaken>>
    /\ trouble \subseteq trouble'

LEMMA TokensStay ==
    ASSUME TypeOK, TokensAreKnown, \A a \in Adapters : TokenStays(a),
           UNCHANGED logins, loggedOut' \subseteq Given, session' \in Given \cup {None},
           \/ NoneIsNew
           \/ \E a \in Adapters, kind \in {"cursor", "close"} : OneIsNew(a, kind, session)
           \/ \E a \in Adapters : OneIsNew(a, "revoke", None)
    PROVE  TokensAreKnown'
<1>1. Given' = Given
  BY DEF Given
<1>2. \A i \in DOMAIN saves : saves[i].by \in Adapters
  <2>1. saves \in Seq(Save)
    BY DEF TypeOK, AdapterTypeOK
  <2>2. \A i \in DOMAIN saves : saves[i] \in Save
    BY <2>1
  <2> QED BY <2>2 DEF Save
<1>3. \A a \in Adapters : /\ adapter'[a].token \in Given \cup {None}
                          /\ adapter'[a].phase \in {"login", "scan"} => adapter'[a].token = None
  BY DEF TokensAreKnown, TokenStays
<1>4. ASSUME NEW i \in DOMAIN saves'
      PROVE  /\ saves'[i].writes \in Given \cup {None}
             /\ saves'[i].kind = "login" => adapter'[saves'[i].by].token \in {None, saves'[i].writes}
             /\ saves'[i].kind = "revoke" => saves'[i].writes = None
  <2>1. CASE \E j \in DOMAIN saves : StemsFrom(i, j)
    BY <1>2, <2>1 DEF TokensAreKnown, TokenStays, StemsFrom
  <2>2. CASE /\ saves'[i].kind \in {"cursor", "close"} /\ saves'[i].writes = session
    BY <2>2 DEF TokensAreKnown
  <2>3. CASE /\ saves'[i].kind = "revoke" /\ saves'[i].writes = None
    BY <2>3
  <2> QED BY <2>1, <2>2, <2>3 DEF NoneIsNew, OneIsNew
<1> QED BY <1>1, <1>3, <1>4 DEF TokensAreKnown

(* A step that leaves the row alone. *)
LEMMA QuietRowStep ==
    ASSUME TypeOK, TokensAreKnown, SessionIsKnown, QuietRow,
           \/ NoneIsNew
           \/ \E a \in Adapters, kind \in {"cursor", "close"} : OneIsNew(a, kind, session)
           \/ \E a \in Adapters : OneIsNew(a, "revoke", None)
    PROVE  TokensAreKnown' /\ SessionIsKnown'
<1>1. TokensAreKnown'
  BY TokensStay DEF QuietRow, TokensAreKnown
<1>2. CASE overtaken \/ "fault" \in trouble
  BY <1>1, <1>2 DEF QuietRow, SessionIsKnown
<1>3. CASE session \notin loggedOut /\ SavesAreTrue /\ PollersAreTrue
  <2>1. SavesAreTrue'
    <3> SUFFICES ASSUME NEW i \in DOMAIN saves', ~saves'[i].late
                 PROVE  /\ saves'[i].kind \in {"cursor", "close"} => saves'[i].writes = session
                        /\ saves'[i].kind = "login" => saves'[i].writes \notin loggedOut
      BY DEF QuietRow, SavesAreTrue
    <3>1. CASE \E j \in DOMAIN saves : StemsFrom(i, j)
      BY <1>3, <3>1 DEF SavesAreTrue, StemsFrom
    <3>2. CASE \/ saves'[i].kind \in {"cursor", "close"} /\ saves'[i].writes = session
               \/ saves'[i].kind = "revoke"
      BY <3>2
    <3> QED BY <3>1, <3>2 DEF NoneIsNew, OneIsNew
  <2>2. PollersAreTrue'
    BY <1>3 DEF QuietRow, PollersAreTrue, TokenStays, At
  <2> QED BY <1>1, <1>3, <2>1, <2>2 DEF QuietRow, SessionIsKnown
<1> QED BY <1>2, <1>3 DEF SessionIsKnown

(* clear(): everything in flight has missed it. *)
LEMMA ClearedStep ==
    ASSUME TypeOK, TokensAreKnown, ClearSession, UNCHANGED <<adapter, logins>>
    PROVE  TokensAreKnown' /\ SessionIsKnown'
<1>1. saves \in Seq(Save) /\ saves' = Missed(saves) /\ session' = None
  BY DEF TypeOK, AdapterTypeOK, ClearSession
<1>2. NoneIsNew /\ AllAreLate
  BY <1>1, SavesStem
<1>3. /\ loggedOut' \subseteq Given /\ None \notin loggedOut'
      /\ \A a \in Adapters : adapter[a].token \in loggedOut' \cup {None}
  <2>1. None \notin Given
    BY AdapterAssumption DEF Given, TypeOK, AdapterTypeOK
  <2> QED BY <2>1 DEF ClearSession, TokensAreKnown
<1>4. \A a \in Adapters : TokenStays(a)
  BY DEF TokenStays, TokensAreKnown
<1>5. TokensAreKnown'
  BY <1>1, <1>2, <1>3, <1>4, TokensStay
<1>6. SavesAreTrue' /\ PollersAreTrue' /\ (session \notin loggedOut)'
  BY <1>1, <1>2, <1>3 DEF SavesAreTrue, AllAreLate, PollersAreTrue, At
<1> QED BY <1>5, <1>6 DEF SessionIsKnown

(* The adapter begins with the token of the row. *)
LEMMA LoadedStep ==
    ASSUME TypeOK, ChannelInv, TokensAreKnown, SessionIsKnown, NEW a \in Adapters, Loaded(a),
           adapter[a].phase = "loading",
           UNCHANGED <<session, saves, logins, loggedOut, overtaken, trouble>>
    PROVE  TokensAreKnown' /\ SessionIsKnown'
<1>1. adapter \in [Adapters -> Fields] /\ saves \in Seq(Save) /\ session \in Tokens \cup {None}
  BY DEF TypeOK, AdapterTypeOK
<1> DEFINE fields == [adapter[a] EXCEPT !.token = session]
<1>2. fields \in Fields /\ fields.token = session
  BY <1>1 DEF Fields
<1>3. adapter'[a] = LoopHead(fields) /\ \A b \in Adapters \ {a} : adapter'[b] = adapter[b]
  BY <1>1 DEF Loaded
<1> HIDE DEF fields
<1>4. /\ adapter'[a].token \in {None, session} /\ adapter'[a].phase # "scan"
      /\ adapter'[a].phase = "login" => adapter'[a].token = None
  BY <1>2, <1>3, LoopHeadToken
<1>5. \A i \in DOMAIN saves : saves[i].by \in Adapters /\ (saves[i].kind = "login" => saves[i].by # a)
  <2>1. \A i \in DOMAIN saves : saves[i] \in Save
    BY <1>1
  <2>2. \A i \in DOMAIN saves : saves[i].kind = "login" => adapter[saves[i].by].phase = "saving"
    BY DEF ChannelInv, SavesAreAwaited, Awaited, AwaitedAt
  <2> QED BY <2>1, <2>2 DEF Save
<1>6. TokensAreKnown'
  BY <1>3, <1>4, <1>5 DEF TokensAreKnown, Given
<1>7. SavesAreTrue => SavesAreTrue'
  BY DEF SavesAreTrue
<1>8. PollersAreTrue => PollersAreTrue'
  BY <1>3, <1>4 DEF PollersAreTrue, At
<1> QED BY <1>6, <1>7, <1>8 DEF SessionIsKnown

(* A login: the token is new to everybody. *)
LEMMA ScannedStep ==
    ASSUME TypeOK, ChannelInv, TokensAreKnown, SessionIsKnown, NEW a \in Adapters, ScanConfirmed(a)
    PROVE  TokensAreKnown' /\ SessionIsKnown'
<1>1. /\ adapter \in [Adapters -> Fields] /\ saves \in Seq(Save) /\ logins \in Nat
      /\ None \notin Nat
  BY AdapterAssumption DEF TypeOK, AdapterTypeOK
<1>2. /\ adapter' = [adapter EXCEPT ![a].phase = "saving", ![a].token = logins']
      /\ logins' = logins + 1 /\ SaveStarts(a, "login", logins')
      /\ UNCHANGED <<session, loggedOut, overtaken, trouble>>
      /\ adapter[a].phase = "scan"
  BY DEF ScanConfirmed, At
<1>3. /\ adapter'[a].phase = "saving" /\ adapter'[a].token = logins'
      /\ \A b \in Adapters \ {a} : adapter'[b] = adapter[b]
  BY <1>1, <1>2 DEF Fields
<1>4. OneIsNew(a, "login", logins')
  BY <1>1, <1>2, SavesStem
<1>5. Given \subseteq Given' /\ logins' \in Given' /\ logins' \notin Given
  BY <1>1, <1>2 DEF Given
<1>6. \A i \in DOMAIN saves : saves[i].by \in Adapters /\ (saves[i].kind = "login" => saves[i].by # a)
  <2>1. \A i \in DOMAIN saves : saves[i] \in Save
    BY <1>1
  <2>2. \A i \in DOMAIN saves : saves[i].kind = "login" => adapter[saves[i].by].phase = "saving"
    BY DEF ChannelInv, SavesAreAwaited, Awaited, AwaitedAt
  <2> QED BY <1>2, <2>1, <2>2 DEF Save
<1>7. ASSUME NEW i \in DOMAIN saves'
      PROVE  /\ saves'[i].writes \in Given' \cup {None}
             /\ saves'[i].kind = "login" => adapter'[saves'[i].by].token \in {None, saves'[i].writes}
             /\ saves'[i].kind = "revoke" => saves'[i].writes = None
  <2>1. CASE \E j \in DOMAIN saves : StemsFrom(i, j)
    BY <1>3, <1>5, <1>6, <2>1 DEF TokensAreKnown, StemsFrom
  <2>2. CASE saves'[i].by = a /\ saves'[i].kind = "login" /\ saves'[i].writes = logins'
    BY <1>3, <1>5, <2>2
  <2> QED BY <1>4, <2>1, <2>2 DEF OneIsNew
<1>8. TokensAreKnown'
  <2>1. \A b \in Adapters : /\ adapter'[b].token \in Given' \cup {None}
                            /\ adapter'[b].phase \in {"login", "scan"} => adapter'[b].token = None
    BY <1>3, <1>5 DEF TokensAreKnown
  <2>2. loggedOut' \subseteq Given' /\ session' \in Given' \cup {None}
    BY <1>2, <1>5 DEF TokensAreKnown
  <2> QED BY <1>7, <2>1, <2>2 DEF TokensAreKnown
<1>9. SavesAreTrue => SavesAreTrue'
  <2> SUFFICES ASSUME SavesAreTrue, NEW i \in DOMAIN saves', ~saves'[i].late
               PROVE  /\ saves'[i].kind \in {"cursor", "close"} => saves'[i].writes = session
                      /\ saves'[i].kind = "login" => saves'[i].writes \notin loggedOut
    BY <1>2 DEF SavesAreTrue
  <2>1. CASE \E j \in DOMAIN saves : StemsFrom(i, j)
    BY <2>1 DEF SavesAreTrue, StemsFrom
  <2>2. CASE saves'[i].kind = "login" /\ saves'[i].writes = logins'
    BY <1>5, <2>2 DEF TokensAreKnown
  <2> QED BY <1>4, <2>1, <2>2 DEF OneIsNew
<1>10. PollersAreTrue => PollersAreTrue'
  BY <1>2, <1>3 DEF PollersAreTrue, At
<1> QED BY <1>2, <1>8, <1>9, <1>10 DEF SessionIsKnown

(* The adapter whose save ends: it polls with what was written, or has no   *)
(* token.                                                                   *)
LEMMA SavedToken ==
    ASSUME TypeOK, ChannelInv, TokensAreKnown, NEW i \in DOMAIN saves, NEW done, Saved(saves[i], done)
    PROVE  /\ saves[i].by \in Adapters
           /\ \A b \in Adapters \ {saves[i].by} : adapter'[b] = adapter[b]
           /\ saves[i].kind = "cursor" => UNCHANGED adapter
           /\ \A b \in Adapters : /\ adapter'[b].token \in {None, adapter[b].token}
                                  /\ adapter'[b].phase \in {"login", "scan"} => adapter'[b].token = None
           /\ saves[i].kind # "cursor" =>
                 /\ adapter[saves[i].by].phase \in Waiting
                 /\ adapter'[saves[i].by].phase = "poll" =>
                       adapter'[saves[i].by].token \in {None, saves[i].writes}
           /\ saves[i].kind \in {"login", "revoke"} => Looping(saves[i].by)
<1> DEFINE a == saves[i].by
<1>1. adapter \in [Adapters -> Fields] /\ saves[i] \in Save
  <2>1. saves \in Seq(Save)
    BY DEF TypeOK, AdapterTypeOK
  <2> QED BY <2>1 DEF TypeOK, AdapterTypeOK
<1>2. a \in Adapters /\ saves[i].kind \in SaveKind /\ adapter[a] \in Fields
  BY <1>1 DEF Save
<1>3. \A b \in Adapters : adapter[b].phase \in {"login", "scan"} => adapter[b].token = None
  BY DEF TokensAreKnown
<1>4. CASE saves[i].kind = "cursor"
  <2>1. UNCHANGED adapter
    BY <1>4 DEF Saved
  <2> QED BY <1>2, <1>3, <1>4, <2>1
<1>5. CASE saves[i].kind = "revoke"
  <2> DEFINE fields == [adapter[a] EXCEPT !.token = None]
  <2>1. fields \in Fields /\ fields.token = None
    BY <1>2 DEF Fields
  <2>2. adapter' = [adapter EXCEPT ![a] = LoopHead(fields)]
    BY <1>1, <1>2, <1>5 DEF Saved
  <2>3. adapter[a].phase = "revoked"
    BY <1>5 DEF ChannelInv, SavesAreAwaited, Awaited, AwaitedAt
  <2> HIDE DEF fields
  <2>4. adapter'[a].token = None /\ \A b \in Adapters \ {a} : adapter'[b] = adapter[b]
    BY <1>1, <1>2, <2>1, <2>2, LoopHeadToken
  <2> QED BY <1>2, <1>3, <1>5, <2>3, <2>4 DEF Waiting, Looping
<1>6. CASE saves[i].kind = "login"
  <2>1. adapter' = [adapter EXCEPT ![a] = LoopHead(adapter[a])]
    BY <1>6 DEF Saved, LoopsOn
  <2>2. adapter[a].phase = "saving" /\ adapter[a].token \in {None, saves[i].writes}
    BY <1>6 DEF ChannelInv, SavesAreAwaited, Awaited, AwaitedAt, TokensAreKnown
  <2>3. adapter'[a] = LoopHead(adapter[a]) /\ \A b \in Adapters \ {a} : adapter'[b] = adapter[b]
    BY <1>1, <1>2, <2>1
  <2>4. /\ adapter'[a].token \in {None, adapter[a].token}
        /\ adapter'[a].phase \in {"login", "scan"} => adapter'[a].token = None
    BY <1>2, <2>3, LoopHeadToken
  <2> QED BY <1>2, <1>3, <1>6, <2>2, <2>3, <2>4 DEF Waiting, Looping
<1>7. CASE saves[i].kind = "close"
  <2>1. adapter' = [adapter EXCEPT ![a] = [Off EXCEPT !.config = adapter[a].config]]
    BY <1>7 DEF Saved
  <2>2. adapter[a].phase = "closing"
    BY <1>7 DEF ChannelInv, SavesAreAwaited, Awaited, AwaitedAt
  <2>3. adapter'[a].token = None /\ \A b \in Adapters \ {a} : adapter'[b] = adapter[b]
    BY <1>1, <1>2, <2>1 DEF Off
  <2> QED BY <1>2, <1>3, <1>7, <2>2, <2>3 DEF Waiting
<1> QED BY <1>2, <1>4, <1>5, <1>6, <1>7 DEF SaveKind

(* A save ends: one that changes the row and has seen the row it changes is *)
(* that of a login or of a token that expired, and no other adapter polls.  *)
LEMMA SaveEndsStep ==
    ASSUME TypeOK, GatewayInv, OnePoller, TokensAreKnown, SessionIsKnown, SaveEnds
    PROVE  TokensAreKnown' /\ SessionIsKnown'
<1>0. /\ adapter \in [Adapters -> Fields] /\ saves \in Seq(Save) /\ ChannelInv
      /\ None \notin Given /\ UNCHANGED <<logins, loggedOut>>
  BY AdapterAssumption DEF TypeOK, AdapterTypeOK, GatewayInv, Given, SaveEnds
<1>1. PICK i \in DOMAIN saves :
         \/ /\ Calm
            /\ session' = saves[i].writes
            /\ overtaken' = (overtaken \/ (saves[i].late /\ session' # session))
            /\ saves' = IF session' = session THEN RemoveAt(saves, i)
                        ELSE Missed(RemoveAt(saves, i))
            /\ Saved(saves[i], TRUE)
         \/ /\ Happens("fault")
            /\ saves' = RemoveAt(saves, i)
            /\ UNCHANGED <<session, overtaken>>
            /\ Saved(saves[i], FALSE)
  BY DEF SaveEnds
<1> DEFINE a == saves[i].by
<1>2. PICK done \in BOOLEAN : Saved(saves[i], done)
  BY <1>1
<1>3. NoneIsNew
  BY <1>0, <1>1, SavesStem
<1>4. saves[i] \in Save
  BY <1>0
<1>5. TokensAreKnown'
  <2>1. session' \in Given \cup {None}
    BY <1>1 DEF TokensAreKnown
  <2>2. ASSUME NEW j \in DOMAIN saves'
        PROVE  /\ saves'[j].writes \in Given \cup {None}
               /\ saves'[j].kind = "login" => adapter'[saves'[j].by].token \in {None, saves'[j].writes}
               /\ saves'[j].kind = "revoke" => saves'[j].writes = None
    <3>1. PICK k \in DOMAIN saves : StemsFrom(j, k)
      BY <1>3 DEF NoneIsNew
    <3>2. saves[k] \in Save
      BY <1>0
    <3>3. adapter'[saves[k].by].token \in {None, adapter[saves[k].by].token}
      BY <1>0, <1>2, <3>2, SavedToken DEF Save
    <3> QED BY <3>1, <3>3 DEF StemsFrom, TokensAreKnown
  <2>3. \A b \in Adapters : /\ adapter'[b].token \in Given \cup {None}
                            /\ adapter'[b].phase \in {"login", "scan"} => adapter'[b].token = None
    BY <1>0, <1>2, SavedToken DEF TokensAreKnown
  <2> QED BY <1>0, <2>1, <2>2, <2>3 DEF TokensAreKnown, Given
<1>6. CASE overtaken' \/ "fault" \in trouble'
  BY <1>5, <1>6 DEF SessionIsKnown
<1>7. CASE ~overtaken' /\ "fault" \notin trouble'
  <2>1. /\ Calm /\ session' = saves[i].writes /\ ~overtaken
        /\ saves[i].late => session' = session
        /\ saves' = IF session' = session THEN RemoveAt(saves, i)
                    ELSE Missed(RemoveAt(saves, i))
    BY <1>1, <1>7 DEF Happens
  <2>2. session \notin loggedOut /\ SavesAreTrue /\ PollersAreTrue
    BY <1>7, <2>1 DEF SessionIsKnown, Calm
  <2>3. (session \notin loggedOut)'
    <3>1. CASE session' = session
      BY <1>0, <2>2, <3>1
    <3>2. CASE session' # session
      <4>1. ~saves[i].late /\ saves[i].kind \in {"login", "revoke"}
        BY <1>4, <2>1, <2>2, <3>2 DEF SavesAreTrue, Save, SaveKind
      <4>2. saves[i].kind = "login" => session' \notin loggedOut
        BY <2>1, <2>2, <4>1 DEF SavesAreTrue
      <4>3. saves[i].kind = "revoke" => session' = None
        BY <2>1 DEF TokensAreKnown
      <4>4. None \notin loggedOut
        BY <1>0 DEF TokensAreKnown
      <4> QED BY <1>0, <4>1, <4>2, <4>3, <4>4
    <3> QED BY <3>1, <3>2
  <2>4. SavesAreTrue'
    <3>1. CASE session' = session
      BY <1>0, <1>3, <2>2, <3>1 DEF SavesAreTrue, NoneIsNew, StemsFrom
    <3>2. CASE session' # session
      <4>1. AllAreLate
        BY <1>0, <2>1, <3>2, SavesStem
      <4> QED BY <4>1 DEF AllAreLate, SavesAreTrue
    <3> QED BY <3>1, <3>2
  <2>5. PollersAreTrue'
    <3> SUFFICES ASSUME NEW b \in Adapters, adapter'[b].phase = "poll"
                 PROVE  adapter'[b].token \in {None, session'} \cup loggedOut
      BY <1>0 DEF PollersAreTrue, At
    <3>1. CASE b = a /\ saves[i].kind # "cursor"
      BY <1>0, <1>2, <2>1, <3>1, SavedToken
    <3>2. CASE b # a \/ saves[i].kind = "cursor"
      <4>1. adapter'[b] = adapter[b]
        BY <1>0, <1>2, <3>2, SavedToken
      <4>2. adapter[b].token \in {None, session} \cup loggedOut
        BY <2>2, <4>1 DEF PollersAreTrue, At
      <4>3. CASE session' # session
        <5>1. saves[i].kind \in {"login", "revoke"}
          BY <1>4, <2>1, <2>2, <4>3 DEF SavesAreTrue, Save, SaveKind
        <5>2. Looping(a) /\ Looping(b) /\ a \in Adapters
          BY <1>0, <1>2, <4>1, <5>1, SavedToken DEF Looping
        <5> QED BY <3>2, <5>1, <5>2 DEF OnePoller
      <4> QED BY <4>1, <4>2, <4>3
    <3> QED BY <3>1, <3>2
  <2> QED BY <1>5, <2>3, <2>4, <2>5 DEF SessionIsKnown
<1> QED BY <1>6, <1>7

LEMMA SessionAdapterStep ==
    ASSUME TypeOK, GatewayInv, OnePoller, TokensAreKnown, SessionIsKnown, AdapterNext
    PROVE  TokensAreKnown' /\ SessionIsKnown'
<1>1. adapter \in [Adapters -> Fields] /\ saves \in Seq(Save) /\ ChannelInv
  BY DEF TypeOK, AdapterTypeOK, GatewayInv
<1>2. ASSUME NEW a \in Adapters, LoopSteps(a) \/ TokenExpires(a)
      PROVE  TokensAreKnown' /\ SessionIsKnown'
  <2>1. UNCHANGED <<session, logins, loggedOut, overtaken>> /\ trouble \subseteq trouble'
    BY <1>2 DEF LoopSteps, TokenExpires, PollReturns, Login, ScanGoesOn, Close, Happens
  <2>2. \/ NoneIsNew
        \/ \E kind \in {"cursor", "close"} : OneIsNew(a, kind, session)
        \/ OneIsNew(a, "revoke", None)
    <3>1. \/ UNCHANGED saves \/ SaveStarts(a, "cursor", session)
          \/ SaveStarts(a, "close", session) \/ SaveStarts(a, "revoke", None)
      BY <1>2 DEF LoopSteps, TokenExpires, PollReturns, CursorSave, Login, ScanGoesOn, Close
    <3> QED BY <1>1, <3>1, SavesStem
  <2>3. ASSUME NEW b \in Adapters PROVE TokenStays(b)
    <3>1. adapter[a].phase \in {"login", "scan"} => adapter[a].token = None
      BY DEF TokensAreKnown
    <3>2. CASE \/ Goes(a, "revoked") \/ Goes(a, "closing")
               \/ Goes(a, "scan") /\ adapter[a].phase = "login"
      BY <1>1, <3>2, QuietAdapters
    <3>3. CASE LoopsOn(a) /\ adapter[a].phase \in {"poll", "login", "scan"}
      <4>1. TokenStays(a)
        BY <1>1, <3>1, <3>3, LoopsOnToken
      <4>2. b # a => adapter'[b] = adapter[b]
        BY <1>1, <3>3 DEF LoopsOn
      <4> QED BY <4>1, <4>2 DEF TokenStays, TokensAreKnown
    <3>4. CASE /\ adapter' = [adapter EXCEPT ![a].phase = "login", ![a].relogin = FALSE]
               /\ adapter[a].phase = "scan"
      <4>1. /\ adapter'[b].token = adapter[b].token
            /\ adapter'[b].phase = IF b = a THEN "login" ELSE adapter[b].phase
        BY <1>1, <3>4 DEF Fields
      <4> QED BY <3>1, <3>4, <4>1 DEF TokenStays, TokensAreKnown
    <3> QED BY <1>2, <3>2, <3>3, <3>4 DEF LoopSteps, TokenExpires, PollReturns, Login,
                                          ScanGoesOn, Close, At
  <2> QED BY <2>1, <2>2, <2>3, QuietRowStep DEF QuietRow
<1>3. ASSUME NEW a \in Adapters, ScanConfirmed(a) PROVE TokensAreKnown' /\ SessionIsKnown'
  BY <1>1, <1>3, ScannedStep
<1>4. CASE SaveEnds
  BY <1>4, SaveEndsStep
<1> QED BY <1>2, <1>3, <1>4 DEF AdapterNext

LEMMA SessionPassStep ==
    ASSUME TypeOK, ChannelInv, TokensAreKnown, SessionIsKnown, NEW p \in Passes, Pass(p)
    PROVE  TokensAreKnown' /\ SessionIsKnown'
<1>1. adapter \in [Adapters -> Fields] /\ saves \in Seq(Save)
  BY DEF TypeOK, AdapterTypeOK
<1>2. CASE Logout(p) /\ ClearSession /\ UNCHANGED adapter
  <2>1. UNCHANGED <<adapter, logins>>
    BY <1>2 DEF Logout
  <2> QED BY <1>2, <2>1, ClearedStep
<1>3. CASE Attached(p) /\ Calm
  <2>1. Loaded(pass[p].adapter) /\ UNCHANGED <<session, saves, logins, loggedOut, overtaken, trouble>>
    BY <1>3 DEF Attached, Calm, Happens
  <2>2. pass[p].adapter \in Adapters /\ adapter[pass[p].adapter].phase = "loading"
    BY <1>3 DEF Attached, ChannelInv, PassInv, PassKnows, At
  <2> QED BY <2>1, <2>2, LoadedStep
<1>4. CASE ~(Logout(p) /\ ClearSession /\ UNCHANGED adapter) /\ ~(Attached(p) /\ Calm)
  <2>1. UNCHANGED <<session, saves, logins, loggedOut, overtaken>> /\ trouble \subseteq trouble'
    <3>1. CASE Tick(p) \/ Reconcile(p) \/ Detached(p) \/ PublishDisabled(p)
      BY <3>1 DEF Tick, Reconcile, Detached, PublishDisabled, Calm, Happens
    <3>2. CASE Attached(p) \/ ReadCommand(p) \/ Logout(p) \/ ClearCommand(p)
      BY <1>4, <3>2 DEF Attached, ReadCommand, Logout, ClearCommand, Calm, Happens
    <3> QED BY <3>1, <3>2 DEF Pass
  <2>2. ASSUME NEW a \in Adapters PROVE TokenStays(a)
    <3>1. CASE \/ UNCHANGED adapter
               \/ Goes(pass[p].adapter, "off")
               \/ adapter' = [adapter EXCEPT ![pass[p].adapter].config = None]
               \/ Reauth(pass[p].adapter)
      BY <1>1, <3>1, QuietAdapters
    <3>2. CASE Reauth(running) \/ adapter' = [adapter EXCEPT ![running].on = FALSE]
      BY <1>1, <3>2, QuietAdapters
    <3>3. CASE StartAttach(p)
      <4>1. pass[p].desired \in Configs \cup {None}
        BY DEF TypeOK, PassRecord
      <4>2. PICK b : adapter' = [adapter EXCEPT ![b] = [Off EXCEPT !.phase = "loading", !.on = TRUE,
                                                                   !.config = pass[p].desired]]
        BY <3>3 DEF StartAttach
      <4> QED BY <1>1, <4>1, <4>2, QuietAdapters
    <3>4. CASE Tick(p) \/ Detached(p) \/ PublishDisabled(p) \/ Attached(p)
      BY <1>4, <3>1, <3>4 DEF Tick, Detached, PublishDisabled, Attached
    <3>5. CASE Reconcile(p)
      BY <3>1, <3>2, <3>3, <3>5 DEF Reconcile, StartDetach
    <3>6. CASE ReadCommand(p) \/ Logout(p) \/ ClearCommand(p)
      BY <3>1, <3>2, <3>6 DEF ReadCommand, Logout, ClearCommand
    <3> QED BY <3>4, <3>5, <3>6 DEF Pass
  <2>3. NoneIsNew
    BY <1>1, <2>1, SavesStem
  <2> QED BY <2>1, <2>2, <2>3, QuietRowStep DEF QuietRow
<1> QED BY <1>2, <1>3, <1>4

LEMMA SessionStep ==
    ASSUME GatewayInv, OnePoller, TokensAreKnown, SessionIsKnown, [Next]_vars
    PROVE  TokensAreKnown' /\ SessionIsKnown'
<1>1. adapter \in [Adapters -> Fields] /\ saves \in Seq(Save) /\ TypeOK /\ ChannelInv
  BY DEF GatewayInv, TypeOK, AdapterTypeOK
<1>2. CASE AdapterNext /\ UNCHANGED gatewayVars
  BY <1>1, <1>2, SessionAdapterStep
<1>3. ASSUME NEW p \in Passes, Pass(p) PROVE TokensAreKnown' /\ SessionIsKnown'
  BY <1>1, <1>3, SessionPassStep
<1>4. CASE DeleteIntegration /\ ClearSession
  <2>1. UNCHANGED <<adapter, logins>>
    BY <1>4 DEF DeleteIntegration
  <2> QED BY <1>1, <1>4, <2>1, ClearedStep
<1>5. CASE \/ SaveConfig \/ RequestCommand \/ Start \/ UNCHANGED vars
           \/ (DeleteIntegration /\ ~ClearSession) \/ Stop \/ StopDetaches
  <2>1. UNCHANGED <<session, saves, logins, loggedOut, overtaken>> /\ trouble \subseteq trouble'
    BY <1>5 DEF SaveConfig, RequestCommand, Start, vars, adapterVars, gatewayVars,
                DeleteIntegration, Stop, StopDetaches, Calm, Happens
  <2>2. \/ UNCHANGED adapter
        \/ adapter' = [adapter EXCEPT ![running].on = FALSE]
        \/ adapter' = [adapter EXCEPT ![running].config = None]
    BY <1>5 DEF SaveConfig, RequestCommand, Start, vars, adapterVars, gatewayVars,
                DeleteIntegration, Stop, StopDetaches
  <2>3. \A a \in Adapters : TokenStays(a)
    BY <1>1, <2>2, QuietAdapters
  <2>4. NoneIsNew
    BY <1>1, <2>1, SavesStem
  <2> QED BY <1>1, <2>1, <2>3, <2>4, QuietRowStep DEF QuietRow
<1>6. CASE Exit \/ Crash
  <2>1. /\ adapter' = [a \in Adapters |-> Off] /\ saves' = <<>>
        /\ UNCHANGED <<session, logins, loggedOut, overtaken>> /\ trouble \subseteq trouble'
    BY <1>6 DEF Exit, Crash, ProcessEnds, Calm, Happens
  <2>2. \A a \in Adapters : TokenStays(a)
    BY <2>1 DEF TokenStays, Off
  <2>3. NoneIsNew
    BY <1>1, <2>1, SavesStem
  <2> QED BY <1>1, <2>1, <2>2, <2>3, QuietRowStep DEF QuietRow
<1> QED BY <1>2, <1>3, <1>4, <1>5, <1>6 DEF Next

(* The row never holds a token that was logged out, and it holds the token  *)
(* the adapter polls with, until a save that missed a write is written or   *)
(* the store fails: up to then a save writes what the row held all along, a *)
(* token that is new, or none after the only adapter that polls lost its.   *)
THEOREM SessionCorrect == Spec => []SessionIsTrue
<1>1. Init => TokensAreKnown /\ SessionIsKnown
  <2> SUFFICES ASSUME Init PROVE TokensAreKnown /\ SessionIsKnown
    OBVIOUS
  <2>1. /\ \A a \in Adapters : adapter[a].phase = "off" /\ adapter[a].token = None
        /\ saves = <<>> /\ session = None /\ loggedOut = {}
    BY DEF Init, AdapterInit, Off
  <2> QED BY <2>1 DEF TokensAreKnown, SessionIsKnown, SavesAreTrue, PollersAreTrue, At
<1>2. GatewayInv /\ OnePoller /\ TokensAreKnown /\ SessionIsKnown /\ [Next]_vars
        => TokensAreKnown' /\ SessionIsKnown'
  BY SessionStep
<1>3. SessionIsKnown => SessionIsTrue
  BY DEF SessionIsKnown, SessionIsTrue, PollersAreTrue
<1> QED BY <1>1, <1>2, <1>3, GatewayInvariant, OnePollerCorrect, PTL DEF Spec

==============================================================================
