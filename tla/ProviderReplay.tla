---------------------------- MODULE ProviderReplay ----------------------------
(***************************************************************************)
(* The replay of a conversation to a model provider (packages/ai/src/      *)
(* providerReplay.ts).  stream() prepares the messages of every request:   *)
(* a provider refuses a tool call without a result right after it, and a   *)
(* result without its call.                                                *)
(*                                                                         *)
(* A message keeps its role, the tool calls an assistant message asks for, *)
(* and of a tool result which call it answers and what it reports: the     *)
(* call it is the outcome of, or Missing for the error "did not produce a  *)
(* result" that stands in for an outcome.  Texts, images and names are      *)
(* left out.                                                               *)
(***************************************************************************)
EXTENDS Integers, Sequences, SequencesExt

Missing == <<>>

User == [role |-> "user"]

(* An assistant message with these calls; empty: it has no text either.     *)
Assistant(calls) == [role |-> "assistant", calls |-> calls, completed |-> TRUE, empty |-> FALSE]

(* An assistant message whose stream was cut off before it was complete.    *)
Interrupted(calls) == [Assistant(calls) EXCEPT !.completed = FALSE]

ToolResult(id, reports) == [role |-> "toolResult", id |-> id, reports |-> reports]

(* The messages of a conversation; of a call id and an outcome it matters   *)
(* only whether two of them are the same.                                   *)
Messages ==
    {User}
    \cup [role : {"assistant"}, calls : Seq(Nat), completed : BOOLEAN, empty : BOOLEAN]
    \cup [role : {"toolResult"}, id : Nat, reports : Seq(Nat)]

-----------------------------------------------------------------------------
(* sanitizeAssistantMessage() returns something.  A message with a tool     *)
(* call is never empty.                                                     *)
Replayed(message) ==
    message.role = "assistant" =>
        message.completed /\ (message.empty => message.calls # <<>>)

(* flushMissingToolResults(): an error for each of these calls.             *)
MissingResults(calls) ==
    [k \in DOMAIN calls |-> ToolResult(calls[k], Missing)]

(* Where the first open call with this id is; 0 when there is none.         *)
PlaceOf(id, pending) == SelectInSeq(pending, LAMBDA open : open = id)

(* A tool result: the calls before its own are flushed; an orphan is        *)
(* dropped.                                                                 *)
TakeToolResult(prepared, message) ==
    LET k == PlaceOf(message.id, prepared.pending)
    IN  IF k = 0
        THEN prepared
        ELSE [out |-> prepared.out
                      \o MissingResults(SubSeq(prepared.pending, 1, k - 1))
                      \o <<message>>,
              pending |-> SubSeq(prepared.pending, k + 1, Len(prepared.pending))]

(* Broken: the open calls are not flushed before another message.           *)
TakeOtherUnflushed(prepared, message) ==
    IF ~Replayed(message)
    THEN prepared
    ELSE [out |-> Append(prepared.out, message),
          pending |-> prepared.pending
                      \o (IF message.role = "assistant" THEN message.calls ELSE <<>>)]

(* Any other message: first the calls that are still open are flushed.      *)
TakeOther(prepared, message) ==
    LET flushed == prepared.out \o MissingResults(prepared.pending)
    IN  IF ~Replayed(message)
        THEN [out |-> flushed, pending |-> <<>>]
        ELSE [out |-> Append(flushed, message),
              pending |-> IF message.role = "assistant" THEN message.calls ELSE <<>>]

(* One round of the loop of prepareMessages().                              *)
Take(prepared, message) ==
    IF message.role = "toolResult"
    THEN TakeToolResult(prepared, message)
    ELSE TakeOther(prepared, message)

(* The loop: what there is after each of the messages.                      *)
Rounds(messages) ==
    LET after[n \in 0..Len(messages)] ==
            IF n = 0 THEN [out |-> <<>>, pending |-> <<>>]
            ELSE Take(after[n - 1], messages[n])
    IN  after

Prepared(messages) == Rounds(messages)[Len(messages)]

(* prepareMessages()                                                        *)
PrepareMessages(messages) ==
    LET prepared == Prepared(messages)
    IN  prepared.out \o MissingResults(prepared.pending)

-----------------------------------------------------------------------------
(* The reference definition of what a provider accepts: every assistant     *)
(* message is followed at once by one result for each of its calls, in any  *)
(* order, and there are no other results.                                   *)
IsResult(message) == message.role = "toolResult"

Legal(messages) ==
    /\ \A k \in DOMAIN messages :
          messages[k].role = "assistant" =>
              LET calls == messages[k].calls
              IN  /\ k + Len(calls) <= Len(messages)
                  /\ \A i \in DOMAIN calls : IsResult(messages[k + i])
                  /\ ToSet(calls) = {messages[k + i].id : i \in DOMAIN calls}
    /\ \A k \in DOMAIN messages :
          IsResult(messages[k]) =>
              \E h \in 1..(k - 1) :
                  /\ messages[h].role = "assistant"
                  /\ k <= h + Len(messages[h].calls)
=============================================================================
