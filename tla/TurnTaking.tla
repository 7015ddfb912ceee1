------------------------------ MODULE TurnTaking ------------------------------
(***************************************************************************)
(* What the conversation layer promises to its callers, without locks,     *)
(* promises or permits: the messages of one conversation have their turns  *)
(* one after the other and in the order they came in, and no more than     *)
(* Limit turns of all conversations are taken at a time.  The doc comment  *)
(* of ConversationService.handle (packages/agent/src/conversation/         *)
(* service.ts): "Holds a per-conversation lock for the whole ... sequence  *)
(* and an optional global concurrency permit."                             *)
(***************************************************************************)
EXTENDS Integers, FiniteSets, ConversationCalls

CONSTANT Limit   \* how many turns at a time; not positive for no limit

VARIABLES place,         \* place[m]: where message m is
          conversation,  \* conversation[m]: the conversation m belongs to
          ticket,        \* ticket[m]: m's number in the order of arrival
          issued         \* how many tickets were given out

turnVars == <<place, conversation, ticket, issued>>

Inside == {m \in Calls : place[m] = "inside"}

TurnInit ==
    /\ place = [m \in Calls |-> "away"]
    /\ conversation = [m \in Calls |-> None]
    /\ ticket = [m \in Calls |-> 0]
    /\ issued = 0

Join(m, k) ==
    /\ place[m] = "away"
    /\ place' = [place EXCEPT ![m] = "waiting"]
    /\ conversation' = [conversation EXCEPT ![m] = k]
    /\ issued' = issued + 1
    /\ ticket' = [ticket EXCEPT ![m] = issued + 1]

(* m is next in its conversation, nobody of it is inside, and there is room. *)
Begin(m) ==
    /\ place[m] = "waiting"
    /\ \A n \in Calls \ {m} :
          conversation[n] = conversation[m] =>
              /\ place[n] # "inside"
              /\ place[n] = "waiting" => ticket[m] < ticket[n]
    /\ Limit > 0 => Cardinality(Inside) < Limit
    /\ place' = [place EXCEPT ![m] = "inside"]
    /\ UNCHANGED <<conversation, ticket, issued>>

Finish(m) ==
    /\ place[m] = "inside"
    /\ place' = [place EXCEPT ![m] = "gone"]
    /\ UNCHANGED <<conversation, ticket, issued>>

(* The service restarts and forgets everyone who was there. *)
Restart ==
    /\ place' = [m \in Calls |-> IF place[m] = "away" THEN "away" ELSE "gone"]
    /\ UNCHANGED <<conversation, ticket, issued>>

TurnNext ==
    \/ \E m \in Calls, k \in Keys : Join(m, k)
    \/ \E m \in Calls : Begin(m) \/ Finish(m)
    \/ Restart

TurnSpec == TurnInit /\ [][TurnNext]_turnVars
=============================================================================
