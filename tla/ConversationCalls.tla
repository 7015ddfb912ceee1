------------------------- MODULE ConversationCalls -------------------------
(***************************************************************************)
(* What the modules of the conversation layer share: the calls of          *)
(* ConversationService.handle (one per inbound message, packages/agent/    *)
(* src/conversation/service.ts) and the base threads they are addressed to.*)
(***************************************************************************)
CONSTANTS Calls,  \* the calls of handle(); each runs once
          Keys,   \* the base thread ids, `channel:conversationId'
          None    \* the absent value (undefined)

ASSUME NoneAssumption == None \notin Calls /\ None \notin Keys
=============================================================================
