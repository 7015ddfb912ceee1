---------------------------- MODULE MCConversation ----------------------------
(* Small instances of Conversation for TLC. *)
EXTENDS Conversation, TLC

(* Calls and keys are only compared, never ordered or chosen among: sound   *)
(* for the safety runs.                                                     *)
Symmetric == Permutations(Calls) \cup Permutations(Keys)
=============================================================================
