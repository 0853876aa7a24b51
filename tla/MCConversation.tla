---------------------------- MODULE MCConversation ----------------------------
(* Conversation, with few messages. *)
EXTENDS Conversation
=============================================================================
