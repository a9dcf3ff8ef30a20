------------------------ MODULE MCConversationSync ------------------------
(* Model-checking instance of ConversationSync. *)
EXTENDS ConversationSync
=============================================================================
