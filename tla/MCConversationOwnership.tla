---------------------- MODULE MCConversationOwnership ----------------------
(* One conversation with few messages.                                     *)
EXTENDS ConversationOwnership, TLC
============================================================================
