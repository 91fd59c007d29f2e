------------------------- MODULE MCAiReplyPipeline -------------------------
(* Instances of AiReplyPipeline for TLC.                                   *)
EXTENDS AiReplyPipeline, TLC

CONSTANT c1

(* All jobs in one conversation.                                           *)
OneConversation == [j \in Jobs |-> c1]

(* Slots and texts are interchangeable.                                    *)
Symmetric == Permutations(Slots) \cup Permutations(Texts)
============================================================================
