---------------------------- MODULE MCDeliveryQueue ---------------------------
(***************************************************************************)
(* DeliveryQueue for TLC: a message and its deletion, in one conversation. *)
(***************************************************************************)
EXTENDS DeliveryQueue

CONSTANTS send, delete, chat

Pair             == {send, delete}
PairConversation == [j \in Pair |-> chat]
PairTarget       == [j \in Pair |-> IF j = delete THEN send ELSE NoJob]
===============================================================================
