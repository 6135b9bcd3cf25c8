------------------------------ MODULE MCGateway ------------------------------
(* Constants of the gateway's model that a configuration cannot write.      *)
EXTENDS Gateway

(* Subscriptions to the conversation ask for the events from now on, for all*)
(* of them, whose task reads a backlog first, or for those after a number   *)
(* that may not have been given out yet.                                    *)
OfConversation == {NoSince, 0, 7}
OnlySquads     == {}
=============================================================================
