--------------------------- MODULE MCChannelServer ---------------------------
(* Constants of the channel server's model that a configuration cannot      *)
(* write: an agent of one chat which also observes, and a developer.        *)
EXTENDS ChannelServer

MCChatsOf == [p \in Clients |-> IF p = "agent" THEN {"oc_a"} ELSE {}]
MCOwner == [k \in Conns |-> CASE k \in {"a1", "a2"} -> "agent" [] k \in {"d1", "d2"} -> "developer"
                               [] OTHER -> WebApp]
MCTabChat == [t \in Tabs |-> "web_1"]
=============================================================================
