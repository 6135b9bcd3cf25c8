------------------------ MODULE MCConversationEngine ------------------------
(* Small instances of ConversationEngine for TLC.                          *)
EXTENDS ConversationEngine, TLC

CONSTANTS t1, t2, customer, agent, op1, op2

MCRole ==
  [p \in Participants |-> CASE p = customer -> "customer"
                            [] p = agent    -> "agent"
                            [] OTHER        -> "operator"]
AllHooks == HookPoints
=============================================================================
