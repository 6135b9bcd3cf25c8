SPECIFICATION Spec
CONSTANTS
  Operators = {o1}
  Squads = {"web-support"}
  Customer = customer
  Inputs = {"reload", "customer_message", "subscribe", "operator_join", "operator_leave",
            "edit_request", "delete_request", "/hijack", "operator_message", "/resolve"}
  Commands = {"/hijack"}
  Sinces <- OnlySquads
  MaxSessions = 3
  MaxMessages = 2
  MaxEvents = 8
  MaxIncarnations = 1
INVARIANTS
  TypeOK
  SubscriptionsOfLiveSessions
  SubscribersHear
PROPERTY
  SendsEnd
CHECK_DEADLOCK FALSE
