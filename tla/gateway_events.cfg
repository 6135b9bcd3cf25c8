SPECIFICATION Spec
CONSTANTS
  Operators = {o1}
  Squads = {}
  Customer = customer
  Inputs = {"customer_message", "subscribe", "unsubscribe", "operator_join", "/resolve"}
  Commands = {}
  Sinces <- OfConversation
  MaxSessions = 2
  MaxMessages = 2
  MaxEvents = 10
  MaxIncarnations = 2
INVARIANT
  AssignedWhileOpen
PROPERTY
  FanoutGapless
CHECK_DEADLOCK FALSE
