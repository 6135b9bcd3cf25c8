CONSTANTS
  t1 = t1
  t2 = t2
  customer = customer
  agent = agent
  op1 = op1
  op2 = op2
  Tasks = {t1, t2}
  Participants = {agent, op1}
  Role <- MCRole
  TimerNames = {"sla_first_reply"}
  SlaTimers = {"sla_first_reply"}
  OnExpire = {"takeover", "system_message", "callback"}
  Commands = {"/release", "/resolve"}
  Requested = {"public"}
  Scores = {5}
  SuspendingHooks <- AllHooks
  MaxEvents = 7
  MaxIncarnations = 2
SPECIFICATION Spec
INVARIANTS TypeOK ModeLock EventsDense LogIsFaithful NoTimerOnClosed
PROPERTIES ModeStableWhileAnnounced GateIrreversible CallsEnd
CHECK_DEADLOCK FALSE
