CONSTANTS
  t1 = t1
  t2 = t2
  customer = customer
  agent = agent
  op1 = op1
  op2 = op2
  Tasks = {t1, t2}
  Participants = {agent, op1, op2}
  Role <- MCRole
  TimerNames = {"idle"}
  SlaTimers = {}
  OnExpire = {"takeover"}
  Commands = {"/release", "/copilot", "/resolve", "/abandon"}
  Requested = {"public"}
  Scores = {1, 5}
  SuspendingHooks = {"created_hook", "closed_hook"}
  MaxEvents = 7
  MaxIncarnations = 2
SPECIFICATION Spec
INVARIANT CopilotHasOperator
PROPERTIES ContractSpec
CHECK_DEADLOCK FALSE
