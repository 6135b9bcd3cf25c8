SPECIFICATION Spec
CONSTANTS
  c1 = c1
  c2 = c2
  t1 = t1
  t2 = t2
  Convs = {c1, c2}
  Tasks = {t1, t2}
  BatchSize = 1
  MaxCount = 2
  Analyses <- Suggestions
  Readings <- GoodAndBad
  Day = 1
  MaxTime = 2
  MaxProposals = 1
  MaxHistory = 2
INVARIANTS RestBeforeWidening OneRunPerLowPeriod ApprovalStartsRollout
SYMMETRY Symmetry
CHECK_DEADLOCK FALSE
