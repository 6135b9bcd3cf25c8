CONSTANTS
  u1 = u1
  u2 = u2
  u3 = u3
  k1 = k1
  k2 = k2
  Users = {u1, u2}
  Keys = {k1}
  KeysOf <- OwnKey
  MinSize = 1
  MaxSize = 1
  WarmupCount = 1
  MaxSticky = 0
  Decline = {"worn", "dead"}
  MaxIds = 3
  MaxRefills = 1
SPECIFICATION Spec
INVARIANTS PoolSound Exclusive NoLeak NoOrphan
CHECK_DEADLOCK FALSE
