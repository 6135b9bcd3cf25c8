CONSTANTS
  u1 = u1
  u2 = u2
  u3 = u3
  k1 = k1
  k2 = k2
  Users = {u1, u2}
  Keys = {}
  KeysOf <- OwnKey
  MinSize = 1
  MaxSize = 1
  WarmupCount = 0
  MaxSticky = 0
  Decline = {"worn"}
  MaxIds = 3
  MaxRefills = 1
SPECIFICATION Spec
PROPERTIES CallsEnd MinSizeRestored
CHECK_DEADLOCK FALSE
