CONSTANTS
  Missing = Missing
  Torn = Torn
  c1 = c1
  c2 = c2
  b1 = b1
  b2 = b2
  Codes = {c1, c2}
  Browsers = {b1, b2}
  MaxTokens = 2
  IdleTimeout = 1
  Lifetimes = {3}
  MaxCrashes = 1
SPECIFICATION Spec
INVARIANTS OneSessionPerCode GoneForGood
PROPERTIES CodesAreFreed
CHECK_DEADLOCK FALSE
