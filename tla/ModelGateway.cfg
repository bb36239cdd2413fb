SPECIFICATION Spec
CONSTANTS
  m1 = m1
  s1 = s1
  s2 = s2
  Agents = {m1, s1, s2}
  Parent <- MCParent
  MaxConcurrency = 2
  Interval = 1
  MaxRetries = 1
  RetryBase = 1
  MaxTurnRetries = 1
  max = max
  plus = plus
  Model = max
  FallbackModel = plus
  Total = 2
  MaxCalls = 2
  MaxFaults = 1
  None = None
CHECK_DEADLOCK FALSE
INVARIANTS
  SlotsAccounted
  MainSpendBounded
PROPERTIES
  StartsSpaced
  TurnsEnd
