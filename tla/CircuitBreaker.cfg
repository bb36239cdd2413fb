SPECIFICATION Spec
CONSTANTS
  c1 = c1
  c2 = c2
  c3 = c3
  p1 = p1
  p2 = p2
  Calls = {c1, c2, c3}
  Processes = {p1, p2}
  ProcessOf <- Placed
  Redis = redis
  Threshold = 2
  Reset = 2
  TTL = 3
  MaxFaults = 1
  None = None
INVARIANTS
  OpensAtThreshold
PROPERTIES
  NoCallInCooldown
  Recovers
