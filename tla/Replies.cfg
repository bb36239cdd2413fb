SPECIFICATION Spec
CONSTANTS
  q1 = q1
  q2 = q2
  q3 = q3
  b1 = b1
  b2 = b2
  s1 = s1
  s2 = s2
  st1 = st1
  st2 = st2
  Turns = {t1, t2, t3}
  Sessions = {s1, s2}
  Buyers = {b1, b2}
  Questions = {q1, q2, q3}
  Calls <- MCCalls
  Cacheable = {q1, q2}
  Similarity <- MCSimilarity
  Threshold = 95
  Statements = {st1, st2}
  Voiced <- MCVoiced
  Stored <- MCStored
  TopK = 1
  BucketLimit = 2
  MaxOpen = 2
  MaxWrites = 1
  MaxFaults = 1
  None = None
SYMMETRY Symmetry
CHECK_DEADLOCK FALSE
INVARIANTS
  TypeOK
  ReuseIsSound
  DislikesReachAgent
PROPERTY LostOnlyInRaces
