SPECIFICATION Spec
CONSTANTS
  q1 = q1
  q2 = q2
  s1 = s1
  s2 = s2
  Requests <- Arrivals
  Questions = {q1, q2}
  Sessions = {s1, s2}
  SessionOf <- TwoSessions
  Workers = {w1}
  Concurrency = 1
  MaxDeliveries = 3
  MaxEvents = 1
  Error = Error
  None = None
CONSTRAINT InOrder
CHECK_DEADLOCK FALSE
PROPERTY
  PendingIsRedelivered
