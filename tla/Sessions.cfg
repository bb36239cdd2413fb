SPECIFICATION Spec
CONSTANTS
  Turns = {t1, t2, t3}
  Processes = {p1, p2}
  MaxOpen = 2
  MaxFaults = 2
  None = None
SYMMETRY Symmetry
CHECK_DEADLOCK FALSE
INVARIANTS
  RememberedInProcess
  RememberedAfterRestart
