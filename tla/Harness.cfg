SPECIFICATION HarnessSpec
CONSTANTS
  s1 = s1
  t1 = t1
  t2 = t2
  Sessions = {s1}
  Intents = {t1, t2}
  SessionOf <- MCSessionOf
  Watched = {"task_dispatch", "remember_preference"}
  Unwatched = {"product_search"}
  Repeats = 2
  Window = 3
  Interval = 2
  EmptyLimit = 2
  Nobody = Nobody
  MaxCalls = 4
SYMMETRY MCSymmetry
CHECK_DEADLOCK FALSE
INVARIANTS
  LoopsAreHinted
  DriftIsOwn
