SPECIFICATION TranscriptSpec
CONSTANTS
  Turns = {t1, t2, t3, t4}
  MaxCuts = 2
SYMMETRY Symmetry
CHECK_DEADLOCK FALSE
INVARIANTS
  TranscriptTypeOK
  TranscriptInOrder
  DroppedOnlyInRaces
