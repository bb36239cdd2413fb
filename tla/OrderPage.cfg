SPECIFICATION Spec
CONSTANTS
  b1 = b1
  b2 = b2
  o1 = o1
  o2 = o2
  Bodies = {b1, b2}
  Default = b1
  OrderIds = {o1, o2}
  MaxWrites = 3
  MaxQuotes = 2
  MaxEdits = 1
  MaxMounts = 2
  None = None
SYMMETRY MCSymmetry
CHECK_DEADLOCK FALSE
INVARIANTS
  OneOrderPerQuote
  CreatedAsQuotedUnlessLate
  TokensUsable
