SPECIFICATION Spec
CONSTANTS
  Requests = {r1, r2, r3}
  Api = api
  Servers = {api, worker}
  OrderIds = {o1, o2}
  SeedIds = {d1}
  CancelledSeeds = {}
  Keys = {k1, k2}
  Bodies = {b1, b2, b3}
  Quotable = {b1, b2}
  Versions = {v1, v2}
  Guess = guess
  None = None
SYMMETRY Symmetry
CHECK_DEADLOCK FALSE
INVARIANTS
  TypeOK
  CommittedTogether
  OneOrderPerKey
  TokenIssuedOnce
  EffectsAtMostOnce
  NoReadAfterDelete
  OnlyHolderMoves
  PricingFrozen
  RefusedHasNoEffect
PROPERTY LifecycleRefined
