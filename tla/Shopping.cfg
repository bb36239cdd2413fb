SPECIFICATION Spec
CONSTANTS
  v1 = v1
  v2 = v2
  NProducts = 3
  Releases = {v1, v2}
  Catalogue <- MCCatalogue
  Specs <- MCSpecs
  RecallLimit = 2
  RejectLimit = 1
  Scores = {0, 1}
  Quantities = {0, 1, 9, 10}
  Targets = {"CNY", "USD", "JPY"}
  MaxItems = 2
  None = None
INVARIANTS
  HitsSound
  OfferedIsQuotable
  QuoteIsFair
