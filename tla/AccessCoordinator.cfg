SPECIFICATION FairSpec
CONSTANTS
  Workers = {w1}
  Producers = {p1, w1}
  Cancellers = {c1}
  Sealers = {p1}
  Hosts = {p1}
  Types = {"d"}
  Footprints <- ManyFootprints
  MaxOperations = 2
  MaxGeneration = 2
INVARIANT AccessIsSafe
PROPERTY AccessesEnd
CHECK_DEADLOCK FALSE
