SPECIFICATION FairSpec
CONSTANTS
  Workers = {w1}
  Producers = {p1}
  Cancellers = {h1}
  Sealers = {h1}
  Hosts = {}
  Types = {"d"}
  Footprints <- FewFootprints
  MaxOperations = 2
  MaxGeneration = 1
PROPERTY SealDrains
CHECK_DEADLOCK FALSE
