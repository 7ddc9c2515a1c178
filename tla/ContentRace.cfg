CONSTANTS
  Ranks = {0, 1}
  Parent <- MCChain
  Blobs = {"a"}
  Requests = {"sa0", "la1"}
  request <- MCrequest
  BatchLimit = 1
  Faults = 0
  Loads = 1
  Drops = 0
  Disjoint = FALSE
SPECIFICATION Spec
CHECK_DEADLOCK FALSE
INVARIANTS
  StoredLoadable
