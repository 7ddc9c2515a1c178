CONSTANTS
  Ranks = {0, 1, 2}
  Parent <- MCChain
  Blobs = {"a", "b"}
  Requests = {"sa2", "sb0", "la0", "la1", "f0"}
  request <- MCrequest
  BatchLimit = 1
  Faults = 1
  Loads = 2
  Drops = 1
  Disjoint = TRUE
SPECIFICATION FairSpec
CHECK_DEADLOCK FALSE
INVARIANTS
  CountsAgree
  CleanIsDurable
  FlushGoesOn
PROPERTIES
  FlushDurable
  AllAnswered
