SPECIFICATION FairSpec
CONSTANTS
    Ranks = {0, 1}
    Disturbances = 2
    SlowStart = FALSE
    LateExpiry = FALSE
CHECK_DEADLOCK FALSE
INVARIANTS
  NoDangling
  ResponsesInOrder
  ReleaseWhenQuiet
  
PROPERTIES
  JobReleased
