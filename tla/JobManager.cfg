CONSTANTS
  j1 = j1
  j2 = j2
  j3 = j3
  Jobs = {j1, j2}
  t_submit <- MCt_submit
  Priorities = {16, 20}
  ExecErrors = TRUE
  MaxRequests = 1
  UINT_MAX = 3
SPECIFICATION Spec
CHECK_DEADLOCK FALSE
INVARIANTS
  SchedAccounted
  ResourcesAccounted
  QueueInOrder
  NoMissedDrain
PROPERTIES
  JobsMoveForward
