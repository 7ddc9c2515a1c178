CONSTANTS
  j1 = j1
  j2 = j2
  Jobs = {j1, j2}
  t_submit <- MCt_submit
  Priorities = {16}
  ExecErrors = FALSE
  MaxRequests = 0
  UINT_MAX = 3
SPECIFICATION RestartSpec
CHECK_DEADLOCK FALSE
INVARIANTS
  CleanupWaits
  CleanupFrees
PROPERTIES
  LogsMoveForward
