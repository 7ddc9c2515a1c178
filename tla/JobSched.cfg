CONSTANTS
  j1 = j1
  j2 = j2
  j3 = j3
  Jobs = {j1, j2}
  t_submit <- MCt_submit
  Priorities = {16}
  ExecErrors = FALSE
  MaxRequests = 0
  UINT_MAX = 3
  Ranks = {0, 1}
  cores <- MCcoresWide
  jobspec <- MCjobspec
  FitMode = "worst-fit"
  SchedModes = {"single", "unlimited"}
  MaxLoads = 2
  Drains = {0, 1}
  Admins = 2
  QuietUnload = FALSE
  PromptAnswers = TRUE
SPECIFICATION JobSchedSpec
CHECK_DEADLOCK FALSE
INVARIANTS
  NoDoubleBooking
  SchedulerAgrees
