CONSTANTS
  j1 = j1
  j2 = j2
  j3 = j3
  Jobs = {j1, j2}
  t_submit <- MCt_submit
  Priorities = {16}
  ExecErrors = FALSE
  MaxRequests = 0
  UINT_MAX = 3
  Ranks = {0, 1}
  cores <- MCcores
  jobspec <- MCjobspec
  FitMode = "worst-fit"
  SchedModes = {"unlimited"}
  MaxLoads = 2
  Drains = {}
  Admins = 0
  QuietUnload = TRUE
  PromptAnswers = TRUE
SPECIFICATION JobSchedFairSpec
CHECK_DEADLOCK FALSE
PROPERTIES
  JobsEnd
