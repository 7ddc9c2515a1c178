CONSTANTS
  Ranks = {0, 1, 2}
  Parent <- MCChain
  Requests = {"f0", "f2", "c2", "s1"}
  request <- MCrequest
  Txns = {"f", "c2"}
  Workloads <- MCWorkloads
  Removals = 1
  Ageings = 1
SPECIFICATION FairSpec
CHECK_DEADLOCK FALSE
INVARIANTS
  AnswersTrue
  
PROPERTIES
  TxnsAnswered
