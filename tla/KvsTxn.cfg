CONSTANTS
  BigData <- MCBigData
  Namespaces = {"p", "q"}
  Txns = {"t1", "t3", "t4"}
  txn <- MCtxn
  root0 <- MCroot0
  Lookups = {"l1"}
  lookup <- MClookup
  Merge = TRUE
  Faults = 1
  Removals = {"q"}
SPECIFICATION Spec
CHECK_DEADLOCK FALSE
INVARIANTS
  RootIsLog
  LookupSnapshot
  NoLostWakeup
PROPERTIES
  StoreImplemented
