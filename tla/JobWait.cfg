CONSTANTS
    Jobs = {j1, j2, j3}
    Waitable = {j1, j2}
    Reqs = {r1, r2, r3}
    Clients = {c1, c2}
    r1 = r1
    r2 = r2
    r3 = r3
    c1 = c1
    c2 = c2
    sender <- MCsender
    NoReq = NoReq
    NoJob = NoJob
    ANY = ANY
SPECIFICATION FairSpec
CHECK_DEADLOCK FALSE
INVARIANTS
  RegisteredOnce
  ConsumedOnce
  NoZombieWhileAnyBlocked
  ResultOfFirstEnd
PROPERTIES
  WaitOnIdAnswered
