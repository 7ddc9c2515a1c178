CONSTANTS
  e1 = e1
  e2 = e2
  e3 = e3
  n1 = n1
  r1 = r1
  Events = {e1, e2, e3}
  Transitions = {e1, e3}
  Notes = {n1}
  Requests = {r1}
SPECIFICATION FairSpec
CHECK_DEADLOCK FALSE
INVARIANTS
  LogPrefix
  PublishedInOrder
  DurableFirst
PROPERTIES
  EverythingDelivered
