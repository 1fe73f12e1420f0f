SPECIFICATION FairSpec
CONSTANTS
  f = f
  n = n
  p1 = p1
  p2 = p2
  l = l
  event = event
  Pool = {q}
  Live = v
  Fetch = {f}
  Count = {n}
  Publish = {p1, p2}
  LiveSub = {l}
  EventOf <- MCEventOf
  MaxRetries = 1
  MaxCalls = 2
  MaxFaults = 2
  MaxNews = 1
INVARIANTS
  TypeOK
  SubscriptionsAgree
  OrphansOnlyFromRetries
PROPERTIES
  ImplementsCalls
  LiveSubsRecover
CHECK_DEADLOCK FALSE
