SPECIFICATION FairSpec
CONSTANTS
  None = None
  s = s
  t = t
  Client = {c}
  SubId = {s, t}
  Key = {u}
  MaxTime = 2
  MaxLive = 1
  MaxRequests = 2
  MaxNotes = 1
  MaxFaults = 2
INVARIANTS
  TypeOK
  OwnedBySession
  AtMostOneLatePush
  KeptSurvives
PROPERTIES
  EveryRequestAnswered
  BadgeConverges
CHECK_DEADLOCK FALSE
