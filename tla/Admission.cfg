SPECIFICATION Spec
CONSTANTS
  None = None
  Legacy = Legacy
  f = f
  a = a
  b = b
  c1 = c1
  c2 = c2
  Ev <- MCEv
  Pubkey = {}
  DTag = {}
  Key = {f, a, b}
  Founder = f
  MaxWriters = 1
  Conn = {c1, c2}
  AutoAdmit = {f, a}
  RequestWriter = {a, b}
  Strays <- MCStrays
  Burst = 2
  RequestBurst = 2
  MaxPerConn = 2
  MaxRefills = 1
INVARIANTS
  TypeOK
  RacesKeepTheCap
  BudgetsConserved
  OnlyProvenAdmitted
CHECK_DEADLOCK FALSE
