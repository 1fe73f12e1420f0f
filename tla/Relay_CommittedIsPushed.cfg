SPECIFICATION RelaySpec
CONSTANTS
  None = None
  Legacy = Legacy
  alice = alice
  f = f
  g = g
  j = j
  k = k
  c = c
  s = s
  t = t
  Ev <- MCEv
  Pubkey <- MCPubkey
  DTag = {""}
  Key <- MCKey
  Founder = f
  Self = j
  MaxWriters = 2
  Batches <- MCBatches
  Remote <- MCRemote
  LruMax = 2
  MaxNodes = 2
  Conn = {c}
  SubId = {s, t}
  Filters <- MCFilters
  MaxSubs = 1
  MaxReads = 2
SYMMETRY SubIds
INVARIANT
  CommittedIsPushed
CHECK_DEADLOCK FALSE
