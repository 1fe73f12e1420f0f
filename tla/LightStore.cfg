SPECIFICATION FairSpec
CONSTANTS
  None = None
  Legacy = Legacy
  owner = owner
  friend = friend
  newcomer = newcomer
  node = node
  Ev <- MCEv
  Pubkey <- MCPubkey
  DTag = {""}
  Key = {node}
  Founder = node
  MaxWriters = 1
  Owner = owner
  MaxDepth = 1
  Discovery = TRUE
  PTags <- MCPTags
  MaxBuilds = 2
  MaxFaults = 1
  Local = node
  Cap = 1
  MaxInFlight = 2
  Budget = 3
  PruneBatch = 2
  Others = {1}
INVARIANTS
  TypeOK
  MutesHold
  DiscoveryCapped
PROPERTIES
  TrustAndBudgetSettle
CHECK_DEADLOCK FALSE
