SPECIFICATION FairSpec
CONSTANTS
  None = None
  Legacy = Legacy
  alice = alice
  bob = bob
  f = f
  j = j
  k = k
  Ev <- MCEv
  Pubkey <- MCPubkey
  DTag = {""}
  Key <- MCKey
  Founder = f
  Self = j
  MaxWriters = 1
  Batches <- MCBatches
  Remote <- MCRemote
  LruMax = 2
  MaxNodes = 3
INVARIANTS
  TypeOK
  EveryViewSound
  ViewFollowsOrder
  StoredIsAnnounced
PROPERTIES
  NoDuplicatePush
  CatchesUp
CHECK_DEADLOCK FALSE
