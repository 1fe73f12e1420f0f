SPECIFICATION Spec
CONSTANTS
  None = None
  Legacy = Legacy
  alice = alice
  bob = bob
  f = f
  a = a
  b = b
  Ev <- MCEv
  Pubkey <- MCPubkey
  DTag = {""}
  Key <- MCKey
  Founder = f
  MaxWriters = 1
  LegacyIds <- MCLegacyIds
  Batches <- MCBatches
  Width = 8
  CountLimit = 8
  Requests <- MCRequests
  Clock <- MCClock
  Sweep = 1
SYMMETRY Joiners
INVARIANTS
  TypeOK
  IndexConsistency
  TombstoneExcludes
  WritersRooted
  ReadsAreExact
PROPERTIES
  RemovalsAuthorised
  VersionsMoveForward
  ImplementsNostrSet
CHECK_DEADLOCK FALSE
