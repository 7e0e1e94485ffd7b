SPECIFICATION OneScene
CONSTANTS
  admin = admin
  alice = alice
  carol = carol
  dave = dave
  relayer = relayer
  e0 = e0
  e1 = e1
  e2 = e2
  e3 = e3
  h1 = h1
  h2 = h2
  NoAddress = NoAddress
  NoEmployee = NoEmployee
  NoHash = NoHash
  SYSTEM = SYSTEM
  Address = {admin, carol, dave}
  Employee = {e0, e1, e2, e3}
  Hash = {h1, h2}
  MaxTime = 2
  MaxId = 3
  MaxToken = 1
  MaxPid = 2
  Deployer = admin
  AclWriters = {admin}
  Relayers = {}
  Timelock <- ShortTimelock
  MaxTtl <- MCMaxTtl
  BREAK_GLASS_TTL = 2
  Founding <- TopOfficers
  SeededAssets <- NoAssets
  IdentityCalls <- GovernanceIdentityCalls
  AccessCalls <- NoAccessCalls
  ExecutorCalls <- NoExecutorCalls
  WorkflowCalls <- GovernanceCalls
INVARIANTS
  ChainTypeOK
PROPERTIES
  ClearanceNeedsVote
  LoneOfficerStaysAlone
  NoAdminIsPermanent
