SPECIFICATION WorkSpec
CONSTANTS
  admin = admin
  alice = alice
  carol = carol
  dave = dave
  relayer = relayer
  e0 = e0
  e1 = e1
  e2 = e2
  e3 = e3
  h1 = h1
  h2 = h2
  NoAddress = NoAddress
  NoEmployee = NoEmployee
  NoHash = NoHash
  SYSTEM = SYSTEM
  Address = {admin, alice, carol, dave, relayer}
  Employee = {e0, e1, e2, e3}
  Hash = {h1, h2}
  MaxTime = 3
  MaxId = 4
  MaxToken = 2
  MaxPid = 2
  Deployer = admin
  AclWriters = {admin}
  Relayers = {relayer}
  Timelock <- MCTimelock
  MaxTtl <- MCMaxTtl
  BREAK_GLASS_TTL = 2
  Founding <- Committee
  SeededAssets <- SecretAsset
  IdentityCalls <- NoIdentityCalls
  AccessCalls <- DirectCalls
  ExecutorCalls <- NoExecutorCalls
  WorkflowCalls <- WorkCalls
INVARIANTS
  FourEyes
  ApprovalMatrix
  ClassifiedEntryWasVoted
  ClassifiedOwnerWasVoted
PROPERTIES
  VotesAreBallots
  ApprovedIsDecided
  BreakGlassGrantIsShort
