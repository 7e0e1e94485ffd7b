SPECIFICATION AssetScenes
CONSTANTS
  admin = admin
  alice = alice
  bob = bob
  key1 = key1
  e0 = e0
  e1 = e1
  e2 = e2
  h1 = h1
  h2 = h2
  h3 = h3
  h4 = h4
  NoAddress = NoAddress
  NoEmployee = NoEmployee
  NoHash = NoHash
  SYSTEM = SYSTEM
  Address = {admin, alice, bob, key1}
  Employee = {e0, e1, e2}
  Hash = {h1, h2, h3, h4}
  MaxTime = 2
  MaxId = 3
  MaxToken = 3
  Deployer = admin
  AclWriters = {admin}
  Founding <- Staff
  SeededAssets <- BothAssets
  IdentityCalls <- ResolverCalls
  AccessCalls <- LedgerCalls
  ExecutorCalls <- VotedCalls
INVARIANTS
  ContentNeedsClearanceAndRole
  AdminKeepsAcl
  HashIndexExact
  SeededAceIsOwners
  OwnerHasEntry
  EveryEntryIsListed
  DelegationGetsShallower
