SPECIFICATION IdentitySpec
CONSTANTS
  admin = admin
  alice = alice
  bob = bob
  key1 = key1
  e0 = e0
  e1 = e1
  e2 = e2
  NoAddress = NoAddress
  NoEmployee = NoEmployee
  Employee = {e0, e1, e2}
  MaxTime = 2
  Deployer = admin
  Address = {admin, alice, key1}
  MaxId = 2
  Founding <- NoFounders
  IdentityCalls <- LifeCalls
INVARIANTS
  OneKeyPerIdentity
  SettledIndexIsExact
PROPERTIES
  NoAdminNoRevival
