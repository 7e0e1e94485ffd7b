SPECIFICATION SceneSpec
CONSTANTS
  admin = admin
  alice = alice
  bob = bob
  key1 = key1
  e0 = e0
  e1 = e1
  e2 = e2
  h1 = h1
  h2 = h2
  h3 = h3
  h4 = h4
  NoAddress = NoAddress
  NoEmployee = NoEmployee
  NoHash = NoHash
  SYSTEM = SYSTEM
  l1 = l1
  l2 = l2
  r1 = r1
  r2 = r2
  plain = plain
  odd = odd
  Scenes = {"login", "roles", "person", "view", "storage", "forge", "list",
            "race", "link", "page", "console"}
  Address = {admin, alice, bob, key1}
  Employee = {e0, e1, e2}
  Hash = {h1, h2, h3}
  MaxTime = 2
  MaxId = 3
  MaxToken = 3
  Deployer = admin
  AclWriters = {admin}
  Founding <- BackendStaff
  SeededAssets <- ConfidentialAsset
  IdentityCalls <- BackendIdentityCalls
  AccessCalls <- BackendAccessCalls
  ExecutorCalls <- NoExecutorCalls
  Login = {l1, l2}
  MaxNonce = 2
  NonceLife = 1
  TokenLife = 1
  OpenTokens <- OpenSessions
  Request = {r1, r2}
  Spelling = {plain, odd}
  Canonical = plain
  MaxUpload = 2
  MaxRow = 1
  Damage <- AnyDamage
  GatewayCalls <- GatewayAll
  LoginCalls <- AliceKeys
  Account = {admin, alice}
  BrowserCalls <- UploadForm
SYMMETRY SlotsAlike
INVARIANTS
  SystemTypeOK
  NonceServesOnce
  AnsweredWhileEntitled
  ReleasedIsRegistered
  ListingIsFaithful
  ShownIsOfSession
  EveryReleaseIsLogged
PROPERTIES
  TokenWasEarned
  RowsWereRegistered
