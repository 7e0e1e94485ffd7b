# ArgusChain in TLA+

TLA+ modules of ArgusChain, the TLC configurations that check them and proofs
for TLAPS. ArgusChain manages classified engineering documents: who a person is,
how far they are cleared, which role they have, which files exist and what each
person may do with each file are decided by Solidity contracts; a Node backend
serves the encrypted files after asking the contracts; a React frontend signs
every change in the user's wallet. All paths below are relative to the
repository.

## 1. Inventory

### On the chain (`contracts/`)

| Component | State | Operations | Talks to |
|---|---|---|---|
| `EthereumDIDRegistry` | `owners` (DID to key), delegates | `changeOwner`, `addDelegate` | read live by `ArgusIdentity` and the backend |
| `RoleRegistry` | ERC-1155 balances per address and role, `bootstrapped` | `bootstrap`, `grantRoleToken`, `revokeRoleToken`, `executeAdminGrant` | read by every other contract, through the key that controls an identity |
| `ArgusIdentity` | `identities`, `byDid`, `byEmpCommitment`, `byController` (a cache), pause flag | `registerIdentity`, `syncController`, `suspend`, `revoke`, `reinstate`, `setClearance`, `bootstrapClearance`, `pause` | reads the DID registry and roles |
| `AccessRegistry` | `aces` (asset, principal), `principalsAt` | `setAce`, `executeGrant`, `seedAce`, `delegate`, `revokeAce`, the resolver | reads identities, roles and assets; called back by `AssetNFT` |
| `AssetNFT` | `assets`, `tokenOfHash` | `mint`, `executeMint`, `controlledTransfer`, `executeTransfer`, `updateContent` | calls `AccessRegistry` to seed and revoke the owner's entry |
| `GrantWorkflow` | proposals with their approvers, `policyFor` | five `propose...`, `approve`, `reject`, `breakGlass`, `execute`, `setPolicy` | `execute` acts on the three layers above in one transaction |
| `AuditAnchor` | batches chained by root, incidents | `anchor`, `recordIncident`, `verify` | nothing calls it yet |

What is hard here is not concurrency inside a transaction (there is none) but the
order of transactions by many parties over shared tables: a cached index that is
repaired by whoever cares to, permissions that follow the key that controls an
identity now, votes collected under one policy and executed under another,
entries that are written from four doors, waiting periods, vetoes and
emergencies.

### Off the chain (`backend/`, `frontend/`, `scripts/`)

| Component | State | Operations | Talks to |
|---|---|---|---|
| SIWE authentication (`controllers/auth.ts`, `middleware/auth.ts`) | a map of nonces in memory; tokens that nobody can take back | `GET /auth/nonce`, `POST /auth/verify`, `requireAuth` | five reads of the chain, one await each |
| Policy decision point (`pdp.ts`) | none | `authorize`, `explain` | three reads of the chain |
| Content gateway (`controllers/assets.ts`) and file store (`storage.ts`) | rows of `StoredFile`, ciphertext files named after their content | `POST /upload`, `POST /:id/link`, `GET /:id/content`, `GET /`, the views `GET /:id`, `/:id/effective`, `/:id/acl` | chain, database, disk |
| Decision log (`audit.ts`, `controllers/audit.ts`) | hash-chained rows | `logDecision`, `GET /audit/:tokenId`, `GET /decisions` | called by the gateway before a refusal or a file is sent |
| Risk rules (`risk.ts`) | none, reads the log | `assess` | called by the gateway |
| Wallet session (`frontend/src/lib/session.tsx`) | selected account, token, a sign-in under way | sign in, sign out, account switch, reload | wallet, authentication |
| Upload form (`frontend/src/pages/Admin.tsx`) | an upload under way | upload, mint with the wallet, link | gateway, wallet, `AssetNFT` |
| Console (`Shell.tsx`, `Explorer.tsx`, `AssetDetail.tsx`, `RiskAndProposals.tsx`, `ui.tsx`, `main.tsx`) | the address bar, the tab of an asset, what each view waits for or shows | navigate, select a tab, open or download content; `useAsync` asks and gives up | the gateway's routes, the session |
| Deployment and seed (`scripts/`), development scripts (`backend/src/dev/`) | `deployments/<network>.json` | `deploy.ts`, `seed.ts`, `reset.ts`, `full-upload.ts`, `upload.ts`, `login.ts` | the node, the server, database and disk |
| Chain client and server start (`chain.ts`, `index.ts`) | the addresses read at the start | start, stop | the deployment file |
| Indexer (`indexer/index.ts`) | tables that the schema does not have | writes events into them | nothing starts it |

What is hard here is that every `await` lets the chain, the other requests and the
disk move on: a nonce checked before and used after it, a permission, a row, a hash
and a ciphertext read one after the other, the last row of a log read before the
next is written, a wallet that changes its account while a sign-in or an upload is
out, a user who goes to another asset, or becomes another person, while the answer
about the first is out. Tokens outlive a restart, everything in memory does not.
The scripts change four stores one after the other (chain, files, database, the
deployment file) and can be killed between any two steps, while a server goes on
with the addresses it read when it started.

### What makes each component correct

- *Identity*: one key acts for one identity; an identity in sync is found under
  its key; nobody comes back to life without an Admin; nobody becomes an Admin
  but through the workflow.
- *Access*: content only for the active, cleared and those in neither barred role,
  whatever entries exist; an Admin never loses the access list of an asset;
  re-shares get shallower; nothing is granted behind the listing.
- *Assets*: content hashes and assets correspond one to one; the owner's default
  entry moves with the asset.
- *Workflow*: four eyes; the approval matrix; a final proposal stays final; what
  is classified was voted; broken glass is short; clearances and Admins are
  gained only by vote.
- *Sessions*: a nonce serves one verification and at most one token; a token goes
  only to a key that controlled the identity, which was active, since the login
  began.
- *Gateway*: content leaves only if its reader was entitled, and the content was
  the registered one, at some moment of the request, whatever was linked; a listing
  has what its reader could see; a row is one link's, about a content that the asset
  had; every release was logged before.
- *Log*: each row chains to the one before it (it does not, section 5).
- *Page*: the session is the selected account's (it is not, section 5); what is
  shown was answered to the session it is shown under, for the page and asset in
  the address bar.
- *Operations*: what is published is wired; rows belong to the chain that the server
  asks; a script ends; a reset that says it is complete is (it is not, section 5).

## 2. Modules

Each layer EXTENDS the one below, so that a top module has the whole state below
it and one specification per layer can be checked on its own. Two modules stand on
`AssetNFT`: the workflow, which is the executor in detail, and the backend, for
which the executor stays abstract.

| Module | Models | State |
|---|---|---|
| `BlockContext` | accounts, the zero address, block time | `now` |
| `Permissions` | `libraries/Permissions.sol`, `libraries/Principals.sol`, tiers, roles | |
| `EthereumDIDRegistry` | `identity/EthereumDIDRegistry.sol` | `owners` |
| `RoleRegistry` | `RoleRegistry.sol` | `balance`, `bootstrapped`, `roleAdmins` |
| `ArgusIdentity` | `ArgusIdentity.sol`; **`IdentitySpec`** composes the three | `identities`, `nextId`, `byController`, `paused`, `identityAdmins` |
| `AccessRegistry` | `AccessRegistry.sol` | `aces`, `principalsAt`, and `assets`, which it reads |
| `AssetNFT` | `AssetNFT.sol`; **`AssetsSpec`** composes identity, access and assets | `tokenOfHash`, `nextToken` |
| `GrantWorkflow` | `GrantWorkflow.sol`; **`ChainSpec`** is the whole chain | `proposals`, `nextPid`, `policyFor` |
| `Sessions` | `controllers/auth.ts`, `middleware/auth.ts` | `nonces`, `nextNonce`, `logins`, `tokens` |
| `DecisionLog` | `audit.ts` | `decisions` |
| `ContentGateway` | `controllers/assets.ts`, `pdp.ts`, `risk.ts`, `storage.ts`; **`ContentSpec`** is backend and chain | `storage`, `uploads`, `files`, `requests` |
| `Browser` | `session.tsx`, `Admin.tsx`; **`BrowserSpec`** adds one page with its wallet | `wallet`, `session`, `signIn`, `flow` |
| `Console` | `Shell.tsx`, `Explorer.tsx`, `AssetDetail.tsx`, `RiskAndProposals.tsx`, `ui.tsx`, `main.tsx`; **`ConsoleSpec`** puts the pages around the wallet | `place`, `views`, `asked` |
| `Operations` | `deploy.ts`, `seed.ts`, `dev/*.ts`, `chain.ts`; **`OperationsSpec`** is a module of its own: contracts, rows and files only as far as the scripts tell them apart | `wired`, `seeded`, `minted`, `published`, `folder`, `stored`, `tables`, `rows`, `server`, `script`, `page` |
| `Ballot` | what a decision promises in the abstract; `GrantWorkflow` implements it | `text`, `author`, `needs`, `votes`, `outcome` |
| `MCIdentity`, `MCAssets`, `MCWorkflow`, `MCGateway`, `MCOperations` | small instances of the specifications | `scene` in three of them |
| `ArgusIdentity_proofs`, `AssetNFT_proofs`, `GrantWorkflow_proofs`, `Classified_proofs` | theorems about the three on-chain specifications, and that the workflow is a ballot | |
| `Sessions_proofs`, `ContentGateway_proofs`, `Console_proofs` | theorems about the server next to the chain, with any clients and with the console among them | |
| `Operations_proofs` | theorems about the scripts | |

### How the contracts become actions

- A transaction is one action. A `require`/`revert` is a conjunct of its guard;
  a call into another contract is part of the same action (`MintAsset` writes the
  two seeded entries, `Execute` contains `Dispatch` and everything below it; if a
  call reverts below, the whole execution is disabled).
- `msg.sender` ranges over all accounts in every action, also those that must be
  refused. Other arguments come from the records `IdentityCalls`, `AccessCalls`,
  `ExecutorCalls` and `WorkflowCalls`, one field per function, so a run says
  exactly which arguments it explores and a proof quantifies over all of them.
- The lower specifications do not know the workflow. `ExecutorStep` and
  `AssetsExecutorStep` let the executor do whatever its role allows at any time,
  which is more than `GrantWorkflow` does; `ChainSpec` has no executor step and
  performs those operations in `Execute` only.
- A `uint32` permission mask is the set of its bits; a principal is the pair whose
  hash identifies it; `approvers` is the array of the code and `hasApproved` the
  set of its elements, as both are written together.
- `setAce` takes any number as `grantedBy`, also the one that stands for the system
  (`SYSTEM`), so an entry that an ACL writer writes can look like a seeded one.
- The initial state is a finished deployment: either bare, or with `Founding`
  registered and cleared and `SeededAssets` minted, as `scripts/seed.ts` and the
  test fixture leave it. Who holds which AccessControl role is fixed as
  `scripts/deploy.ts` wires it, but for the two DEFAULT_ADMIN_ROLEs that the code
  expects to be renounced. The deployer, who holds that role on every contract, could
  also hand out roles by `AccessControl.grantRole`, an executor's included: that it does
  not is an assumption of every property about votes and Admins.

Left out because nothing reads it: `nonces` of `ArgusIdentity` (it moves only at
the registration of a DID, which binds the DID for ever), `byDid` and
`byEmpCommitment` (functions of the identities), the ERC-721 owner and version of
an asset, the delegate table of the DID registry, timestamps of issue, that a
principal can be listed twice in `principalsAt`. A justification is a flag, kept
where its absence is discovered late (proposals) and required where it is checked
at once (direct writes).

### The abstract specification

`Ballot` knows papers, votes and outcomes, and no tiers, clocks, policies, relayers
or emergencies: a paper is opened once, others than its author vote for it, each
once, it is carried with enough votes or vetoed, and nothing about it changes after
that. `GrantWorkflow` maps to it by `Decision == INSTANCE Ballot WITH ...`: the text
is the kind, the call and the tier of a proposal, and the votes that a paper needs
are those of the constructor's table as long as policies only tighten it, whatever
the policy of the moment says. `VotesAreBallots` is `Decision!BallotSpec` as a
property; it is checked in the run `workflow` and proved for all constants.

### How the scripts become actions

- A script is a sequence of steps (`Plan`), each an action; a step that fails ends
  it (`Dies`), and so does the operator (`Kill`). `Deploy` and `Seed` take one
  transaction of `DeployPlan` or `SeedPlan` at a time. The seven creations count as
  one: until `deploy.ts` has written its file, nobody knows where they are.
- A deployment's number stands for its addresses. The server keeps the number it
  read when it started, a script reads it when it starts.
- The directory of the files (`folder`) is made when a server starts and nowhere else
  (`storage.ts:8`), and `reset.ts` removes it: a server from before can store nothing.
- The links of this module are those that `full-upload.ts` and the page send, a file
  with its own hash; what other callers may send is in `ContentGateway`.
- `reset.ts` runs `full-upload.ts` at its end, which needs a server, after the README
  had the operator stop it (`README.md:175`): in the model, as in fact, it completes
  only if the server is started under way.
- Left out: the report that `seed.ts` writes (nothing reads it), roles and entries
  on the chain (the other modules have them), and who the demo users are.

### How the backend and the page become actions

- The server is one Node process, so what it does from one `await` to the next is
  one action, and nothing is atomic beyond that. A request in flight is a slot of
  `logins` or `requests`; its `pc` names the read it is waiting for, its other
  fields are the local variables that are still used. A refusal or an answer frees
  the slot. There are no locks in the code and none in the model.
- Files, rows, log and tokens outlive `Restart`; nonces and requests do not.
- The chain moves by `AssetsNext` between any two steps. Server and chain share one
  clock, as each time is only compared with one computed from it.
- A content stands for its SHA-256 and a file for the upload whose key seals it:
  `storage[h]` is the number of that upload, `ABSENT`, or `ALTERED` for bytes that
  no key opens. `DamageFile` is somebody with access to the disk.
- `risk.ts` scores by the hour and by counts over the last minutes of the log, so
  the level is any of the three the route tells apart.
- A caller links what an upload answered (`uploads`), under any asset number, as the
  page does, which guesses the number from `totalMinted`; or whatever it makes up
  (`GatewayCalls.link`). The route compares the hash with the chain and takes the path
  and the wrapped key on trust, so a row may lead to another content's file, to a place
  where the server has no file (`NoHash` as a path) or to a key it never wrapped
  (`FORGED`). A wrapped key can only be sent by whoever has it (`InHand`).
- An asset that was never minted has the content zero (`NoHash`), which a link can
  claim. A number that the chain has no asset for, zero included, is such a token.
- Numbers and hashes arrive as text. The chain does not tell `1` from `01` or upper from
  lower case, the database does: `Spelling` are the ways to write one, a row's key
  is a token with a spelling (`RowId`), and `contentHash` is unique as spelled (`Text`).
  The page and the server's own answers use `Canonical`. The log's `tokenId`, which
  no property tells apart by its spelling, is the number.
- Left out of a link: bodies that the database refuses, which leave no row, and the
  name and the type. A name or a type that no header can carry makes the answer of a
  later read fail after its row is in the log: such a read is logged and not
  released, as after a stop of the server in `Send`'s place.
- The five balances of a login are asked for together: `ReadBalances` answers any part
  of them, `IssueToken` the rest.
- The views (a record, effective permissions, an access list, a history, the log)
  are requests with a `route`; `Allow` and `Deny` say what each does with the
  decision. Their reads on which nothing hangs are awaits all the same (`ReadOn`).
- The page is a client like any other, except that its own state is modelled. Its
  calls contain the server's step; the server's answer and its receipt are one
  action (`Receive` runs with every step of the server), as nothing of the page
  happens in between that the page could not also do just before or after.
- `Console` adds the component tree: a view is mounted under a key (what it asks,
  about which asset), asks the server at once or when a button is pressed, and is
  drawn again with every step (`Render`), as React does. `CleanedUp` is the `live`
  flag of `useAsync`: a view whose key changes gives up the request it waits for,
  which runs on in the server and is answered to nobody.
- `held`, `seen` and `released` are history variables that the program does not
  have: what was true of a login's key and of a request's reader since it began,
  and which contents left. No action reads them.

## 3. Runs

Bounds: `MaxId`, `MaxToken`, `MaxPid` and `MaxTime` bound identities, assets,
proposals and block times; `MaxNonce`, `MaxUpload` and `MaxRow` nonces, uploads and
logged decisions. Each appears in one guard marked as a bound, and hitting it only
disables one more of its kind. `Login` and `Request` are the slots, so they bound
how many requests overlap. No run switches deadlock checking off: something is
always possible.

| Run | Question | Shows |
|---|---|---|
| `identity` | Can any sequence of calls confuse keys and identities, or revive anyone? | On a bare deployment with one Admin, one employee and a second key, everything is called in any order: bootstrap, role grants, registration before and after a rotation and back, sync, statuses, pause, both renunciations, the executor. |
| `assets` | Can content or the access list reach the wrong person, and do entries, listing, owners and hashes stay consistent? | Two scenes. Bob gains and loses the Auditor role, is cleared and uncleared, rotates his key, gets and is denied grants that expire, while Alice, the owner, becomes an Officer and anyone may be suspended; and three assets and four hashes with self-transfers, re-shares in circles through the owner, direct entries stamped as Alice's or as the system's, and revocations in between. |
| `workflow` | Is what is classified voted, waited for, final, decided, and short in an emergency? Is the workflow a ballot? | Two scenes. "grant": two proposals on a SECRET asset, two Admins, an Officer, an identity not cleared to vote and a relayer, vetoes and broken glass, and at one moment the direct doors: a re-share, and a write that the tier forbids. "owner": mints and transfers of CONFIDENTIAL assets, through the workflow and directly, to owners that are cleared and that are not, while the policy tightens. |
| `workflow_governance` | Can a clearance, or the last Admin, be had without a vote? | Uplifts and demotions, the founding door open and closed, the Admin revoked while a proposal to mint it again is open. |
| `gateway` | What can overtake what between the awaits of backend and page? | All eleven scenes below. |
| `operations` | What do killed scripts, restarts and late links leave behind? | Two deployments, two files, all six jobs, killed after any step, a server that starts and stops, a page that uploads and links. |
| `assets_old_key`, `workflow_policy`, `gateway_log`, `gateway_tamper`, `page_session`, `operations_reset` | Do the stated claims hold? | No. See section 5. |

The `gateway` run is a union of eleven scenes chosen in the initial state. Each lets
some parts of the system move and holds the others still, which keeps the product
of the parts within reach; the action properties are those of `ConsoleSpec`, whose
next-state relation `SceneNext` restricts. `assets` and `workflow` are split the
same way.

| Scene | Moves |
|---|---|
| `login` | two verifications with two keys of Alice, rotations, suspensions, demotion, restarts, all of the chain |
| `roles` | a verification whose key gains or loses the Auditor's role between two of its balances |
| `person` | one read by Alice, step-up or not, while she is suspended, demoted, reinstated |
| `view` | Alice, who may be an Auditor too, looks at a record, its permissions, access list and history while she is suspended, demoted, reinstated |
| `list` | listings while assets are minted and Alice is suspended or demoted |
| `storage` | uploads over a stored file, damage and loss, links, new versions on the chain, one read at a time |
| `forge` | one read at a time of rows that were linked with a made-up path, key, spelling or asset |
| `race` | two reads or links at once with new versions on the chain |
| `link` | a second asset minted with a content that the first one freed, links to both that overlap, one of them made up |
| `page` | the page as the server's one client, its wallet switched at any time, another Admin minting next to it |
| `console` | the console around Alice's session: she navigates between two assets and the listing, changes tabs, opens and downloads, signs out and in again as the Admin, reloads; answers come late |

Why the bounds are enough: the on-chain properties speak of at most two identities,
two keys, two assets or two proposals at a time, and the runs have at least as many
and one bystander. Times are compared, never added up beyond `now` plus one
duration, so three or four block times give every order of a proposal, its waiting
period, its expiry and the cap of broken glass; two are enough for a nonce or a
token that expires under way. Off the chain, two slots give every overtaking of one
request by another; two uploads give the overwritten file and the stale key; two
nonces the reuse of one next to another. One logged row (`MaxRow = 1`) is enough for
`EveryReleaseIsLogged`: a release needs a row of its own, so a second request
would have to share the first one's. `gateway_log` has two.

Bounds of `operations`: two deployments are an old one and a new one, which is what
a stale address or a stale row needs; two files are one by the page and one by a
script. A made-up link is one of four: another upload's path and key, another
spelling with a forged key, another spelling with a path outside the storage, and an
asset that was never minted; one such row at a time is enough, as a read looks at one
row and the rows of one content at each other only for their hash. In the scene `console` there is one sign-in, two requests overlap only for
records, and the pages are the landing page, the listing and an asset's; the others
ask for nothing that differs. In `grant` the direct doors are tried at one block time,
after the first proposals can exist and before the second's waiting period ends.

### Fairness

Two properties are about what must happen, and each states only what its sources
justify.

- `ApprovedIsDecided` (run `workflow`): weak fairness of `ClockStep`, since the chain
  makes blocks whether anybody likes it or not, and of `Execute(p)` for each
  proposal, as `execute` has no access check (`GrantWorkflow.sol:283`) and the
  waiting period's end stays. Nobody is assumed to vote, veto or refrain. The
  property excepts what other transactions made impossible meanwhile
  (`Impossible`), a disjunct for each way that `Dispatch` reverts.
- `ScriptsEnd` (run `operations`): weak fairness of `ScriptStep`, a process that runs
  on unless it is killed; the operator and the page are not assumed to do anything.

All other properties are invariants or action properties and need none.

The properties in a line each. Identity: `OneKeyPerIdentity` (two keys never resolve
to one identity), `SettledIndexIsExact` (in sync implies found), `NoAdminNoRevival`.
Assets: `ContentNeedsClearanceAndRole` (clearance gate and role rules against every
history of entries, one and two levels short), `AdminKeepsAcl` (P_LIST and P_ADMIN, the two
do not undo each other),
`HashIndexExact`, `SeededAceIsOwners` (or an ACL writer's own words), `OwnerHasEntry`, `EveryEntryIsListed`,
`DelegationGetsShallower`. Workflow: `VotesAreBallots` (the refinement), `FourEyes`,
`ApprovalMatrix`, `BreakGlassGrantIsShort`, `ClassifiedEntryWasVoted` (every entry on a
classified asset is seeded, re-shared by a holder, or was voted for at its tier with
these very bits), `ClassifiedOwnerWasVoted`, `ApprovedIsDecided` (liveness),
`ClearanceNeedsVote`, `LoneOfficerStaysAlone`, `NoAdminIsPermanent`. Backend:
`NonceServesOnce`, `TokenWasEarned`, `AnsweredWhileEntitled` (content, a record, an
access list, a permission), `ReleasedIsRegistered`, `ListingIsFaithful`,
`RowsWereRegistered`, `EveryReleaseIsLogged`. Console: `ShownIsOfSession`. Operations:
`PublishedIsWired`, `RowsAreOfTheChain` (under the two rules of the operator, of which
the README of the repository has only the first), `ScriptsEnd` (liveness). One type
invariant each: `ChainTypeOK`, `SystemTypeOK`, `OperationsTypeOK`.

Each has a variant of one operator beside it in its module ("Variant of ..."): a
plausible bug that the run then finds. Variants are in no next-state relation.

## 4. Proofs

The theorems hold for all clients, requests, accounts, founders, seeded assets, policies, durations,
bounds and call sets that satisfy the assumptions named in the modules. One of them has a
hypothesis of its own, `KeysAreOwn`. The bounds only need what makes the instance mean
something: `MaxToken` is at least 1, as an upload form that has read `totalMinted` has to have
a number to link to. Every assumption is evaluated by the runs.

`ArgusIdentity_proofs`, about `IdentitySpec` and for any executor:

- `IdentityTypeCorrect`: `[]IdentityTypeOK`. Syncing indexes the table with the
  controller an identity remembers, so the invariant adds `IssuedShape`: an issued
  identity has a DID and a controller, the others are blank.
- `OneKeyPerIdentityHolds`: `[]OneKeyPerIdentity`. It is not inductive: an entry of
  `byController` could be overwritten by a registration with an id that some other
  key already has, and a sync deletes the entry of the key it remembers whether or
  not that entry is its own. The invariant adds `IndexPointsBack`: an entry belongs
  to an identity that was issued and that remembers exactly that key. Two keys with
  the same entry are then both *the* key the identity remembers, hence equal. A
  registration enters an id no entry has yet; a sync removes the remembered key
  before it enters the new one, and this order is what the proof needs.
- `SettledIndexIsExactHolds`: `[]SettledIndexIsExact`, under the hypothesis
  `KeysAreOwn` that no key is handed to two DIDs. The registry does not enforce it
  (section 5), so it is a premise of the theorem and not an assumption of the module;
  the run `identity` evaluates it for its own calls. The invariant says that a DID's
  owner and a remembered controller are keys of that DID and, again, the other
  direction of the index: an issued identity is found under the key it remembers. A sync or
  a registration then touches no entry of another, because the two would share a key.
- `NoAdminNoRevivalHolds`: `NoAdminNoRevival`. `NoRevivalStep`: only registering and
  reinstating an identity give it a status or a tenure, both are an Admin's, and time
  ends tenures and begins none (`SameTenure` is the common case of the other steps).

`AssetNFT_proofs`, about `AssetsSpec` and for any executor with typed arguments:

- `AssetsTypeCorrect`: `[]AssetsTypeOK`. An owner has to be an issued identity for
  its entry to be one of a principal; that it qualifies implies it
  (`QualifiedIsIssued`).
- `SeededAceIsOwnersHolds`, `EveryEntryIsListedHolds`, `OwnerHasEntryHolds`: the three
  from one invariant, `EntryInv`. Beside them it has that a token that does not exist
  has no seeded entries and that every owner is
  issued (so its entry is not a role's, `PrincipalsDiffer`, and nobody is `SYSTEM`,
  `NobodyIsSystem`). A direct write may carry the system's number: `WritersOwn` is that very
  write, which is refused on a classified asset. `AccessStepWrites` and `AssetStepWrites` reduce all the ways an
  entry is written to a few shapes: written directly, handed on, revoked, minted,
  transferred. The order of `DoTransfer`, revoke and then seed, is what `OwnerHasEntry`
  needs when an asset is transferred to its owner.
- `HashIndexExactHolds`: `[]HashIndexExact`. Inductive with `FreshTokens`, that an
  id not given out yet has no asset; a new version frees the old hash, which is
  the asset's own, and enters a free one.
- `ContentNeedsClearanceAndRoleHolds`: a fact about the resolver in every state, of what
  it lets through one level short and two, from lemmas per gate (`GateStopsContent`, `RoleRulesAddNoContent`).
- `AdminKeepsAclHolds`: a fact about the resolver as well: P_LIST and P_ADMIN (never
  P_AUDIT), since the role rules come last.
- `DelegationGetsShallowerHolds`. `DepthInv`: an entry seeded by the system has depth
  two, any other at most one. The hypothesis of the property (`Shallow` in the proof)
  is about the depths that direct writes and grants ask for; re-sharing is bounded by
  the delegator's own depth, which the steps show to be enough.

`GrantWorkflow_proofs`, about `ChainSpec`:

- `ChainTypeCorrect`: `[]ChainTypeOK`. A proposal carries what its execution needs,
  whatever its kind. The invariant adds `FreshPids`; `Amended` is what approve,
  reject, break glass and execute have in common.
- `FourEyesHolds`: `[]FourEyes`, by counting: an approver who was none before adds
  one to the array and one to the set.
- `FinalIsFinalHolds`: `FinalIsFinal`.
- `LayersBelowHold`: `OneKeyPerIdentity` and `HashIndexExact` on the whole chain.
  `ChainStepBelow` shows that every step of the chain is a step of the layer below
  with an executor that may do anything, so the invariants carry over.
- `NoAdminIsPermanentHolds`: `NoAdminIsPermanent`. Nobody may call
  what makes an Admin, and the proposer of a new one is an Admin itself.
- `VotesAreBallotsHolds`: `Decision!BallotSpec`. Carrying a paper needs the votes of
  the *constructor's* table while `execute` asks the policy of the moment, so the
  invariant `TightInv` says that policies are at least as tight as the table if
  `PoliciesStand`; that the votes are counted once is `FourEyes`. Each action is then a step of the ballot on one paper or
  leaves all papers as they are.
- `ApprovalMatrixHolds`: `[]ApprovalMatrix`. `MatrixInv` adds to `TightInv` that `readyAt`
  of a live proposal is a full waiting period after it was made unless the glass was
  broken; time only goes on (`ClockGoesOn`).
- `BreakGlassGrantIsShortHolds`: `BreakGlassGrantIsShort`. `GlassInv`: a grant whose glass
  is broken has an expiry, and one that the execution caps.

`Classified_proofs`, about `ChainSpec`, on top of those:

- `ClassifiedEntryWasVotedHolds`, `ClassifiedOwnerWasVotedHolds`. Each entry and each
  owner has a cause (seeded, handed on, or an executed proposal), which no later step
  takes away: an executed proposal never changes (`FinalStays`) and a classification
  never does. The invariant adds `TiersMatch` (a proposal about an asset that exists has
  its classification as its tier), and a direct write is refused above the threshold.
  `WrittenOnAssets` says that only assets that exist have entries.
  A new version keeps the hash an asset was minted with, which is how its proposal is
  found again.
- `ClearanceNeedsVoteHolds`. `ClearanceCauses`: once the founding door is closed a
  clearance changes by a registration, which gives RESTRICTED at most, or by an uplift
  that is executed, and `ExecutedIsVoted` says what that took.
- `LoneOfficerStaysAloneHolds`. Whoever newly approves a SECRET proposal has SECRET
  clearance, so `VotersAreFew` bounds the approvers of all of them by the one who has
  it; two votes are needed, so none is executed.

`Sessions_proofs`, about `ContentSpec`, the server with any number of clients and
requests in flight next to the whole chain. The lemmas are about `AnyContentSpec`,
which allows more: any executor on the chain, logins with any key, requests for any
asset and any content. `ContentSpec` implements it (`ContentIsAny`), and so does
the console:

- `NonceServesOnceHolds`: `[]NonceServesOnce`. `NonceInv`: a nonce in the map was given
  out and nobody carries it; a nonce that a verification carries or a token came of
  is out of the map and never comes back. The tokens a run starts with carry none.
- `TokenWasEarnedHolds`: `TokenWasEarned`. `held` records what the key of a verification
  controlled and who was active since it began. `EarnedInv` follows the reads: each one
  that lets the verification pass finds what it asks about in that record. That the
  identity a stale index entry leads to is registered at all is `IndexPointsBack` of
  `ArgusIdentity_proofs`, and `StaysRegistered` keeps it.

`ContentGateway_proofs`, about `ContentSpec` as well:

- `AnsweredWhileEntitledHolds`, `ListingIsFaithfulHolds`, `ReleasedIsRegisteredHolds`,
  `RowsWereRegisteredHolds`: the four from one invariant, `RequestsInv`, which says for
  each request in flight what its past reads established: which routes get to which
  awaits (`Placed`), that an authorization that was given is in the record of what the
  reader could open (`Opened`), that the hash a file was compared with is in the record of
  the asset's contents (`Compared`), what a listing has put in and what is left of it
  (`Listed`), and that the records hold what is true now (`UpToDate`). A step of anybody
  else only makes the records grow (`SoundGrows`); `WatchKeepsUp` says that they keep up.
  `AssetsInv` supplies that only numbers below `nextToken` are assets, so a listing asks
  about all there are.
  For `RowsWereRegistered` it needs that a row is written whole from one link in
  flight, whose body is an upload's or made up (`RowsStep`); that a made-up row
  releases nothing wrong is `Compared`, which is about the path that was opened and not
  about the hash that the row says.
- `EveryReleaseIsLoggedHolds`: `[]EveryReleaseIsLogged`, by counting. `AheadInv`: per identity and
  asset, what was sent and what is about to be sent is no more than what was logged.
  A stop of the server forgets requests and keeps rows, so it only loses on the left.
- `BackendTypeCorrect`: `[]BackendTypeOK`. A decision that is logged, a file that is
  opened and a list that is answered are as well formed as the reads before them, so
  `BackendTypeInv` adds to the types of the fields (`GatewayInv`) what a request's past reads
  established (`RequestsInv`), and what a verification found about the identity that its
  token is for (`TenureInv`).

`Console_proofs`, about `ConsoleSpec`, the whole system:

- `ConsoleIsAnyClient`: `ConsoleSpec` implements `AnyContentSpec`. It is an invariant as much
  as a step lemma: that a page signs in with a key, links an upload of this server to an
  asset number that can exist, and asks about nothing but assets are facts about the
  page's own state (`ConsoleInv`).
- `ServerHoldsUnderConsole`: all that the two modules before show of `ContentSpec` holds of
  the system too, which is where the run `gateway` checks it.
- `SystemTypeCorrect`: `[]SystemTypeOK`.
- `ShownIsOfSessionHolds`: `[]ShownIsOfSession`. Nothing in an answer says whom it is for, so
  the invariant follows the requests. `AsksInv`: a request that a view waits for was asked
  by the session of now, and is about the view's key of now. `ViewsInv`: each view's key is
  what session and address bar make it, and what a view shows was answered to this
  session about this key. A request keeps its subject until it is answered
  (`EveryStepKeeps`); whatever changes session or place is drawn in the same step, and
  `RenderKeeps` shows that drawing gives up the requests of every key that goes. `SignInInv`
  is what makes the session a safe thing to compare with: a sign-in is under way
  only without one, so a session never turns into another without a page in
  between that shows nothing.

`Operations_proofs`, about `OperationsSpec`:

- `PublishedIsWiredHolds`: `[]PublishedIsWired`. `DeployInv`: a deployment under way works
  on contracts of its own, to which exactly the part of the plan sent so far was done,
  and the file is written after the last of it (`PlanIsComplete`).
- `OperationsTypeCorrect`: `[]OperationsTypeOK`. `TypeInv` adds `ScriptInv`, what a script
  that is still running has come by at each step of its plan: a file once it has uploaded,
  a deployment once it has minted. `PlanOrder` says that no plan asks for them earlier.
- `RowsAreOfTheChainHolds`: `[]RowsAreOfTheChain`, for an operator that keeps to both rules.
  `RowsInv` says it of the deployment in the file, with or without a server, and that a server
  that runs has read this file. A reset replaces it while no server runs and after the
  tables were cleared, so that there are no rows which the new chain would have to have;
  in between, a chain only grows (`AppendedStays`).

Model-checked only:

- liveness (`ApprovedIsDecided`, `ScriptsEnd`), which is out of the prover's reach.

## 5. Where code and words differ

Six runs find what a comment or the README states of the program violated:

- `assets_old_key` (`EthereumDIDRegistry.sol:34-36`): the address-keyed lookups go
  through the cache, so the old key acts until somebody syncs.
- `workflow_policy` (`GrantWorkflow.sol:254-255`): the officer is asked for when a
  vote completes the number, so lowering the number afterwards skips the question.
- `gateway_log` (`schema.prisma:22`): two requests read the same last row before
  either inserts, and the chain forks with nobody tampering.
- `gateway_tamper` (`controllers/assets.ts:146-148`): uploading a stored content
  again seals it with a new key, and a new version on the chain is ahead of the row
  until it is linked; both are logged as tampering though nobody touched a file.
- `page_session` (`session.tsx:153-154`): the answer to a sign-in arrives after the
  account was switched, or a reload restores a session next to another account.
- `operations_reset` (`reset.ts:26`, `full-upload.ts:50`): the answer to the link is
  printed and not looked at. A server that still has the earlier deployment's addresses
  refuses the link, and the reset is announced as complete all the same.

Read in the code and modelled as it is, without a run of its own:

- Keys shared by DIDs make `syncController` delete or overwrite the entry of another
  identity (`ArgusIdentity.sol:142-149`), and once the caches agree a further sync
  does nothing. The `identity` run hands a key to no two DIDs, and `SettledIndexIsExact`
  holds there; with shared keys it does not.
- An Admin may mint to its own identity and then reads the file, though
  `README.md:17-19` says an administrator never can.
- `delegate` asks for no vote at any classification, though `README.md:22` says that
  nobody grants access alone above the threshold. `ClassifiedEntryWasVoted` has it as
  an exception of its own (`Reshared`).
- `reset.ts` needs a server at its end and the README has it stopped before
  (`README.md:175`), so a reset that follows the README to the letter ends in
  `full-upload.ts`, after everything else was done.
- A download always sends the header of a confirmed step-up (`AssetDetail.tsx:38`),
  though `RiskAndProposals.tsx:31` says that a score of 41 to 80 is "Allowed after
  re-confirmation".
- The session clock of the page starts at 15 minutes with every load
  (`Shell.tsx:37-38`), whatever is left of the token; in the model the clock is a
  `SignOut` at any time.
- `POST /upload` trusts the roles in the token, up to its expiry, though
  `README.md:267-268` says the chain is asked on every request.
- A file that has no row is answered with `FILE_NOT_STORED` and not logged, while a
  missing ciphertext is.
- `contentHash` is unique in the table of rows: once a content moved from one asset
  to another, the new one's link fails for as long as the old row stays, unless the
  hash is spelled differently. No document promises that a link succeeds, so there is
  no property about it.
- `POST /:id/link` trusts its caller with the path and the key, and any session may
  call it. `RowsWereRegistered` says no more of a row than the code does; that
  reading such a row releases nothing but the registered content is `ReleasedIsRegistered`.
- A vote stands after its voter was suspended, and a revocation does not touch proposals
  that are still open: `ClassifiedEntryWasVoted` is checked with late executions and
  proved with revocations as well.

## 6. Not modelled

- `AuditAnchor`: nothing in the repository calls it but two tests; the batching job
  that would give it a history does not exist (`README.md:221`). `Operations` has the
  transaction that grants its role.
- The indexer: nothing starts it, and it writes tables that the schema does not have.
- What the pages look like: text, tables, the filter of the listing, the status bar
  that polls `/health/chain`, the landing page. Effects that React runs twice in its
  strict mode of development are not doubled. A request that a view gave up before it
  reached the server is one of the other clients'.
- The codes and messages of a denial (`explain`), which tell the reader why.
- The delegate table of the DID registry, the ERC-721 owner, and the OpenZeppelin
  libraries beyond what the contracts use of them; gas; cryptography (a signature, a
  hash and a cipher are what their users take them to be).
- Growth without bounds, such as the map of nonces that were never used.

What could come next: the read of a file as one atomic decision that `ContentGateway`
implements; the address-keyed entries of `AccessRegistry` as a refinement of the
identity-keyed ones; `AuditAnchor`, when something calls it.
