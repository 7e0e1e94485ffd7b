------------------------------- MODULE MCAssets -------------------------------
(***************************************************************************)
(* Small instances of the asset layer (AssetNFT over AccessRegistry): the  *)
(* people of the seed script, a RESTRICTED and a CONFIDENTIAL asset, and   *)
(* the calls each run explores.                                            *)
(*                                                                         *)
(* scene splits the main run in two: in "resolver" roles, clearances,      *)
(* statuses, keys and voted entries change what the CONFIDENTIAL asset     *)
(* shows to whom; in "ledger" entries, owners, hashes and versions change. *)
(***************************************************************************)
EXTENDS AssetNFT, TLC

CONSTANTS admin, alice, bob, key1, e0, e1, e2, h1, h2, h3, h4

VARIABLE scene

Person(did, emp, clearance, roles) ==
  [did |-> did, emp |-> emp, clearance |-> clearance, validUntil |-> 0, roles |-> roles]

Staff ==
  <<Person(admin, e0, RESTRICTED, {ADMIN}),
    Person(alice, e1, CONFIDENTIAL, {MANAGER}),
    Person(bob, e2, RESTRICTED, {USER})>>

\* Identity numbers, in the order of registration.
Admin == 1
Alice == 2
Bob   == 3

NoIdentityCalls ==
  [changeOwner |-> {}, bootstrap |-> {}, roleToken |-> {}, register |-> {},
   status |-> {}, bootstrapClearance |-> {}, admin |-> {}, clearance |-> {},
   adminGrant |-> {}]
NoAccessCalls ==
  [setAce |-> {}, delegate |-> {}, revokeAce |-> {}, mint |-> {},
   transfer |-> {}, updateContent |-> {}]
NoExecutorCalls == [grant |-> {}, mint |-> {}, transfer |-> {}]

MintTo(i, h, tier) == [to |-> i, hash |-> h, classification |-> tier]
AceFor(p, allow, deny, notBefore, expiresAt) ==
  [token |-> 1, principal |-> p, allow |-> allow, deny |-> deny,
   notBefore |-> notBefore, expiresAt |-> expiresAt, depth |-> 1, grantedBy |-> Alice]

ConfidentialAsset == <<MintTo(Alice, h1, CONFIDENTIAL)>>
RestrictedAsset   == <<MintTo(Alice, h1, RESTRICTED)>>
BothAssets == <<MintTo(Alice, h1, RESTRICTED), MintTo(Alice, h2, CONFIDENTIAL)>>

-----------------------------------------------------------------------------
\* Role tokens come and go, clearances, statuses and entries change, Bob's key
\* rotates.
ResolverCalls ==
  [NoIdentityCalls EXCEPT
     !.changeOwner = {[did |-> bob, newOwner |-> key1]},
     !.roleToken = {[who |-> bob, role |-> AUDITOR], [who |-> key1, role |-> USER],
                    [who |-> alice, role |-> SECURITY_OFFICER]},
     !.status = {"SUSPENDED"},
     !.clearance = {PUBLIC, CONFIDENTIAL},
     !.adminGrant = {bob}]

\* Re-shares among everybody, transfers in all directions, explicit entries and
\* revocations, mints and new versions that compete for four hashes.
LedgerCalls ==
  [delegate |-> {[token |-> 1, to |-> IdentityPrincipal(i), allow |-> {P_SHARE, P_WRITE},
                 expiresAt |-> 0] : i \in {Admin, Alice, Bob}},
   setAce |-> {[AceFor(IdentityPrincipal(Bob), {}, {P_READ}, 0, 0) EXCEPT !.grantedBy = by] :
                 by \in {Alice, SYSTEM}},
   revokeAce |-> {[token |-> 1, principal |-> IdentityPrincipal(i)] : i \in {Admin, Bob}},
   mint |-> [to : {Alice, Bob}, hash : {h1, h3}, classification : {RESTRICTED}],
   transfer |-> [token : {1}, to : {Admin, Alice, Bob}],
   updateContent |-> [token : {1, 2, 3}, hash : {h1, h2, h3, h4}]]

\* The votes: entries of the CONFIDENTIAL asset, and a mint and transfers of both.
VotedCalls ==
  [grant |->
     {[token |-> 2, principal |-> p, allow |-> {P_LIST, P_READ}, deny |-> d,
       expiresAt |-> 2, depth |-> 0, proposer |-> Admin] :
         p \in {IdentityPrincipal(Bob), RolePrincipal(USER)}, d \in {{}, {P_LIST, P_ADMIN}}},
   mint |-> {MintTo(Alice, h2, CONFIDENTIAL)},
   transfer |-> [token : {1, 2}, to : {Bob}]]

Resolving ==
  /\ scene = "resolver"
  /\ \/ IdentityDirect /\ UNCHANGED <<assetVars, accessVars>>
     \/ AssetsExecutorStep /\ UNCHANGED assetVars /\ aces'[1] = aces[1]

Keeping ==
  /\ scene = "ledger"
  /\ \/ TimeStep /\ now' <= 1 /\ UNCHANGED <<assetVars, accessVars>>
     \/ AccessStep
     \/ AssetStep
     \/ AssetsExecutorStep /\ assets' # assets /\ UNCHANGED identityVars

AssetScenesInit == AssetsInit /\ scene \in {"resolver", "ledger"}
AssetScenesNext == (Resolving \/ Keeping) /\ UNCHANGED scene

AssetScenes == AssetScenesInit /\ [][AssetScenesNext]_<<assetsVars, scene>>

-----------------------------------------------------------------------------
\* A rotation that nobody synchronises.
RotationCalls ==
  [NoIdentityCalls EXCEPT !.changeOwner = {[did |-> alice, newOwner |-> key1]}]

RotatingInit == AssetsInit /\ scene = "rotation"
RotatingNext == AssetsNext /\ UNCHANGED scene

Rotating == RotatingInit /\ [][RotatingNext]_<<assetsVars, scene>>
=============================================================================
