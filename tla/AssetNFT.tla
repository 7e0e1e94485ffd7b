------------------------------- MODULE AssetNFT -------------------------------
(***************************************************************************)
(* contracts/AssetNFT.sol: minting, transfer and new versions of assets,   *)
(* with the entries AssetNFT makes AccessRegistry write in the same        *)
(* transaction.  The ERC-721 owner of a token and its version number are   *)
(* read by no contract and left out.                                       *)
(***************************************************************************)
EXTENDS AccessRegistry

CONSTANTS
  SeededAssets,     \* assets of a seeded deployment, <<>> for none
  ExecutorCalls     \* the arguments explored for the executor of this layer

VARIABLES tokenOfHash, nextToken

assetVars  == <<assets, tokenOfHash, nextToken>>
accessVars == <<aces, principalsAt>>
assetsVars == <<identityVars, assetVars, accessVars>>

MintCall == [to : Id, hash : Hash, classification : Tier]

ASSUME SeededAssetsAssumption ==
  /\ SeededAssets \in Seq(MintCall)
  /\ Len(SeededAssets) <= MaxToken
  /\ \A k \in 1 .. Len(SeededAssets) :
       /\ SeededAssets[k].to <= Len(Founding)
       /\ SeededAssets[k].classification <= Founding[SeededAssets[k].to].clearance
       /\ \A j \in 1 .. Len(SeededAssets) :
            j # k => SeededAssets[j].hash # SeededAssets[k].hash

ASSUME AssetCallsAssumption ==
  /\ AccessCalls.mint \subseteq MintCall
  /\ AccessCalls.transfer \subseteq [token : Token, to : Id]
  /\ AccessCalls.updateContent \subseteq [token : Token, hash : Hash]
  /\ ExecutorCalls.mint \subseteq MintCall
  /\ ExecutorCalls.transfer \subseteq [token : Token, to : Id]
  /\ ExecutorCalls.grant \subseteq
       [token : Token, principal : Principal, allow : SUBSET Permission,
        deny : SUBSET Permission, expiresAt : Nat, depth : Nat, proposer : Id]

AssetTypeOK ==
  /\ AccessTypeOK
  /\ tokenOfHash \in [Hash -> 0 .. MaxToken]
  /\ nextToken \in 1 .. MaxToken + 1

-----------------------------------------------------------------------------
\* Is i a fit owner for this classification?
Qualifies(i, classification) == IsActive(i) /\ ClearanceOf(i) >= classification

MintedAsset(c) ==
  [minted |-> TRUE, contentHash |-> c.hash, classification |-> c.classification,
   owner |-> c.to, mintedHash |-> c.hash]

\* Both seeded entries are first writes: a token id is never reused.
MintAsset(c) ==
  /\ Qualifies(c.to, c.classification)
  /\ tokenOfHash[c.hash] = 0
  /\ nextToken \in Token                            \* bound
  /\ nextToken' = nextToken + 1
  /\ assets' = [assets EXCEPT ![nextToken] = MintedAsset(c)]
  /\ tokenOfHash' = [tokenOfHash EXCEPT ![c.hash] = nextToken]
  /\ aces' = [aces EXCEPT
       ![nextToken][IdentityPrincipal(c.to)] = SeededAce(OWNER_BITS),
       ![nextToken][RolePrincipal(ADMIN)]    = SeededAce(ADMIN_BITS)]
  /\ principalsAt' = List(List(principalsAt, nextToken, IdentityPrincipal(c.to)),
                          nextToken, RolePrincipal(ADMIN))

Mint(sender, c) ==
  /\ HasRoleToken(sender, ADMIN)
  /\ c.classification < CONFIDENTIAL
  /\ MintAsset(c)

\* Variant of DoTransfer that seeds the new owner before it revokes the old.
DoTransferSeedingFirst(c) ==
  LET oldOwner == IdentityPrincipal(assets[c.token].owner)
      newOwner == IdentityPrincipal(c.to)
      seeded   == [aces EXCEPT ![c.token][newOwner] = SeededAce(OWNER_BITS)]
  IN /\ Exists(c.token)
     /\ Qualifies(c.to, ClassificationOf(c.token))
     /\ assets' = [assets EXCEPT ![c.token].owner = c.to]
     /\ aces' = [seeded EXCEPT ![c.token][oldOwner] = NoAce]
     /\ principalsAt' = IF aces[c.token][newOwner].written THEN principalsAt
                        ELSE List(principalsAt, c.token, newOwner)
     /\ UNCHANGED <<tokenOfHash, nextToken>>

\* Variant of DoTransfer that leaves the old owner's entry in place.
DoTransferKeepingOldOwner(c) ==
  /\ Exists(c.token)
  /\ Qualifies(c.to, ClassificationOf(c.token))
  /\ assets' = [assets EXCEPT ![c.token].owner = c.to]
  /\ WriteAce(c.token, IdentityPrincipal(c.to), SeededAce(OWNER_BITS))
  /\ UNCHANGED <<tokenOfHash, nextToken>>

\* The old owner's entry is revoked before the new owner's is seeded, so a
\* transfer to the owner itself leaves it with the owner's entry.
DoTransfer(c) ==
  LET oldOwner == IdentityPrincipal(assets[c.token].owner)
      newOwner == IdentityPrincipal(c.to)
      revoked  == [aces EXCEPT ![c.token][oldOwner] = NoAce]
  IN /\ Exists(c.token)
     /\ Qualifies(c.to, ClassificationOf(c.token))
     /\ assets' = [assets EXCEPT ![c.token].owner = c.to]
     /\ aces' = [revoked EXCEPT ![c.token][newOwner] = SeededAce(OWNER_BITS)]
     /\ principalsAt' = IF revoked[c.token][newOwner].written THEN principalsAt
                        ELSE List(principalsAt, c.token, newOwner)
     /\ UNCHANGED <<tokenOfHash, nextToken>>

ControlledTransfer(sender, c) ==
  /\ Exists(c.token)
  /\ ClassificationOf(c.token) < CONFIDENTIAL
  /\ P_ADMIN \in Effective(c.token, sender)
  /\ DoTransfer(c)

\* Variant of UpdateContent that forgets to free the old hash.
UpdateContentKeepingOldHash(sender, c) ==
  /\ Exists(c.token)
  /\ P_WRITE \in Effective(c.token, sender)
  /\ tokenOfHash[c.hash] = 0
  /\ tokenOfHash' = [tokenOfHash EXCEPT ![c.hash] = c.token]
  /\ assets' = [assets EXCEPT ![c.token].contentHash = c.hash]
  /\ UNCHANGED <<nextToken, accessVars>>

\* At every classification: the write bit is the only gate.
UpdateContent(sender, c) ==
  /\ Exists(c.token)
  /\ P_WRITE \in Effective(c.token, sender)
  /\ tokenOfHash[c.hash] = 0
  /\ tokenOfHash' = [tokenOfHash EXCEPT ![assets[c.token].contentHash] = 0,
                                        ![c.hash] = c.token]
  /\ assets' = [assets EXCEPT ![c.token].contentHash = c.hash]
  /\ UNCHANGED <<nextToken, accessVars>>

-----------------------------------------------------------------------------
(***************************************************************************)
(* The layer: the seeded deployment and every direct call.                 *)
(***************************************************************************)
SeededAsset(t) == t \in 1 .. Len(SeededAssets)

AssetsInit ==
  /\ IdentityInit
  /\ assets = [t \in Token |->
       IF SeededAsset(t) THEN MintedAsset(SeededAssets[t])
       ELSE [minted |-> FALSE, contentHash |-> NoHash, classification |-> PUBLIC,
             owner |-> 0, mintedHash |-> NoHash]]
  /\ tokenOfHash = [h \in Hash |->
       IF \E t \in 1 .. Len(SeededAssets) : SeededAssets[t].hash = h
       THEN CHOOSE t \in 1 .. Len(SeededAssets) : SeededAssets[t].hash = h
       ELSE 0]
  /\ nextToken = Len(SeededAssets) + 1
  /\ aces = [t \in Token |-> [p \in Principal |->
       IF SeededAsset(t) /\ p = IdentityPrincipal(SeededAssets[t].to)
       THEN SeededAce(OWNER_BITS)
       ELSE IF SeededAsset(t) /\ p = RolePrincipal(ADMIN)
       THEN SeededAce(ADMIN_BITS)
       ELSE NoAce]]
  /\ principalsAt = [t \in Token |-> {p \in Principal : aces[t][p].written}]

AccessStep ==
  /\ \E sender \in Address :
       \/ \E c \in AccessCalls.setAce : SetAce(sender, c)
       \/ \E c \in AccessCalls.delegate : Delegate(sender, c)
       \/ \E c \in AccessCalls.revokeAce : RevokeAce(sender, c)
  /\ UNCHANGED <<identityVars, assetVars>>

AssetStep ==
  /\ \E sender \in Address :
       \/ \E c \in AccessCalls.mint : Mint(sender, c)
       \/ \E c \in AccessCalls.transfer : ControlledTransfer(sender, c)
       \/ \E c \in AccessCalls.updateContent : UpdateContent(sender, c)
  /\ UNCHANGED identityVars

AssetsDirect ==
  \/ IdentityDirect /\ UNCHANGED <<assetVars, accessVars>>
  \/ AccessStep
  \/ AssetStep

\* Whatever the executor may do to this layer, whoever it is.
AssetsExecutorStep ==
  \/ ExecutorStep /\ UNCHANGED <<assetVars, accessVars>>
  \/ /\ \/ \E c \in ExecutorCalls.mint : MintAsset(c)
        \/ \E c \in ExecutorCalls.transfer : DoTransfer(c)
     /\ UNCHANGED identityVars
  \/ /\ \E c \in ExecutorCalls.grant :
          ExecuteGrant(c.token, c.principal, c.allow, c.deny, c.expiresAt, c.depth, c.proposer)
     /\ UNCHANGED <<identityVars, assetVars>>

AssetsNext == AssetsDirect \/ AssetsExecutorStep

AssetsSpec == AssetsInit /\ [][AssetsNext]_assetsVars

AssetsTypeOK == IdentityTypeOK /\ AssetTypeOK

-----------------------------------------------------------------------------
\* tokenOfHash is the inverse of the current content hashes: a hash leads to
\* the one asset that has it, and no two assets have the same content now.
HashIndexExact ==
  /\ \A h \in Hash : tokenOfHash[h] # 0 =>
       /\ assets[tokenOfHash[h]].minted
       /\ assets[tokenOfHash[h]].contentHash = h
  /\ \A t \in Token : assets[t].minted =>
       /\ assets[t].contentHash \in Hash
       /\ tokenOfHash[assets[t].contentHash] = t

\* INV-1 and INV-8: whoever can touch content is active, is cleared for the
\* asset, and holds neither the Auditor nor the Security Officer role at the
\* key that controls it now, whatever entries and role grants came before.  Who
\* holds neither role that looks past the gate, the Auditor's and the Admin's,
\* knows of an asset one level above its clearance that it exists and no more,
\* and of one further above nothing at all.
ContentNeedsClearanceAndRole ==
  \A t \in Token, a \in Address :
    LET i        == byController[a]
        mine     == Effective(t, a)
        ordinary == /\ ~HasRoleToken(ControllerOf(i), AUDITOR)
                    /\ ~HasRoleToken(ControllerOf(i), ADMIN)
    IN /\ mine \cap CONTENT_BITS # {} =>
            /\ IsActive(i)
            /\ ClearanceOf(i) >= ClassificationOf(t)
            /\ ~HasRoleToken(ControllerOf(i), AUDITOR)
            /\ ~HasRoleToken(ControllerOf(i), SECURITY_OFFICER)
       /\ ordinary /\ mine \ {P_LIST} # {} => ClearanceOf(i) >= ClassificationOf(t)
       /\ ordinary /\ mine # {} => ClearanceOf(i) + 1 >= ClassificationOf(t)

\* Every asset stays administrable: an active Admin has P_ADMIN on it, however
\* low its clearance and whatever the entries say (AccessRegistry.sol:217-221).
AdminKeepsAcl ==
  \A t \in Token, i \in Id :
    (Exists(t) /\ IsActive(i) /\ HasRoleToken(ControllerOf(i), ADMIN)) =>
      ADMIN_BITS \subseteq EffectiveForIdentity(t, i)

\* An entry that somebody with ACL_WRITER_ROLE asked for, word for word.
WritersOwn(t, p, entry) ==
  /\ ClassificationOf(t) < CONFIDENTIAL
  /\ \E c \in AccessCalls.setAce : c.token = t /\ c.principal = p /\ entry = AceOf(c)

\* "Old owner's ACE is removed, new owner receives the owner default"
\* (AssetNFT.sol:178): an identity's entry with the system's stamp is the
\* owner's, or, where entries are written directly, an ACL writer's own that
\* says so.  On a classified asset it is always the owner's.
SeededAceIsOwners ==
  \A t \in Token, i \in Id :
    LET entry == aces[t][IdentityPrincipal(i)] IN
      entry.grantedBy = SYSTEM =>
        assets[t].owner = i \/ WritersOwn(t, IdentityPrincipal(i), entry)

\* An owner without an entry was revoked one explicitly: no sequence of
\* transfers, to the owner itself included, takes it away.
OwnerHasEntry ==
  \A t \in Token :
    Exists(t) =>
      LET owner == IdentityPrincipal(assets[t].owner)
      IN aces[t][owner].written \/ [token |-> t, principal |-> owner] \in AccessCalls.revokeAce

\* Nothing is granted behind the listing's back: principalsAt shows every
\* principal that has an entry.
EveryEntryIsListed ==
  \A t \in Token, p \in Principal : aces[t][p].written => p \in principalsAt[t]

\* Re-shares get shallower: where nobody writes or votes an entry deeper than
\* one, only the entry of an owner can be re-shared twice.
DelegationGetsShallower ==
  (\A c \in AccessCalls.setAce \cup ExecutorCalls.grant : c.depth <= 1) =>
    \A t \in Token, p \in Principal :
      aces[t][p].grantedBy # SYSTEM => aces[t][p].depth <= 1

-----------------------------------------------------------------------------
(***************************************************************************)
(* What the documentation says and the code does not do.                   *)
(***************************************************************************)

\* "The old key stops authenticating everywhere in ArgusChain immediately"
\* (EthereumDIDRegistry.sol:34-36): only the key that controls an identity now
\* has that identity's permissions.
OldKeyIsOut ==
  \A t \in Token, a \in Address :
    Effective(t, a) # {} => ControllerOf(byController[a]) = a
=============================================================================
