----------------------------- MODULE AssetNFT_proofs -----------------------------
(***************************************************************************)
(* Theorems about the assets layer, identities and access entries          *)
(* included, for every deployment, every bound and every executor.         *)
(***************************************************************************)
EXTENDS AssetNFT, ArgusIdentity_proofs

AssetsInv == IdentityInv /\ AssetTypeOK

\* An owner that qualifies was issued: address(0) of the identities, id 0, is
\* never active.
LEMMA QualifiedIsIssued ==
  ASSUME IdentityInv, NEW i \in AnyId, NEW tier, Qualifies(i, tier)
  PROVE  i \in Id
<1>1. identities[i].status = "ACTIVE"
  BY DEF Qualifies, IsActive
<1>2. i # 0
  BY <1>1 DEF IdentityInv, IssuedShape, NoIdentity, Id
<1> QED BY <1>2, MaxIdAssumption DEF Id, AnyId

LEMMA PrincipalsTyped ==
  /\ \A i \in Id : IdentityPrincipal(i) \in Principal
  /\ \A r \in Role : RolePrincipal(r) \in Principal
  /\ ADMIN \in Role
  BY DEF Principal, ADMIN, Role, SECURITY_OFFICER

LEMMA BitsTyped ==
  OWNER_BITS \subseteq Permission /\ ADMIN_BITS \subseteq Permission
  BY DEF OWNER_BITS, ADMIN_BITS, Permission

LEMMA NoAceTyped == NoAce \in Ace
<1>1. 0 \in AnyId
  BY MaxIdAssumption DEF AnyId
<1> QED BY <1>1 DEF NoAce, Ace

LEMMA WrittenTyped ==
  ASSUME NEW allow \in SUBSET Permission, NEW deny \in SUBSET Permission,
         NEW notBefore \in Nat, NEW expiresAt \in Nat, NEW depth \in Nat,
         NEW grantedBy \in AnyId \cup {SYSTEM}
  PROVE  Written(allow, deny, notBefore, expiresAt, depth, grantedBy) \in Ace
  BY DEF Written, Ace

LEMMA SeededAceTyped ==
  SeededAce(OWNER_BITS) \in Ace /\ SeededAce(ADMIN_BITS) \in Ace
  BY BitsTyped, WrittenTyped DEF SeededAce

\* An entry of the right type keeps the tables of entries typed.
LEMMA WriteAceType ==
  ASSUME AssetTypeOK, NEW t \in Token, NEW p \in Principal, NEW ace \in Ace,
         WriteAce(t, p, ace)
  PROVE  /\ aces' \in [Token -> [Principal -> Ace]]
         /\ principalsAt' \in [Token -> SUBSET Principal]
  BY DEF AssetTypeOK, AccessTypeOK, WriteAce, List

\* A grant with typed arguments, whoever asks for it.
LEMMA ExecuteGrantType ==
  ASSUME IdentityInv, AssetTypeOK, NEW t \in Token, NEW p \in Principal,
         NEW allow \in SUBSET Permission, NEW deny \in SUBSET Permission,
         NEW expiresAt \in Nat, NEW depth \in Nat, NEW proposer \in AnyId,
         ExecuteGrant(t, p, allow, deny, expiresAt, depth, proposer),
         UNCHANGED assetVars
  PROVE  AssetTypeOK'
<1>1. now \in Nat
  BY MaxTimeAssumption DEF IdentityInv, IdentityTypeOK
<1>2. Written(allow, deny, now, expiresAt, depth, proposer) \in Ace
  BY <1>1, WrittenTyped
<1> QED BY <1>2, WriteAceType DEF ExecuteGrant, AssetTypeOK, AccessTypeOK, assetVars

LEMMA MintAssetType ==
  ASSUME IdentityInv, AssetTypeOK, NEW c, c.to \in AnyId, c.hash \in Hash,
         c.classification \in Tier, MintAsset(c)
  PROVE  AssetTypeOK'
<1>1. c.to \in Id
  BY QualifiedIsIssued DEF MintAsset
<1>2. MintedAsset(c) \in Asset
  BY DEF MintedAsset, Asset
<1>3. nextToken \in Token /\ nextToken \in 0 .. MaxToken /\ nextToken + 1 \in 1 .. MaxToken + 1
  BY MaxTokenAssumption DEF MintAsset, Token
<1>4. /\ assets' = [assets EXCEPT ![nextToken] = MintedAsset(c)]
      /\ tokenOfHash' = [tokenOfHash EXCEPT ![c.hash] = nextToken]
      /\ nextToken' = nextToken + 1
      /\ aces' = [aces EXCEPT
           ![nextToken][IdentityPrincipal(c.to)] = SeededAce(OWNER_BITS),
           ![nextToken][RolePrincipal(ADMIN)]    = SeededAce(ADMIN_BITS)]
      /\ principalsAt' = [[principalsAt
           EXCEPT ![nextToken] = @ \cup {IdentityPrincipal(c.to)}]
           EXCEPT ![nextToken] = @ \cup {RolePrincipal(ADMIN)}]
  BY DEF MintAsset, List
<1>5. /\ assets' \in [Token -> Asset]
      /\ tokenOfHash' \in [Hash -> 0 .. MaxToken]
      /\ nextToken' \in 1 .. MaxToken + 1
  BY <1>2, <1>3, <1>4 DEF AssetTypeOK, AccessTypeOK
<1>6. aces' \in [Token -> [Principal -> Ace]]
  BY <1>4, SeededAceTyped DEF AssetTypeOK, AccessTypeOK
<1>7. principalsAt' \in [Token -> SUBSET Principal]
  BY <1>1, <1>3, <1>4, PrincipalsTyped DEF AssetTypeOK, AccessTypeOK
<1> QED BY <1>5, <1>6, <1>7 DEF AssetTypeOK, AccessTypeOK

LEMMA DoTransferType ==
  ASSUME IdentityInv, AssetTypeOK, NEW c, c.token \in Token, c.to \in AnyId,
         DoTransfer(c)
  PROVE  AssetTypeOK'
<1> DEFINE oldOwner == IdentityPrincipal(assets[c.token].owner)
           newOwner == IdentityPrincipal(c.to)
           revoked  == [aces EXCEPT ![c.token][oldOwner] = NoAce]
<1>1. newOwner \in Principal
  BY QualifiedIsIssued, PrincipalsTyped DEF DoTransfer
<1>2. assets' \in [Token -> Asset]
  BY DEF DoTransfer, AssetTypeOK, AccessTypeOK, Asset
<1>3. /\ aces' = [revoked EXCEPT ![c.token][newOwner] = SeededAce(OWNER_BITS)]
      /\ principalsAt' = IF revoked[c.token][newOwner].written THEN principalsAt
                         ELSE List(principalsAt, c.token, newOwner)
      /\ UNCHANGED <<tokenOfHash, nextToken>>
  BY DEF DoTransfer
<1> HIDE DEF oldOwner, newOwner
<1>4. revoked \in [Token -> [Principal -> Ace]]
  BY NoAceTyped DEF AssetTypeOK, AccessTypeOK
<1> HIDE DEF revoked
<1>5. aces' \in [Token -> [Principal -> Ace]]
  BY <1>3, <1>4, SeededAceTyped
<1>6. principalsAt' \in [Token -> SUBSET Principal]
  BY <1>1, <1>3 DEF List, AssetTypeOK, AccessTypeOK
<1> QED BY <1>2, <1>3, <1>5, <1>6 DEF AssetTypeOK, AccessTypeOK

-----------------------------------------------------------------------------
\* The layer's steps with an executor that may do anything with typed
\* arguments, an owner that was never issued included.
AnyMint ==
  /\ \E c : c.to \in AnyId /\ c.hash \in Hash /\ c.classification \in Tier /\ MintAsset(c)
  /\ UNCHANGED identityVars

AnyTransfer ==
  /\ \E c : c.token \in Token /\ c.to \in AnyId /\ DoTransfer(c)
  /\ UNCHANGED identityVars

AnyGrant ==
  /\ \E t \in Token, p \in Principal, allow, deny \in SUBSET Permission,
        expiresAt, depth \in Nat, proposer \in AnyId :
       ExecuteGrant(t, p, allow, deny, expiresAt, depth, proposer)
  /\ UNCHANGED <<identityVars, assetVars>>

AnyAssetsStep ==
  \/ AnyIdentityStep /\ UNCHANGED <<assetVars, accessVars>>
  \/ AccessStep
  \/ AssetStep
  \/ AnyMint
  \/ AnyTransfer
  \/ AnyGrant

LEMMA AssetsNextIsAnyStep == AssetsNext => AnyAssetsStep
<1> SUFFICES ASSUME AssetsNext PROVE AnyAssetsStep
  OBVIOUS
<1>0. Id \subseteq AnyId
  BY MaxIdAssumption DEF Id, AnyId
<1>1. CASE AssetsDirect
  BY <1>1 DEF AssetsDirect, AnyAssetsStep, AnyIdentityStep
<1>2. CASE ExecutorStep /\ UNCHANGED <<assetVars, accessVars>>
  BY <1>2, IdentityNextIsAnyStep DEF IdentityNext, AnyAssetsStep
<1>3. CASE /\ \/ \E c \in ExecutorCalls.mint : MintAsset(c)
              \/ \E c \in ExecutorCalls.transfer : DoTransfer(c)
           /\ UNCHANGED identityVars
  <2>1. CASE \E c \in ExecutorCalls.mint : MintAsset(c)
    <3>1. PICK c \in ExecutorCalls.mint : MintAsset(c)
      BY <2>1
    <3>2. c.to \in AnyId /\ c.hash \in Hash /\ c.classification \in Tier
      BY <1>0, AssetCallsAssumption DEF MintCall
    <3> QED BY <3>1, <3>2, <1>3 DEF AnyMint, AnyAssetsStep
  <2>2. CASE \E c \in ExecutorCalls.transfer : DoTransfer(c)
    <3>1. PICK c \in ExecutorCalls.transfer : DoTransfer(c)
      BY <2>2
    <3>2. c.token \in Token /\ c.to \in AnyId
      BY <1>0, AssetCallsAssumption
    <3> QED BY <3>1, <3>2, <1>3 DEF AnyTransfer, AnyAssetsStep
  <2> QED BY <1>3, <2>1, <2>2
<1>4. CASE /\ \E c \in ExecutorCalls.grant :
                ExecuteGrant(c.token, c.principal, c.allow, c.deny, c.expiresAt,
                             c.depth, c.proposer)
           /\ UNCHANGED <<identityVars, assetVars>>
  <2>1. PICK c \in ExecutorCalls.grant :
          ExecuteGrant(c.token, c.principal, c.allow, c.deny, c.expiresAt, c.depth, c.proposer)
    BY <1>4
  <2>2. /\ c.token \in Token /\ c.principal \in Principal /\ c.allow \in SUBSET Permission
        /\ c.deny \in SUBSET Permission /\ c.expiresAt \in Nat /\ c.depth \in Nat
        /\ c.proposer \in AnyId
    BY <1>0, AssetCallsAssumption
  <2> QED BY <2>1, <2>2, <1>4 DEF AnyGrant, AnyAssetsStep
<1> QED BY <1>1, <1>2, <1>3, <1>4 DEF AssetsNext, AssetsExecutorStep

LEMMA AccessStepType ==
  ASSUME IdentityInv, AssetTypeOK, AccessStep
  PROVE  AssetTypeOK'
<1>1. PICK sender \in Address :
        \/ \E c \in AccessCalls.setAce : SetAce(sender, c)
        \/ \E c \in AccessCalls.delegate : Delegate(sender, c)
        \/ \E c \in AccessCalls.revokeAce : RevokeAce(sender, c)
  BY DEF AccessStep
<1>2. UNCHANGED assetVars
  BY DEF AccessStep
<1>3. /\ aces' \in [Token -> [Principal -> Ace]]
      /\ principalsAt' \in [Token -> SUBSET Principal]
  <2>1. CASE \E c \in AccessCalls.setAce : SetAce(sender, c)
    <3>1. PICK c \in AccessCalls.setAce : SetAce(sender, c)
      BY <2>1
    <3>2. c.token \in Token /\ c.principal \in Principal
      BY AccessCallsAssumption
    <3>3. AceOf(c) \in Ace
      BY AccessCallsAssumption, WrittenTyped DEF AceOf
    <3> QED BY <3>1, <3>2, <3>3, WriteAceType DEF SetAce
  <2>2. CASE \E c \in AccessCalls.delegate : Delegate(sender, c)
    <3>1. PICK c \in AccessCalls.delegate : Delegate(sender, c)
      BY <2>2
    <3>2. /\ c.token \in Token /\ c.to \in Principal
          /\ c.allow \in SUBSET Permission /\ c.expiresAt \in Nat
      BY AccessCallsAssumption
    <3> DEFINE me   == byController[sender]
               mine == IdentityPrincipal(me)
               left == DelegationDepthOf(c.token, mine) - 1
    <3>3. me \in AnyId /\ now \in Nat
      BY MaxTimeAssumption DEF IdentityInv, IdentityTypeOK
    <3>4. mine \in Principal
      BY <3>1, <3>3, QualifiedIsIssued, PrincipalsTyped DEF Delegate, Qualifies, IsActive,
         IdentityInv, IssuedShape, NoIdentity, Id, AnyId
    <3>5. left \in Nat
      <4>1. aces[c.token][mine].depth \in Nat
        BY <3>2, <3>4 DEF AssetTypeOK, AccessTypeOK, Ace
      <4> QED BY <3>1, <4>1 DEF Delegate, DelegationDepthOf
    <3> HIDE DEF left
    <3>6. Written(c.allow, {}, now, c.expiresAt, left, me) \in Ace
      BY <3>2, <3>3, <3>5, WrittenTyped
    <3>7. WriteAce(c.token, c.to, Written(c.allow, {}, now, c.expiresAt, left, me))
      BY <3>1 DEF Delegate, left
    <3> QED BY <3>2, <3>6, <3>7, WriteAceType
  <2>3. CASE \E c \in AccessCalls.revokeAce : RevokeAce(sender, c)
    BY <2>3, AccessCallsAssumption, NoAceTyped DEF RevokeAce, AssetTypeOK, AccessTypeOK
  <2> QED BY <1>1, <2>1, <2>2, <2>3
<1> QED BY <1>2, <1>3 DEF assetVars, AssetTypeOK, AccessTypeOK

LEMMA AssetStepType ==
  ASSUME IdentityInv, AssetTypeOK, AssetStep
  PROVE  AssetTypeOK'
<1>0. Id \subseteq AnyId
  BY MaxIdAssumption DEF Id, AnyId
<1>1. PICK sender \in Address :
        \/ \E c \in AccessCalls.mint : Mint(sender, c)
        \/ \E c \in AccessCalls.transfer : ControlledTransfer(sender, c)
        \/ \E c \in AccessCalls.updateContent : UpdateContent(sender, c)
  BY DEF AssetStep
<1>2. CASE \E c \in AccessCalls.mint : Mint(sender, c)
  <2>1. PICK c \in AccessCalls.mint : MintAsset(c)
    BY <1>2 DEF Mint
  <2>2. c.to \in AnyId /\ c.hash \in Hash /\ c.classification \in Tier
    BY <1>0, AssetCallsAssumption DEF MintCall
  <2> QED BY <2>1, <2>2, MintAssetType
<1>3. CASE \E c \in AccessCalls.transfer : ControlledTransfer(sender, c)
  <2>1. PICK c \in AccessCalls.transfer : DoTransfer(c)
    BY <1>3 DEF ControlledTransfer
  <2>2. c.token \in Token /\ c.to \in AnyId
    BY <1>0, AssetCallsAssumption
  <2> QED BY <2>1, <2>2, DoTransferType
<1>4. CASE \E c \in AccessCalls.updateContent : UpdateContent(sender, c)
  <2>1. PICK c \in AccessCalls.updateContent : UpdateContent(sender, c)
    BY <1>4
  <2>2. c.token \in Token /\ c.hash \in Hash /\ c.token \in 0 .. MaxToken /\ 0 \in 0 .. MaxToken
    BY AssetCallsAssumption, MaxTokenAssumption DEF Token
  <2>3. tokenOfHash' \in [Hash -> 0 .. MaxToken]
    BY <2>1, <2>2 DEF UpdateContent, AssetTypeOK
  <2>4. assets' \in [Token -> Asset]
    BY <2>1, <2>2 DEF UpdateContent, AssetTypeOK, AccessTypeOK, Asset
  <2> QED BY <2>1, <2>3, <2>4 DEF UpdateContent, accessVars, AssetTypeOK, AccessTypeOK
<1> QED BY <1>1, <1>2, <1>3, <1>4

LEMMA AssetsInvStep ==
  ASSUME AssetsInv, AnyAssetsStep \/ UNCHANGED assetsVars
  PROVE  AssetsInv'
<1> USE DEF AssetsInv
<1>1. CASE AnyIdentityStep /\ UNCHANGED <<assetVars, accessVars>>
  BY <1>1, IdentityInvStep DEF assetVars, accessVars, AssetTypeOK, AccessTypeOK
<1>2. CASE AccessStep
  BY <1>2, IdentityInvStep, AccessStepType DEF AccessStep
<1>3. CASE AssetStep
  BY <1>3, IdentityInvStep, AssetStepType DEF AssetStep
<1>4. CASE AnyMint
  BY <1>4, IdentityInvStep, MintAssetType DEF AnyMint
<1>5. CASE AnyTransfer
  BY <1>5, IdentityInvStep, DoTransferType DEF AnyTransfer
<1>6. CASE AnyGrant
  BY <1>6, IdentityInvStep, ExecuteGrantType DEF AnyGrant
<1>7. CASE UNCHANGED assetsVars
  BY <1>7, IdentityInvStep DEF assetsVars, assetVars, accessVars, AssetTypeOK, AccessTypeOK
<1> QED BY <1>1, <1>2, <1>3, <1>4, <1>5, <1>6, <1>7 DEF AnyAssetsStep

-----------------------------------------------------------------------------
\* The seeded assets, one by one.
LEMMA SeededTyped ==
  /\ Len(SeededAssets) \in Nat /\ Len(SeededAssets) <= MaxToken
  /\ \A t \in 1 .. Len(SeededAssets) :
       /\ t \in Token
       /\ SeededAssets[t] \in MintCall
       /\ MintedAsset(SeededAssets[t]) \in Asset
       /\ IdentityPrincipal(SeededAssets[t].to) \in Principal
<1>1. /\ SeededAssets \in Seq(MintCall) /\ Len(SeededAssets) <= MaxToken
      /\ Len(SeededAssets) \in Nat
  BY SeededAssetsAssumption
<1> SUFFICES ASSUME NEW t \in 1 .. Len(SeededAssets)
             PROVE  /\ t \in Token
                    /\ SeededAssets[t] \in MintCall
                    /\ MintedAsset(SeededAssets[t]) \in Asset
                    /\ IdentityPrincipal(SeededAssets[t].to) \in Principal
  BY <1>1
<1>2. t \in Token
  BY <1>1, MaxTokenAssumption DEF Token
<1>3. SeededAssets[t] \in MintCall
  BY <1>1
<1>4. SeededAssets[t].to \in Id /\ SeededAssets[t].hash \in Hash
      /\ SeededAssets[t].classification \in Tier
  BY <1>3 DEF MintCall
<1>5. SeededAssets[t].to \in AnyId
  BY <1>4, MaxIdAssumption DEF Id, AnyId
<1> QED BY <1>2, <1>3, <1>4, <1>5, PrincipalsTyped DEF MintedAsset, Asset

LEMMA AssetsTypeInit == AssetsInit => AssetsInv
<1> SUFFICES ASSUME AssetsInit PROVE AssetsInv
  OBVIOUS
<1>1. IdentityInv
  BY TypeInit DEF AssetsInit
<1>2. assets \in [Token -> Asset]
  <2> DEFINE blank == [minted |-> FALSE, contentHash |-> NoHash, classification |-> PUBLIC,
                       owner |-> 0, mintedHash |-> NoHash]
  <2>1. blank \in Asset
    BY MaxIdAssumption DEF Asset, AnyId, PUBLIC, Tier, TOP_SECRET
  <2>2. assets = [t \in Token |-> IF SeededAsset(t) THEN MintedAsset(SeededAssets[t]) ELSE blank]
    BY DEF AssetsInit
  <2> HIDE DEF blank
  <2> QED BY <2>1, <2>2, SeededTyped DEF SeededAsset
<1>3. tokenOfHash \in [Hash -> 0 .. MaxToken]
  <2> SUFFICES ASSUME NEW h \in Hash
               PROVE  (IF \E t \in 1 .. Len(SeededAssets) : SeededAssets[t].hash = h
                       THEN CHOOSE t \in 1 .. Len(SeededAssets) : SeededAssets[t].hash = h
                       ELSE 0) \in 0 .. MaxToken
    BY DEF AssetsInit
  <2> QED BY SeededTyped, MaxTokenAssumption
<1>4. nextToken \in 1 .. MaxToken + 1
  BY SeededTyped, MaxTokenAssumption DEF AssetsInit
<1>5. aces \in [Token -> [Principal -> Ace]]
  BY SeededAceTyped, NoAceTyped DEF AssetsInit
<1>6. principalsAt \in [Token -> SUBSET Principal]
  BY DEF AssetsInit
<1> QED BY <1>1, <1>2, <1>3, <1>4, <1>5, <1>6 DEF AssetsInv, AssetTypeOK, AccessTypeOK

LEMMA AssetsInvHolds == AssetsSpec => []AssetsInv
<1>1. AssetsInit => AssetsInv
  BY AssetsTypeInit
<1>2. AssetsInv /\ [AssetsNext]_assetsVars => AssetsInv'
  BY AssetsInvStep, AssetsNextIsAnyStep
<1> QED BY <1>1, <1>2, PTL DEF AssetsSpec

\* The tables of assets and of entries are always well typed: nothing is entered
\* for identity 0, for an unknown principal or past the depth of a delegator.
THEOREM AssetsTypeCorrect == AssetsSpec => []AssetsTypeOK
<1>1. AssetsInv => AssetsTypeOK
  BY DEF AssetsInv, IdentityInv, AssetsTypeOK
<1> QED BY <1>1, AssetsInvHolds, PTL

-----------------------------------------------------------------------------
\* What makes HashIndexExact inductive: a token id that was not given out yet
\* has no asset, so a mint cannot take a hash away from one.
FreshTokens == \A t \in Token : assets[t].minted => t < nextToken

HashInv == FreshTokens /\ HashIndexExact

LEMMA HashInit == AssetsInit => HashInv
<1> SUFFICES ASSUME AssetsInit PROVE HashInv
  OBVIOUS
<1>1. \A t \in Token :
        /\ assets[t].minted <=> SeededAsset(t)
        /\ SeededAsset(t) => assets[t].contentHash = SeededAssets[t].hash
  BY DEF AssetsInit, MintedAsset
<1>2. FreshTokens
  BY <1>1, SeededTyped DEF AssetsInit, FreshTokens, SeededAsset
<1>3. \A h \in Hash, t \in 1 .. Len(SeededAssets) :
        SeededAssets[t].hash = h => tokenOfHash[h] = t
  <2> SUFFICES ASSUME NEW h \in Hash, NEW t \in 1 .. Len(SeededAssets), SeededAssets[t].hash = h
               PROVE  tokenOfHash[h] = t
    OBVIOUS
  <2>1. tokenOfHash[h] = CHOOSE k \in 1 .. Len(SeededAssets) : SeededAssets[k].hash = h
    BY DEF AssetsInit
  <2>2. \A k \in 1 .. Len(SeededAssets) : SeededAssets[k].hash = h => k = t
    BY SeededAssetsAssumption
  <2> QED BY <2>1, <2>2
<1>4. \A h \in Hash : tokenOfHash[h] # 0 =>
        \E t \in 1 .. Len(SeededAssets) : SeededAssets[t].hash = h
  BY DEF AssetsInit
<1>5. \A t \in Token : SeededAsset(t) => SeededAssets[t].hash \in Hash
  BY SeededTyped DEF SeededAsset, MintCall
<1> QED BY <1>1, <1>2, <1>3, <1>4, <1>5, SeededTyped DEF HashInv, HashIndexExact, SeededAsset

LEMMA MintAssetHash ==
  ASSUME AssetTypeOK, HashInv, NEW c, c.hash \in Hash, MintAsset(c)
  PROVE  HashInv'
<1>1. nextToken \in Token /\ nextToken \in Nat /\ nextToken # 0
  BY MaxTokenAssumption DEF MintAsset, Token
<1>2. /\ tokenOfHash[c.hash] = 0
      /\ assets' = [assets EXCEPT ![nextToken] = MintedAsset(c)]
      /\ tokenOfHash' = [tokenOfHash EXCEPT ![c.hash] = nextToken]
      /\ nextToken' = nextToken + 1
  BY DEF MintAsset
<1>3. MintedAsset(c).minted /\ MintedAsset(c).contentHash = c.hash
  BY DEF MintedAsset
<1>4. ~assets[nextToken].minted
  BY <1>1 DEF HashInv, FreshTokens
<1>5. FreshTokens'
  BY <1>1, <1>2 DEF HashInv, FreshTokens, Token, AssetTypeOK
<1>6. \A h \in Hash : tokenOfHash[h] # 0 => tokenOfHash[h] \in Token
  BY MaxTokenAssumption DEF AssetTypeOK, Token
<1>7. \A t \in Token :
        assets'[t] = IF t = nextToken THEN MintedAsset(c) ELSE assets[t]
  BY <1>2 DEF AssetTypeOK, AccessTypeOK
<1>8. \A h \in Hash : tokenOfHash'[h] = IF h = c.hash THEN nextToken ELSE tokenOfHash[h]
  BY <1>2 DEF AssetTypeOK
<1>9. HashIndexExact'
  <2>1. ASSUME NEW h \in Hash, tokenOfHash'[h] # 0
        PROVE  assets'[tokenOfHash'[h]].minted /\ assets'[tokenOfHash'[h]].contentHash = h
    <3>1. CASE h = c.hash
      BY <3>1, <1>1, <1>3, <1>7, <1>8
    <3>2. CASE h # c.hash
      <4>1. /\ tokenOfHash'[h] = tokenOfHash[h] /\ tokenOfHash[h] \in Token
            /\ assets[tokenOfHash[h]].minted /\ assets[tokenOfHash[h]].contentHash = h
        BY <2>1, <3>2, <1>6, <1>8 DEF HashInv, HashIndexExact
      <4> QED BY <4>1, <1>4, <1>7
    <3> QED BY <3>1, <3>2
  <2>2. ASSUME NEW t \in Token, assets'[t].minted
        PROVE  assets'[t].contentHash \in Hash /\ tokenOfHash'[assets'[t].contentHash] = t
    <3>1. CASE t = nextToken
      BY <3>1, <1>3, <1>7, <1>8
    <3>2. CASE t # nextToken
      <4>1. /\ assets'[t] = assets[t]
            /\ assets[t].contentHash \in Hash /\ tokenOfHash[assets[t].contentHash] = t
        BY <2>2, <3>2, <1>7 DEF HashInv, HashIndexExact
      <4>2. assets[t].contentHash # c.hash
        BY <4>1, <1>2 DEF Token
      <4> QED BY <4>1, <4>2, <1>8
    <3> QED BY <3>1, <3>2
  <2> QED BY <2>1, <2>2 DEF HashIndexExact
<1> QED BY <1>5, <1>9 DEF HashInv

LEMMA DoTransferHash ==
  ASSUME AssetTypeOK, HashInv, NEW c, c.token \in Token, DoTransfer(c)
  PROVE  HashInv'
<1>1. /\ \A t \in Token : /\ assets'[t].minted = assets[t].minted
                          /\ assets'[t].contentHash = assets[t].contentHash
      /\ UNCHANGED <<tokenOfHash, nextToken>>
  BY DEF DoTransfer, AssetTypeOK, AccessTypeOK, Asset
<1>2. \A h \in Hash : tokenOfHash[h] # 0 => tokenOfHash[h] \in Token
  BY MaxTokenAssumption DEF AssetTypeOK, Token
<1> QED BY <1>1, <1>2 DEF HashInv, FreshTokens, HashIndexExact

LEMMA UpdateContentHash ==
  ASSUME AssetTypeOK, HashInv, NEW c, c.token \in Token, c.hash \in Hash,
         NEW sender, UpdateContent(sender, c)
  PROVE  HashInv'
<1> DEFINE old == assets[c.token].contentHash
<1>1. /\ assets[c.token].minted
      /\ tokenOfHash[c.hash] = 0
      /\ tokenOfHash' = [tokenOfHash EXCEPT ![old] = 0, ![c.hash] = c.token]
      /\ assets' = [assets EXCEPT ![c.token].contentHash = c.hash]
      /\ nextToken' = nextToken
  BY DEF UpdateContent, Exists
<1>2. old \in Hash /\ tokenOfHash[old] = c.token /\ c.token # 0
  BY <1>1 DEF HashInv, HashIndexExact, Token
<1>3. \A t \in Token :
        /\ assets'[t].minted = assets[t].minted
        /\ assets'[t].contentHash = IF t = c.token THEN c.hash ELSE assets[t].contentHash
  BY <1>1 DEF AssetTypeOK, AccessTypeOK, Asset
<1>4. \A h \in Hash :
        tokenOfHash'[h] = IF h = c.hash THEN c.token ELSE IF h = old THEN 0 ELSE tokenOfHash[h]
  BY <1>1 DEF AssetTypeOK
<1> HIDE DEF old
<1>5. \A h \in Hash : tokenOfHash[h] # 0 => tokenOfHash[h] \in Token
  BY MaxTokenAssumption DEF AssetTypeOK, Token
<1>6. FreshTokens'
  BY <1>1, <1>3 DEF HashInv, FreshTokens
<1>7. HashIndexExact'
  <2>1. ASSUME NEW h \in Hash, tokenOfHash'[h] # 0
        PROVE  assets'[tokenOfHash'[h]].minted /\ assets'[tokenOfHash'[h]].contentHash = h
    <3>1. CASE h = c.hash
      <4>1. tokenOfHash'[h] = c.token
        BY <3>1, <1>4
      <4>2. assets'[c.token].minted /\ assets'[c.token].contentHash = c.hash
        BY <1>1, <1>3
      <4> QED BY <4>1, <4>2, <3>1
    <3>2. CASE h # c.hash
      <4>1. /\ h # old /\ tokenOfHash'[h] = tokenOfHash[h] /\ tokenOfHash[h] \in Token
            /\ assets[tokenOfHash[h]].minted /\ assets[tokenOfHash[h]].contentHash = h
        BY <2>1, <3>2, <1>4, <1>5 DEF HashInv, HashIndexExact
      <4>2. tokenOfHash[h] # c.token
        BY <4>1 DEF old
      <4> QED BY <4>1, <4>2, <1>3
    <3> QED BY <3>1, <3>2
  <2>2. ASSUME NEW t \in Token, assets'[t].minted
        PROVE  assets'[t].contentHash \in Hash /\ tokenOfHash'[assets'[t].contentHash] = t
    <3>1. CASE t = c.token
      BY <3>1, <1>3, <1>4
    <3>2. CASE t # c.token
      <4>1. /\ assets'[t].contentHash = assets[t].contentHash
            /\ assets[t].contentHash \in Hash /\ tokenOfHash[assets[t].contentHash] = t
        BY <2>2, <3>2, <1>3 DEF HashInv, HashIndexExact
      <4>2. assets[t].contentHash # c.hash
        BY <4>1, <1>1 DEF Token
      <4>3. assets[t].contentHash # old
        BY <4>1, <3>2, <1>2
      <4> QED BY <4>1, <4>2, <4>3, <1>4
    <3> QED BY <3>1, <3>2
  <2> QED BY <2>1, <2>2 DEF HashIndexExact
<1> QED BY <1>6, <1>7 DEF HashInv

LEMMA HashInvStep ==
  ASSUME AssetsInv, HashInv, AnyAssetsStep \/ UNCHANGED assetsVars
  PROVE  HashInv'
<1>t. AssetTypeOK
  BY DEF AssetsInv
<1>1. CASE UNCHANGED assetVars
  BY <1>1 DEF assetVars, HashInv, FreshTokens, HashIndexExact
<1>2. CASE AssetStep
  <2>1. PICK sender \in Address :
          \/ \E c \in AccessCalls.mint : Mint(sender, c)
          \/ \E c \in AccessCalls.transfer : ControlledTransfer(sender, c)
          \/ \E c \in AccessCalls.updateContent : UpdateContent(sender, c)
    BY <1>2 DEF AssetStep
  <2>2. CASE \E c \in AccessCalls.mint : Mint(sender, c)
    <3>1. PICK c \in AccessCalls.mint : MintAsset(c)
      BY <2>2 DEF Mint
    <3>2. c.hash \in Hash
      BY AssetCallsAssumption DEF MintCall
    <3> QED BY <1>t, <3>1, <3>2, MintAssetHash
  <2>3. CASE \E c \in AccessCalls.transfer : ControlledTransfer(sender, c)
    <3>1. PICK c \in AccessCalls.transfer : DoTransfer(c)
      BY <2>3 DEF ControlledTransfer
    <3>2. c.token \in Token
      BY AssetCallsAssumption
    <3> QED BY <1>t, <3>1, <3>2, DoTransferHash
  <2>4. CASE \E c \in AccessCalls.updateContent : UpdateContent(sender, c)
    <3>1. PICK c \in AccessCalls.updateContent : UpdateContent(sender, c)
      BY <2>4
    <3>2. c.token \in Token /\ c.hash \in Hash
      BY AssetCallsAssumption
    <3> QED BY <1>t, <3>1, <3>2, UpdateContentHash
  <2> QED BY <2>1, <2>2, <2>3, <2>4
<1>3. CASE AnyMint
  BY <1>t, <1>3, MintAssetHash DEF AnyMint
<1>4. CASE AnyTransfer
  BY <1>t, <1>4, DoTransferHash DEF AnyTransfer
<1> QED
  BY <1>1, <1>2, <1>3, <1>4 DEF AnyAssetsStep, AccessStep, AnyGrant, assetsVars

\* Whatever is minted, transferred, rewritten and rewritten back, a content
\* hash leads to the one asset that has that content and to no other.
THEOREM HashIndexExactHolds == AssetsSpec => []HashIndexExact
<1> DEFINE Inv == AssetsInv /\ HashInv
<1>1. AssetsInit => Inv
  BY AssetsTypeInit, HashInit
<1>2. Inv /\ [AssetsNext]_assetsVars => Inv'
  BY AssetsInvStep, HashInvStep, AssetsNextIsAnyStep
<1>3. Inv => HashIndexExact
  BY DEF HashInv
<1> QED BY <1>1, <1>2, <1>3, PTL DEF AssetsSpec

-----------------------------------------------------------------------------
\* The clearance gate lets through nothing but P_LIST one level short, and
\* nothing at all further down.
LEMMA GateStopsContent ==
  ASSUME NEW eff, NEW i, NEW t, ClearanceOf(i) \in Tier, ClassificationOf(t) \in Tier
  PROVE  LET gated == ApplyMandatoryAccessControl(eff, i, t) IN
           /\ gated \ {P_LIST} # {} => ClearanceOf(i) >= ClassificationOf(t)
           /\ gated # {} => ClearanceOf(i) + 1 >= ClassificationOf(t)
  BY DEF ApplyMandatoryAccessControl, Tier, PUBLIC, TOP_SECRET

\* The role rules add no content bit and leave none to the two barred roles;
\* who is neither Auditor nor Admin gains nothing from them.
LEMMA RoleRulesAddNoContent ==
  ASSUME NEW eff, NEW i
  PROVE  /\ ApplyRoleRules(eff, i) \cap CONTENT_BITS # {} =>
              /\ eff \ {P_LIST} # {}
              /\ ~HasRoleToken(ControllerOf(i), AUDITOR)
              /\ ~HasRoleToken(ControllerOf(i), SECURITY_OFFICER)
         /\ ~HasRoleToken(ControllerOf(i), AUDITOR) /\ ~HasRoleToken(ControllerOf(i), ADMIN) =>
              ApplyRoleRules(eff, i) \subseteq eff
  BY DEF ApplyRoleRules, CONTENT_BITS, ADMIN_BITS, P_LIST, P_READ_META, P_READ, P_DOWNLOAD,
         P_WRITE, P_ADMIN, P_AUDIT

\* Whatever the tables hold, the resolver answers with content only for an
\* active identity that is cleared and holds neither barred role, and tells who
\* is neither Auditor nor Admin nothing of what lies two levels above: the order
\* of its gates does not depend on what was written.
THEOREM ContentNeedsClearanceAndRoleHolds == AssetsSpec => []ContentNeedsClearanceAndRole
<1>1. AssetsInv => ContentNeedsClearanceAndRole
  <2> SUFFICES ASSUME AssetsInv, NEW t \in Token, NEW a \in Address, Effective(t, a) # {}
               PROVE  LET i        == byController[a]
                          mine     == Effective(t, a)
                          ordinary == /\ ~HasRoleToken(ControllerOf(i), AUDITOR)
                                      /\ ~HasRoleToken(ControllerOf(i), ADMIN)
                      IN /\ mine \cap CONTENT_BITS # {} =>
                              /\ IsActive(i)
                              /\ ClearanceOf(i) >= ClassificationOf(t)
                              /\ ~HasRoleToken(ControllerOf(i), AUDITOR)
                              /\ ~HasRoleToken(ControllerOf(i), SECURITY_OFFICER)
                         /\ ordinary /\ mine \ {P_LIST} # {} =>
                              ClearanceOf(i) >= ClassificationOf(t)
                         /\ ordinary /\ mine # {} => ClearanceOf(i) + 1 >= ClassificationOf(t)
    BY DEF ContentNeedsClearanceAndRole
  <2> DEFINE i     == byController[a]
             gated == ApplyMandatoryAccessControl(Discretionary(t, i), i, t)
  <2>1. IsActive(i) /\ Effective(t, a) = ApplyRoleRules(gated, i)
    BY DEF Effective, EffectiveForIdentity
  <2>2. ClearanceOf(i) \in Tier /\ ClassificationOf(t) \in Tier
    BY DEF AssetsInv, IdentityInv, IdentityTypeOK, AssetTypeOK, AccessTypeOK, Asset,
       ClearanceOf, ClassificationOf, Identity
  <2> HIDE DEF gated
  <2>3. /\ gated \ {P_LIST} # {} => ClearanceOf(i) >= ClassificationOf(t)
        /\ gated # {} => ClearanceOf(i) + 1 >= ClassificationOf(t)
    BY <2>2, GateStopsContent DEF gated
  <2> QED BY <2>1, <2>3, RoleRulesAddNoContent
<1> QED BY <1>1, AssetsInvHolds, PTL
-----------------------------------------------------------------------------
(***************************************************************************)
(* The entries.  What can happen to the tables in a step: an entry is      *)
(* written, an entry is revoked, or an asset is minted, handed on or       *)
(* rewritten.                                                              *)
(***************************************************************************)

\* Handed on by delegate: nothing is denied, and nobody hands on to themselves.
HandedOn(t, p, ace) ==
  \E c \in AccessCalls.delegate :
    /\ c.token = t /\ c.to = p /\ c.allow = ace.allow /\ ace.deny = {}
    /\ p # IdentityPrincipal(ace.grantedBy)

DirectWrite ==
  \E t \in Token, p \in Principal, ace \in Ace :
    /\ WriteAce(t, p, ace)
    /\ ace.written /\ (ace.grantedBy = SYSTEM => WritersOwn(t, p, ace))
    /\ Exists(t)
    /\ ClassificationOf(t) < CONFIDENTIAL \/ HandedOn(t, p, ace)

AnyRevoke ==
  \E t \in Token, p \in Principal :
    /\ [token |-> t, principal |-> p] \in AccessCalls.revokeAce
    /\ aces' = [aces EXCEPT ![t][p] = NoAce]
    /\ UNCHANGED principalsAt

AnyRewrite ==
  /\ \E t \in Token, h \in Hash : assets' = [assets EXCEPT ![t].contentHash = h]
  /\ UNCHANGED accessVars

LEMMA NobodyIsSystem == SYSTEM \notin AnyId /\ SYSTEM # 0
  BY SystemAssumption, MaxIdAssumption DEF AnyId

LEMMA AccessStepWrites ==
  ASSUME IdentityInv, AssetTypeOK, AccessStep
  PROVE  (DirectWrite \/ AnyRevoke) /\ UNCHANGED assetVars
<1>1. PICK sender \in Address :
        \/ \E c \in AccessCalls.setAce : SetAce(sender, c)
        \/ \E c \in AccessCalls.delegate : Delegate(sender, c)
        \/ \E c \in AccessCalls.revokeAce : RevokeAce(sender, c)
  BY DEF AccessStep
<1>2. CASE \E c \in AccessCalls.setAce : SetAce(sender, c)
  <2>1. PICK c \in AccessCalls.setAce : SetAce(sender, c)
    BY <1>2
  <2>2. c.token \in Token /\ c.principal \in Principal
    BY AccessCallsAssumption
  <2>3. AceOf(c) \in Ace
    BY AccessCallsAssumption, WrittenTyped DEF AceOf
  <2>4. AceOf(c).written
    BY DEF AceOf, Written
  <2>5. WritersOwn(c.token, c.principal, AceOf(c))
    BY <2>1 DEF SetAce, WritersOwn
  <2> QED BY <2>1, <2>2, <2>3, <2>4, <2>5 DEF SetAce, DirectWrite, AccessStep
<1>3. CASE \E c \in AccessCalls.delegate : Delegate(sender, c)
  <2>1. PICK c \in AccessCalls.delegate : Delegate(sender, c)
    BY <1>3
  <2> DEFINE me   == byController[sender]
             mine == IdentityPrincipal(me)
             left == DelegationDepthOf(c.token, mine) - 1
             ace  == Written(c.allow, {}, now, c.expiresAt, left, me)
  <2>2. /\ c.token \in Token /\ c.to \in Principal
        /\ c.allow \in SUBSET Permission /\ c.expiresAt \in Nat
    BY AccessCallsAssumption
  <2>3. me \in AnyId /\ now \in Nat
    BY MaxTimeAssumption DEF IdentityInv, IdentityTypeOK
  <2>4. mine \in Principal
    BY <2>1, <2>3, QualifiedIsIssued, PrincipalsTyped DEF Delegate, Qualifies, IsActive,
       IdentityInv, IssuedShape, NoIdentity, Id, AnyId
  <2>5. left \in Nat
    <3>1. aces[c.token][mine].depth \in Nat
      BY <2>2, <2>4 DEF AssetTypeOK, AccessTypeOK, Ace
    <3> QED BY <2>1, <3>1 DEF Delegate, DelegationDepthOf
  <2> HIDE DEF left
  <2>6. ace \in Ace
    BY <2>2, <2>3, <2>5, WrittenTyped
  <2>7. /\ ace.written /\ ace.grantedBy = me /\ ace.grantedBy # SYSTEM
        /\ ace.allow = c.allow /\ ace.deny = {}
    BY <2>3, NobodyIsSystem DEF Written
  <2> HIDE DEF ace
  <2>8. WriteAce(c.token, c.to, ace)
    BY <2>1 DEF Delegate, ace, left
  <2>9. Exists(c.token) /\ c.to # mine
    BY <2>1 DEF Delegate, EffectiveForIdentity
  <2>10. HandedOn(c.token, c.to, ace)
    BY <2>7, <2>9 DEF HandedOn
  <2> QED BY <2>2, <2>6, <2>7, <2>8, <2>9, <2>10 DEF DirectWrite, AccessStep
<1>4. CASE \E c \in AccessCalls.revokeAce : RevokeAce(sender, c)
  <2>1. PICK c \in AccessCalls.revokeAce : RevokeAce(sender, c)
    BY <1>4
  <2>2. /\ c.token \in Token /\ c.principal \in Principal
        /\ c = [token |-> c.token, principal |-> c.principal]
    BY AccessCallsAssumption
  <2> QED BY <2>1, <2>2 DEF RevokeAce, AnyRevoke, AccessStep
<1> QED BY <1>1, <1>2, <1>3, <1>4

LEMMA AssetStepWrites ==
  ASSUME AssetStep
  PROVE  AnyMint \/ AnyTransfer \/ AnyRewrite
<1>0. Id \subseteq AnyId
  BY MaxIdAssumption DEF Id, AnyId
<1>1. PICK sender \in Address :
        \/ \E c \in AccessCalls.mint : Mint(sender, c)
        \/ \E c \in AccessCalls.transfer : ControlledTransfer(sender, c)
        \/ \E c \in AccessCalls.updateContent : UpdateContent(sender, c)
  BY DEF AssetStep
<1>2. CASE \E c \in AccessCalls.mint : Mint(sender, c)
  <2>1. PICK c \in AccessCalls.mint : MintAsset(c)
    BY <1>2 DEF Mint
  <2>2. c.to \in AnyId /\ c.hash \in Hash /\ c.classification \in Tier
    BY <1>0, AssetCallsAssumption DEF MintCall
  <2> QED BY <2>1, <2>2 DEF AnyMint, AssetStep
<1>3. CASE \E c \in AccessCalls.transfer : ControlledTransfer(sender, c)
  <2>1. PICK c \in AccessCalls.transfer : DoTransfer(c)
    BY <1>3 DEF ControlledTransfer
  <2>2. c.token \in Token /\ c.to \in AnyId
    BY <1>0, AssetCallsAssumption
  <2> QED BY <2>1, <2>2 DEF AnyTransfer, AssetStep
<1>4. CASE \E c \in AccessCalls.updateContent : UpdateContent(sender, c)
  <2>1. PICK c \in AccessCalls.updateContent : UpdateContent(sender, c)
    BY <1>4
  <2>2. c.token \in Token /\ c.hash \in Hash
    BY AssetCallsAssumption
  <2> QED BY <2>1, <2>2 DEF UpdateContent, AnyRewrite
<1> QED BY <1>1, <1>2, <1>3, <1>4

\* The same for whatever an executor does.
LEMMA StepsOnTables ==
  ASSUME AssetsInv, AnyAssetsStep \/ UNCHANGED assetsVars
  PROVE  \/ UNCHANGED <<assets, accessVars>>
         \/ (DirectWrite \/ AnyRevoke \/ AnyGrant) /\ UNCHANGED assets
         \/ AnyMint \/ AnyTransfer \/ AnyRewrite
<1>1. CASE AccessStep
  BY <1>1, AccessStepWrites DEF AssetsInv, assetVars
<1>2. CASE AssetStep
  BY <1>2, AssetStepWrites
<1> QED BY <1>1, <1>2 DEF AnyAssetsStep, AnyGrant, assetsVars, assetVars

\* What an executor's grant writes.
LEMMA GrantWrites ==
  ASSUME AssetsInv, AnyGrant
  PROVE  \E t \in Token, p \in Principal, ace \in Ace :
           WriteAce(t, p, ace) /\ ace.written /\ ace.grantedBy # SYSTEM
<1>1. PICK t \in Token, p \in Principal, allow \in SUBSET Permission,
           deny \in SUBSET Permission, expiresAt \in Nat, depth \in Nat, proposer \in AnyId :
        ExecuteGrant(t, p, allow, deny, expiresAt, depth, proposer)
  BY DEF AnyGrant
<1> DEFINE ace == Written(allow, deny, now, expiresAt, depth, proposer)
<1>2. now \in Nat
  BY MaxTimeAssumption DEF AssetsInv, IdentityInv, IdentityTypeOK
<1>3. ace \in Ace
  BY <1>2, WrittenTyped
<1>4. ace.written /\ ace.grantedBy # SYSTEM
  BY NobodyIsSystem DEF Written
<1>5. WriteAce(t, p, ace)
  BY <1>1 DEF ExecuteGrant
<1> HIDE DEF ace
<1> QED BY <1>3, <1>4, <1>5
-----------------------------------------------------------------------------
\* The tables after a write, a mint and a transfer, entry by entry.
LEMMA TablesAfterWrite ==
  ASSUME AssetTypeOK, NEW t \in Token, NEW p \in Principal, NEW ace \in Ace, WriteAce(t, p, ace)
  PROVE  /\ \A u \in Token, q \in Principal :
              aces'[u][q] = IF u = t /\ q = p THEN ace ELSE aces[u][q]
         /\ \A u \in Token : principalsAt[u] \subseteq principalsAt'[u]
         /\ aces[t][p].written \/ p \in principalsAt'[t]
  BY DEF WriteAce, List, AssetTypeOK, AccessTypeOK

LEMMA PrincipalsDiffer ==
  /\ \A i \in Id, r \in Role : IdentityPrincipal(i) # RolePrincipal(r)
  /\ \A i, j \in Id : IdentityPrincipal(i) = IdentityPrincipal(j) => i = j
<1>1. ASSUME NEW i \in Id, NEW r \in Role PROVE IdentityPrincipal(i) # RolePrincipal(r)
  <2>1. IdentityPrincipal(i).kind = "IDENTITY" /\ RolePrincipal(r).kind = "ROLE"
    BY DEF IdentityPrincipal, RolePrincipal
  <2> QED BY <2>1
<1>2. ASSUME NEW i \in Id, NEW j \in Id, IdentityPrincipal(i) = IdentityPrincipal(j)
      PROVE  i = j
  <2>1. IdentityPrincipal(i).id = i /\ IdentityPrincipal(j).id = j
    BY DEF IdentityPrincipal
  <2> QED BY <1>2, <2>1
<1> QED BY <1>1, <1>2

LEMMA TablesAfterMint ==
  ASSUME IdentityInv, AssetTypeOK, NEW c, c.to \in AnyId, MintAsset(c)
  PROVE  c.to \in Id /\ \E n \in Token :
           /\ n = nextToken
           /\ \A u \in Token : assets'[u] = IF u = n THEN MintedAsset(c) ELSE assets[u]
           /\ \A u \in Token, q \in Principal :
                aces'[u][q] = IF u # n THEN aces[u][q]
                              ELSE IF q = RolePrincipal(ADMIN) THEN SeededAce(ADMIN_BITS)
                              ELSE IF q = IdentityPrincipal(c.to) THEN SeededAce(OWNER_BITS)
                              ELSE aces[u][q]
           /\ \A u \in Token : principalsAt'[u] =
                IF u # n THEN principalsAt[u]
                ELSE principalsAt[u] \cup {IdentityPrincipal(c.to), RolePrincipal(ADMIN)}
<1>1. c.to \in Id
  BY QualifiedIsIssued DEF MintAsset
<1>2. PICK n \in Token : n = nextToken
  BY DEF MintAsset
<1>3. IdentityPrincipal(c.to) \in Principal /\ RolePrincipal(ADMIN) \in Principal
  BY <1>1, PrincipalsTyped
<1>4. /\ assets' = [assets EXCEPT ![n] = MintedAsset(c)]
      /\ aces' = [aces EXCEPT
           ![n][IdentityPrincipal(c.to)] = SeededAce(OWNER_BITS),
           ![n][RolePrincipal(ADMIN)]    = SeededAce(ADMIN_BITS)]
      /\ principalsAt' = [[principalsAt
           EXCEPT ![n] = @ \cup {IdentityPrincipal(c.to)}]
           EXCEPT ![n] = @ \cup {RolePrincipal(ADMIN)}]
  BY <1>2 DEF MintAsset, List
<1>5. \A u \in Token : assets'[u] = IF u = n THEN MintedAsset(c) ELSE assets[u]
  BY <1>4 DEF AssetTypeOK, AccessTypeOK
<1>6. \A u \in Token, q \in Principal :
        aces'[u][q] = IF u # n THEN aces[u][q]
                      ELSE IF q = RolePrincipal(ADMIN) THEN SeededAce(ADMIN_BITS)
                      ELSE IF q = IdentityPrincipal(c.to) THEN SeededAce(OWNER_BITS)
                      ELSE aces[u][q]
  BY <1>3, <1>4 DEF AssetTypeOK, AccessTypeOK
<1>7. \A u \in Token : principalsAt'[u] =
        IF u # n THEN principalsAt[u]
        ELSE principalsAt[u] \cup {IdentityPrincipal(c.to), RolePrincipal(ADMIN)}
  BY <1>4 DEF AssetTypeOK, AccessTypeOK
<1> QED BY <1>1, <1>2, <1>5, <1>6, <1>7

LEMMA TablesAfterTransfer ==
  ASSUME IdentityInv, AssetTypeOK, NEW c, c.token \in Token, c.to \in AnyId, DoTransfer(c)
  PROVE  /\ c.to \in Id /\ Exists(c.token)
         /\ \A u \in Token :
              /\ assets'[u].minted = assets[u].minted
              /\ assets'[u].classification = assets[u].classification
              /\ assets'[u].owner = IF u = c.token THEN c.to ELSE assets[u].owner
         /\ \A u \in Token, q \in Principal :
              aces'[u][q] = IF u # c.token THEN aces[u][q]
                            ELSE IF q = IdentityPrincipal(c.to) THEN SeededAce(OWNER_BITS)
                            ELSE IF q = IdentityPrincipal(assets[u].owner) THEN NoAce
                            ELSE aces[u][q]
         /\ \A u \in Token : principalsAt[u] \subseteq principalsAt'[u]
         /\ \/ IdentityPrincipal(c.to) \in principalsAt'[c.token]
            \/ aces[c.token][IdentityPrincipal(c.to)].written
<1> DEFINE oldOwner == IdentityPrincipal(assets[c.token].owner)
           newOwner == IdentityPrincipal(c.to)
           revoked  == [aces EXCEPT ![c.token][oldOwner] = NoAce]
<1>1. c.to \in Id /\ Exists(c.token)
  BY QualifiedIsIssued DEF DoTransfer
<1>2. newOwner \in Principal
  BY <1>1, PrincipalsTyped
<1>3. \A u \in Token :
        /\ assets'[u].minted = assets[u].minted
        /\ assets'[u].classification = assets[u].classification
        /\ assets'[u].owner = IF u = c.token THEN c.to ELSE assets[u].owner
  BY DEF DoTransfer, AssetTypeOK, AccessTypeOK, Asset
<1>4. /\ aces' = [revoked EXCEPT ![c.token][newOwner] = SeededAce(OWNER_BITS)]
      /\ principalsAt' = IF revoked[c.token][newOwner].written THEN principalsAt
                         ELSE List(principalsAt, c.token, newOwner)
  BY DEF DoTransfer
<1> HIDE DEF newOwner
<1>5. \A u \in Token, q \in Principal :
        revoked[u][q] = IF u = c.token /\ q = oldOwner THEN NoAce ELSE aces[u][q]
  BY DEF AssetTypeOK, AccessTypeOK
<1>6. revoked \in [Token -> [Principal -> Ace]]
  BY NoAceTyped DEF AssetTypeOK, AccessTypeOK
<1> HIDE DEF revoked, oldOwner
<1>7. \A u \in Token, q \in Principal :
        aces'[u][q] = IF u = c.token /\ q = newOwner THEN SeededAce(OWNER_BITS)
                      ELSE revoked[u][q]
  BY <1>4, <1>6
<1>8. \A u \in Token : principalsAt[u] \subseteq principalsAt'[u]
  BY <1>4 DEF List, AssetTypeOK, AccessTypeOK
<1>9. newOwner \in principalsAt'[c.token] \/ aces[c.token][newOwner].written
  BY <1>2, <1>4, <1>5 DEF List, AssetTypeOK, AccessTypeOK, NoAce
<1> QED BY <1>1, <1>3, <1>5, <1>7, <1>8, <1>9 DEF newOwner, oldOwner
-----------------------------------------------------------------------------
\* Nothing is seeded on an asset before its mint, and an owner was issued:
\* with these the statements about entries are inductive.
EntryInv ==
  /\ EveryEntryIsListed
  /\ SeededAceIsOwners
  /\ OwnerHasEntry
  /\ \A t \in Token : Exists(t) => assets[t].owner \in Id
  /\ \A t \in Token, p \in Principal : ~Exists(t) => aces[t][p].grantedBy # SYSTEM

LEMMA SeededFields ==
  /\ NoAce.written = FALSE /\ NoAce.grantedBy = 0
  /\ \A bits : SeededAce(bits).written /\ SeededAce(bits).grantedBy = SYSTEM
  BY DEF NoAce, SeededAce, Written

LEMMA EntryInit == AssetsInit => EntryInv
<1> SUFFICES ASSUME AssetsInit PROVE EntryInv
  OBVIOUS
<1>1. \A t \in Token :
        IF SeededAsset(t)
        THEN Exists(t) /\ assets[t].owner = SeededAssets[t].to /\ SeededAssets[t].to \in Id
        ELSE ~Exists(t)
  BY SeededTyped DEF AssetsInit, MintedAsset, Exists, SeededAsset, MintCall
<1>2. \A t \in Token, p \in Principal :
        aces[t][p] = IF SeededAsset(t) /\ p = IdentityPrincipal(SeededAssets[t].to)
                     THEN SeededAce(OWNER_BITS)
                     ELSE IF SeededAsset(t) /\ p = RolePrincipal(ADMIN)
                     THEN SeededAce(ADMIN_BITS)
                     ELSE NoAce
  BY DEF AssetsInit
<1>3. EveryEntryIsListed
  BY DEF AssetsInit, EveryEntryIsListed
<1>4. SeededAceIsOwners
  <2> SUFFICES ASSUME NEW t \in Token, NEW i \in Id,
                      aces[t][IdentityPrincipal(i)].grantedBy = SYSTEM
               PROVE  assets[t].owner = i
    BY DEF SeededAceIsOwners
  <2>1. IdentityPrincipal(i) \in Principal /\ IdentityPrincipal(i) # RolePrincipal(ADMIN)
    BY PrincipalsTyped, PrincipalsDiffer
  <2>2. SeededAsset(t) /\ IdentityPrincipal(i) = IdentityPrincipal(SeededAssets[t].to)
    BY <1>2, <2>1, SeededFields, NobodyIsSystem
  <2> QED BY <1>1, <2>2, PrincipalsDiffer
<1>5. OwnerHasEntry
  <2> SUFFICES ASSUME NEW t \in Token, Exists(t)
               PROVE  aces[t][IdentityPrincipal(assets[t].owner)].written
    BY DEF OwnerHasEntry
  <2>1. SeededAsset(t) /\ assets[t].owner = SeededAssets[t].to /\ assets[t].owner \in Id
    BY <1>1
  <2> QED BY <1>2, <2>1, SeededFields, PrincipalsTyped
<1>6. \A t \in Token, p \in Principal : ~Exists(t) => aces[t][p].grantedBy # SYSTEM
  BY <1>1, <1>2, SeededFields, NobodyIsSystem
<1> QED BY <1>1, <1>3, <1>4, <1>5, <1>6 DEF EntryInv

LEMMA WriteKeepsEntries ==
  ASSUME AssetTypeOK, EntryInv, NEW t \in Token, NEW p \in Principal, NEW ace \in Ace,
         WriteAce(t, p, ace), ace.written,
         ace.grantedBy = SYSTEM => Exists(t) /\ WritersOwn(t, p, ace), UNCHANGED assets
  PROVE  EntryInv'
<1>1. /\ \A u \in Token, q \in Principal :
           aces'[u][q] = IF u = t /\ q = p THEN ace ELSE aces[u][q]
      /\ \A u \in Token : principalsAt[u] \subseteq principalsAt'[u]
      /\ aces[t][p].written \/ p \in principalsAt'[t]
  BY TablesAfterWrite
<1>2. EveryEntryIsListed'
  BY <1>1 DEF EntryInv, EveryEntryIsListed
<1>3. SeededAceIsOwners'
  BY <1>1, PrincipalsTyped DEF EntryInv, SeededAceIsOwners, WritersOwn, ClassificationOf
<1>4. OwnerHasEntry'
  <2> SUFFICES ASSUME NEW u \in Token, Exists(u),
                      NEW q \in Principal, q = IdentityPrincipal(assets[u].owner)
               PROVE  aces'[u][q].written \/ [token |-> u, principal |-> q] \in AccessCalls.revokeAce
    BY PrincipalsTyped DEF EntryInv, OwnerHasEntry, Exists
  <2> QED BY <1>1 DEF EntryInv, OwnerHasEntry
<1> QED BY <1>1, <1>2, <1>3, <1>4 DEF EntryInv, Exists

LEMMA RevokeKeepsEntries ==
  ASSUME AssetTypeOK, EntryInv, AnyRevoke, UNCHANGED assets
  PROVE  EntryInv'
<1>1. PICK t \in Token, p \in Principal :
        /\ [token |-> t, principal |-> p] \in AccessCalls.revokeAce
        /\ aces' = [aces EXCEPT ![t][p] = NoAce]
        /\ UNCHANGED principalsAt
  BY DEF AnyRevoke
<1>2. \A u \in Token, q \in Principal :
        aces'[u][q] = IF u = t /\ q = p THEN NoAce ELSE aces[u][q]
  BY <1>1 DEF AssetTypeOK, AccessTypeOK
<1>3. EveryEntryIsListed'
  BY <1>1, <1>2, SeededFields DEF EntryInv, EveryEntryIsListed
<1>4. SeededAceIsOwners'
  BY <1>2, SeededFields, NobodyIsSystem, PrincipalsTyped
  DEF EntryInv, SeededAceIsOwners, WritersOwn, ClassificationOf
<1>5. OwnerHasEntry'
  <2> SUFFICES ASSUME NEW u \in Token, Exists(u),
                      NEW q \in Principal, q = IdentityPrincipal(assets[u].owner)
               PROVE  aces'[u][q].written \/ [token |-> u, principal |-> q] \in AccessCalls.revokeAce
    BY PrincipalsTyped DEF EntryInv, OwnerHasEntry, Exists
  <2> QED BY <1>1, <1>2 DEF EntryInv, OwnerHasEntry
<1> QED BY <1>2, <1>3, <1>4, <1>5, SeededFields, NobodyIsSystem DEF EntryInv, Exists

LEMMA MintKeepsEntries ==
  ASSUME AssetsInv, HashInv, EntryInv, NEW c, c.to \in AnyId, MintAsset(c)
  PROVE  EntryInv'
<1>t. IdentityInv /\ AssetTypeOK
  BY DEF AssetsInv
<1>0. c.to \in Id /\ IdentityPrincipal(c.to) \in Principal /\ RolePrincipal(ADMIN) \in Principal
      /\ IdentityPrincipal(c.to) # RolePrincipal(ADMIN)
  BY <1>t, TablesAfterMint, PrincipalsTyped, PrincipalsDiffer
<1>1. PICK n \in Token :
        /\ n = nextToken
        /\ \A u \in Token : assets'[u] = IF u = n THEN MintedAsset(c) ELSE assets[u]
        /\ \A u \in Token, q \in Principal :
             aces'[u][q] = IF u # n THEN aces[u][q]
                           ELSE IF q = RolePrincipal(ADMIN) THEN SeededAce(ADMIN_BITS)
                           ELSE IF q = IdentityPrincipal(c.to) THEN SeededAce(OWNER_BITS)
                           ELSE aces[u][q]
        /\ \A u \in Token : principalsAt'[u] =
             IF u # n THEN principalsAt[u]
             ELSE principalsAt[u] \cup {IdentityPrincipal(c.to), RolePrincipal(ADMIN)}
  BY <1>t, TablesAfterMint
<1>2. ~Exists(n) /\ MintedAsset(c).owner = c.to /\ MintedAsset(c).minted
  BY <1>1, MaxTokenAssumption DEF HashInv, FreshTokens, Exists, MintedAsset, Token
<1>3. EveryEntryIsListed'
  BY <1>1 DEF EntryInv, EveryEntryIsListed
<1>4. SeededAceIsOwners'
  <2> SUFFICES ASSUME NEW t \in Token, NEW i \in Id,
                      aces'[t][IdentityPrincipal(i)].grantedBy = SYSTEM,
                      ~WritersOwn(t, IdentityPrincipal(i), aces[t][IdentityPrincipal(i)])'
               PROVE  assets'[t].owner = i
    BY DEF SeededAceIsOwners
  <2>1. IdentityPrincipal(i) \in Principal /\ IdentityPrincipal(i) # RolePrincipal(ADMIN)
    BY PrincipalsTyped, PrincipalsDiffer
  <2>2. CASE t # n
    BY <1>1, <2>1, <2>2 DEF EntryInv, SeededAceIsOwners, WritersOwn, ClassificationOf
  <2>3. CASE t = n
    <3>1. aces[t][IdentityPrincipal(i)].grantedBy # SYSTEM
      BY <1>2, <2>1, <2>3 DEF EntryInv
    <3>2. IdentityPrincipal(i) = IdentityPrincipal(c.to)
      BY <1>1, <2>1, <2>3, <3>1
    <3> QED BY <1>0, <1>1, <1>2, <2>3, <3>2, PrincipalsDiffer
  <2> QED BY <2>2, <2>3
<1>5. OwnerHasEntry'
  <2> SUFFICES ASSUME NEW u \in Token, assets'[u].minted
               PROVE  \/ aces'[u][IdentityPrincipal(assets'[u].owner)].written
                      \/ [token |-> u, principal |-> IdentityPrincipal(assets'[u].owner)]
                           \in AccessCalls.revokeAce
    BY DEF OwnerHasEntry, Exists
  <2>1. CASE u # n
    <3>1. Exists(u) /\ assets[u].owner \in Id /\ assets'[u] = assets[u]
      BY <1>1, <2>1 DEF EntryInv, Exists
    <3> QED BY <1>1, <2>1, <3>1, PrincipalsTyped DEF EntryInv, OwnerHasEntry
  <2>2. CASE u = n
    BY <1>0, <1>1, <1>2, <2>2, SeededFields
  <2> QED BY <2>1, <2>2
<1>6. \A t \in Token : Exists(t)' => assets'[t].owner \in Id
  BY <1>0, <1>1, <1>2 DEF EntryInv, Exists
<1>7. \A t \in Token, p \in Principal : ~Exists(t)' => aces'[t][p].grantedBy # SYSTEM
  BY <1>1, <1>2 DEF EntryInv, Exists
<1> QED BY <1>3, <1>4, <1>5, <1>6, <1>7 DEF EntryInv, Exists

LEMMA TransferKeepsEntries ==
  ASSUME IdentityInv, AssetTypeOK, EntryInv,
         NEW c, c.token \in Token, c.to \in AnyId, DoTransfer(c)
  PROVE  EntryInv'
<1>1. /\ c.to \in Id /\ Exists(c.token)
      /\ \A u \in Token :
           /\ assets'[u].minted = assets[u].minted
           /\ assets'[u].classification = assets[u].classification
           /\ assets'[u].owner = IF u = c.token THEN c.to ELSE assets[u].owner
      /\ \A u \in Token, q \in Principal :
           aces'[u][q] = IF u # c.token THEN aces[u][q]
                         ELSE IF q = IdentityPrincipal(c.to) THEN SeededAce(OWNER_BITS)
                         ELSE IF q = IdentityPrincipal(assets[u].owner) THEN NoAce
                         ELSE aces[u][q]
      /\ \A u \in Token : principalsAt[u] \subseteq principalsAt'[u]
      /\ \/ IdentityPrincipal(c.to) \in principalsAt'[c.token]
         \/ aces[c.token][IdentityPrincipal(c.to)].written
  BY TablesAfterTransfer
<1>2. EveryEntryIsListed'
  <2> SUFFICES ASSUME NEW t \in Token, NEW p \in Principal, aces'[t][p].written
               PROVE  p \in principalsAt'[t]
    BY DEF EveryEntryIsListed
  <2>1. aces[t][p].written => p \in principalsAt'[t]
    BY <1>1 DEF EntryInv, EveryEntryIsListed
  <2>2. \/ aces[t][p].written
        \/ t = c.token /\ p = IdentityPrincipal(c.to)
    BY <1>1, SeededFields
  <2> QED BY <1>1, <2>1, <2>2
<1>3. SeededAceIsOwners'
  <2> SUFFICES ASSUME NEW t \in Token, NEW i \in Id,
                      aces'[t][IdentityPrincipal(i)].grantedBy = SYSTEM,
                      ~WritersOwn(t, IdentityPrincipal(i), aces[t][IdentityPrincipal(i)])'
               PROVE  assets'[t].owner = i
    BY DEF SeededAceIsOwners
  <2>1. IdentityPrincipal(i) \in Principal
    BY PrincipalsTyped
  <2>2. CASE t # c.token
    BY <1>1, <2>1, <2>2 DEF EntryInv, SeededAceIsOwners, WritersOwn, ClassificationOf
  <2>3. CASE t = c.token /\ IdentityPrincipal(i) = IdentityPrincipal(c.to)
    BY <1>1, <2>3, PrincipalsDiffer
  <2>4. CASE t = c.token /\ IdentityPrincipal(i) # IdentityPrincipal(c.to)
    <3>1. IdentityPrincipal(i) # IdentityPrincipal(assets[t].owner)
      BY <1>1, <2>1, <2>4, SeededFields, NobodyIsSystem
    <3>2. aces[t][IdentityPrincipal(i)].grantedBy = SYSTEM
      BY <1>1, <2>1, <2>4, <3>1
    <3>3. aces'[t][IdentityPrincipal(i)] = aces[t][IdentityPrincipal(i)]
      BY <1>1, <2>1, <2>4, <3>1
    <3> QED
      BY <1>1, <3>1, <3>2, <3>3 DEF EntryInv, SeededAceIsOwners, WritersOwn, ClassificationOf
  <2> QED BY <2>2, <2>3, <2>4
<1>4. OwnerHasEntry'
  <2> SUFFICES ASSUME NEW u \in Token, assets'[u].minted
               PROVE  \/ aces'[u][IdentityPrincipal(assets'[u].owner)].written
                      \/ [token |-> u, principal |-> IdentityPrincipal(assets'[u].owner)]
                           \in AccessCalls.revokeAce
    BY DEF OwnerHasEntry, Exists
  <2>1. CASE u # c.token
    <3>1. Exists(u) /\ assets[u].owner \in Id /\ assets'[u].owner = assets[u].owner
      BY <1>1, <2>1 DEF EntryInv, Exists
    <3> QED BY <1>1, <2>1, <3>1, PrincipalsTyped DEF EntryInv, OwnerHasEntry
  <2>2. CASE u = c.token
    BY <1>1, <2>2, SeededFields, PrincipalsTyped
  <2> QED BY <2>1, <2>2
<1>5. \A t \in Token : Exists(t)' => assets'[t].owner \in Id
  BY <1>1 DEF EntryInv, Exists
<1>6. \A t \in Token, p \in Principal : ~Exists(t)' => aces'[t][p].grantedBy # SYSTEM
  BY <1>1 DEF EntryInv, Exists
<1> QED BY <1>2, <1>3, <1>4, <1>5, <1>6 DEF EntryInv, Exists

LEMMA EntryInvStep ==
  ASSUME AssetsInv, HashInv, EntryInv, AnyAssetsStep \/ UNCHANGED assetsVars
  PROVE  EntryInv'
<1>t. IdentityInv /\ AssetTypeOK
  BY DEF AssetsInv
<1>1. CASE UNCHANGED <<assets, accessVars>>
  BY <1>1 DEF accessVars, EntryInv, EveryEntryIsListed, SeededAceIsOwners, OwnerHasEntry, Exists,
     WritersOwn, ClassificationOf
<1>2. CASE DirectWrite /\ UNCHANGED assets
  BY <1>t, <1>2, WriteKeepsEntries DEF DirectWrite
<1>3. CASE AnyRevoke /\ UNCHANGED assets
  BY <1>t, <1>3, RevokeKeepsEntries
<1>4. CASE AnyGrant /\ UNCHANGED assets
  BY <1>t, <1>4, GrantWrites, WriteKeepsEntries
<1>5. CASE AnyMint
  BY <1>5, MintKeepsEntries DEF AnyMint
<1>6. CASE AnyTransfer
  BY <1>t, <1>6, TransferKeepsEntries DEF AnyTransfer
<1>7. CASE AnyRewrite
  <2>1. /\ UNCHANGED accessVars
        /\ \A u \in Token : /\ assets'[u].minted = assets[u].minted
                            /\ assets'[u].classification = assets[u].classification
                            /\ assets'[u].owner = assets[u].owner
    BY <1>t, <1>7 DEF AnyRewrite, AssetTypeOK, AccessTypeOK, Asset
  <2> QED
    BY <2>1 DEF accessVars, EntryInv, EveryEntryIsListed, SeededAceIsOwners, OwnerHasEntry, Exists,
       WritersOwn, ClassificationOf
<1> QED BY <1>1, <1>2, <1>3, <1>4, <1>5, <1>6, <1>7, StepsOnTables

LEMMA EntriesHold == AssetsSpec => []EntryInv
<1> DEFINE Inv == AssetsInv /\ HashInv /\ EntryInv
<1>1. AssetsInit => Inv
  BY AssetsTypeInit, HashInit, EntryInit
<1>2. Inv /\ [AssetsNext]_assetsVars => Inv'
  BY AssetsInvStep, HashInvStep, EntryInvStep, AssetsNextIsAnyStep
<1>3. Inv => EntryInv
  OBVIOUS
<1> QED BY <1>1, <1>2, <1>3, PTL DEF AssetsSpec

\* No entry stays out of the listing that an administrator reads, whoever wrote
\* it and whatever was revoked before.
THEOREM EveryEntryIsListedHolds == AssetsSpec => []EveryEntryIsListed
<1>1. EntryInv => EveryEntryIsListed
  BY DEF EntryInv
<1> QED BY <1>1, EntriesHold, PTL

\* A handover leaves the old owner without the entry the system gave it, to
\* itself or to anybody else: what has the system's stamp is the present owner's,
\* unless an ACL writer wrote it so.
THEOREM SeededAceIsOwnersHolds == AssetsSpec => []SeededAceIsOwners
<1>1. EntryInv => SeededAceIsOwners
  BY DEF EntryInv
<1> QED BY <1>1, EntriesHold, PTL

\* Nobody owns an asset without an entry but by an explicit revocation.
THEOREM OwnerHasEntryHolds == AssetsSpec => []OwnerHasEntry
<1>1. EntryInv => OwnerHasEntry
  BY DEF EntryInv
<1> QED BY <1>1, EntriesHold, PTL
-----------------------------------------------------------------------------
\* The role rules run last, so neither the entries nor the clearance gate keep
\* an Admin from an asset's access list.
THEOREM AdminKeepsAclHolds == AssetsSpec => []AdminKeepsAcl
<1>1. AdminKeepsAcl
  <2> SUFFICES ASSUME NEW t \in Token, NEW i \in Id, Exists(t), IsActive(i),
                      HasRoleToken(ControllerOf(i), ADMIN)
               PROVE  ADMIN_BITS \subseteq EffectiveForIdentity(t, i)
    BY DEF AdminKeepsAcl
  <2>1. ASSUME NEW eff PROVE ADMIN_BITS \subseteq ApplyRoleRules(eff, i)
    BY DEF ApplyRoleRules, ADMIN_BITS, CONTENT_BITS, P_LIST, P_ADMIN, P_READ, P_DOWNLOAD,
           P_WRITE
  <2> QED BY <2>1 DEF EffectiveForIdentity
<1> QED BY <1>1, PTL

-----------------------------------------------------------------------------
(***************************************************************************)
(* Depths of re-sharing.  An entry of the system has depth two at most,    *)
(* and every other at most one: a write and a vote by assumption, a        *)
(* re-share because it is one below the entry it is made from.             *)
(***************************************************************************)
Shallow == \A c \in AccessCalls.setAce \cup ExecutorCalls.grant : c.depth <= 1

DepthFits(ace) == ace.depth <= IF ace.grantedBy = SYSTEM THEN 2 ELSE 1

DepthInv == \A t \in Token, p \in Principal : DepthFits(aces[t][p])

LEMMA SystemEntriesFit == DepthFits(NoAce) /\ \A bits : DepthFits(SeededAce(bits))
  BY NobodyIsSystem DEF DepthFits, NoAce, SeededAce, Written

LEMMA WriteKeepsDepths ==
  ASSUME AssetTypeOK, DepthInv, NEW t \in Token, NEW p \in Principal, NEW ace \in Ace,
         WriteAce(t, p, ace), DepthFits(ace)
  PROVE  DepthInv'
<1>1. \A u \in Token, q \in Principal :
        aces'[u][q] = IF u = t /\ q = p THEN ace ELSE aces[u][q]
  BY TablesAfterWrite
<1> QED BY <1>1 DEF DepthInv, DepthFits

LEMMA AccessKeepsDepths ==
  ASSUME IdentityInv, AssetTypeOK, DepthInv, Shallow, AccessStep
  PROVE  DepthInv'
<1>1. PICK sender \in Address :
        \/ \E c \in AccessCalls.setAce : SetAce(sender, c)
        \/ \E c \in AccessCalls.delegate : Delegate(sender, c)
        \/ \E c \in AccessCalls.revokeAce : RevokeAce(sender, c)
  BY DEF AccessStep
<1>2. CASE \E c \in AccessCalls.setAce : SetAce(sender, c)
  <2>1. PICK c \in AccessCalls.setAce : SetAce(sender, c)
    BY <1>2
  <2>2. c.token \in Token /\ c.principal \in Principal /\ c.depth \in Nat /\ c.depth <= 1
    BY AccessCallsAssumption DEF Shallow
  <2>3. AceOf(c) \in Ace
    BY AccessCallsAssumption, WrittenTyped DEF AceOf
  <2>4. DepthFits(AceOf(c))
    BY <2>2 DEF DepthFits, AceOf, Written
  <2>5. WriteAce(c.token, c.principal, AceOf(c))
    BY <2>1 DEF SetAce
  <2> QED BY <2>2, <2>3, <2>4, <2>5, WriteKeepsDepths
<1>3. CASE \E c \in AccessCalls.delegate : Delegate(sender, c)
  <2>1. PICK c \in AccessCalls.delegate : Delegate(sender, c)
    BY <1>3
  <2> DEFINE me   == byController[sender]
             mine == IdentityPrincipal(me)
             left == DelegationDepthOf(c.token, mine) - 1
             ace  == Written(c.allow, {}, now, c.expiresAt, left, me)
  <2>2. /\ c.token \in Token /\ c.to \in Principal
        /\ c.allow \in SUBSET Permission /\ c.expiresAt \in Nat
    BY AccessCallsAssumption
  <2>3. me \in AnyId /\ now \in Nat
    BY MaxTimeAssumption DEF IdentityInv, IdentityTypeOK
  <2>4. mine \in Principal
    BY <2>1, <2>3, QualifiedIsIssued, PrincipalsTyped DEF Delegate, Qualifies, IsActive,
       IdentityInv, IssuedShape, NoIdentity, Id, AnyId
  <2>5. aces[c.token][mine].depth \in Nat /\ aces[c.token][mine].depth <= 2
    <3> HIDE DEF mine
    <3>1. aces[c.token][mine] \in Ace /\ DepthFits(aces[c.token][mine])
      BY <2>2, <2>4 DEF AssetTypeOK, AccessTypeOK, DepthInv
    <3> QED BY <3>1 DEF Ace, DepthFits
  <2>6. left \in Nat /\ left <= 1
    BY <2>1, <2>5 DEF Delegate, DelegationDepthOf
  <2> HIDE DEF left
  <2>7. ace \in Ace
    BY <2>2, <2>3, <2>6, WrittenTyped
  <2>8. DepthFits(ace)
    BY <2>3, <2>6, NobodyIsSystem DEF DepthFits, Written
  <2> HIDE DEF ace
  <2>9. WriteAce(c.token, c.to, ace)
    BY <2>1 DEF Delegate, ace, left
  <2> QED BY <2>2, <2>7, <2>8, <2>9, WriteKeepsDepths
<1>4. CASE \E c \in AccessCalls.revokeAce : RevokeAce(sender, c)
  <2>1. PICK c \in AccessCalls.revokeAce : RevokeAce(sender, c)
    BY <1>4
  <2>2. \A u \in Token, q \in Principal :
          aces'[u][q] = IF u = c.token /\ q = c.principal THEN NoAce ELSE aces[u][q]
    BY <2>1, AccessCallsAssumption DEF RevokeAce, AssetTypeOK, AccessTypeOK
  <2> QED BY <2>2, SystemEntriesFit DEF DepthInv
<1> QED BY <1>1, <1>2, <1>3, <1>4

LEMMA DepthStep ==
  ASSUME AssetsInv, DepthInv, Shallow, AssetsNext \/ UNCHANGED assetsVars
  PROVE  DepthInv'
<1>t. IdentityInv /\ AssetTypeOK /\ now \in Nat
  BY MaxTimeAssumption DEF AssetsInv, IdentityInv, IdentityTypeOK
<1>0. Id \subseteq AnyId
  BY MaxIdAssumption DEF Id, AnyId
<1>1. CASE UNCHANGED aces
  BY <1>1 DEF DepthInv
<1>2. CASE AccessStep
  BY <1>2, <1>t, AccessKeepsDepths
<1>3. CASE AnyMint
  BY <1>3, <1>t, TablesAfterMint, SystemEntriesFit DEF AnyMint, DepthInv
<1>4. CASE AnyTransfer
  BY <1>4, <1>t, TablesAfterTransfer, SystemEntriesFit DEF AnyTransfer, DepthInv
<1>5. CASE AnyRewrite
  BY <1>1, <1>5 DEF AnyRewrite, accessVars
<1>6. CASE \E c \in ExecutorCalls.grant :
             ExecuteGrant(c.token, c.principal, c.allow, c.deny, c.expiresAt, c.depth, c.proposer)
  <2>1. PICK c \in ExecutorCalls.grant :
          ExecuteGrant(c.token, c.principal, c.allow, c.deny, c.expiresAt, c.depth, c.proposer)
    BY <1>6
  <2> DEFINE ace == Written(c.allow, c.deny, now, c.expiresAt, c.depth, c.proposer)
  <2>2. /\ c.token \in Token /\ c.principal \in Principal /\ c.allow \in SUBSET Permission
        /\ c.deny \in SUBSET Permission /\ c.expiresAt \in Nat /\ c.depth \in Nat
        /\ c.proposer \in AnyId
    BY <1>0, AssetCallsAssumption
  <2>3. ace \in Ace
    BY <1>t, <2>2, WrittenTyped
  <2>4. DepthFits(ace)
    BY <2>2, NobodyIsSystem DEF DepthFits, Written, Shallow
  <2>5. WriteAce(c.token, c.principal, ace)
    BY <2>1 DEF ExecuteGrant
  <2> HIDE DEF ace
  <2> QED BY <1>t, <2>2, <2>3, <2>4, <2>5, WriteKeepsDepths
<1>7. CASE (\E c \in ExecutorCalls.mint : MintAsset(c)) /\ UNCHANGED identityVars
  BY <1>7, <1>t, <1>0, AssetCallsAssumption, TablesAfterMint, SystemEntriesFit
     DEF MintCall, DepthInv
<1>8. CASE (\E c \in ExecutorCalls.transfer : DoTransfer(c)) /\ UNCHANGED identityVars
  BY <1>8, <1>t, <1>0, AssetCallsAssumption, TablesAfterTransfer, SystemEntriesFit
     DEF DepthInv
<1>9. CASE AssetsExecutorStep
  BY <1>1, <1>6, <1>7, <1>8, <1>9 DEF AssetsExecutorStep, accessVars
<1>10. CASE AssetsDirect
  BY <1>1, <1>2, <1>3, <1>4, <1>5, <1>10, AssetStepWrites DEF AssetsDirect, accessVars
<1> QED BY <1>1, <1>9, <1>10 DEF AssetsNext, assetsVars, accessVars

\* Where nobody writes or votes a deeper entry, an entry that was re-shared once
\* is re-shared once more at most, whoever passes it to whom.
THEOREM DelegationGetsShallowerHolds == AssetsSpec => []DelegationGetsShallower
<1> DEFINE Inv == AssetsInv /\ (Shallow => DepthInv)
<1>1. AssetsInit => Inv
  BY AssetsTypeInit, SystemEntriesFit DEF AssetsInit, DepthInv
<1>2. Inv /\ [AssetsNext]_assetsVars => Inv'
  BY AssetsInvStep, AssetsNextIsAnyStep, DepthStep DEF Shallow
<1>3. Inv => DelegationGetsShallower
  BY DEF DelegationGetsShallower, Shallow, DepthInv, DepthFits
<1> QED BY <1>1, <1>2, <1>3, PTL DEF AssetsSpec
=============================================================================
