---------------------------- MODULE Sessions_proofs ----------------------------
(***************************************************************************)
(* Theorems about signing in, for every number of verifications in flight  *)
(* and whatever the chain, the other requests and a restart do between the *)
(* reads of one of them.                                                   *)
(***************************************************************************)
EXTENDS ContentGateway, AssetNFT_proofs

(***************************************************************************)
(* The backend with clients that may ask for anything: every key may sign  *)
(* in, any content may be uploaded, any upload may be linked to any asset  *)
(* and so may what GatewayCalls has, and every route may be asked about    *)
(* every asset.  The console is such a client.                             *)
(***************************************************************************)
AnyLoginStep ==
  \/ IssueNonce
  \/ \E n \in Nonce : RefuseSignature(n)
  \/ \E l \in Login :
       \/ \E n \in Nonce, signer \in Address : BeginVerify(l, n, signer)
       \/ ReadByController(l)
       \/ ReadIdentity(l)
       \/ ReadOwner(l)
       \/ ReadActive(l)
       \/ \E some \in SUBSET logins[l].unread : ReadBalances(l, some)
       \/ IssueToken(l)

ReadCall == [token : Token, spelled : Spelling, bit : {P_READ, P_DOWNLOAD}, stepUp : BOOLEAN]

\* The decisions are about no asset.
ViewCall == {c \in [route : View, token : 0 .. MaxToken] :
               c.route # "decisions" => c.token \in Token}

Arrives(r, token) ==
  \/ \E c \in Links : BeginLink(r, token, c)
  \/ \E c \in ReadCall : BeginRead(r, token, c)
  \/ \E c \in ViewCall : BeginView(r, token, c)
  \/ BeginList(r, token)

AnyRequestStep ==
  \/ \E token \in tokens : \/ \E h \in Hash : Upload(token, h)
                          \/ \E r \in Request : Arrives(r, token)
  \/ \E r \in Request :
       \/ Upsert(r)
       \/ AskExists(r) \/ AskActive(r) \/ AskEffective(r)
       \/ Score(r) \/ FindFile(r) \/ AskHash(r) \/ OpenFile(r)
       \/ AskLastRow(r) \/ LogDecision(r) \/ Send(r)
       \/ AskTotal(r) \/ ReadAsset(r) \/ SendList(r)
       \/ ReadOn(r) \/ SendView(r)

AnyContentStep ==
  \/ AnyAssetsStep /\ UNCHANGED <<loginVars, gatewayVars>>
  \/ AnyLoginStep /\ UNCHANGED <<assetsVars, gatewayVars>>
  \/ AnyRequestStep /\ UNCHANGED <<assetsVars, loginVars>>
  \/ DamageStep /\ UNCHANGED <<assetsVars, loginVars>>
  \/ Restart /\ UNCHANGED assetsVars
  \/ UNCHANGED <<assetsVars, loginVars, gatewayVars>>

AnyContentNext == AnyContentStep /\ Watch

AnyContentSpec == ContentInit /\ [][AnyContentNext]_contentVars

LEMMA RequestStepIsAny == RequestStep => AnyRequestStep
<1>1. Token \subseteq 0 .. MaxToken
  BY MaxTokenAssumption DEF Token
<1>2. GatewayCalls.view \subseteq ViewCall
  BY <1>1, GatewayAssumption DEF ViewCall
<1>3. GatewayCalls.read \subseteq ReadCall /\ GatewayCalls.upload \subseteq Hash
  BY GatewayAssumption DEF ReadCall
<1> QED BY <1>2, <1>3 DEF RequestStep, AnyRequestStep, Arrives

LEMMA ContentStepIsAny == ContentStep => AnyContentStep
<1>1. LoginStep => AnyLoginStep
  BY LoginCallsAssumption DEF LoginStep, AnyLoginStep
<1> QED BY <1>1, AssetsNextIsAnyStep, RequestStepIsAny DEF ContentStep, AnyContentStep

LEMMA ContentIsAny == ContentSpec => AnyContentSpec
<1>1. [ContentNext]_contentVars => [AnyContentNext]_contentVars
  BY ContentStepIsAny DEF ContentNext, AnyContentNext
<1> QED BY <1>1, PTL DEF ContentSpec, AnyContentSpec

-----------------------------------------------------------------------------
Busy(l) == logins[l].pc # "idle"

LoginShapes ==
  /\ logins = [l \in Login |-> logins[l]]
  /\ \A l \in Login : DOMAIN logins[l] = DOMAIN NoLogin

SomeBalances(l) == \E some \in SUBSET logins[l].unread : ReadBalances(l, some)

\* What some of the balances change in their login.
LEMMA BalancesMove ==
  ASSUME LoginShapes, NEW l \in Login, SomeBalances(l)
  PROVE  /\ LoginShapes' /\ \A m \in Login \ {l} : UNCHANGED logins[m]
         /\ UNCHANGED <<nonces, nextNonce, tokens>>
         /\ logins[l].pc = "balanceOf" /\ logins'[l].pc = "balanceOf"
         /\ UNCHANGED <<logins[l].nonce, logins[l].signer, logins[l].id>>
         /\ \E some \in SUBSET logins[l].unread :
              /\ logins'[l].roles = logins[l].roles \cup Found(logins[l], some)
              /\ logins'[l].unread = logins[l].unread \ some
<1>1. PICK some \in SUBSET logins[l].unread : ReadBalances(l, some)
  BY DEF SomeBalances
<1> DEFINE more == logins[l].roles \cup Found(logins[l], some)
           rest == logins[l].unread \ some
<1>2. /\ logins[l].pc = "balanceOf" /\ UNCHANGED <<nonces, nextNonce, tokens>>
      /\ logins' = [logins EXCEPT ![l].roles = more, ![l].unread = rest]
  BY <1>1 DEF ReadBalances
<1> HIDE DEF more, rest
<1>3. LoginShapes' /\ \A m \in Login \ {l} : UNCHANGED logins[m]
  BY <1>2 DEF LoginShapes, NoLogin
<1>4. /\ logins'[l].pc = "balanceOf" /\ logins'[l].roles = more /\ logins'[l].unread = rest
      /\ UNCHANGED <<logins[l].nonce, logins[l].signer, logins[l].id>>
  BY <1>2 DEF LoginShapes, NoLogin
<1> QED BY <1>2, <1>3, <1>4 DEF more, rest

\* A nonce that was given out and is no longer in the map.
Burned(n) == n \in Nonce /\ n < nextNonce /\ nonces[n] = 0

\* What makes NonceServesOnce inductive: a nonce in the map was given out and
\* carried by nobody, so the one that a verification burns is its own.
NonceInv ==
  /\ LoginShapes
  /\ nextNonce \in Nat \ {0}
  /\ nonces = [n \in Nonce |-> nonces[n]]
  /\ \A n \in Nonce : nonces[n] # 0 => n < nextNonce
  /\ \A l \in Login : Busy(l) => Burned(logins[l].nonce)
  /\ \A t \in tokens : t.nonce = 0 \/ Burned(t.nonce)
  /\ NonceServesOnce

LEMMA NonceInvInit == ContentInit => NonceInv
<1> SUFFICES ASSUME ContentInit PROVE NonceInv
  OBVIOUS
<1>1. /\ logins = [l \in Login |-> NoLogin] /\ nextNonce = 1 /\ tokens = OpenTokens
      /\ nonces = [n \in Nonce |-> 0]
  BY DEF ContentInit, SessionsInit
<1> QED BY <1>1, OpenTokensAssumption DEF NonceInv, LoginShapes, Busy, NoLogin, NonceServesOnce

\* A verification that takes its next step, or is answered, keeps its nonce.
LEMMA SameNonces ==
  ASSUME NonceInv, LoginShapes', UNCHANGED <<nonces, nextNonce, tokens>>,
         \A l \in Login : Busy(l)' => Busy(l) /\ UNCHANGED logins[l].nonce
  PROVE  NonceInv'
  BY DEF NonceInv, NonceServesOnce, Busy, Burned

LEMMA NonceInvStep ==
  ASSUME NonceInv, AnyLoginStep
  PROVE  NonceInv'
<1>s. LoginShapes /\ MaxNonce \in Nat
  BY NonceAssumption DEF NonceInv
<1>1. CASE IssueNonce
  <2>1. /\ nextNonce \in Nonce /\ nextNonce' = nextNonce + 1 /\ UNCHANGED <<logins, tokens>>
        /\ \A n \in Nonce \ {nextNonce} : nonces'[n] = nonces[n]
        /\ nonces' = [n \in Nonce |-> nonces'[n]]
    BY <1>1 DEF IssueNonce, NonceInv
  <2>2. \A n : Burned(n) => Burned(n)'
    BY <1>s, <2>1 DEF Burned, Nonce
  <2>3. \A n \in Nonce : nonces'[n] # 0 => n < nextNonce'
    BY <1>s, <2>1 DEF NonceInv, Nonce
  <2> QED BY <1>s, <2>1, <2>2, <2>3 DEF NonceInv, LoginShapes, NonceServesOnce, Busy
<1>2. CASE \E n \in Nonce : RefuseSignature(n)
  BY <1>2 DEF RefuseSignature, NonceInv, LoginShapes, NonceServesOnce, Busy, Burned
<1>3. CASE \E l \in Login, n \in Nonce, signer \in Address : BeginVerify(l, n, signer)
  <2>1. PICK l \in Login, n \in Nonce, signer \in Address : BeginVerify(l, n, signer)
    BY <1>3
  <2>2. /\ ~Busy(l) /\ nonces[n] # 0 /\ UNCHANGED <<nextNonce, tokens>>
        /\ nonces' = [nonces EXCEPT ![n] = 0]
        /\ logins' = [logins EXCEPT ![l] = Starting(n, signer)]
    BY <2>1 DEF BeginVerify, NonceValid, Busy
  <2>3. LoginShapes' /\ logins'[l].nonce = n /\ \A m \in Login \ {l} : UNCHANGED logins[m]
    BY <1>s, <2>2 DEF LoginShapes, Starting, NoLogin
  <2>4. Burned(n)' /\ \A m : Burned(m) => Burned(m)' /\ m # n
    BY <1>s, <2>2 DEF Burned, NonceInv
  <2>5. n # 0
    BY DEF Nonce
  <2>6. \A m \in Nonce : nonces'[m] # 0 => m < nextNonce'
    BY <2>2 DEF NonceInv
  <2>7. \A m \in Login : (Busy(m) => Burned(logins[m].nonce))'
    BY <2>3, <2>4 DEF NonceInv, Busy
  <2>8. NonceServesOnce'
    <3>1. \A m \in Login \ {l} : Busy(m)' => logins'[m].nonce # n
      BY <2>3, <2>4 DEF NonceInv, Busy
    <3>2. \A t \in tokens : t.nonce # n
      BY <2>4, <2>5 DEF NonceInv
    <3> QED BY <2>2, <2>3, <3>1, <3>2 DEF NonceInv, NonceServesOnce, Busy
  <2> QED BY <2>2, <2>3, <2>4, <2>6, <2>7, <2>8 DEF NonceInv
<1>4. CASE \E l \in Login : \/ ReadByController(l) \/ ReadIdentity(l)
                            \/ ReadOwner(l) \/ ReadActive(l) \/ SomeBalances(l)
  <2>1. PICK l \in Login : \/ ReadByController(l) \/ ReadIdentity(l)
                           \/ ReadOwner(l) \/ ReadActive(l) \/ SomeBalances(l)
    BY <1>4
  <2>2. Busy(l) /\ UNCHANGED <<nonces, nextNonce, tokens>>
    BY <1>s, <2>1, BalancesMove
       DEF Busy, ReadByController, ReadIdentity, ReadOwner, ReadActive
  <2>3. /\ LoginShapes' /\ \A m \in Login \ {l} : UNCHANGED logins[m]
        /\ logins'[l].pc = "idle" \/ UNCHANGED logins[l].nonce
    <3>1. CASE SomeBalances(l)
      BY <1>s, <3>1, BalancesMove
    <3>2. CASE ~SomeBalances(l)
      BY <1>s, <2>1, <3>2 DEF LoginShapes, NoLogin, ReadByController, ReadIdentity, ReadOwner,
                              ReadActive, To, Answer
    <3> QED BY <3>1, <3>2
  <2> QED BY <2>2, <2>3, SameNonces DEF Busy
<1>5. CASE \E l \in Login : IssueToken(l)
  <2>1. PICK l \in Login : IssueToken(l)
    BY <1>5
  <2> DEFINE t == TokenFor(logins[l])
  <2>2. /\ Busy(l) /\ UNCHANGED <<nonces, nextNonce>> /\ tokens' = tokens \cup {t}
        /\ logins' = [logins EXCEPT ![l] = NoLogin]
    BY <2>1 DEF IssueToken, Answer, Busy
  <2>3. t.nonce = logins[l].nonce
    BY DEF TokenFor
  <2> HIDE DEF t
  <2>4. LoginShapes' /\ ~Busy(l)' /\ \A m \in Login \ {l} : UNCHANGED logins[m]
    BY <1>s, <2>2 DEF LoginShapes, NoLogin, Busy
  <2>5. \A n : Burned(n) => Burned(n)'
    BY <2>2 DEF Burned
  <2>6. \A u \in tokens' : u.nonce = 0 \/ Burned(u.nonce)'
    BY <2>2, <2>3, <2>5 DEF NonceInv
  <2>7. \A m \in Login : Busy(m)' => Busy(m) /\ m # l /\ UNCHANGED logins[m]
    BY <2>4 DEF Busy
  <2>8. NonceServesOnce'
    BY <2>2, <2>3, <2>7 DEF NonceInv, NonceServesOnce, Busy
  <2> QED BY <2>2, <2>4, <2>5, <2>6, <2>7, <2>8 DEF NonceInv
<1> QED BY <1>1, <1>2, <1>3, <1>4, <1>5 DEF AnyLoginStep, SomeBalances

LEMMA NonceStep == NonceInv /\ [AnyContentNext]_contentVars => NonceInv'
<1> SUFFICES ASSUME NonceInv, [AnyContentNext]_contentVars PROVE NonceInv'
  OBVIOUS
<1>1. CASE AnyLoginStep
  BY <1>1, NonceInvStep
<1>2. CASE UNCHANGED loginVars
  BY <1>2 DEF loginVars, NonceInv, LoginShapes, NonceServesOnce, Busy, Burned
<1>3. CASE Restart
  BY <1>3 DEF Restart, RestartLogins, NonceInv, LoginShapes, NonceServesOnce, Busy, Burned,
              NoLogin
<1>4. AnyLoginStep \/ UNCHANGED loginVars \/ Restart
  BY DEF AnyContentNext, AnyContentStep, contentVars, sessionsVars
<1> QED BY <1>1, <1>2, <1>3, <1>4

LEMMA NonceInvHolds == AnyContentSpec => []NonceInv
  BY NonceStep, NonceInvInit, PTL DEF AnyContentSpec

\* However many requests carry the same nonce, one verification comes of it and
\* at most one token, also after a restart.
THEOREM NonceServesOnceHolds == ContentSpec => []NonceServesOnce
  BY NonceInvHolds, ContentIsAny, PTL DEF NonceInv

-----------------------------------------------------------------------------
(***************************************************************************)
(* What a verification has read was so at some moment since it began.      *)
(***************************************************************************)

\* byController names registered identities only, and those stay registered.
LEMMA IndexedIsRegistered ==
  ASSUME AssetsInv, IndexPointsBack, NEW a \in Address, byController[a] # 0
  PROVE  byController[a] \in Registered
<1>1. byController[a] \in Id /\ byController[a] < nextId
  BY MaxIdAssumption DEF AssetsInv, IdentityInv, IdentityTypeOK, IndexPointsBack, Id, AnyId
<1>2. Id \subseteq AnyId
  BY MaxIdAssumption DEF Id, AnyId
<1> QED BY <1>1, <1>2 DEF AssetsInv, IdentityInv, IssuedShape, Registered

LEMMA StaysRegistered ==
  ASSUME AssetsInv, AnyAssetsStep \/ UNCHANGED assetsVars
  PROVE  nextId <= nextId' /\ Registered \subseteq Registered'
<1>1. nextId \in Nat /\ nextId' \in Nat
  BY AssetsInvStep, MaxIdAssumption DEF AssetsInv, IdentityInv, IdentityTypeOK
<1>2. nextId <= nextId'
  <2>1. nextId' = nextId \/ nextId' = nextId + 1
    BY DEF AnyAssetsStep, AccessStep, AssetStep, AnyMint, AnyTransfer, AnyGrant, assetsVars,
           AnyIdentityStep, IdentityDirect, AnyExecutorStep, TimeStep, DidStep, RoleStep,
           RegistryStep, SyncStep, SyncController, SetClearance, RegisterIdentity, Suspend,
           Revoke, Reinstate, SetStatus, BootstrapClearance, Pause, Unpause,
           RenounceIdentityAdmin, registryVars, identityVars
  <2> QED BY <1>1, <2>1
<1>3. \A i \in Id : i \in Registered <=> i < nextId
  <2>1. Id \subseteq AnyId
    BY MaxIdAssumption DEF Id, AnyId
  <2> QED BY <2>1 DEF AssetsInv, IdentityInv, IssuedShape, Registered, NoIdentity
<1>4. \A i \in Id : i \in Registered' <=> i < nextId'
  <2>1. Id \subseteq AnyId /\ AssetsInv'
    BY AssetsInvStep, MaxIdAssumption DEF Id, AnyId
  <2> QED BY <2>1 DEF AssetsInv, IdentityInv, IssuedShape, Registered, NoIdentity
<1>5. Id \subseteq Nat
  BY MaxIdAssumption DEF Id
<1>6. \A i \in Id : i \in Registered => i \in Registered'
  <2> SUFFICES ASSUME NEW i \in Id, i < nextId PROVE i < nextId'
    BY <1>3, <1>4
  <2> QED BY <1>1, <1>2, <1>5
<1> QED BY <1>2, <1>6 DEF Registered

LEMMA StaysIndexed ==
  ASSUME AssetsInv, IndexPointsBack, AnyAssetsStep \/ UNCHANGED assetsVars
  PROVE  IndexPointsBack'
<1>1. AnyIdentityStep \/ UNCHANGED identityVars
  BY DEF AnyAssetsStep, AccessStep, AssetStep, AnyMint, AnyTransfer, AnyGrant, assetsVars
<1> QED BY <1>1, PointsBackStep DEF AssetsInv

Earned(login, h) ==
  /\ login.pc # "idle" => login.signer \in Address
  /\ login.pc \notin {"idle", "byController"} => login.id \in Registered
  /\ login.pc \in {"isActive", "balanceOf"} => login.id \in h.controlled
  /\ login.pc = "balanceOf" => login.id \in h.active

EarnedInv == LoginShapes /\ \A l \in Login : Earned(logins[l], held[l])

LEMMA WatchHolds ==
  ASSUME WatchLogins, NEW l \in Login, Busy(l)'
  PROVE  /\ held[l].controlled \subseteq held'[l].controlled
         /\ held[l].active \subseteq held'[l].active
         /\ \A i \in Id : IsActive(i)' => i \in held'[l].active
         /\ held[l].roles \subseteq held'[l].roles
         /\ Found(logins[l], Role)' \subseteq held'[l].roles
  BY DEF WatchLogins, Busy, Found

LEMMA WatchControl ==
  ASSUME WatchLogins, NEW l \in Login, Busy(l)', NEW i \in Id,
         i \in Registered', ControllerOf(i)' = logins'[l].signer
  PROVE  i \in held'[l].controlled
<1>1. held'[l].controlled = held[l].controlled \cup
        {j \in Id : (j \in Registered /\ ControllerOf(j) = logins[l].signer)'}
  BY DEF WatchLogins, Busy
<1> HIDE DEF Registered, ControllerOf
<1> QED BY <1>1

LEMMA WaitingIsEarned ==
  ASSUME WatchLogins, NEW l \in Login, Earned(logins[l], held[l]), UNCHANGED logins[l],
         Registered \subseteq Registered'
  PROVE  Earned(logins[l], held[l])'
  BY WatchHolds DEF Earned, Busy

\* Each read puts into the history what it lets through.
LEMMA ReadingIsEarned ==
  ASSUME AssetsInv, IndexPointsBack, EarnedInv, WatchLogins, UNCHANGED assetsVars,
         NEW l \in Login,
         \/ \E n \in Nonce, signer \in Address : BeginVerify(l, n, signer)
         \/ ReadByController(l) \/ ReadIdentity(l) \/ ReadOwner(l) \/ ReadActive(l)
         \/ SomeBalances(l) \/ IssueToken(l)
  PROVE  EarnedInv'
<1> USE DEF assetsVars, identityVars, registryVars, roleVars
<1>s. LoginShapes /\ Earned(logins[l], held[l])
  BY DEF EarnedInv
<1>r. UNCHANGED Registered
  BY DEF Registered
<1>o. ASSUME LoginShapes', \A m \in Login \ {l} : UNCHANGED logins[m],
             Earned(logins[l], held[l])'
      PROVE  EarnedInv'
  <2>1. \A m \in Login \ {l} : Earned(logins[m], held[m])'
    BY <1>o, <1>r, WaitingIsEarned DEF EarnedInv
  <2> QED BY <1>o, <2>1 DEF EarnedInv
<1>1. CASE \E n \in Nonce, signer \in Address : BeginVerify(l, n, signer)
  <2>1. PICK n \in Nonce, signer \in Address : BeginVerify(l, n, signer)
    BY <1>1
  <2>2. /\ LoginShapes' /\ \A m \in Login \ {l} : UNCHANGED logins[m]
        /\ logins'[l].pc = "byController" /\ logins'[l].signer = signer
    BY <1>s, <2>1 DEF BeginVerify, Starting, LoginShapes, NoLogin
  <2>3. Earned(logins[l], held[l])'
    BY <2>2 DEF Earned
  <2> QED BY <1>o, <2>2, <2>3
<1>2. CASE ReadByController(l)
  <2>1. /\ LoginShapes' /\ \A m \in Login \ {l} : UNCHANGED logins[m]
        /\ \/ logins'[l].pc = "idle"
           \/ /\ logins'[l].pc = "identities" /\ UNCHANGED logins[l].signer
              /\ logins'[l].id = byController[logins[l].signer] /\ logins'[l].id # 0
    <3> DEFINE id == byController[logins[l].signer]
    <3>1. /\ id = 0 => logins' = [logins EXCEPT ![l] = NoLogin]
          /\ id # 0 => logins' = [logins EXCEPT ![l].pc = "identities", ![l].id = id]
      BY <1>2 DEF ReadByController, Answer
    <3> HIDE DEF id
    <3>2. CASE id = 0
      BY <1>s, <3>1, <3>2 DEF LoginShapes, NoLogin
    <3>3. CASE id # 0
      BY <1>s, <3>1, <3>3 DEF LoginShapes, NoLogin, id
    <3> QED BY <3>2, <3>3
  <2>2. logins[l].signer \in Address
    BY <1>s, <1>2 DEF Earned, ReadByController
  <2>3. Earned(logins[l], held[l])'
    BY <1>r, <2>1, <2>2, IndexedIsRegistered DEF Earned
  <2> QED BY <1>o, <2>1, <2>3
<1>3. CASE ReadIdentity(l)
  <2>1. /\ LoginShapes' /\ \A m \in Login \ {l} : UNCHANGED logins[m]
        /\ logins'[l].pc = "identityOwner"
        /\ UNCHANGED <<logins[l].signer, logins[l].id>>
    BY <1>s, <1>3 DEF ReadIdentity, LoginShapes, NoLogin
  <2>2. Earned(logins[l], held[l])'
    BY <1>s, <1>3, <1>r, <2>1 DEF Earned, ReadIdentity
  <2> QED BY <1>o, <2>1, <2>2
<1>4. CASE ReadOwner(l)
  <2>1. /\ LoginShapes' /\ \A m \in Login \ {l} : UNCHANGED logins[m]
        /\ \/ logins'[l].pc = "idle"
           \/ /\ logins'[l].pc = "isActive" /\ UNCHANGED <<logins[l].signer, logins[l].id>>
              /\ ControllerOf(logins[l].id) = logins[l].signer
    BY <1>s, <1>4 DEF ReadOwner, To, Answer, LoginShapes, NoLogin
  <2>2. logins[l].id \in Registered /\ logins[l].signer \in Address
    BY <1>s, <1>4 DEF Earned, ReadOwner
  <2>3. \A i : UNCHANGED ControllerOf(i)
    BY DEF ControllerOf, IdentityOwner
  <2>4. ASSUME logins'[l].pc = "isActive" PROVE logins'[l].id \in held'[l].controlled
    <3>1. PICK i \in Id : i = logins[l].id
      BY <2>2 DEF Registered
    <3>2. i \in Registered' /\ ControllerOf(i)' = logins'[l].signer
      BY <1>r, <2>1, <2>2, <2>3, <2>4, <3>1
    <3>3. Busy(l)'
      BY <2>4 DEF Busy
    <3>4. i \in held'[l].controlled
      BY <3>2, <3>3, WatchControl
    <3> QED BY <2>1, <2>4, <3>1, <3>4
  <2>5. Earned(logins[l], held[l])'
    BY <1>r, <2>1, <2>2, <2>4 DEF Earned
  <2> QED BY <1>o, <2>1, <2>5
<1>5. CASE ReadActive(l)
  <2>1. /\ LoginShapes' /\ \A m \in Login \ {l} : UNCHANGED logins[m]
        /\ \/ logins'[l].pc = "idle"
           \/ /\ logins'[l].pc = "balanceOf" /\ UNCHANGED <<logins[l].signer, logins[l].id>>
              /\ IsActive(logins[l].id)
    BY <1>s, <1>5 DEF ReadActive, To, Answer, LoginShapes, NoLogin
  <2>2. /\ logins[l].id \in Registered /\ logins[l].signer \in Address
        /\ logins[l].id \in held[l].controlled
    BY <1>s, <1>5 DEF Earned, ReadActive
  <2>3. \A i : UNCHANGED IsActive(i)
    BY DEF IsActive
  <2>4. logins'[l].pc = "balanceOf" =>
          logins'[l].id \in held'[l].controlled /\ logins'[l].id \in held'[l].active
    BY <1>r, <2>1, <2>2, <2>3, WatchHolds DEF Busy, Registered
  <2>5. Earned(logins[l], held[l])'
    BY <1>r, <2>1, <2>2, <2>4 DEF Earned
  <2> QED BY <1>o, <2>1, <2>5
<1>6. CASE SomeBalances(l)
  <2>1. /\ LoginShapes' /\ \A m \in Login \ {l} : UNCHANGED logins[m]
        /\ logins[l].pc = "balanceOf" /\ logins'[l].pc = "balanceOf"
        /\ UNCHANGED <<logins[l].signer, logins[l].id>>
    BY <1>s, <1>6, BalancesMove
  <2>2. Earned(logins[l], held[l])'
    BY <1>r, <1>s, <2>1, WatchHolds DEF Earned, Busy
  <2> QED BY <1>o, <2>1, <2>2
<1>7. CASE IssueToken(l)
  <2>1. /\ LoginShapes' /\ \A m \in Login \ {l} : UNCHANGED logins[m]
        /\ logins'[l].pc = "idle"
    BY <1>s, <1>7 DEF IssueToken, Answer, LoginShapes, NoLogin
  <2>2. Earned(logins[l], held[l])'
    BY <2>1 DEF Earned
  <2> QED BY <1>o, <2>1, <2>2
<1> QED BY <1>1, <1>2, <1>3, <1>4, <1>5, <1>6, <1>7

-----------------------------------------------------------------------------
\* The same of the roles: those found are the key's at some moment, and those
\* it has now are in the history already.
RolesHeld(login, h) ==
  /\ login.unread \subseteq Role
  /\ login.pc # "idle" =>
       login.roles \subseteq h.roles /\ Found(login, Role) \subseteq h.roles

RolesInv == \A l \in Login : RolesHeld(logins[l], held[l])

RolesMoved(l) ==
  \/ logins'[l] = NoLogin
  \/ logins'[l].roles = {} /\ logins'[l].unread = Role
  \/ /\ Busy(l)
     /\ logins'[l].roles \subseteq logins[l].roles \cup Found(logins[l], Role)
     /\ logins'[l].unread \subseteq logins[l].unread

LEMMA RolesStayHeld ==
  ASSUME WatchLogins, NEW l \in Login, RolesHeld(logins[l], held[l]),
         RolesMoved(l) \/ UNCHANGED logins[l]
  PROVE  RolesHeld(logins[l], held[l])'
<1>1. logins'[l].unread \subseteq Role
  BY DEF RolesHeld, RolesMoved, NoLogin
<1>2. ASSUME Busy(l)'
      PROVE  logins'[l].roles \subseteq held'[l].roles /\ Found(logins[l], Role)' \subseteq held'[l].roles
  <2>1. /\ held[l].roles \subseteq held'[l].roles
        /\ Found(logins[l], Role)' \subseteq held'[l].roles
    BY <1>2, WatchHolds
  <2>2. Busy(l) => logins[l].roles \subseteq held[l].roles
                   /\ Found(logins[l], Role) \subseteq held[l].roles
    BY DEF RolesHeld, Busy
  <2> QED BY <1>2, <2>1, <2>2 DEF RolesMoved, NoLogin, Busy
<1> QED BY <1>1, <1>2 DEF RolesHeld, Busy

LEMMA LoginsMoveRoles ==
  ASSUME LoginShapes, RolesInv, AnyLoginStep, NEW m \in Login
  PROVE  RolesMoved(m) \/ UNCHANGED logins[m]
<1>1. CASE UNCHANGED logins
  BY <1>1
<1>2. CASE \E l \in Login, n \in Nonce, signer \in Address : BeginVerify(l, n, signer)
  BY <1>2 DEF BeginVerify, Starting, LoginShapes, NoLogin, RolesMoved
<1>3. CASE \E l \in Login : SomeBalances(l)
  <2>1. PICK l \in Login : SomeBalances(l)
    BY <1>3
  <2>2. PICK some \in SUBSET logins[l].unread :
          /\ logins'[l].roles = logins[l].roles \cup Found(logins[l], some)
          /\ logins'[l].unread = logins[l].unread \ some
    BY <2>1, BalancesMove
  <2>3. Found(logins[l], some) \subseteq Found(logins[l], Role)
    BY DEF RolesInv, RolesHeld, Found
  <2> QED BY <2>1, <2>2, <2>3, BalancesMove DEF RolesMoved, Busy
<1>4. ASSUME NEW l \in Login,
             \/ ReadByController(l) \/ ReadIdentity(l) \/ ReadOwner(l) \/ ReadActive(l)
             \/ IssueToken(l)
      PROVE  RolesMoved(m) \/ UNCHANGED logins[m]
  <2>1. m # l => UNCHANGED logins[m]
    BY <1>4 DEF ReadByController, ReadIdentity, ReadOwner, ReadActive, IssueToken, To, Answer,
                LoginShapes, NoLogin
  <2>2. CASE Answer(l)
    BY <2>1, <2>2 DEF Answer, LoginShapes, RolesMoved
  <2>3. CASE ReadByController(l) /\ ~Answer(l)
    <3> DEFINE id == byController[logins[l].signer]
    <3>1. logins' = [logins EXCEPT ![l].pc = "identities", ![l].id = id] /\ Busy(l)
      BY <2>3 DEF ReadByController, Busy
    <3> HIDE DEF id
    <3>2. UNCHANGED <<logins[l].roles, logins[l].unread>>
      BY <3>1 DEF LoginShapes, NoLogin
    <3> QED BY <2>1, <3>1, <3>2 DEF RolesMoved
  <2>4. CASE ReadIdentity(l) \/ ReadOwner(l) \/ ReadActive(l)
    <3>1. CASE ReadIdentity(l)
      <4>1. Busy(l) /\ UNCHANGED <<logins[l].roles, logins[l].unread>>
        BY <3>1 DEF ReadIdentity, LoginShapes, NoLogin, Busy
      <4> QED BY <2>1, <4>1 DEF RolesMoved
    <3>2. CASE (ReadOwner(l) \/ ReadActive(l)) /\ ~Answer(l)
      <4>1. Busy(l) /\ UNCHANGED <<logins[l].roles, logins[l].unread>>
        BY <3>2 DEF ReadOwner, ReadActive, To, LoginShapes, NoLogin, Busy
      <4> QED BY <2>1, <4>1 DEF RolesMoved
    <3> QED BY <2>2, <2>4, <3>1, <3>2
  <2> QED BY <1>4, <2>2, <2>3, <2>4 DEF IssueToken
<1> QED BY <1>1, <1>2, <1>3, <1>4 DEF AnyLoginStep, SomeBalances, IssueNonce, RefuseSignature


TenureInv == AssetsInv /\ IndexPointsBack /\ EarnedInv /\ RolesInv

LEMMA TenureInvInit == ContentInit => TenureInv
<1> SUFFICES ASSUME ContentInit PROVE TenureInv
  OBVIOUS
<1>1. AssetsInv /\ IndexPointsBack
  BY AssetsTypeInit, PointsBackInit DEF ContentInit, SessionsInit, AssetsInit
<1> QED BY <1>1 DEF ContentInit, SessionsInit, TenureInv, EarnedInv, LoginShapes, Earned, NoLogin,
                    RolesInv, RolesHeld

LEMMA TenureInvStep == TenureInv /\ [AnyContentNext]_contentVars => TenureInv'
<1> SUFFICES ASSUME TenureInv, [AnyContentNext]_contentVars PROVE TenureInv'
  OBVIOUS
<1>1. AnyAssetsStep \/ UNCHANGED assetsVars
  BY DEF AnyContentNext, AnyContentStep, contentVars, sessionsVars
<1>2. AssetsInv' /\ IndexPointsBack' /\ Registered \subseteq Registered'
  BY <1>1, AssetsInvStep, StaysIndexed, StaysRegistered DEF TenureInv
<1>3. CASE UNCHANGED contentVars
  <2>1. EarnedInv'
    BY <1>2, <1>3 DEF TenureInv, EarnedInv, LoginShapes, Earned, contentVars, sessionsVars,
                      loginVars
  <2>2. RolesInv'
    BY <1>3 DEF TenureInv, RolesInv, RolesHeld, Found, HasRoleToken, contentVars, sessionsVars,
                loginVars, assetsVars, identityVars, roleVars
  <2> QED BY <1>2, <2>1, <2>2 DEF TenureInv
<1>4. CASE AnyContentNext
  <2>1. WatchLogins
    BY <1>4 DEF AnyContentNext, Watch
  <2>2. ASSUME UNCHANGED logins PROVE EarnedInv'
    BY <1>2, <2>1, <2>2, WaitingIsEarned DEF TenureInv, EarnedInv, LoginShapes
  <2>3. ASSUME Restart PROVE EarnedInv'
    BY <2>3 DEF Restart, RestartLogins, EarnedInv, LoginShapes, Earned, NoLogin
  <2>4. ASSUME AnyLoginStep, UNCHANGED assetsVars PROVE EarnedInv'
    BY <2>1, <2>2, <2>4, ReadingIsEarned
       DEF TenureInv, AnyLoginStep, SomeBalances, IssueNonce, RefuseSignature
  <2>5. EarnedInv'
    BY <1>4, <2>2, <2>3, <2>4 DEF AnyContentNext, AnyContentStep, loginVars
  <2>6. RolesInv'
    <3>1. \A l \in Login : RolesMoved(l) \/ UNCHANGED logins[l]
      <4>1. CASE AnyLoginStep
        BY <4>1, LoginsMoveRoles DEF TenureInv, EarnedInv
      <4>2. CASE Restart
        BY <4>2 DEF Restart, RestartLogins, RolesMoved
      <4>3. CASE UNCHANGED logins
        BY <4>3
      <4> QED BY <1>4, <4>1, <4>2, <4>3 DEF AnyContentNext, AnyContentStep, loginVars
    <3> QED BY <2>1, <3>1, RolesStayHeld DEF TenureInv, RolesInv
  <2> QED BY <1>2, <2>5, <2>6 DEF TenureInv
<1> QED BY <1>3, <1>4

LEMMA IssuedIsEarned ==
  ASSUME TenureInv, [AnyContentNext]_contentVars, NEW t \in tokens' \ tokens
  PROVE  \E l \in Login :
           /\ logins[l].nonce = t.nonce
           /\ t.address = logins[l].signer
           /\ t.id \in held[l].controlled \cap held[l].active
           /\ t.roles \subseteq held[l].roles
<1>1. PICK l \in Login : IssueToken(l)
  BY DEF AnyContentNext, AnyContentStep, contentVars, sessionsVars, loginVars, AnyLoginStep,
         IssueNonce, RefuseSignature, BeginVerify, ReadByController, ReadIdentity, ReadOwner,
         ReadActive, ReadBalances, Restart, RestartLogins
<1>2. t = TokenFor(logins[l]) /\ logins[l].pc = "balanceOf"
  BY <1>1 DEF IssueToken
<1>3. Earned(logins[l], held[l]) /\ RolesHeld(logins[l], held[l])
  BY DEF TenureInv, EarnedInv, RolesInv
<1>4. Found(logins[l], logins[l].unread) \subseteq Found(logins[l], Role)
  BY <1>3 DEF RolesHeld, Found
<1>5. t.roles \subseteq held[l].roles
  BY <1>2, <1>3, <1>4 DEF TokenFor, RolesHeld
<1> QED BY <1>2, <1>3, <1>5 DEF TokenFor, Earned

LEMMA EarnedAlways == AnyContentSpec => TokenWasEarned
<1>1. TenureInv /\ [AnyContentNext]_contentVars =>
        [\A t \in tokens' \ tokens : \E l \in Login :
           /\ logins[l].nonce = t.nonce
           /\ t.address = logins[l].signer
           /\ t.id \in held[l].controlled \cap held[l].active
           /\ t.roles \subseteq held[l].roles]_sessionsVars
  BY IssuedIsEarned
<1> QED BY <1>1, TenureInvInit, TenureInvStep, PTL DEF AnyContentSpec, TokenWasEarned

\* A token names an identity that its key controlled, and that was active, at
\* some moment since the verification began, and roles that were the key's at
\* some moment since, whatever rotations, suspensions, role changes and stale
\* index entries fall between its reads.
THEOREM TokenWasEarnedHolds == ContentSpec => TokenWasEarned
  BY EarnedAlways, ContentIsAny
-----------------------------------------------------------------------------
(***************************************************************************)
(* Types.  A token has the identity and the key of a login that earned it. *)
(***************************************************************************)
LoginRecord == [pc : Stage, nonce : 0 .. MaxNonce, signer : AnyAddress, id : AnyId,
                clearance : Tier, roles : SUBSET Role, unread : SUBSET Role]

HeldRecord == [controlled : SUBSET Id, active : SUBSET Id, roles : SUBSET Role]

LEMMA NoLoginTyped == NoLogin \in LoginRecord
  BY NonceAssumption, MaxIdAssumption
     DEF NoLogin, LoginRecord, Stage, AnyAddress, AnyId, Tier, PUBLIC, TOP_SECRET

LEMMA ClockTyped ==
  ASSUME AssetsInv
  PROVE  /\ now \in Nat
         /\ \A i \in AnyId : ClearanceOf(i) \in Tier
         /\ \A a \in Address : byController[a] \in AnyId
  BY MaxTimeAssumption DEF AssetsInv, IdentityInv, IdentityTypeOK, Identity, ClearanceOf

LEMMA SessionsTypeInit == ContentInit => SessionsTypeOK
<1> SUFFICES ASSUME ContentInit PROVE SessionsTypeOK
  OBVIOUS
<1>1. /\ nonces = [n \in Nonce |-> 0] /\ nextNonce = 1 /\ tokens = OpenTokens
      /\ logins = [l \in Login |-> NoLogin] /\ held = [l \in Login |-> NothingHeld]
  BY DEF ContentInit, SessionsInit
<1>2. nextNonce \in 1 .. MaxNonce + 1
  BY <1>1, NonceAssumption
<1> QED BY <1>1, <1>2, OpenTokensAssumption, NoLoginTyped
       DEF SessionsTypeOK, NothingHeld, LoginRecord

\* A verification's own reads.
LEMMA LoginReadTyped ==
  ASSUME AssetsInv, SessionsTypeOK, EarnedInv, NEW l \in Login,
         \/ ReadByController(l) \/ ReadIdentity(l) \/ ReadOwner(l) \/ ReadActive(l)
         \/ SomeBalances(l)
  PROVE  logins' \in [Login -> LoginRecord] /\ UNCHANGED <<nonces, nextNonce, tokens>>
<1>1. logins \in [Login -> LoginRecord] /\ logins[l] \in LoginRecord
  BY DEF SessionsTypeOK, LoginRecord
<1>2. UNCHANGED <<nonces, nextNonce, tokens>>
  BY DEF ReadByController, ReadIdentity, ReadOwner, ReadActive, SomeBalances, ReadBalances
<1>3. CASE Answer(l)
  BY <1>1, <1>2, <1>3, NoLoginTyped DEF Answer
<1>4. ASSUME NEW stage \in Stage, To(l, stage) PROVE logins' \in [Login -> LoginRecord]
  BY <1>1, <1>4 DEF To, LoginRecord
<1>5. CASE ReadByController(l) /\ ~Answer(l)
  <2>1. PICK id \in AnyId :
          logins' = [logins EXCEPT ![l].pc = "identities", ![l].id = id]
    <3>1. logins[l].signer \in Address
      BY <1>5 DEF ReadByController, EarnedInv, Earned
    <3> QED BY <1>5, <3>1, ClockTyped DEF ReadByController
  <2> DEFINE moved == [logins EXCEPT ![l].pc = "identities"]
  <2>2. moved \in [Login -> LoginRecord]
    BY <1>1 DEF LoginRecord, Stage
  <2>3. logins' = [moved EXCEPT ![l].id = id]
    BY <2>1
  <2> HIDE DEF moved
  <2> QED BY <1>2, <2>2, <2>3 DEF LoginRecord
<1>6. CASE ReadIdentity(l)
  <2> DEFINE moved == [logins EXCEPT ![l].pc = "identityOwner"]
  <2>1. moved \in [Login -> LoginRecord]
    BY <1>1 DEF LoginRecord, Stage
  <2>2. logins' = [moved EXCEPT ![l].clearance = ClearanceOf(logins[l].id)]
    BY <1>6 DEF ReadIdentity
  <2>3. ClearanceOf(logins[l].id) \in Tier
    BY <1>1, ClockTyped DEF LoginRecord
  <2> HIDE DEF moved
  <2> QED BY <1>2, <2>1, <2>2, <2>3 DEF LoginRecord
<1>7. CASE ReadOwner(l) \/ ReadActive(l)
  BY <1>2, <1>3, <1>4, <1>7 DEF ReadOwner, ReadActive, Stage
<1>8. CASE SomeBalances(l)
  <2>1. PICK some \in SUBSET logins[l].unread : ReadBalances(l, some)
    BY <1>8 DEF SomeBalances
  <2> DEFINE more  == logins[l].roles \cup Found(logins[l], some)
             rest  == logins[l].unread \ some
             moved == [logins EXCEPT ![l].roles = more]
  <2>2. more \in SUBSET Role /\ rest \in SUBSET Role
    BY <1>1 DEF LoginRecord, Found
  <2>3. logins' = [moved EXCEPT ![l].unread = rest]
    BY <2>1 DEF ReadBalances
  <2> HIDE DEF more, rest
  <2>4. moved \in [Login -> LoginRecord]
    BY <1>1, <2>2 DEF LoginRecord
  <2> HIDE DEF moved
  <2> QED BY <1>2, <2>2, <2>3, <2>4 DEF LoginRecord
<1> QED BY <1>2, <1>3, <1>5, <1>6, <1>7, <1>8

LEMMA TokenTyped ==
  ASSUME AssetsInv, SessionsTypeOK, EarnedInv, NEW l \in Login, logins[l].pc = "balanceOf"
  PROVE  TokenFor(logins[l]) \in SessionToken
<1>1. logins[l].id \in Id /\ logins[l].signer \in Address
  BY DEF EarnedInv, Earned, Registered
<1>2. /\ logins[l].clearance \in Tier /\ logins[l].nonce \in 0 .. MaxNonce
      /\ logins[l].roles \cup Found(logins[l], logins[l].unread) \in SUBSET Role
  BY DEF SessionsTypeOK, Found
<1>3. now + TokenLife \in Nat
  BY ClockTyped, NonceAssumption
<1> QED BY <1>1, <1>2, <1>3 DEF TokenFor, SessionToken

LEMMA LoginTypeStep ==
  ASSUME AssetsInv, SessionsTypeOK, EarnedInv, AnyLoginStep
  PROVE  /\ nonces' \in [Nonce -> Nat]
         /\ nextNonce' \in 1 .. MaxNonce + 1
         /\ logins' \in [Login -> LoginRecord]
         /\ tokens' \subseteq SessionToken
<1>1. /\ nonces \in [Nonce -> Nat] /\ nextNonce \in 1 .. MaxNonce + 1
      /\ logins \in [Login -> LoginRecord] /\ tokens \subseteq SessionToken
  BY DEF SessionsTypeOK, LoginRecord
<1>2. CASE IssueNonce
  <2>1. now + NonceLife \in Nat
    BY ClockTyped, NonceAssumption
  <2>2. nextNonce' \in 1 .. MaxNonce + 1
    BY <1>1, <1>2, NonceAssumption DEF IssueNonce, Nonce
  <2> QED BY <1>1, <1>2, <2>1, <2>2 DEF IssueNonce
<1>3. CASE \E n \in Nonce : RefuseSignature(n)
  BY <1>1, <1>3 DEF RefuseSignature
<1>4. CASE \E l \in Login, n \in Nonce, signer \in Address : BeginVerify(l, n, signer)
  <2>1. PICK l \in Login, n \in Nonce, signer \in Address : BeginVerify(l, n, signer)
    BY <1>4
  <2>2. n \in 0 .. MaxNonce /\ signer \in AnyAddress /\ "byController" \in Stage
    BY NonceAssumption DEF Nonce, AnyAddress, Stage
  <2>3. Starting(n, signer) \in LoginRecord
    <3> DEFINE from == [NoLogin EXCEPT !.pc = "byController"]
               with == [from EXCEPT !.nonce = n]
    <3>1. from \in LoginRecord
      BY <2>2, NoLoginTyped DEF LoginRecord
    <3>2. Starting(n, signer) = [with EXCEPT !.signer = signer]
      BY DEF Starting
    <3> HIDE DEF from
    <3>3. with \in LoginRecord
      BY <2>2, <3>1 DEF LoginRecord
    <3> HIDE DEF with
    <3> QED BY <2>2, <3>2, <3>3 DEF LoginRecord
  <2> QED BY <1>1, <2>1, <2>3 DEF BeginVerify
<1>5. CASE \E l \in Login : \/ ReadByController(l) \/ ReadIdentity(l)
                            \/ ReadOwner(l) \/ ReadActive(l) \/ SomeBalances(l)
  <2>1. logins' \in [Login -> LoginRecord] /\ UNCHANGED <<nonces, nextNonce, tokens>>
    BY <1>5, LoginReadTyped
  <2> QED BY <1>1, <2>1
<1>6. CASE \E l \in Login : IssueToken(l)
  <2>1. PICK l \in Login : IssueToken(l)
    BY <1>6
  <2>2. tokens' = tokens \cup {TokenFor(logins[l])} /\ TokenFor(logins[l]) \in SessionToken
    BY <2>1, TokenTyped DEF IssueToken
  <2>3. logins' \in [Login -> LoginRecord] /\ UNCHANGED <<nonces, nextNonce>>
    BY <1>1, <2>1, NoLoginTyped DEF IssueToken, Answer
  <2> QED BY <1>1, <2>2, <2>3
<1> QED BY <1>2, <1>3, <1>4, <1>5, <1>6 DEF AnyLoginStep, SomeBalances

LEMMA SessionsTypeStep ==
  ASSUME TenureInv, SessionsTypeOK, [AnyContentNext]_contentVars
  PROVE  SessionsTypeOK'
<1>1. /\ nonces \in [Nonce -> Nat] /\ nextNonce \in 1 .. MaxNonce + 1
      /\ logins \in [Login -> LoginRecord] /\ tokens \subseteq SessionToken
  BY DEF SessionsTypeOK, LoginRecord
<1>2. /\ nonces' \in [Nonce -> Nat] /\ nextNonce' \in 1 .. MaxNonce + 1
      /\ logins' \in [Login -> LoginRecord] /\ tokens' \subseteq SessionToken
  <2>1. CASE AnyLoginStep
    BY <2>1, LoginTypeStep DEF TenureInv
  <2>2. CASE UNCHANGED loginVars
    BY <1>1, <2>2 DEF loginVars
  <2>3. CASE Restart
    BY <1>1, <2>3, NoLoginTyped DEF Restart, RestartLogins
  <2> QED BY <2>1, <2>2, <2>3 DEF AnyContentNext, AnyContentStep, contentVars, sessionsVars
<1>3. held \in [Login -> HeldRecord]
  BY DEF SessionsTypeOK, HeldRecord
<1>4. held' \in [Login -> HeldRecord]
  <2>1. CASE UNCHANGED held
    BY <1>3, <2>1
  <2>2. CASE WatchLogins
    BY <1>3, <2>2 DEF WatchLogins, NothingHeld, HeldRecord
  <2> QED BY <2>1, <2>2 DEF AnyContentNext, Watch, contentVars, sessionsVars
<1> QED BY <1>2, <1>4 DEF SessionsTypeOK, LoginRecord, HeldRecord
=============================================================================
