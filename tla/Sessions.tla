------------------------------- MODULE Sessions -------------------------------
(***************************************************************************)
(* backend/src/controllers/auth.ts and middleware/auth.ts: signing in with *)
(* a wallet.  The server is one process; each await of POST /auth/verify   *)
(* is a read of the chain, and between two of them other requests and the  *)
(* chain itself move on.  Each read is an action.                          *)
(*                                                                         *)
(* The server's clock is the chain's: both are only compared with times    *)
(* that were computed from them.                                           *)
(***************************************************************************)
EXTENDS AssetNFT

CONSTANTS
  Login,        \* slots for requests POST /auth/verify in flight
  MaxNonce,     \* bound: nonces that may be handed out
  NonceLife,    \* NONCE_TTL_MS
  TokenLife,    \* expiresIn of a token
  OpenTokens,   \* tokens issued by an earlier run of the server, still signed
                \* with the same secret
  LoginCalls    \* the keys that sign in

VARIABLES
  nonces,       \* nonces[n]: when the nonce expires, 0 if it is not in the map
  nextNonce,
  logins,       \* the verifications in flight
  tokens,       \* the tokens that were issued: nobody can take one back
  held          \* history: what was true of each login's key since it began

loginVars    == <<nonces, nextNonce, logins, tokens>>
sessionsVars == <<assetsVars, loginVars, held>>

Nonce == 1 .. MaxNonce

\* The payload of a token, its exp claim, and the nonce it was issued for
\* (0 for the open ones), which the payload does not have.
SessionToken ==
  [id : Id, address : Address, roles : SUBSET Role, clearance : Tier,
   exp : Nat, nonce : 0 .. MaxNonce]

ASSUME OpenTokensAssumption ==
  /\ OpenTokens \subseteq SessionToken
  /\ \A t \in OpenTokens : t.nonce = 0
ASSUME LoginCallsAssumption == LoginCalls \subseteq Address
ASSUME NonceAssumption ==
  MaxNonce \in Nat /\ NonceLife \in Nat /\ TokenLife \in Nat

\* Where a verification stands: the read it is waiting for.
Stage == {"idle", "byController", "identities", "identityOwner", "isActive", "balanceOf"}

\* roles are those found so far, and unread the balances that are still out.
NoLogin ==
  [pc |-> "idle", nonce |-> 0, signer |-> NoAddress, id |-> 0, clearance |-> PUBLIC,
   roles |-> {}, unread |-> Role]

NothingHeld == [controlled |-> {}, active |-> {}, roles |-> {}]

SessionsTypeOK ==
  /\ nonces \in [Nonce -> Nat]
  /\ nextNonce \in 1 .. MaxNonce + 1
  /\ logins \in [Login -> [pc : Stage, nonce : 0 .. MaxNonce, signer : AnyAddress,
                           id : AnyId, clearance : Tier, roles : SUBSET Role,
                           unread : SUBSET Role]]
  /\ tokens \subseteq SessionToken
  /\ held \in [Login -> [controlled : SUBSET Id, active : SUBSET Id, roles : SUBSET Role]]

\* requireAuth: the signature is the server's and exp has not passed.
Accepted(token) == now < token.exp

-----------------------------------------------------------------------------
\* GET /auth/nonce
IssueNonce ==
  /\ nextNonce \in Nonce                                \* bound
  /\ nonces' = [nonces EXCEPT ![nextNonce] = now + NonceLife]
  /\ nextNonce' = nextNonce + 1
  /\ UNCHANGED <<logins, tokens>>

NonceValid(n) == nonces[n] # 0 /\ nonces[n] >= now

To(l, stage) == logins' = [logins EXCEPT ![l].pc = stage]
Answer(l)    == logins' = [logins EXCEPT ![l] = NoLogin]

Starting(n, signer) == [NoLogin EXCEPT !.pc = "byController", !.nonce = n, !.signer = signer]

\* Variant of BeginVerify that leaves the nonce in the map until it expires.
BeginVerifyKeepingNonce(l, n, signer) ==
  /\ logins[l].pc = "idle"
  /\ NonceValid(n)
  /\ logins' = [logins EXCEPT ![l] = Starting(n, signer)]
  /\ UNCHANGED <<nonces, nextNonce, tokens>>

\* POST /auth/verify with a signature of signer: the nonce is burned before
\* the first await.
BeginVerify(l, n, signer) ==
  /\ logins[l].pc = "idle"
  /\ NonceValid(n)
  /\ nonces' = [nonces EXCEPT ![n] = 0]
  /\ logins' = [logins EXCEPT ![l] = Starting(n, signer)]
  /\ UNCHANGED <<nextNonce, tokens>>

\* A signature that does not verify burns the nonce all the same.
RefuseSignature(n) ==
  /\ NonceValid(n)
  /\ nonces' = [nonces EXCEPT ![n] = 0]
  /\ UNCHANGED <<nextNonce, logins, tokens>>

ReadByController(l) ==
  LET id == byController[logins[l].signer]
  IN /\ logins[l].pc = "byController"
     /\ IF id = 0 THEN Answer(l)
        ELSE logins' = [logins EXCEPT ![l].pc = "identities", ![l].id = id]
     /\ UNCHANGED <<nonces, nextNonce, tokens>>

\* The record is read once: its clearance goes into the token, however long
\* the reads after it take.
ReadIdentity(l) ==
  /\ logins[l].pc = "identities"
  /\ logins' = [logins EXCEPT ![l].pc = "identityOwner",
                              ![l].clearance = ClearanceOf(logins[l].id)]
  /\ UNCHANGED <<nonces, nextNonce, tokens>>

\* Variant of ReadOwner that trusts the index.
ReadOwnerTrustingIndex(l) ==
  /\ logins[l].pc = "identityOwner"
  /\ To(l, "isActive")
  /\ UNCHANGED <<nonces, nextNonce, tokens>>

\* The DID in the record never changes, so its owner is the controller.
ReadOwner(l) ==
  /\ logins[l].pc = "identityOwner"
  /\ IF ControllerOf(logins[l].id) = logins[l].signer THEN To(l, "isActive")
     ELSE Answer(l)
  /\ UNCHANGED <<nonces, nextNonce, tokens>>

ReadActive(l) ==
  /\ logins[l].pc = "isActive"
  /\ IF IsActive(logins[l].id) THEN To(l, "balanceOf") ELSE Answer(l)
  /\ UNCHANGED <<nonces, nextNonce, tokens>>

\* Of which roles among some does the login's key have the token now?
Found(login, some) == {r \in some : HasRoleToken(login.signer, r)}

\* The five balances are asked for together and answered in any order: some,
\* but not yet the last ...
ReadBalances(l, some) ==
  LET login == logins[l]
  IN /\ login.pc = "balanceOf"
     /\ some # {} /\ some # login.unread
     /\ logins' = [logins EXCEPT ![l].roles = login.roles \cup Found(login, some),
                                 ![l].unread = login.unread \ some]
     /\ UNCHANGED <<nonces, nextNonce, tokens>>

TokenFor(login) ==
  [id |-> login.id, address |-> login.signer,
   roles |-> login.roles \cup Found(login, login.unread),
   clearance |-> login.clearance, exp |-> now + TokenLife, nonce |-> login.nonce]

\* ... and the rest, with which the token is complete.
IssueToken(l) ==
  /\ logins[l].pc = "balanceOf"
  /\ tokens' = tokens \cup {TokenFor(logins[l])}
  /\ Answer(l)
  /\ UNCHANGED <<nonces, nextNonce>>

\* The process ends and starts again: the map of nonces and everything in
\* flight are gone.
RestartLogins ==
  /\ nonces' = [n \in Nonce |-> 0]
  /\ logins' = [l \in Login |-> NoLogin]
  /\ UNCHANGED <<nextNonce, tokens>>

-----------------------------------------------------------------------------
SessionsInit ==
  /\ AssetsInit
  /\ nonces = [n \in Nonce |-> 0]
  /\ nextNonce = 1
  /\ logins = [l \in Login |-> NoLogin]
  /\ tokens = OpenTokens
  /\ held = [l \in Login |-> NothingHeld]

LoginStep ==
  \/ IssueNonce
  \/ \E n \in Nonce : RefuseSignature(n)
  \/ \E l \in Login :
       \/ \E n \in Nonce, signer \in LoginCalls : BeginVerify(l, n, signer)
       \/ ReadByController(l)
       \/ ReadIdentity(l)
       \/ ReadOwner(l)
       \/ ReadActive(l)
       \/ \E some \in SUBSET logins[l].unread : ReadBalances(l, some)
       \/ IssueToken(l)

\* History, no part of the program: which identities the signer of a login
\* controlled, which were active, and which role tokens the signer had, at some
\* moment since the login began.
WatchLogins ==
  held' = [l \in Login |->
    IF logins'[l].pc = "idle" THEN NothingHeld
    ELSE [controlled |-> held[l].controlled \cup
            {i \in Id : (i \in Registered /\ ControllerOf(i) = logins[l].signer)'},
          active |-> held[l].active \cup {i \in Id : IsActive(i)'},
          roles |-> held[l].roles \cup {r \in Role : HasRoleToken(logins[l].signer, r)'}]]

-----------------------------------------------------------------------------
\* A nonce serves one verification: of all requests that carry it, whatever
\* the awaits let overtake, one gets past the check and at most one token
\* comes of it ("burned before verifying: no replay", auth.ts:28).
NonceServesOnce ==
  /\ \A l, m \in Login :
       (l # m /\ logins[l].pc # "idle" /\ logins[m].pc # "idle") =>
         logins[l].nonce # logins[m].nonce
  /\ \A l \in Login, t \in tokens :
       logins[l].pc # "idle" => logins[l].nonce # t.nonce
  /\ \A t, u \in tokens : (t.nonce = u.nonce /\ t.nonce # 0) => t = u

\* A token is never issued to a key that had lost the identity, nor for one
\* that was out of office, before the login began: at some moment since then
\* the key controlled it, at some moment it was active, and each of the roles in
\* the token was the key's at some moment, though not all at the same.
TokenWasEarned ==
  [][\A t \in tokens' \ tokens : \E l \in Login :
       /\ logins[l].nonce = t.nonce
       /\ t.address = logins[l].signer
       /\ t.id \in held[l].controlled \cap held[l].active
       /\ t.roles \subseteq held[l].roles]_sessionsVars
=============================================================================
