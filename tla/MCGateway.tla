------------------------------ MODULE MCGateway ------------------------------
(***************************************************************************)
(* Small instances of the page, the backend and the chain: Alice owns a    *)
(* CONFIDENTIAL asset and reads it, the Admin uploads and links, Bob is    *)
(* the Security Officer.                                                   *)
(*                                                                         *)
(* scene splits the main run in parts, each of which holds still what the  *)
(* others are about: in "login" keys sign in while they rotate and         *)
(* statuses change, in "roles" while a role comes and goes between two     *)
(* balances that the server reads; in "person" Alice is demoted and        *)
(* suspended while she reads, in "view", with an Auditor's role too, while *)
(* she looks at an asset, and in "list" while she lists the assets and     *)
(* another is minted;                                                      *)
(* in "storage" a file is uploaded again, altered or lost, and in "forge"  *)
(* rows are read that were linked with a path and a key made up; in "race" *)
(* two requests overlap, links among them, and versions change; in "link"  *)
(* links overlap, made up ones too, and a second asset is minted with a    *)
(* content that was freed; in "page" the server's one client is the page,  *)
(* and another Admin mints; in "console" the page's user goes about, signs *)
(* out and signs in again.                                                 *)
(***************************************************************************)
EXTENDS Console, MCAssets

CONSTANTS l1, l2, r1, r2, plain, odd, Scenes

BackendStaff ==
  <<Person(admin, e0, RESTRICTED, {ADMIN}),
    Person(alice, e1, CONFIDENTIAL, {MANAGER}),
    Person(bob, e2, RESTRICTED, {SECURITY_OFFICER})>>

Open(i, address, roles, clearance, exp) ==
  [id |-> i, address |-> address, roles |-> roles, clearance |-> clearance,
   exp |-> exp, nonce |-> 0]
OpenSessions ==
  {Open(Admin, admin, {ADMIN}, RESTRICTED, 3), Open(Alice, alice, {MANAGER}, CONFIDENTIAL, 2)}

BackendIdentityCalls ==
  [NoIdentityCalls EXCEPT
     !.changeOwner = {[did |-> alice, newOwner |-> key1], [did |-> alice, newOwner |-> alice]},
     !.status = {"SUSPENDED", "ACTIVE"},
     !.roleToken = {[who |-> alice, role |-> AUDITOR]},
     !.clearance = {PUBLIC}]
BackendAccessCalls ==
  [NoAccessCalls EXCEPT
     !.mint = {MintTo(Alice, h1, RESTRICTED), MintTo(Alice, h3, RESTRICTED)},
     !.updateContent = {[token |-> 1, hash |-> h2]}]

AliceKeys == {alice, key1}
ReadsOf(tokens1, spellings) ==
  [token : tokens1, spelled : spellings, bit : {P_READ}, stepUp : BOOLEAN]
ViewsOf(tokens1) == [route : View, token : tokens1]

\* Links that no upload answered: another upload's path and key, the same asset
\* and content in another spelling, and an asset that was never minted.
MadeUpFile(hash, spelled, path, dek) ==
  [hash |-> hash, spelled |-> spelled, path |-> path, dek |-> dek]
MadeUpLinks ==
  {[token |-> 1, spelled |-> plain, body |-> MadeUpFile(h1, plain, h2, 2)],
   [token |-> 1, spelled |-> odd, body |-> MadeUpFile(h1, odd, h1, FORGED)],
   [token |-> 1, spelled |-> odd, body |-> MadeUpFile(h1, plain, NoHash, 1)],
   [token |-> 3, spelled |-> plain, body |-> MadeUpFile(NoHash, plain, NoHash, 1)]}
GatewayAll ==
  [upload |-> {h1, h2}, link |-> MadeUpLinks,
   read |-> ReadsOf({1, 2}, {plain}) \cup ReadsOf({1}, {odd}), view |-> ViewsOf({1, 2})]
UploadForm ==
  [upload |-> {h2}, form |-> {[owner |-> Alice, classification |-> RESTRICTED]}]
OneContent ==
  [upload |-> {h1}, link |-> {}, read |-> ReadsOf({1}, {plain}), view |-> {}]
SlotsAlike == Permutations({l1, l2}) \cup Permutations({r1, r2})
AnyDamage  == {ABSENT, ALTERED}
NoDamage   == {}

-----------------------------------------------------------------------------
Still(i)  == identities'[i] = identities[i]

\* Requests and rows that are not as the page makes them.
Crooked ==
  {r \in Request : requests'[r].spelled = odd \/ requests'[r].file \notin uploads' \cup {NoFile}}
CrookedRows == {k \in RowId : files'[k] \notin uploads' \cup {NoFile}}
Undamaged == \A h \in Hash : storage[h] # ABSENT => storage'[h] \notin {ABSENT, ALTERED}

SigningIn ==
  /\ \/ scene = "login"
     \/ scene = "roles" /\ Still(Alice) /\ UNCHANGED <<owners, byController>>
  /\ UNCHANGED <<gatewayVars, assetVars, accessVars, browserVars>>

Reading ==
  /\ UNCHANGED <<now, owners, nonces, nextNonce, tokens, logins, browserVars>>
  /\ \A r \in Request : requests'[r].id # Admin
  /\ \A r \in Request : requests'[r].stepUp => scene = "person"
  /\ \A r \in Request : Listing(r)' => scene = "list"
  /\ \A r \in Request : requests'[r].route \in View => scene = "view"

Alone ==
  /\ Reading
  /\ UNCHANGED nextToken
  /\ Cardinality({r \in Request : requests'[r].pc # "idle"}) <= 1

Personal == scene = "person" /\ Alone /\ Cardinality(uploads') <= 1 /\ Undamaged
Storing  == scene = "storage" /\ Alone /\ Still(Alice)

Forging ==
  /\ scene = "forge"
  /\ Alone
  /\ Still(Alice)
  /\ Undamaged
  /\ UNCHANGED assets
  /\ Cardinality(CrookedRows) <= 1

Viewing ==
  /\ scene = "view"
  /\ Alone
  /\ UNCHANGED <<uploads, assets, byController>>
  /\ \A r \in Request : requests'[r].pc # "idle" => requests'[r].route \in View

Looking ==
  /\ scene = "list"
  /\ Reading
  /\ Cardinality({r \in Request : requests'[r].pc # "idle"}) <= 1
  /\ UNCHANGED uploads
  /\ \A r \in Request : requests'[r].pc # "idle" => Listing(r)'

Race ==
  /\ scene = "race"
  /\ Reading
  /\ Still(Alice)
  /\ UNCHANGED nextToken
  /\ Undamaged
  /\ \A r \in Request :
       /\ requests'[r].token # 2
       /\ requests'[r].reason \notin {"STEP_UP_REQUIRED", "ANOMALY_SCORE_HIGH"}

Linking ==
  /\ scene = "link"
  /\ Reading
  /\ Still(Alice)
  /\ tokenOfHash'[h3] = 0
  /\ \A r \in Request : requests'[r].pc \in {"idle", "upsert"}
  /\ Cardinality(CrookedRows) + Cardinality(Crooked) <= 1

Paging ==
  /\ scene = "page"
  /\ UNCHANGED <<now, owners>>
  /\ Still(Alice)
  /\ assets'[1] = assets[1]
  /\ nonces' # nonces => signIn' # signIn
  /\ uploads' # uploads => flow' # flow
  /\ Undamaged
  /\ \A l \in Login : logins[l].pc = "idle" /\ logins'[l].pc # "idle" => signIn' # signIn
  /\ \A r \in Request : At(r, "idle") /\ requests'[r].pc # "idle" => flow' # flow

\* The Admin's file is linked before anybody looks at the console.
Prepared == \E up \in uploads : files[<<1, plain>>] = up
Preparing ==
  /\ ~Prepared
  /\ UNCHANGED <<browserVars, loginVars>>
  /\ \A up \in uploads' : up.hash = assets[1].contentHash
  /\ Cardinality(uploads') <= 1
  /\ requests' # requests => \E r \in Request : At(r, "upsert") \/ requests'[r].pc = "upsert"

Browsing ==
  /\ scene = "console"
  /\ Undamaged
  /\ \/ Preparing /\ UNCHANGED consoleVars
     \/ /\ Prepared
        /\ UNCHANGED uploads
        /\ nonces' # nonces => signIn' # signIn
        /\ \A l \in Login : logins[l].pc = "idle" /\ logins'[l].pc # "idle" => signIn' # signIn
        /\ \A r \in Request : At(r, "idle") /\ requests'[r].pc # "idle" => asked' # asked
        /\ nextNonce' <= 2
        /\ decisions # <<>> => UNCHANGED signIn /\ place'.page # "files"
        /\ \A r \in Request : requests'[r].reason # "ANOMALY_SCORE_HIGH"
        /\ place'.page \in {"landing", "files", "asset"} /\ place'.token <= 2
        /\ \A r, q \in Request : r # q /\ requests'[r].pc # "idle" /\ requests'[q].pc # "idle" =>
             requests'[r].route = "record" /\ signIn'.pc = "idle"

SceneInit ==
  /\ ConsoleInit
  /\ scene \in Scenes
  /\ place.page = "admin" <=> scene = "page"
  /\ session = IF scene = "console" THEN {t \in OpenTokens : t.id = Alice} ELSE {}
  /\ scene = "console" => wallet = admin
  /\ scene \notin {"page", "console"} => wallet = NoAddress

SceneNext ==
  /\ UNCHANGED scene
  /\ scene # "console" => UNCHANGED place
  /\ scene = "console" => UNCHANGED <<assetsVars, wallet, flow>>
  /\ ConsoleStep
  /\ Still(Admin) /\ Still(Bob)
  /\ scene \notin {"roles", "view"} => UNCHANGED balance
  /\ \A l \in Login : logins'[l].unread \in {Role, {AUDITOR}}
  /\ \A l \in Login : logins'[l].unread # Role => scene = "roles"
  /\ scene \notin {"forge", "link"} => Crooked = {}
  /\ \/ SigningIn \/ Personal \/ Storing \/ Forging \/ Viewing \/ Looking \/ Race \/ Linking
     \/ Paging \/ Browsing
  /\ Watch
SceneSpec == SceneInit /\ [][SceneNext]_<<systemVars, scene>>
=============================================================================
