---------------------------- MODULE Console_proofs ----------------------------
(***************************************************************************)
(* Theorems about the whole: the console's page is one of the clients that *)
(* ContentGateway_proofs allows the server, so what is proved there holds  *)
(* with the page among them; and what the page shows is the session's.     *)
(***************************************************************************)
EXTENDS Console, ContentGateway_proofs

(***************************************************************************)
(* What a request is about stays as it is until it is answered.            *)
(***************************************************************************)
Keeps(r) ==
  \/ requests'[r].pc = "idle"
  \/ UNCHANGED requests[r]
  \/ /\ UNCHANGED requests[r].route
     /\ Listing(r) \/ UNCHANGED requests[r].token

LEMMA KeptSubject ==
  ASSUME NEW r \in Request, Keeps(r), requests'[r].pc # "idle"
  PROVE  UNCHANGED Subject(r)
<1>1. UNCHANGED requests[r].route /\ (Listing(r) \/ UNCHANGED requests[r].token)
  BY DEF Keeps
<1> QED BY <1>1 DEF Subject, Listing, Is

LEMMA AuthorizeKeeps ==
  ASSUME Typed(requests), NEW r \in Request,
         AskExists(r) \/ AskActive(r) \/ AskEffective(r)
  PROVE  Keeps(r) /\ \A o \in Request \ {r} : UNCHANGED requests[o]
<1> DEFINE Fine == Keeps(r) /\ \A o \in Request \ {r} : UNCHANGED requests[o]
<1>g. ASSUME NEW pc, Goto(r, pc) PROVE Fine
  BY <1>g DEF Goto, Typed, RequestRecord, Keeps
<1>l. ASSUME NEW reason, Log(r, reason) PROVE Fine
  BY <1>l DEF Log, Typed, RequestRecord, Keeps
<1>n. ASSUME NEW listed, Is(r, "list"), NextAsset(r, listed) PROVE Fine
  BY <1>n DEF NextAsset, Typed, RequestRecord, Keeps, Listing, Is
<1>e. ASSUME NEW reason, NEW effective, EffectiveDecision(r, reason, effective) PROVE Fine
  BY <1>e DEF EffectiveDecision, Typed, RequestRecord, Keeps
<1>a. ASSUME NEW reason, AclDecision(r, reason) PROVE Fine
  BY <1>a DEF AclDecision, Typed, RequestRecord, Keeps
<1>d. ASSUME Done(r) PROVE Fine
  BY <1>d DEF Done, Typed, RequestRecord, Keeps, NoRequest
<1>r. ASSUME NEW effective,
             requests' = [requests EXCEPT ![r].pc = "asset", ![r].effective = effective]
      PROVE  Fine
  BY <1>r DEF Typed, RequestRecord, Keeps
<1> HIDE DEF Fine
<1>1. ASSUME NEW effective, Allow(r, effective) PROVE Fine
  BY <1>1, <1>g, <1>r, <1>e, <1>a DEF Allow
<1>2. ASSUME NEW effective, Deny(r, effective) PROVE Fine
  BY <1>2, <1>l, <1>n, <1>d, <1>e, <1>a DEF Deny
<1>3. Fine
  BY <1>1, <1>2, <1>g DEF AskExists, AskActive, AskEffective
<1> QED BY <1>3 DEF Fine

LEMMA OtherKeeps ==
  ASSUME Typed(requests), NEW r \in Request, Followed(r),
         \/ Upsert(r)
         \/ Score(r) \/ FindFile(r) \/ AskHash(r) \/ OpenFile(r)
         \/ AskLastRow(r) \/ LogDecision(r) \/ Send(r)
         \/ AskTotal(r) \/ ReadAsset(r) \/ SendList(r) \/ ReadOn(r) \/ SendView(r)
  PROVE  Keeps(r) /\ \A o \in Request \ {r} : UNCHANGED requests[o]
<1>d. ASSUME Done(r) PROVE Keeps(r) /\ \A o \in Request \ {r} : UNCHANGED requests[o]
  BY <1>d DEF Done, Typed, RequestRecord, Keeps, NoRequest
<1>g. ASSUME NEW pc, Goto(r, pc) PROVE Keeps(r) /\ \A o \in Request \ {r} : UNCHANGED requests[o]
  BY <1>g DEF Goto, Typed, RequestRecord, Keeps
<1>l. ASSUME NEW reason, Log(r, reason)
      PROVE  Keeps(r) /\ \A o \in Request \ {r} : UNCHANGED requests[o]
  BY <1>l DEF Log, Typed, RequestRecord, Keeps
<1>1. CASE Upsert(r) \/ SendList(r) \/ SendView(r) \/ Send(r)
  BY <1>1, <1>d DEF Upsert, SendList, SendView, Send
<1>2. CASE Score(r) \/ OpenFile(r) \/ ReadOn(r) \/ LogDecision(r)
  BY <1>2, <1>d, <1>g, <1>l DEF Score, OpenFile, ReadOn, LogDecision
<1>3. CASE FindFile(r)
  <2>1. CASE requests' = [requests EXCEPT ![r].pc = "hash", ![r].file = files[RowOf(r)]]
    BY <2>1 DEF Typed, RequestRecord, Keeps
  <2> QED BY <1>3, <1>d, <2>1 DEF FindFile
<1>4. CASE AskHash(r) \/ AskLastRow(r)
  BY <1>4 DEF AskHash, AskLastRow, Typed, RequestRecord, Keeps
<1>5. CASE AskTotal(r)
  <2>1. Listing(r)
    BY <1>5 DEF AskTotal, At, Followed, Sound, Placed, Listing, Is
  <2> QED BY <1>5, <2>1 DEF AskTotal, Typed, RequestRecord, Keeps
<1>6. CASE ReadAsset(r)
  <2>1. CASE Listing(r) /\ NextAsset(r, requests[r].listed \cup {requests[r].token})
    BY <2>1 DEF NextAsset, Typed, RequestRecord, Keeps
  <2> QED BY <1>6, <1>g, <2>1 DEF ReadAsset
<1> QED BY <1>1, <1>2, <1>3, <1>4, <1>5, <1>6

LEMMA ArrivalKeeps ==
  ASSUME Typed(requests), NEW r \in Request, NEW token, Arrives(r, token)
  PROVE  At(r, "idle") /\ \A o \in Request \ {r} : UNCHANGED requests[o]
<1>1. At(r, "idle")
  BY DEF Arrives, BeginLink, BeginRead, BeginView, BeginList
<1>2. PICK q : requests' = [requests EXCEPT ![r] = q]
  BY DEF Arrives, BeginLink, BeginRead, BeginView, BeginList
<1> QED BY <1>1, <1>2 DEF Typed

LEMMA EveryStepKeeps ==
  ASSUME Typed(requests), RequestsInv, [AnyContentNext]_contentVars,
         NEW r \in Request, ~At(r, "idle")
  PROVE  Keeps(r)
<1>1. CASE UNCHANGED requests
  BY <1>1 DEF Keeps
<1>2. CASE Restart
  BY <1>2 DEF Restart, Keeps, NoRequest
<1>3. CASE AnyRequestStep
  <2>1. CASE \E token \in tokens, h \in Hash : Upload(token, h)
    BY <1>1, <2>1 DEF Upload
  <2>2. CASE \E token \in tokens, o \in Request : Arrives(o, token)
    <3>1. PICK token \in tokens, o \in Request : Arrives(o, token)
      BY <2>2
    <3>2. o # r
      BY <3>1, ArrivalKeeps
    <3> QED BY <3>1, <3>2, ArrivalKeeps DEF Keeps
  <2>3. CASE \E o \in Request :
               \/ Upsert(o)
               \/ AskExists(o) \/ AskActive(o) \/ AskEffective(o)
               \/ Score(o) \/ FindFile(o) \/ AskHash(o) \/ OpenFile(o)
               \/ AskLastRow(o) \/ LogDecision(o) \/ Send(o)
               \/ AskTotal(o) \/ ReadAsset(o) \/ SendList(o) \/ ReadOn(o) \/ SendView(o)
    <3>1. PICK o \in Request : Keeps(o) /\ \A x \in Request \ {o} : UNCHANGED requests[x]
      BY <2>3, AuthorizeKeeps, OtherKeeps DEF RequestsInv
    <3>2. CASE o = r
      BY <3>1, <3>2
    <3>3. CASE o # r
      BY <3>1, <3>3 DEF Keeps
    <3> QED BY <3>2, <3>3
  <2> QED BY <1>3, <2>1, <2>2, <2>3 DEF AnyRequestStep
<1>4. CASE DamageStep
  BY <1>1, <1>4 DEF DamageStep, DamageFile
<1> QED
  BY <1>1, <1>2, <1>3, <1>4 DEF AnyContentNext, AnyContentStep, contentVars, gatewayVars

-----------------------------------------------------------------------------
(***************************************************************************)
(* The page: who signs in, and with which file the upload form goes on.    *)
(***************************************************************************)
SignInInv ==
  /\ wallet \in Account \cup {NoAddress}
  /\ session \subseteq tokens /\ \A t, u \in session : t = u
  /\ signIn \in [pc : {"idle", "nonce", "sign", "verify"}, who : AnyAddress,
                 nonce : 0 .. MaxNonce]
  /\ signIn.pc # "idle" => session = {} /\ signIn.who \in Address
  /\ signIn.pc \in {"sign", "verify"} => signIn.nonce \in Nonce

FlowInv ==
  /\ flow \in [pc : {"idle", "signing", "mined", "link", "linking", "done", "failed"},
               up : File \cup {NoFile}, token : 0 .. MaxToken]
  /\ flow.pc # "idle" => flow.up \in uploads
  /\ flow.pc = "mined" => nextToken > 1
  /\ flow.pc \in {"link", "linking"} => flow.token \in Token

ViewRecord ==
  [key : Key \cup {NoKey}, pc : {"idle", "asking", "loading", "shown", "confirm", "failed"},
   answer : [by : SUBSET SessionToken, of : Key \cup {NoKey}, effective : SUBSET Permission]]

AskRecord == [slot : Slot \cup {"none"}, session : SUBSET SessionToken]

\* A page waits and shows for the address bar and the session there is.
ViewsInv ==
  /\ place \in [page : Page, token : 0 .. MaxToken, tab : Tab]
  /\ place.page = "asset" <=> place.token # 0
  /\ views \in [Slot -> ViewRecord]
  /\ views["page"].key = PageKey(session, place)
  /\ views["tab"].key = TabKey(place, views["page"])
  /\ \A v \in Slot :
       /\ views[v].key = NoKey => views[v].pc = "idle"
       /\ views[v].pc = "shown" =>
            views[v].answer.by = session /\ views[v].answer.of = views[v].key

\* A request that a view waits for was asked by this session, for what the view
\* is about: those of other sessions and other pages are forgotten.
AsksInv ==
  /\ asked \in [Request -> AskRecord]
  /\ \A r \in Request :
       /\ At(r, "idle") => asked[r] = NoAsk
       /\ asked[r].slot \in Slot =>
            asked[r].session = session /\ Subject(r) = views[asked[r].slot].key

ServerInv  == BackendTypeInv /\ NonceInv
ConsoleInv == SignInInv /\ FlowInv /\ ViewsInv /\ AsksInv
SystemInv  == ServerInv /\ ConsoleInv

\* The facts about the server that the page goes by.
LEMMA ServerFacts ==
  ASSUME ServerInv
  PROVE  /\ AssetsInv /\ FilesInv /\ Typed(requests) /\ RequestsInv
         /\ tokens \subseteq SessionToken /\ nextToken \in 1 .. MaxToken + 1
         /\ NonceServesOnce /\ nextNonce \in 1 .. MaxNonce + 1
  BY DEF ServerInv, BackendTypeInv, BackendInv, GatewayInv, NonceInv, SessionsTypeOK,
         AssetsInv, AssetTypeOK

\* Pages and tabs, and what each asks for.
LEMMA Routes ==
  /\ DOMAIN PageRoute = {"files", "asset", "risk"}
  /\ PageRoute["files"] = "list" /\ PageRoute["asset"] = "record"
  /\ PageRoute["risk"] = "decisions"
  /\ Tab = {"overview", "trace", "access", "audit"}
  /\ TabRoute["overview"] = "content" /\ TabRoute["trace"] = "effective"
  /\ TabRoute["access"] = "acl" /\ TabRoute["audit"] = "audit"
  /\ View = {"record", "effective", "acl", "audit", "decisions"}
  /\ Route = {"link", "content", "list"} \cup View
  BY DEF PageRoute, TabRoute, Tab, View, Authorized, ViewBit, Route

\* What a view asks for is about an asset where the route is, and only there.
LEMMA KeysAreCalls ==
  ASSUME ViewsInv, NEW v \in Slot
  PROVE  /\ views[v].key.route = "list" => v = "page" /\ views[v].key.token = 0
         /\ views[v].key.route \in View => views[v].key \in ViewCall
         /\ views[v].key.route = "content" => views[v].key.token \in Token
<1>1. /\ place.page \in Page /\ place.token \in 0 .. MaxToken /\ place.tab \in Tab
      /\ place.page = "asset" <=> place.token # 0
  BY DEF ViewsInv
<1>2. CASE v = "page"
  <2>1. views[v].key = PageKey(session, place)
    BY <1>2 DEF ViewsInv
  <2>2. CASE views[v].key = NoKey
    BY <2>2, Routes DEF NoKey
  <2>3. CASE /\ place.page \in DOMAIN PageRoute
             /\ views[v].key = [route |-> PageRoute[place.page], token |-> place.token]
    BY <1>1, <1>2, <2>3, Routes, MaxTokenAssumption DEF ViewCall, Token
  <2> QED BY <2>1, <2>2, <2>3 DEF PageKey
<1>3. CASE v = "tab"
  <2>1. views[v].key = TabKey(place, views["page"])
    BY <1>3 DEF ViewsInv
  <2>2. CASE views[v].key = NoKey
    BY <2>2, Routes DEF NoKey
  <2>3. CASE /\ views["page"].key.route = "record"
             /\ views[v].key = [route |-> TabRoute[place.tab], token |-> place.token]
    <3>1. place.page = "asset"
      BY <1>1, <2>3, Routes DEF ViewsInv, PageKey, NoKey
    <3> QED BY <1>1, <2>3, <3>1, Routes, MaxTokenAssumption DEF ViewCall, Token
  <2> QED BY <2>1, <2>2, <2>3 DEF TabKey
<1> QED BY <1>2, <1>3 DEF Slot

-----------------------------------------------------------------------------
(***************************************************************************)
(* Whatever the page does to the server, any client may do.                *)
(***************************************************************************)
LEMMA SignInIsAny ==
  ASSUME SystemInv, PageSignIn
  PROVE  AnyContentStep
<1>1. CASE FetchNonce
  BY <1>1 DEF FetchNonce, PageSignIn, AnyContentStep, AnyLoginStep
<1>2. CASE \E l \in Login : SignAndVerify(l)
  <2>1. PICK l \in Login : BeginVerify(l, signIn.nonce, signIn.who) /\ signIn.pc = "sign"
    BY <1>2 DEF SignAndVerify
  <2>2. signIn.nonce \in Nonce /\ signIn.who \in Address
    BY <2>1 DEF SystemInv, ConsoleInv, SignInInv
  <2>3. AnyLoginStep
    BY <2>1, <2>2 DEF AnyLoginStep
  <2> QED BY <2>3 DEF PageSignIn, AnyContentStep
<1> QED BY <1>1, <1>2 DEF PageSignIn

LEMMA PageRequestIsAny ==
  ASSUME SystemInv, PageRequest
  PROVE  AnyContentStep
<1>1. session \subseteq tokens
  BY DEF SystemInv, ConsoleInv, SignInInv
<1>2. CASE \E h \in BrowserCalls.upload : StartUpload(h)
  <2>1. PICK h \in BrowserCalls.upload : \E t \in session : Upload(t, h)
    BY <1>2 DEF StartUpload, Bearer
  <2>2. h \in Hash
    BY BrowserAssumption
  <2>3. AnyRequestStep
    BY <1>1, <2>1, <2>2 DEF AnyRequestStep
  <2> QED BY <2>3 DEF PageRequest, AnyContentStep
<1>3. CASE \E r \in Request : SendLink(r)
  <2>1. PICK r \in Request, t \in session :
          /\ BeginLink(r, t, [token |-> flow.token, spelled |-> Canonical, body |-> flow.up])
          /\ flow.pc = "link"
    BY <1>3 DEF SendLink, Bearer
  <2>2. flow.token \in Token /\ flow.up \in uploads
    BY <2>1 DEF SystemInv, ConsoleInv, FlowInv
  <2>3. [token |-> flow.token, spelled |-> Canonical, body |-> flow.up] \in Links
    BY <2>2 DEF Links
  <2>4. AnyRequestStep
    BY <1>1, <2>1, <2>3 DEF AnyRequestStep, Arrives
  <2> QED BY <2>4 DEF PageRequest, AnyContentStep
<1> QED BY <1>2, <1>3 DEF PageRequest

LEMMA PageMintIsAny ==
  ASSUME SystemInv, PageMint
  PROVE  AnyContentStep /\ nextToken' > 1
<1>1. PICK form \in BrowserCalls.form : MintUpload(form)
  BY DEF PageMint
<1> DEFINE c == [to |-> form.owner, hash |-> flow.up.hash,
                 classification |-> form.classification]
<1>2. MintAsset(c) /\ flow.pc = "signing"
  BY <1>1 DEF MintUpload, Mint
<1>3. flow.up.hash \in Hash /\ nextToken \in 1 .. MaxToken + 1
  BY <1>2, ServerFacts DEF SystemInv, ConsoleInv, FlowInv, FilesInv
<1>4. form.owner \in AnyId /\ form.classification \in Tier
  BY BrowserAssumption, MaxIdAssumption DEF Id, AnyId
<1>5. c.to \in AnyId /\ c.hash \in Hash /\ c.classification \in Tier
  BY <1>3, <1>4
<1>6. nextToken' = nextToken + 1
  BY <1>2 DEF MintAsset
<1> HIDE DEF c
<1>7. AnyMint
  BY <1>2, <1>5 DEF AnyMint, PageMint
<1>8. AnyContentStep
  BY <1>7 DEF AnyAssetsStep, AnyContentStep, PageMint
<1> QED BY <1>3, <1>6, <1>8, MaxTokenAssumption

LEMMA ButtonsRead ==
  ASSUME NEW pc, NEW button \in Button(pc)
  PROVE  button.bit \in {P_READ, P_DOWNLOAD} /\ button.stepUp \in BOOLEAN
<1> DEFINE Buttons == [bit : {P_READ, P_DOWNLOAD}, stepUp : BOOLEAN]
<1>1. [bit |-> P_DOWNLOAD, stepUp |-> TRUE] \in Buttons
  OBVIOUS
<1>2. [bit |-> P_READ, stepUp |-> FALSE] \in Buttons
  OBVIOUS
<1>3. [bit |-> P_READ, stepUp |-> TRUE] \in Buttons
  OBVIOUS
<1> HIDE DEF Buttons
<1>4. button \in Buttons
  BY <1>1, <1>2, <1>3 DEF Button
<1> QED BY <1>4 DEF Buttons

LEMMA ConsoleRequestIsAny ==
  ASSUME SystemInv, ConsoleRequest
  PROVE  AnyContentStep
<1>1. session \subseteq tokens /\ ViewsInv
  BY DEF SystemInv, ConsoleInv, SignInInv
<1>2. CASE \E v \in Slot, r \in Request : Ask(v, r)
  <2>1. PICK v \in Slot, r \in Request, t \in session :
          \/ BeginList(r, t)
          \/ views[v].key.route \in View /\ BeginView(r, t, views[v].key)
    BY <1>2 DEF Ask, Bearer
  <2>2. views[v].key.route \in View => views[v].key \in ViewCall
    BY <1>1, KeysAreCalls
  <2>3. Arrives(r, t)
    BY <2>1, <2>2 DEF Arrives
  <2> QED BY <1>1, <2>3 DEF AnyRequestStep, ConsoleRequest, AnyContentStep
<1>3. CASE \E r \in Request : \E button \in Button(views["tab"].pc) : ReadContent(r, button)
  <2>1. PICK r \in Request, button \in Button(views["tab"].pc) : ReadContent(r, button)
    BY <1>3
  <2>2. PICK t \in session :
          BeginRead(r, t, [token |-> views["tab"].key.token, spelled |-> Canonical,
                           bit |-> button.bit, stepUp |-> button.stepUp])
    BY <2>1 DEF ReadContent, Bearer
  <2>3. button.bit \in {P_READ, P_DOWNLOAD} /\ button.stepUp \in BOOLEAN
    BY ButtonsRead
  <2>4. views["tab"].key.token \in Token
    BY <1>1, <2>1, KeysAreCalls DEF ReadContent, Slot
  <2>5. Arrives(r, t)
    BY <2>2, <2>3, <2>4, SpellingAssumption DEF Arrives, ReadCall
  <2> QED BY <1>1, <2>5 DEF AnyRequestStep, ConsoleRequest, AnyContentStep
<1> QED BY <1>2, <1>3 DEF ConsoleRequest

LEMMA ConsoleIsAClient ==
  ASSUME SystemInv, [ConsoleNext]_systemVars
  PROVE  [AnyContentNext]_contentVars
<1>1. CASE UNCHANGED systemVars
  BY <1>1 DEF systemVars, pageVars
<1>2. CASE ConsoleNext
  <2> SUFFICES AnyContentStep
    BY <1>2 DEF ConsoleNext, AnyContentNext
  <2>1. CASE Wander \/ ConsoleFailure \/ LoadAgain
    BY <2>1 DEF Wander, ConsoleFailure, LoadAgain, PageLoad, AnyContentStep
  <2>2. CASE ConsoleRequest
    BY <2>2, ConsoleRequestIsAny
  <2>3. CASE Around
    <3>1. CASE PageStep
      BY <3>1 DEF PageStep, AnyContentStep
    <3>2. CASE ContentStep
      BY <3>2, ContentStepIsAny
    <3> QED BY <2>3, <3>1, <3>2, SignInIsAny, PageRequestIsAny, PageMintIsAny
            DEF Around, SystemStep, BrowserStep
  <2> QED BY <1>2, <2>1, <2>2, <2>3 DEF ConsoleNext, ConsoleStep
<1> QED BY <1>1, <1>2

-----------------------------------------------------------------------------
(***************************************************************************)
(* The page's own state.                                                   *)
(***************************************************************************)

\* Nobody takes back a token or an upload, and no number is given out again.
LEMMA ServerGrows ==
  ASSUME ServerInv, ServerInv', [AnyContentNext]_contentVars
  PROVE  tokens \subseteq tokens' /\ uploads \subseteq uploads' /\ nextToken <= nextToken'
<1>1. tokens \subseteq tokens'
  BY DEF AnyContentNext, AnyContentStep, contentVars, sessionsVars, loginVars, AnyLoginStep,
         IssueNonce, RefuseSignature, BeginVerify, ReadByController, ReadIdentity, ReadOwner,
         ReadActive, ReadBalances, IssueToken, Restart, RestartLogins
<1>2. uploads \subseteq uploads'
  BY UploadsStay
<1>3. nextToken \in Nat
  BY ServerFacts, MaxTokenAssumption
<1>4. nextToken' = nextToken \/ nextToken' = nextToken + 1
  <2>1. CASE UNCHANGED assetVars
    BY <2>1 DEF assetVars
  <2>2. CASE AnyMint \/ AnyTransfer \/ AssetStep
    BY <2>2 DEF AnyMint, AnyTransfer, AssetStep, Mint, MintAsset, ControlledTransfer,
                DoTransfer, UpdateContent
  <2> QED BY <2>1, <2>2
          DEF AnyContentNext, AnyContentStep, contentVars, sessionsVars, assetsVars,
              AnyAssetsStep, AccessStep, AnyGrant
<1> QED BY <1>1, <1>2, <1>3, <1>4

\* What a step does to the session and to the sign-in.
LEMMA SignInStep ==
  ASSUME SystemInv, ServerInv', [ConsoleNext]_systemVars, tokens \subseteq tokens'
  PROVE  SignInInv' /\ (session' = session \/ session = {} \/ session' = {})
<1>i. SignInInv
  BY DEF SystemInv, ConsoleInv
<1>1. CASE UNCHANGED <<wallet, session, signIn>>
  BY <1>i, <1>1 DEF SignInInv
<1>2. CASE \E a \in Account \cup {NoAddress} : SwitchAccount(a)
  BY <1>i, <1>2 DEF SignInInv, SwitchAccount
<1>3. CASE SignOut
  BY <1>i, <1>3 DEF SignInInv, SignOut
<1>4. NoSignIn \in [pc : {"idle", "nonce", "sign", "verify"}, who : AnyAddress,
                    nonce : 0 .. MaxNonce] /\ NoSignIn.pc = "idle"
  BY NonceAssumption DEF NoSignIn, AnyAddress
<1>5. CASE BeginSignIn
  <2>1. wallet \in Address /\ Address \subseteq AnyAddress
    BY <1>i, <1>5, BrowserAssumption DEF SignInInv, BeginSignIn, AnyAddress
  <2>2. /\ signIn' = [pc |-> "nonce", who |-> wallet, nonce |-> 0]
        /\ session = {} /\ UNCHANGED <<wallet, session>>
    BY <1>5 DEF BeginSignIn, NoSignIn
  <2> QED BY <1>i, <2>1, <2>2, NonceAssumption DEF SignInInv
<1>6. CASE SignInFails
  BY <1>i, <1>4, <1>6 DEF SignInInv, SignInFails
<1>7. CASE \E a \in Account \cup {NoAddress} : Reload(a)
  BY <1>i, <1>4, <1>7 DEF SignInInv, Reload
<1>8. CASE FetchNonce
  <2>1. nextNonce \in Nonce /\ nextNonce \in 0 .. MaxNonce
    BY <1>8, NonceAssumption DEF FetchNonce, IssueNonce, Nonce
  <2> DEFINE moved == [signIn EXCEPT !.pc = "sign"]
  <2>2. /\ moved \in [pc : {"idle", "nonce", "sign", "verify"}, who : AnyAddress,
                      nonce : 0 .. MaxNonce]
        /\ moved.pc = "sign" /\ moved.who = signIn.who /\ signIn' = [moved EXCEPT !.nonce = nextNonce]
        /\ signIn.pc = "nonce" /\ UNCHANGED <<wallet, session>>
    BY <1>i, <1>8 DEF SignInInv, FetchNonce
  <2> HIDE DEF moved
  <2>3. /\ signIn' \in [pc : {"idle", "nonce", "sign", "verify"}, who : AnyAddress,
                        nonce : 0 .. MaxNonce]
        /\ signIn'.pc = "sign" /\ signIn'.who = signIn.who /\ signIn'.nonce = nextNonce
    BY <2>1, <2>2
  <2> QED BY <1>i, <2>1, <2>2, <2>3 DEF SignInInv
<1>9. CASE \E l \in Login : SignAndVerify(l)
  BY <1>i, <1>9 DEF SignInInv, SignAndVerify, Goes
<1>10. CASE Receive
  <2> DEFINE issued == {t \in tokens' : t.nonce = signIn.nonce}
  <2>1. CASE signIn.pc = "verify" /\ signIn' = NoSignIn /\ session' \in {session, issued}
    <3>1. signIn.nonce # 0 /\ session = {}
      BY <1>i, <2>1 DEF SignInInv, Nonce
    <3>2. \A t, u \in issued : t = u
      BY <3>1 DEF ServerInv, NonceInv, NonceServesOnce
    <3>3. UNCHANGED wallet
      BY <1>10 DEF Receive
    <3> QED BY <1>i, <1>4, <2>1, <3>1, <3>2, <3>3 DEF SignInInv
  <2>2. UNCHANGED wallet
    BY <1>10 DEF Receive
  <2> QED BY <1>1, <1>10, <2>1, <2>2 DEF Receive
<1>11. CASE Wander \/ ConsoleRequest \/ ConsoleFailure
  BY <1>1, <1>11 DEF Wander, ConsoleRequest, ConsoleFailure, browserVars
<1>12. CASE LoadAgain
  BY <1>7, <1>12 DEF LoadAgain, PageLoad
<1>13. CASE Around
  <2>1. CASE PageStep
    BY <1>1, <1>2, <1>3, <1>5, <1>6, <2>1 DEF PageStep, AskTotalMinted, FlowFails
  <2>2. CASE PageSignIn
    BY <1>8, <1>9, <2>2 DEF PageSignIn
  <2>3. CASE PageRequest \/ PageMint
    BY <1>1, <2>3 DEF PageRequest, PageMint, StartUpload, SendLink, MintUpload
  <2> QED BY <1>10, <1>13, <2>1, <2>2, <2>3 DEF Around, SystemStep, BrowserStep
<1>14. CASE UNCHANGED systemVars
  BY <1>1, <1>14 DEF systemVars, pageVars, browserVars
<1> QED BY <1>11, <1>12, <1>13, <1>14 DEF ConsoleNext, ConsoleStep

LEMMA FlowStep ==
  ASSUME SystemInv, ServerInv', [ConsoleNext]_systemVars, uploads \subseteq uploads', nextToken <= nextToken'
  PROVE  FlowInv'
<1> DEFINE FlowRecord ==
             [pc : {"idle", "signing", "mined", "link", "linking", "done", "failed"},
              up : File \cup {NoFile}, token : 0 .. MaxToken]
<1>i. FlowInv /\ flow \in FlowRecord
  BY DEF SystemInv, ConsoleInv, FlowInv
<1>f. /\ uploads \subseteq File /\ nextToken \in 1 .. MaxToken + 1
      /\ nextToken' \in 1 .. MaxToken + 1
      /\ Token \subseteq 0 .. MaxToken /\ MaxToken \in Nat
  <2>1. Token \subseteq 0 .. MaxToken /\ MaxToken \in Nat
    BY MaxTokenAssumption DEF Token
  <2>2. FilesInv /\ nextToken \in 1 .. MaxToken + 1
    BY ServerFacts DEF SystemInv
  <2>3. nextToken' \in 1 .. MaxToken + 1
    BY DEF ServerInv, BackendTypeInv, BackendInv, AssetsInv, AssetTypeOK
  <2> QED BY <2>1, <2>2, <2>3 DEF FilesInv
<1>1. CASE UNCHANGED flow
  BY <1>i, <1>f, <1>1 DEF FlowInv
<1>2. CASE flow' = NoFlow
  <2>1. NoFlow \in FlowRecord /\ NoFlow.pc = "idle"
    BY <1>f DEF NoFlow
  <2> QED BY <1>2, <2>1 DEF FlowInv
\* From one stage to the next, with the same file and the same number.
<1>3. ASSUME NEW pc \in {"mined", "linking", "done", "failed"}, Goes(flow, pc),
             flow.pc # "idle", pc = "mined" => nextToken' > 1,
             pc = "linking" => flow.pc = "link"
      PROVE  FlowInv'
  <2>1. /\ flow' \in FlowRecord /\ flow'.pc = pc
        /\ UNCHANGED <<flow.up, flow.token>>
    BY <1>i, <1>3 DEF Goes
  <2> QED BY <1>i, <1>3, <2>1 DEF FlowInv
<1>4. CASE AskTotalMinted
  <2> DEFINE moved == [flow EXCEPT !.pc = "link"]
  <2>1. nextToken - 1 \in Token
    BY <1>f, <1>i, <1>4 DEF AskTotalMinted, FlowInv, Token
  <2>2. moved \in FlowRecord /\ moved.pc = "link" /\ moved.up = flow.up
    BY <1>i
  <2>3. flow' = [moved EXCEPT !.token = nextToken - 1] /\ flow.pc = "mined"
    BY <1>4 DEF AskTotalMinted
  <2> HIDE DEF moved
  <2>4. /\ flow' \in FlowRecord /\ flow'.pc = "link" /\ flow'.up = flow.up
        /\ flow'.token = nextToken - 1
    BY <1>f, <2>1, <2>2, <2>3
  <2> QED BY <1>i, <2>1, <2>3, <2>4 DEF FlowInv
<1>5. CASE \E h \in BrowserCalls.upload : StartUpload(h)
  <2>1. PICK h \in BrowserCalls.upload, t \in session : Upload(t, h)
    BY <1>5 DEF StartUpload, Bearer
  <2>2. h \in Hash /\ FilesInv
    BY BrowserAssumption, ServerFacts DEF SystemInv
  <2> DEFINE fresh == Fresh(h)
             up    == CHOOSE up \in uploads' : up \notin uploads
  <2>3. uploads' = uploads \cup {fresh} /\ fresh \in File /\ fresh \notin uploads
    BY <2>1, <2>2, UploadIsNew
  <2> HIDE DEF fresh
  <2>4. up = fresh
    BY <2>3
  <2>5. flow' = [pc |-> "signing", up |-> up, token |-> 0]
    BY <1>5 DEF StartUpload, NoFlow
  <2> HIDE DEF up
  <2> QED BY <1>f, <2>3, <2>4, <2>5 DEF FlowInv
<1>6. CASE Receive
  BY <1>1, <1>3, <1>6 DEF Receive
<1>7. CASE \E a \in Account \cup {NoAddress} : Reload(a)
  BY <1>2, <1>7 DEF Reload
<1>8. CASE Wander \/ ConsoleRequest \/ ConsoleFailure
  BY <1>1, <1>8 DEF Wander, ConsoleRequest, ConsoleFailure, browserVars
<1>9. CASE LoadAgain
  BY <1>7, <1>9 DEF LoadAgain, PageLoad
<1>10. CASE Around
  <2>1. CASE PageStep
    BY <1>1, <1>3, <1>4, <2>1
       DEF PageStep, SwitchAccount, SignOut, BeginSignIn, SignInFails, FlowFails
  <2>2. CASE PageSignIn
    BY <1>1, <2>2 DEF PageSignIn, FetchNonce, SignAndVerify
  <2>3. CASE PageRequest
    BY <1>3, <1>5, <2>3 DEF PageRequest, SendLink
  <2>4. CASE PageMint
    BY <1>3, <2>4, PageMintIsAny DEF PageMint, MintUpload
  <2> QED BY <1>6, <1>10, <2>1, <2>2, <2>3, <2>4 DEF Around, SystemStep, BrowserStep
<1>11. CASE UNCHANGED systemVars
  BY <1>1, <1>11 DEF systemVars, pageVars, browserVars
<1> QED BY <1>8, <1>9, <1>10, <1>11 DEF ConsoleNext, ConsoleStep

-----------------------------------------------------------------------------
(***************************************************************************)
(* What a view shows.                                                      *)
(***************************************************************************)
LEMMA NothingShown ==
  /\ NoKey \notin Key /\ NoKey.route = "none" /\ "none" \notin Slot
  /\ NoAnswer \in [by : SUBSET SessionToken, of : Key \cup {NoKey}, effective : SUBSET Permission]
  /\ NoAsk \in AskRecord /\ NoAsk.slot = "none"
<1>1. "none" \notin Route
  BY Routes
<1> QED BY <1>1 DEF NoKey, Key, NoAnswer, NoAsk, AskRecord, Slot

LEMMA MountedRight ==
  ASSUME NEW key \in Key \cup {NoKey}
  PROVE  /\ Mounted(key) \in ViewRecord /\ Mounted(key).key = key
         /\ Mounted(key).pc # "shown" /\ (key = NoKey => Mounted(key).pc = "idle")
<1> DEFINE pc == IF key.route \in {"none", "content"} THEN "idle" ELSE "asking"
<1>1. pc \in {"idle", "asking"} /\ (key = NoKey => pc = "idle")
  BY NothingShown
<1>2. Mounted(key) = [key |-> key, pc |-> pc, answer |-> NoAnswer]
  BY DEF Mounted
<1> HIDE DEF pc
<1> QED BY <1>1, <1>2, NothingShown DEF ViewRecord

LEMMA PageKeyTyped ==
  ASSUME NEW s, NEW at \in [page : Page, token : 0 .. MaxToken, tab : Tab]
  PROVE  PageKey(s, at) \in Key \cup {NoKey}
<1>1. at.page \in DOMAIN PageRoute => PageRoute[at.page] \in Route
  BY Routes
<1> QED BY <1>1 DEF PageKey, Key

LEMMA TabKeyTyped ==
  ASSUME NEW page, NEW at \in [page : Page, token : 0 .. MaxToken, tab : Tab]
  PROVE  TabKey(at, page) \in Key \cup {NoKey}
<1>1. TabRoute[at.tab] \in Route
  BY Routes
<1> QED BY <1>1 DEF TabKey, Key

\* An answer is to the session that asked, about what the view is about.
LEMMA OutcomeRight ==
  ASSUME ViewsInv, AsksInv, Typed(requests), NEW v \in Slot, NEW r \in Request, asked[r].slot = v
  PROVE  /\ views[v].key # NoKey
         /\ Outcome(r).pc \in {"shown", "confirm", "failed"}
         /\ Outcome(r).answer \in [by : SUBSET SessionToken, of : Key \cup {NoKey},
                                   effective : SUBSET Permission]
         /\ Outcome(r).answer.by = session /\ Outcome(r).answer.of = views[v].key
<1>1. /\ asked[r] \in AskRecord /\ asked[r].session = session /\ Subject(r) = views[v].key
      /\ views[v].key \in Key \cup {NoKey}
  BY DEF AsksInv, ViewsInv, ViewRecord
<1>2. requests[r].route \in Route /\ requests[r].effective \subseteq Permission
  BY DEF Typed, RequestRecord
<1>3. views[v].key # NoKey
  <2>1. Subject(r).route \in Route
    BY <1>2 DEF Subject
  <2> QED BY <1>1, <2>1, Routes DEF NoKey
<1>4. asked[r].session \subseteq SessionToken
  BY <1>1 DEF AskRecord
<1> DEFINE pc == IF requests[r].pc \in {"send", "sendView", "sendList"} THEN "shown"
                 ELSE IF At(r, "append") /\ requests[r].reason = "STEP_UP_REQUIRED"
                 THEN "confirm" ELSE "failed"
<1>5. pc \in {"shown", "confirm", "failed"}
  OBVIOUS
<1>6. Outcome(r) = [pc |-> pc, answer |-> [by |-> asked[r].session, of |-> Subject(r),
                                          effective |-> requests[r].effective]]
  BY DEF Outcome
<1> HIDE DEF pc
<1> QED BY <1>1, <1>2, <1>3, <1>4, <1>5, <1>6

LEMMA RenderedRight ==
  ASSUME ViewsInv, AsksInv, Typed(requests), NEW v \in Slot, NEW key \in Key \cup {NoKey},
         session' = session \/ key = NoKey \/ views[v].key = NoKey
  PROVE  /\ Rendered(v, key) \in ViewRecord /\ Rendered(v, key).key = key
         /\ key = NoKey => Rendered(v, key).pc = "idle"
         /\ Rendered(v, key).pc = "shown" =>
              Rendered(v, key).answer.by = session' /\ Rendered(v, key).answer.of = key
<1>1. CASE key # views[v].key
  BY <1>1, MountedRight DEF Rendered
<1>2. CASE key = views[v].key
  <2> DEFINE outcomes == {Outcome(r) : r \in {q \in Request : asked[q].slot = v /\ Ended(q)}}
             o        == CHOOSE o \in outcomes : TRUE
  <2>1. /\ views[v] \in ViewRecord /\ (key = NoKey => views[v].pc = "idle")
        /\ views[v].pc = "shown" => views[v].answer.by = session /\ views[v].answer.of = key
    BY <1>2 DEF ViewsInv
  <2>2. CASE outcomes = {}
    <3>1. Rendered(v, key) = views[v]
      BY <1>2, <2>2 DEF Rendered, Answered
    <3> QED BY <1>2, <2>1, <3>1
  <2>3. CASE outcomes # {}
    <3>1. Rendered(v, key) = [key |-> views[v].key, pc |-> o.pc, answer |-> o.answer]
      BY <1>2, <2>3 DEF Rendered, Answered
    <3>2. PICK r \in Request : asked[r].slot = v /\ o = Outcome(r)
      BY <2>3
    <3> HIDE DEF o, outcomes
    <3>3. /\ views[v].key # NoKey
          /\ o.pc \in {"shown", "confirm", "failed"}
          /\ o.answer \in [by : SUBSET SessionToken, of : Key \cup {NoKey},
                           effective : SUBSET Permission]
          /\ o.answer.by = session /\ o.answer.of = views[v].key
      BY <3>2, OutcomeRight
    <3>4. session' = session
      BY <1>2, <3>3
    <3> QED BY <1>2, <3>1, <3>3, <3>4 DEF ViewRecord
  <2> QED BY <2>2, <2>3
<1> QED BY <1>1, <1>2

LEMMA TwoViews ==
  ASSUME NEW page \in ViewRecord, NEW tab \in ViewRecord, NEW both, both = [page |-> page, tab |-> tab]
  PROVE  both \in [Slot -> ViewRecord] /\ both["page"] = page /\ both["tab"] = tab
<1>1. both = [v \in Slot |-> IF v = "page" THEN page ELSE tab]
  BY DEF Slot
<1> QED BY <1>1 DEF Slot

\* The page is drawn again: what stays was asked by the session there is now.
LEMMA RenderKeeps ==
  ASSUME SystemInv, [AnyContentNext]_contentVars, Render,
         session' = session \/ session = {} \/ session' = {},
         place' \in [page : Page, token : 0 .. MaxToken, tab : Tab],
         place'.page = "asset" <=> place'.token # 0
  PROVE  ViewsInv' /\ AsksInv'
<1>i. /\ ViewsInv /\ AsksInv /\ Typed(requests) /\ RequestsInv
  BY ServerFacts DEF SystemInv, ConsoleInv
<1> DEFINE pageKey == PageKey(session', place')
           page    == Rendered("page", pageKey)
           tabKey  == TabKey(place', page)
           tab     == Rendered("tab", tabKey)
<1>1. views' = [page |-> page, tab |-> tab]
  BY DEF Render
<1>2. pageKey \in Key \cup {NoKey} /\ tabKey \in Key \cup {NoKey}
  BY PageKeyTyped, TabKeyTyped
<1>3. session' = session \/ pageKey = NoKey \/ views["page"].key = NoKey
  BY <1>i DEF PageKey, ViewsInv
<1>4. "page" \in Slot /\ "tab" \in Slot
  BY DEF Slot
<1>5. /\ page \in ViewRecord /\ page.key = pageKey /\ (pageKey = NoKey => page.pc = "idle")
      /\ page.pc = "shown" => page.answer.by = session' /\ page.answer.of = pageKey
  <2> HIDE DEF pageKey
  <2> QED BY <1>i, <1>2, <1>3, <1>4, RenderedRight
<1>6. session' = session \/ tabKey = NoKey \/ views["tab"].key = NoKey
  <2>1. CASE session = {}
    <3>1. views["page"].key = NoKey
      BY <1>i, <2>1 DEF ViewsInv, PageKey
    <3>2. views["tab"].key = NoKey
      BY <1>i, <3>1 DEF ViewsInv, TabKey, NoKey
    <3> QED BY <3>2
  <2>2. CASE session' = {}
    <3>1. pageKey = NoKey
      BY <2>2 DEF PageKey
    <3> HIDE DEF page, pageKey
    <3>2. tabKey = NoKey
      BY <1>5, <3>1 DEF TabKey, NoKey
    <3> QED BY <3>2
  <2> QED BY <2>1, <2>2
<1>7. /\ tab \in ViewRecord /\ tab.key = tabKey /\ (tabKey = NoKey => tab.pc = "idle")
      /\ tab.pc = "shown" => tab.answer.by = session' /\ tab.answer.of = tabKey
  <2> HIDE DEF tabKey
  <2> QED BY <1>i, <1>2, <1>4, <1>6, RenderedRight
<1> HIDE DEF page, tab
<1>8. views' \in [Slot -> ViewRecord] /\ views'["page"] = page /\ views'["tab"] = tab
  BY <1>1, <1>5, <1>7, TwoViews
<1>9. ViewsInv'
  BY <1>5, <1>7, <1>8 DEF ViewsInv, Slot
<1>10. AsksInv'
  <2>1. Forget
    BY DEF Render
  <2>2. asked' \in [Request -> AskRecord]
    BY <1>i, <2>1, NothingShown DEF Forget, AsksInv
  <2>3. ASSUME NEW r \in Request
        PROVE  /\ At(r, "idle")' => asked'[r] = NoAsk
               /\ asked'[r].slot \in Slot =>
                    asked'[r].session = session' /\ Subject(r)' = views'[asked'[r].slot].key
    <3>1. At(r, "idle")' => asked'[r] = NoAsk
      BY <2>1 DEF Forget, At
    <3>2. ASSUME asked'[r].slot \in Slot
          PROVE  asked'[r].session = session' /\ Subject(r)' = views'[asked'[r].slot].key
      <4>1. asked'[r] # NoAsk
        BY <3>2, NothingShown
      <4>2. asked'[r] = asked[r] /\ requests'[r].pc # "idle" /\ ~CleanedUp(asked[r].slot)
        BY <2>1, <3>2, <4>1 DEF Forget
      <4>3. PICK v \in Slot : v = asked[r].slot
        BY <3>2, <4>2
      <4>4. views'[v].key = views[v].key
        BY <4>2, <4>3 DEF CleanedUp
      <4>5. asked[r].session = session /\ Subject(r) = views[v].key /\ ~At(r, "idle")
        BY <1>i, <4>1, <4>2, <4>3 DEF AsksInv
      <4>6. UNCHANGED Subject(r)
        BY <1>i, <4>2, <4>5, EveryStepKeeps, KeptSubject
      <4>7. views[v].key # NoKey
        BY <1>i, <4>3, OutcomeRight
      <4>8. session' = session
        BY <1>3, <1>5, <1>6, <1>7, <1>8, <4>4, <4>7 DEF Slot
      <4> QED BY <4>2, <4>3, <4>4, <4>5, <4>6, <4>8
    <3> QED BY <3>1, <3>2
  <2> QED BY <2>2, <2>3 DEF AsksInv
<1> QED BY <1>9, <1>10

\* A view goes on waiting, or gives up, for what it is about.
LEMMA PcMoves ==
  ASSUME ViewsInv, NEW v \in Slot, NEW pc \in {"loading", "failed"},
         views' = [views EXCEPT ![v].pc = pc], UNCHANGED <<place, session>>,
         views[v].key # NoKey, v = "page" => views[v].pc # "shown"
  PROVE  ViewsInv' /\ \A w \in Slot : UNCHANGED views[w].key
<1>1. /\ views' \in [Slot -> ViewRecord]
      /\ \A w \in Slot : UNCHANGED <<views[w].key, views[w].answer>>
      /\ \A w \in Slot : views'[w].pc = IF w = v THEN pc ELSE views[w].pc
  BY DEF ViewsInv, ViewRecord
<1>2. "page" \in Slot /\ "tab" \in Slot
  BY DEF Slot
<1>3. views'["page"].key = PageKey(session', place')
  BY <1>1, <1>2 DEF ViewsInv
<1>4. views'["tab"].key = TabKey(place', views'["page"])
  <2>1. CASE v = "page"
    BY <1>1, <1>2, <2>1 DEF ViewsInv, TabKey
  <2>2. CASE v # "page"
    BY <1>1, <1>2, <2>2 DEF ViewsInv, TabKey
  <2> QED BY <2>1, <2>2
<1> QED BY <1>1, <1>3, <1>4 DEF ViewsInv

\* The request of a view is about what the view is about.
LEMMA AskedRight ==
  ASSUME Typed(requests), NEW r \in Request, NEW t, NEW key \in Key,
         \/ key = [route |-> "list", token |-> 0] /\ BeginList(r, t)
         \/ key.route \in View /\ BeginView(r, t, key)
         \/ /\ key.route = "content"
            /\ \E bit, stepUp :
                 BeginRead(r, t, [token |-> key.token, spelled |-> Canonical,
                                  bit |-> bit, stepUp |-> stepUp])
  PROVE  /\ Subject(r)' = key /\ ~At(r, "idle")'
         /\ \A o \in Request \ {r} : UNCHANGED requests[o]
<1>1. key = [route |-> key.route, token |-> key.token]
  BY DEF Key
<1>2. ASSUME NEW q, requests' = [requests EXCEPT ![r] = q], q.pc # "idle",
             q.route = key.route, q.route # "list" => q.token = key.token,
             key.route = "list" => key.token = 0
      PROVE  /\ Subject(r)' = key /\ ~At(r, "idle")'
             /\ \A o \in Request \ {r} : UNCHANGED requests[o]
  <2>1. requests'[r] = q /\ \A o \in Request \ {r} : UNCHANGED requests[o]
    BY <1>2 DEF Typed
  <2> QED BY <1>1, <1>2, <2>1 DEF Subject, Listing, Is, At
<1>3. CASE key = [route |-> "list", token |-> 0] /\ BeginList(r, t)
  <2> DEFINE q == [NoRequest EXCEPT !.pc = "total", !.route = "list", !.id = t.id,
                                    !.clearance = t.clearance, !.bit = P_LIST]
  <2>1. requests' = [requests EXCEPT ![r] = q]
    BY <1>3 DEF BeginList
  <2>2. q.pc = "total" /\ q.route = "list"
    BY DEF NoRequest
  <2>3. key.route = "list" /\ key.token = 0
    BY <1>3
  <2> HIDE DEF q
  <2> QED BY <1>2, <2>1, <2>2, <2>3
<1>4. CASE key.route \in View /\ BeginView(r, t, key)
  <2> DEFINE first == IF key.route \in Authorized THEN "exists"
                      ELSE IF key.route = "audit" THEN "events" ELSE "rows"
             bit   == IF key.route \in Authorized THEN ViewBit[key.route] ELSE NoRequest.bit
             q == [NoRequest EXCEPT !.pc = first, !.route = key.route, !.id = t.id,
                                    !.clearance = t.clearance, !.token = key.token, !.bit = bit]
  <2>1. requests' = [requests EXCEPT ![r] = q]
    BY <1>4 DEF BeginView
  <2>2. first # "idle" /\ key.route # "list"
    BY <1>4, Routes
  <2> HIDE DEF first, bit
  <2>3. q.pc = first /\ q.route = key.route /\ q.token = key.token
    BY DEF NoRequest
  <2> HIDE DEF q
  <2> QED BY <1>2, <2>1, <2>2, <2>3
<1>5. CASE /\ key.route = "content"
           /\ \E bit, stepUp :
                BeginRead(r, t, [token |-> key.token, spelled |-> Canonical,
                                 bit |-> bit, stepUp |-> stepUp])
  <2>1. PICK bit, stepUp :
          BeginRead(r, t, [token |-> key.token, spelled |-> Canonical,
                           bit |-> bit, stepUp |-> stepUp])
    BY <1>5
  <2> DEFINE q == [NoRequest EXCEPT !.pc = "exists", !.id = t.id, !.clearance = t.clearance,
                                    !.token = key.token, !.spelled = Canonical, !.bit = bit,
                                    !.stepUp = stepUp]
  <2>2. requests' = [requests EXCEPT ![r] = q]
    BY <2>1 DEF BeginRead
  <2>3. q.pc = "exists" /\ q.route = "content" /\ q.token = key.token
    BY DEF NoRequest
  <2> HIDE DEF q
  <2> QED BY <1>2, <1>5, <2>2, <2>3
<1> QED BY <1>3, <1>4, <1>5

LEMMA WaitsKeeps ==
  ASSUME ViewsInv, AsksInv, session \subseteq SessionToken, NEW v \in Slot, NEW r \in Request,
         Waits(v, r), UNCHANGED session, views[v].key # NoKey,
         v = "page" => views[v].pc # "shown",
         Subject(r)' = views[v].key, ~At(r, "idle")',
         \A o \in Request \ {r} : UNCHANGED requests[o]
  PROVE  ViewsInv' /\ AsksInv'
<1> DEFINE ask == [slot |-> v, session |-> session]
<1>1. /\ asked' = [asked EXCEPT ![r] = ask] /\ UNCHANGED place
      /\ views' = [views EXCEPT ![v].pc = "loading"]
  BY DEF Waits
<1>2. ViewsInv' /\ \A w \in Slot : UNCHANGED views[w].key
  BY <1>1, PcMoves
<1>3. ask \in AskRecord /\ ask.slot = v /\ ask.session = session
  BY DEF AskRecord
<1> HIDE DEF ask
<1>4. asked' \in [Request -> AskRecord] /\ asked'[r] = ask
  BY <1>1, <1>3 DEF AsksInv
<1>5. \A o \in Request \ {r} : asked'[o] = asked[o] /\ Subject(o)' = Subject(o)
  BY <1>1 DEF AsksInv, Subject, Listing, Is
<1>6. ASSUME NEW o \in Request \ {r}
      PROVE  /\ At(o, "idle")' => asked'[o] = NoAsk
             /\ asked'[o].slot \in Slot =>
                  asked'[o].session = session' /\ Subject(o)' = views'[asked'[o].slot].key
  BY <1>2, <1>5 DEF AsksInv, At
<1> QED BY <1>2, <1>3, <1>4, <1>6 DEF AsksInv

LEMMA ConsoleRequestKeeps ==
  ASSUME SystemInv, ConsoleRequest
  PROVE  ViewsInv' /\ AsksInv'
<1>i. /\ ViewsInv /\ AsksInv /\ Typed(requests) /\ UNCHANGED session
      /\ session \subseteq SessionToken
  BY ServerFacts DEF SystemInv, ConsoleInv, SignInInv, ConsoleRequest, browserVars
<1>1. ASSUME NEW v \in Slot, NEW r \in Request, Ask(v, r)
      PROVE  ViewsInv' /\ AsksInv'
  <2>1. views[v].pc = "asking" /\ Waits(v, r)
    BY <1>1 DEF Ask
  <2>2. views[v].key # NoKey /\ views[v].key \in Key
    BY <1>i, <1>1, <2>1 DEF ViewsInv, ViewRecord
  <2>3. views[v].key.route = "list" => views[v].key = [route |-> "list", token |-> 0]
    BY <1>i, <1>1, <2>2, KeysAreCalls DEF Key
  <2>4. /\ Subject(r)' = views[v].key /\ ~At(r, "idle")'
        /\ \A o \in Request \ {r} : UNCHANGED requests[o]
    BY <1>i, <1>1, <2>2, <2>3, AskedRight DEF Ask
  <2> QED BY <1>i, <1>1, <2>1, <2>2, <2>4, WaitsKeeps
<1>2. ASSUME NEW r \in Request, NEW button, ReadContent(r, button)
      PROVE  ViewsInv' /\ AsksInv'
  <2>1. "tab" \in Slot /\ Waits("tab", r) /\ views["tab"].key.route = "content"
    BY <1>2 DEF ReadContent, Slot
  <2>2. views["tab"].key # NoKey /\ views["tab"].key \in Key
    BY <1>i, <2>1, NothingShown DEF ViewsInv, ViewRecord
  <2>3. /\ Subject(r)' = views["tab"].key /\ ~At(r, "idle")'
        /\ \A o \in Request \ {r} : UNCHANGED requests[o]
    BY <1>i, <1>2, <2>1, <2>2, AskedRight DEF ReadContent
  <2> QED BY <1>i, <2>1, <2>2, <2>3, WaitsKeeps
<1> QED BY <1>1, <1>2 DEF ConsoleRequest

LEMMA ConsoleFailureKeeps ==
  ASSUME SystemInv, ConsoleFailure
  PROVE  ViewsInv' /\ AsksInv'
<1>1. PICK v \in Slot : AskFails(v)
  BY DEF ConsoleFailure
<1>2. ViewsInv /\ AsksInv /\ UNCHANGED <<session, requests>>
  BY DEF SystemInv, ConsoleInv, ConsoleFailure, browserVars, gatewayVars
<1>3. /\ views' = [views EXCEPT ![v].pc = "failed"] /\ UNCHANGED <<place, asked>>
      /\ views[v].key # NoKey /\ views[v].pc # "shown"
  BY <1>1, <1>2 DEF AskFails, ViewsInv
<1>4. ViewsInv' /\ \A w \in Slot : UNCHANGED views[w].key
  BY <1>2, <1>3, PcMoves
<1>5. AsksInv'
  BY <1>2, <1>3, <1>4 DEF AsksInv, At, Subject, Listing, Is
<1> QED BY <1>4, <1>5

LEMMA LoadAgainKeeps ==
  ASSUME SystemInv, LoadAgain
  PROVE  ViewsInv' /\ AsksInv'
<1>1. ViewsInv /\ UNCHANGED session
  BY DEF SystemInv, ConsoleInv, LoadAgain, PageLoad, Reload
<1>2. /\ place' \in [page : Page, token : 0 .. MaxToken, tab : Tab]
      /\ place'.page = "asset" <=> place'.token # 0
  <2>1. "overview" \in Tab
    BY Routes
  <2> QED BY <1>1, <2>1 DEF ViewsInv, LoadAgain
<1> DEFINE key  == PageKey(session', place')
           page == Mounted(key)
           tab  == Mounted(NoKey)
<1>3. key \in Key \cup {NoKey}
  BY <1>2, PageKeyTyped
<1>4. views' = [page |-> page, tab |-> tab]
  BY DEF LoadAgain
<1>5. /\ page \in ViewRecord /\ page.key = key /\ page.pc # "shown"
      /\ key = NoKey => page.pc = "idle"
  <2> HIDE DEF key
  <2> QED BY <1>3, MountedRight
<1>6. tab \in ViewRecord /\ tab.key = NoKey /\ tab.pc = "idle"
  BY MountedRight
<1> HIDE DEF page, tab
<1>7. views' \in [Slot -> ViewRecord] /\ views'["page"] = page /\ views'["tab"] = tab
  BY <1>4, <1>5, <1>6, TwoViews
<1>8. TabKey(place', page) = NoKey
  BY <1>5 DEF TabKey
<1>9. ViewsInv'
  BY <1>2, <1>5, <1>6, <1>7, <1>8 DEF ViewsInv, Slot
<1>10. AsksInv'
  BY NothingShown DEF LoadAgain, AsksInv
<1> QED BY <1>9, <1>10

LEMMA ViewsStep ==
  ASSUME SystemInv, [ConsoleNext]_systemVars, [AnyContentNext]_contentVars,
         session' = session \/ session = {} \/ session' = {}
  PROVE  ViewsInv' /\ AsksInv'
<1>i. /\ ViewsInv /\ AsksInv
      /\ place \in [page : Page, token : 0 .. MaxToken, tab : Tab]
      /\ place.page = "asset" <=> place.token # 0
      /\ "overview" \in Tab
  BY Routes DEF SystemInv, ConsoleInv, ViewsInv
<1>1. CASE Wander
  <2>1. CASE \E page \in Page, t \in 0 .. MaxToken : Navigate(page, t)
    <3>1. PICK page \in Page, t \in 0 .. MaxToken : Navigate(page, t)
      BY <2>1
    <3> DEFINE tab == IF page = "asset" /\ place.page = "asset" THEN place.tab ELSE "overview"
    <3>2. tab \in Tab
      BY <1>i
    <3>3. place' = [page |-> page, token |-> t, tab |-> tab] /\ (page = "asset" <=> t # 0)
      BY <3>1 DEF Navigate
    <3> HIDE DEF tab
    <3> QED BY <1>1, <3>2, <3>3, RenderKeeps DEF Wander
  <2>2. CASE \E tab \in Tab : SelectTab(tab)
    BY <1>i, <1>1, <2>2, RenderKeeps DEF Wander, SelectTab
  <2> QED BY <1>1, <2>1, <2>2 DEF Wander
<1>2. CASE Around
  <2>1. place' = [place EXCEPT !.tab = "overview"] \/ place' = place
    BY <1>2 DEF Around
  <2> QED BY <1>i, <1>2, <2>1, RenderKeeps DEF Around
<1>3. CASE UNCHANGED systemVars
  BY <1>i, <1>3 DEF systemVars, pageVars, consoleVars, browserVars, contentVars, gatewayVars,
                    ViewsInv, AsksInv, At, Subject, Listing, Is
<1> QED
  BY <1>1, <1>2, <1>3, ConsoleRequestKeeps, ConsoleFailureKeeps, LoadAgainKeeps
     DEF ConsoleNext, ConsoleStep

-----------------------------------------------------------------------------
LEMMA SystemInvInit == ConsoleInit => SystemInv
<1> SUFFICES ASSUME ConsoleInit PROVE SystemInv
  OBVIOUS
<1>1. ContentInit /\ tokens = OpenTokens
  BY DEF ConsoleInit, BrowserInit, ContentInit, SessionsInit
<1>2. ServerInv
  BY <1>1, BackendTypeInvInit, NonceInvInit DEF ServerInv
<1>3. SignInInv
  <2>1. session \subseteq tokens /\ \A t, u \in session : t = u
    BY <1>1 DEF ConsoleInit, BrowserInit
  <2>2. signIn = NoSignIn /\ wallet \in Account \cup {NoAddress}
    BY DEF ConsoleInit, BrowserInit
  <2> QED BY <2>1, <2>2, NonceAssumption DEF SignInInv, NoSignIn, AnyAddress
<1>4. FlowInv
  BY MaxTokenAssumption DEF ConsoleInit, BrowserInit, FlowInv, NoFlow
<1>5. /\ place \in [page : Page, token : 0 .. MaxToken, tab : Tab]
      /\ place.page \in {"landing", "admin"} /\ place.token = 0
  BY Routes, MaxTokenAssumption DEF ConsoleInit, Page
<1>6. views = [v \in Slot |-> Mounted(NoKey)] /\ asked = [r \in Request |-> NoAsk]
  BY DEF ConsoleInit
<1>7. Mounted(NoKey) \in ViewRecord /\ Mounted(NoKey).key = NoKey /\ Mounted(NoKey).pc = "idle"
  BY MountedRight
<1>8. "page" \in Slot /\ "tab" \in Slot
  BY DEF Slot
<1>9. PageKey(session, place) = NoKey
  BY <1>5, Routes DEF PageKey
<1>10. TabKey(place, views["page"]) = NoKey
  BY <1>6, <1>7, <1>8 DEF TabKey
<1>11. ViewsInv
  BY <1>5, <1>6, <1>7, <1>8, <1>9, <1>10 DEF ViewsInv
<1>12. AsksInv
  BY <1>6, NothingShown DEF AsksInv
<1> QED BY <1>2, <1>3, <1>4, <1>11, <1>12 DEF SystemInv, ConsoleInv

LEMMA SystemInvStep == SystemInv /\ [ConsoleNext]_systemVars => SystemInv'
<1> SUFFICES ASSUME SystemInv, [ConsoleNext]_systemVars PROVE SystemInv'
  OBVIOUS
<1>1. [AnyContentNext]_contentVars
  BY ConsoleIsAClient
<1>2. ServerInv'
  BY <1>1, BackendTypeStep, NonceStep DEF SystemInv, ServerInv
<1>3. tokens \subseteq tokens' /\ uploads \subseteq uploads' /\ nextToken <= nextToken'
  BY <1>1, <1>2, ServerGrows DEF SystemInv
<1>4. SignInInv' /\ (session' = session \/ session = {} \/ session' = {})
  BY <1>2, <1>3, SignInStep
<1>5. FlowInv'
  BY <1>2, <1>3, FlowStep
<1>6. ViewsInv' /\ AsksInv'
  BY <1>1, <1>4, ViewsStep
<1> QED BY <1>2, <1>4, <1>5, <1>6 DEF SystemInv, ConsoleInv

LEMMA SystemInvHolds == ConsoleSpec => []SystemInv
  BY SystemInvInit, SystemInvStep, PTL DEF ConsoleSpec

\* The console, with whatever else asks the server beside it, is a client like
\* any other: it signs in with a key, links an upload to an asset that can exist,
\* and asks about nothing but assets.
THEOREM ConsoleIsAnyClient == ConsoleSpec => AnyContentSpec
<1>1. ConsoleInit => ContentInit
  BY DEF ConsoleInit, BrowserInit
<1>2. SystemInv /\ [ConsoleNext]_systemVars => [AnyContentNext]_contentVars
  BY ConsoleIsAClient
<1> QED BY <1>1, <1>2, SystemInvHolds, PTL DEF ConsoleSpec, AnyContentSpec

\* So with the console's page signing in, uploading and asking among the others,
\* a nonce serves once, a token is earned, and what is answered, listed, released
\* and linked is what the chain allows, and is logged.
THEOREM ServerHoldsUnderConsole ==
  ConsoleSpec => /\ []NonceServesOnce /\ TokenWasEarned
                 /\ []AnsweredWhileEntitled /\ []ListingIsFaithful
                 /\ []ReleasedIsRegistered /\ RowsWereRegistered
                 /\ []EveryReleaseIsLogged
<1>1. BackendInv => AnsweredWhileEntitled /\ ListingIsFaithful /\ ReleasedIsRegistered
  <2>1. BackendInv => AnsweredWhileEntitled
    BY DEF BackendInv, RequestsInv, Followed, Sound, Placed, Opened, AnsweredWhileEntitled,
           At, Is
  <2>2. BackendInv => ListingIsFaithful
    BY DEF BackendInv, RequestsInv, Followed, Sound, Placed, Listed, ListingIsFaithful, At
  <2>3. BackendInv => ReleasedIsRegistered
    BY DEF BackendInv, RequestsInv, Followed, Sound, Compared, ReleasedIsRegistered, At
  <2> QED BY <2>1, <2>2, <2>3
<1>2. NonceInv => NonceServesOnce
  BY DEF NonceInv
<1> QED
  BY <1>1, <1>2, ConsoleIsAnyClient, BackendInvHolds, NonceInvHolds, EarnedAlways,
     RowsWereCompared, LoggedAhead, PTL

\* The page's tables, and through it all of the server's, are well formed: there
\* is at most one session, and the upload that is linked is one of the server's.
THEOREM SystemTypeCorrect == ConsoleSpec => []SystemTypeOK
<1>1. SystemInv => SystemTypeOK
  <2> SUFFICES ASSUME SystemInv PROVE SystemTypeOK
    OBVIOUS
  <2>1. BackendTypeOK /\ tokens \subseteq SessionToken
    BY BackendTypes, ServerFacts DEF SystemInv, ServerInv
  <2>2. SignInInv /\ FlowInv /\ ViewsInv /\ AsksInv
    BY DEF SystemInv, ConsoleInv
  <2>3. Cardinality(session) <= 1
    <3>1. CASE session = {}
      BY <3>1, FS_EmptySet
    <3>2. CASE session # {}
      <4>1. PICK t \in session : session = {t}
        BY <2>2, <3>2 DEF SignInInv
      <4> QED BY <4>1, FS_Singleton
    <3> QED BY <3>1, <3>2
  <2>4. BrowserTypeOK
    BY <2>1, <2>2, <2>3 DEF BrowserTypeOK, SignInInv, FlowInv
  <2>5. ConsoleTypeOK
    BY <2>2 DEF ConsoleTypeOK, ViewsInv, ViewRecord, AsksInv, AskRecord
  <2> QED BY <2>1, <2>4, <2>5 DEF SystemTypeOK, PageTypeOK
<1> QED BY <1>1, SystemInvHolds, PTL

\* However late an answer is, and whatever the user did while it was out, a page
\* shows only what was answered to the session it is shown under, for the page,
\* the asset and the tab in the address bar.
THEOREM ShownIsOfSessionHolds == ConsoleSpec => []ShownIsOfSession
<1>1. SystemInv => ShownIsOfSession
  <2> SUFFICES ASSUME ViewsInv, NEW v \in Slot, views[v].pc = "shown"
               PROVE  /\ views[v].answer.by = session
                      /\ views[v].answer.of.token = place.token
                      /\ v = "page" => views[v].answer.of.route = PageRoute[place.page]
                      /\ v = "tab" => views[v].answer.of.route = TabRoute[place.tab]
    BY DEF SystemInv, ConsoleInv, ShownIsOfSession
  <2>1. /\ views[v].answer.by = session /\ views[v].answer.of = views[v].key
        /\ views[v].key # NoKey
    BY DEF ViewsInv
  <2>2. CASE v = "page"
    BY <2>1, <2>2 DEF ViewsInv, PageKey
  <2>3. CASE v = "tab"
    BY <2>1, <2>3 DEF ViewsInv, TabKey
  <2> QED BY <2>1, <2>2, <2>3 DEF Slot
<1> QED BY <1>1, SystemInvHolds, PTL
=============================================================================
