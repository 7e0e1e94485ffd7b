------------------------------- MODULE Browser -------------------------------
(***************************************************************************)
(* One page of the frontend with a wallet: frontend/src/lib/session.tsx    *)
(* (signing in, out, and switching accounts) and the upload flow of        *)
(* frontend/src/pages/Admin.tsx.  Its awaits are answers of the server, of *)
(* the wallet and of the chain, and the user goes on while they are out.   *)
(*                                                                         *)
(* The other clients of the server are the steps of ContentGateway.        *)
(***************************************************************************)
EXTENDS ContentGateway

CONSTANTS
  Account,      \* the accounts of the wallet
  BrowserCalls  \* what the upload form is filled in with

VARIABLES
  wallet,       \* the account that is selected, NoAddress if there is none
  session,      \* at most one token: the variable, the state and the copy in
                \* sessionStorage are written together
  signIn,       \* where signIn() stands
  flow          \* where run() of the upload form stands

browserVars == <<wallet, session, signIn, flow>>
pageVars    == <<contentVars, browserVars>>

ASSUME BrowserAssumption ==
  /\ Account \subseteq Address
  /\ BrowserCalls.upload \subseteq Hash
  /\ BrowserCalls.form \subseteq [owner : Id, classification : Tier]

NoSignIn == [pc |-> "idle", who |-> NoAddress, nonce |-> 0]
NoFlow   == [pc |-> "idle", up |-> NoFile, token |-> 0]

BrowserTypeOK ==
  /\ wallet \in Account \cup {NoAddress}
  /\ session \subseteq SessionToken /\ Cardinality(session) <= 1
  /\ signIn \in [pc : {"idle", "nonce", "sign", "verify"}, who : AnyAddress,
                 nonce : 0 .. MaxNonce]
  /\ flow \in [pc : {"idle", "signing", "mined", "link", "linking", "done", "failed"},
               up : File \cup {NoFile}, token : 0 .. MaxToken]

\* api() sends the token there is when it is called, if there is one.
Bearer == session

Goes(process, pc) == process' = [process EXCEPT !.pc = pc]

-----------------------------------------------------------------------------
(***************************************************************************)
(* The wallet and the session.                                             *)
(***************************************************************************)

\* accountsChanged: the session is dropped with the account it belonged to.
SwitchAccount(a) ==
  /\ a # wallet
  /\ wallet' = a
  /\ session' = {}
  /\ UNCHANGED <<signIn, flow>>

\* By the button or by the clock, which starts anew with every page load.
SignOut ==
  /\ session # {}
  /\ session' = {}
  /\ UNCHANGED <<wallet, signIn, flow>>

\* The page goes and comes back with what sessionStorage has; the wallet is
\* asked for its account again, and nothing compares the two.
Reload(a) ==
  /\ wallet' = a
  /\ signIn' = NoSignIn
  /\ flow' = NoFlow
  /\ UNCHANGED session

\* The button is in SignInGate, which is there while there is no session.
BeginSignIn ==
  /\ signIn.pc = "idle"
  /\ session = {}
  /\ wallet # NoAddress
  /\ signIn' = [NoSignIn EXCEPT !.pc = "nonce", !.who = wallet]
  /\ UNCHANGED <<wallet, session, flow>>

\* Declined in the wallet, refused or out of reach.
SignInFails ==
  /\ signIn.pc \in {"nonce", "sign"}
  /\ signIn' = NoSignIn
  /\ UNCHANGED <<wallet, session, flow>>

\* The steps that are calls of the server, with what the server does.
FetchNonce ==
  /\ signIn.pc = "nonce"
  /\ IssueNonce
  /\ signIn' = [signIn EXCEPT !.pc = "sign", !.nonce = nextNonce]
  /\ UNCHANGED <<wallet, session, flow>>

\* The signer was bound to the account when signIn() began.
SignAndVerify(l) ==
  /\ signIn.pc = "sign"
  /\ BeginVerify(l, signIn.nonce, signIn.who)
  /\ Goes(signIn, "verify")
  /\ UNCHANGED <<wallet, session, flow>>

-----------------------------------------------------------------------------
(***************************************************************************)
(* The upload flow: upload, mint with the wallet, link.                    *)
(***************************************************************************)

\* The form is there for a session with the Admin role, and not while busy.
StartUpload(h) ==
  /\ flow.pc \in {"idle", "done", "failed"}
  /\ \E t \in Bearer : Upload(t, h)
  /\ flow' = [NoFlow EXCEPT !.pc = "signing",
                            !.up = CHOOSE up \in uploads' : up \notin uploads]
  /\ UNCHANGED <<wallet, session, signIn>>

\* The transaction is the selected account's, whoever uploaded.
MintUpload(form) ==
  /\ flow.pc = "signing"
  /\ Mint(wallet, [to |-> form.owner, hash |-> flow.up.hash,
                   classification |-> form.classification])
  /\ Goes(flow, "mined")
  /\ UNCHANGED <<wallet, session, signIn>>

\* The number of the asset is taken to be totalMinted, which other mints move.
AskTotalMinted ==
  /\ flow.pc = "mined"
  /\ flow' = [flow EXCEPT !.pc = "link", !.token = nextToken - 1]
  /\ UNCHANGED <<wallet, session, signIn>>

\* By now the token may be another account's, or gone.
SendLink(r) ==
  /\ flow.pc = "link"
  /\ \E t \in Bearer :
       BeginLink(r, t, [token |-> flow.token, spelled |-> Canonical, body |-> flow.up])
  /\ Goes(flow, "linking")
  /\ UNCHANGED <<wallet, session, signIn>>

\* Declined, reverted, refused by the server, or there is no token any more.
FlowFails ==
  /\ flow.pc \in {"signing", "mined", "link"}
  /\ Goes(flow, "failed")
  /\ UNCHANGED <<wallet, session, signIn>>

-----------------------------------------------------------------------------
\* What the page does when the server's step was its answer: a verification
\* left a token or did not, a link left its row or did not.
Receive ==
  /\ LET issued == {t \in tokens' : t.nonce = signIn.nonce}
     IN IF signIn.pc = "verify" /\ \A l \in Login : logins'[l].nonce # signIn.nonce
        THEN /\ signIn' = NoSignIn
             /\ session' = IF issued = {} THEN session ELSE issued
        ELSE UNCHANGED <<signIn, session>>
  /\ IF /\ flow.pc = "linking"
        /\ \A r \in Request : requests'[r].pc = "upsert" => requests'[r].file # flow.up
     THEN Goes(flow, IF files'[<<flow.token, Canonical>>] = flow.up THEN "done" ELSE "failed")
     ELSE UNCHANGED flow
  /\ UNCHANGED wallet

BrowserInit ==
  /\ ContentInit
  /\ wallet \in Account \cup {NoAddress}
  /\ session \in {{}} \cup {{t} : t \in OpenTokens}
  /\ signIn = NoSignIn
  /\ flow = NoFlow

PageStep ==
  /\ \/ \E a \in Account \cup {NoAddress} : SwitchAccount(a)
     \/ SignOut \/ BeginSignIn \/ SignInFails \/ AskTotalMinted \/ FlowFails
  /\ UNCHANGED <<assetsVars, loginVars, gatewayVars>>

PageLoad ==
  /\ \E a \in Account \cup {NoAddress} : Reload(a)
  /\ UNCHANGED <<assetsVars, loginVars, gatewayVars>>

PageSignIn ==
  /\ FetchNonce \/ \E l \in Login : SignAndVerify(l)
  /\ UNCHANGED <<assetsVars, gatewayVars>>

PageRequest ==
  /\ \/ \E h \in BrowserCalls.upload : StartUpload(h)
     \/ \E r \in Request : SendLink(r)
  /\ UNCHANGED <<assetsVars, loginVars>>

PageMint ==
  /\ \E form \in BrowserCalls.form : MintUpload(form)
  /\ UNCHANGED <<identityVars, loginVars, gatewayVars>>

BrowserStep == PageStep \/ PageSignIn \/ PageRequest \/ PageMint

SystemStep == BrowserStep \/ (ContentStep /\ Receive)

BrowserNext == (SystemStep \/ PageLoad) /\ Watch

BrowserSpec == BrowserInit /\ [][BrowserNext]_pageVars

PageTypeOK == BackendTypeOK /\ BrowserTypeOK

-----------------------------------------------------------------------------
\* "Switching MetaMask accounts means acting as a different person, so the old
\* session must not survive" (session.tsx:153-154): the page acts for the
\* account that is selected.
SessionIsWallets == \A t \in session : t.address = wallet
=============================================================================
