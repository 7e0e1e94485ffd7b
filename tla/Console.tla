------------------------------- MODULE Console -------------------------------
(***************************************************************************)
(* The console around the wallet: which pages of the frontend ask the      *)
(* server what, and what they show when it answers (Shell.tsx, main.tsx,   *)
(* Explorer.tsx, AssetDetail.tsx, RiskAndProposals.tsx, ui.tsx).  A page   *)
(* asks with useAsync when it is mounted or its asset changes, and the     *)
(* user navigates, signs out or switches accounts while it waits.          *)
(*                                                                         *)
(* A request that its view has given up before it reached the server is    *)
(* one of the other clients'.  How an answer is laid out is left out.      *)
(***************************************************************************)
EXTENDS Browser

VARIABLES
  place,   \* the address bar, and the tab of the asset's page
  views,   \* the page, and below it the tab of an asset: what each waits for or shows
  asked    \* asked[r]: the view that waits for request r, and as whom it asked

consoleVars == <<place, views, asked>>
systemVars  == <<pageVars, consoleVars>>

Page == {"landing", "files", "asset", "proposals", "risk", "admin"}
Slot == {"page", "tab"}

\* What a page asks for; the others ask for nothing that depends on the session.
PageRoute == [files |-> "list", asset |-> "record", risk |-> "decisions"]
TabRoute  == [overview |-> "content", trace |-> "effective", access |-> "acl",
              audit |-> "audit"]
Tab       == DOMAIN TabRoute

\* A component and the asset it is about, 0 if it is about none.
Key   == [route : Route, token : 0 .. MaxToken]
NoKey == [route |-> "none", token |-> 0]

NoAnswer == [by |-> {}, of |-> NoKey, effective |-> {}]
NoAsk    == [slot |-> "none", session |-> {}]

ConsoleTypeOK ==
  /\ place \in [page : Page, token : 0 .. MaxToken, tab : Tab]
  /\ DOMAIN views = Slot
  /\ \A v \in Slot :
       /\ views[v].key \in Key \cup {NoKey}
       /\ views[v].pc \in {"idle", "asking", "loading", "shown", "confirm", "failed"}
       /\ views[v].answer.by \subseteq SessionToken
       /\ views[v].answer.of \in Key \cup {NoKey}
       /\ views[v].answer.effective \subseteq Permission
  /\ \A r \in Request : /\ asked[r].slot \in Slot \cup {"none"}
                        /\ asked[r].session \subseteq SessionToken

-----------------------------------------------------------------------------
(***************************************************************************)
(* Rendering.  React draws the tree and runs the effects of what changed   *)
(* in one go; every step of the page ends with it.                         *)
(***************************************************************************)

\* Without a session Shell has SignInGate in the place of the page.
PageKey(s, at) ==
  IF s = {} \/ at.page \notin DOMAIN PageRoute THEN NoKey
  ELSE [route |-> PageRoute[at.page], token |-> at.token]

\* The tabs are there when the asset's record is; ContentViewer only if it says
\* that the content may be read.
TabKey(at, page) ==
  IF /\ page.pc = "shown" /\ page.key.route = "record"
     /\ at.tab = "overview" => P_READ \in page.answer.effective
  THEN [route |-> TabRoute[at.tab], token |-> at.token]
  ELSE NoKey

\* useAsync asks as soon as it is mounted; ContentViewer waits for a button.
Mounted(key) ==
  [key |-> key, pc |-> IF key.route \in {"none", "content"} THEN "idle" ELSE "asking",
   answer |-> NoAnswer]

Subject(r) ==
  [route |-> requests[r].route, token |-> IF Listing(r) THEN 0 ELSE requests[r].token]

\* Sent by the server, or refused, failed or lost with the process.
Outcome(r) ==
  [pc |-> IF requests[r].pc \in {"send", "sendView", "sendList"} THEN "shown"
          ELSE IF At(r, "append") /\ requests[r].reason = "STEP_UP_REQUIRED"
          THEN "confirm" ELSE "failed",
   answer |-> [by |-> asked[r].session, of |-> Subject(r),
               effective |-> requests[r].effective]]

Ended(r) == ~At(r, "idle") /\ requests'[r].pc = "idle"

Answered(v) ==
  LET outcomes == {Outcome(r) : r \in {q \in Request : asked[q].slot = v /\ Ended(q)}}
  IN IF outcomes = {} THEN views[v]
     ELSE LET o == CHOOSE o \in outcomes : TRUE
          IN [key |-> views[v].key, pc |-> o.pc, answer |-> o.answer]

Rendered(v, key) == IF key = views[v].key THEN Answered(v) ELSE Mounted(key)

\* Variant of CleanedUp without the live flag of the effect: an answer is lost
\* only with the component that waits for it.
CleanedUpOnUnmount(v) == views'[v].key.route # views[v].key.route

\* The effect's cleanup, when its asset changes or the component goes.
CleanedUp(v) == views'[v].key # views[v].key

Forget ==
  asked' = [r \in Request |->
    IF requests'[r].pc = "idle" \/ (asked[r].slot \in Slot /\ CleanedUp(asked[r].slot))
    THEN NoAsk ELSE asked[r]]

Render ==
  LET page == Rendered("page", PageKey(session', place'))
  IN /\ views' = [page |-> page, tab |-> Rendered("tab", TabKey(place', page))]
     /\ Forget

-----------------------------------------------------------------------------
\* A link, the address bar's history, or a redirect; the tab is the state of the
\* asset's page, which stays from one asset to the next.
Navigate(page, t) ==
  /\ page = "asset" <=> t # 0
  /\ place' = [page |-> page, token |-> t,
               tab |-> IF page = "asset" /\ place.page = "asset" THEN place.tab
                       ELSE "overview"]
  /\ place' # place

SelectTab(tab) ==
  /\ views["page"].pc = "shown" /\ views["page"].key.route = "record"
  /\ place' = [place EXCEPT !.tab = tab]

Waits(v, r) ==
  /\ asked' = [asked EXCEPT ![r] = [slot |-> v, session |-> session]]
  /\ views' = [views EXCEPT ![v].pc = "loading"]
  /\ UNCHANGED place

\* A request reaches the server.
Ask(v, r) ==
  /\ views[v].pc = "asking"
  /\ \E t \in Bearer :
       \/ views[v].key.route = "list" /\ BeginList(r, t)
       \/ views[v].key.route \in View /\ BeginView(r, t, views[v].key)
  /\ Waits(v, r)

\* The server is out of reach, or the token has expired.
AskFails(v) ==
  /\ views[v].pc = "asking"
  /\ views' = [views EXCEPT ![v].pc = "failed"]
  /\ UNCHANGED <<place, asked>>

\* ContentViewer: to open, which waits for the last request, to confirm what the
\* risk rules asked to confirm, and to download, which always confirms.
Button(pc) ==
  {[bit |-> P_DOWNLOAD, stepUp |-> TRUE]}
    \cup (IF pc = "loading" THEN {} ELSE {[bit |-> P_READ, stepUp |-> FALSE]})
    \cup (IF pc = "confirm" THEN {[bit |-> P_READ, stepUp |-> TRUE]} ELSE {})

ReadContent(r, button) ==
  /\ views["tab"].key.route = "content"
  /\ \E t \in Bearer :
       BeginRead(r, t, [token |-> views["tab"].key.token, spelled |-> Canonical,
                        bit |-> button.bit, stepUp |-> button.stepUp])
  /\ Waits("tab", r)

ConsoleInit ==
  /\ BrowserInit
  /\ place \in [page : {"landing", "admin"}, token : {0}, tab : {"overview"}]
  /\ views = [v \in Slot |-> Mounted(NoKey)]
  /\ asked = [r \in Request |-> NoAsk]

Wander ==
  /\ \/ \E page \in Page, t \in 0 .. MaxToken : Navigate(page, t)
     \/ \E tab \in Tab : SelectTab(tab)
  /\ UNCHANGED <<assetsVars, loginVars, gatewayVars, browserVars>>
  /\ Render

ConsoleRequest ==
  /\ \/ \E v \in Slot, r \in Request : Ask(v, r)
     \/ \E r \in Request : \E button \in Button(views["tab"].pc) : ReadContent(r, button)
  /\ UNCHANGED <<assetsVars, loginVars, browserVars>>

ConsoleFailure ==
  /\ \E v \in Slot : AskFails(v)
  /\ UNCHANGED <<assetsVars, loginVars, gatewayVars, browserVars>>

\* With a session that ends the page goes, and its tab with it; the upload form
\* is on the Admin's page.
Around ==
  /\ SystemStep
  /\ flow'.up # flow.up => place.page = "admin"
  /\ place' = IF session' = {} THEN [place EXCEPT !.tab = "overview"] ELSE place
  /\ Render

\* Everything is mounted anew.
LoadAgain ==
  /\ PageLoad
  /\ place' = [place EXCEPT !.tab = "overview"]
  /\ views' = [page |-> Mounted(PageKey(session', place')), tab |-> Mounted(NoKey)]
  /\ asked' = [r \in Request |-> NoAsk]

ConsoleStep == Wander \/ ConsoleRequest \/ ConsoleFailure \/ Around \/ LoadAgain

ConsoleNext == ConsoleStep /\ Watch

ConsoleSpec == ConsoleInit /\ [][ConsoleNext]_systemVars

SystemTypeOK == PageTypeOK /\ ConsoleTypeOK

-----------------------------------------------------------------------------
\* "acting as a different person" (session.tsx:153): what the console shows was
\* answered to the session it is shown under, for the page and the asset in the
\* address bar, whatever answers were still out when the user went elsewhere,
\* signed out or signed in as somebody else.
ShownIsOfSession ==
  \A v \in Slot : views[v].pc = "shown" =>
    /\ views[v].answer.by = session
    /\ views[v].answer.of.token = place.token
    /\ v = "page" => views[v].answer.of.route = PageRoute[place.page]
    /\ v = "tab" => views[v].answer.of.route = TabRoute[place.tab]
=============================================================================
