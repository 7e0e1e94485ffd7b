------------------------- MODULE ContentGateway_proofs -------------------------
(***************************************************************************)
(* Theorems about the backend, for every number of requests in flight and  *)
(* whatever the chain does between two of a request's reads.               *)
(*                                                                         *)
(* The histories are what makes them go: after every step they hold what   *)
(* is true on the chain then, so an answer of the chain that a request     *)
(* takes with it is in the history of that request for good.               *)
(***************************************************************************)
EXTENDS Sessions_proofs, FiniteSetTheorems

Shapes ==
  /\ requests = [r \in Request |-> requests[r]]
  /\ \A r \in Request : DOMAIN requests[r] = DOMAIN NoRequest
  /\ files = [k \in RowId |-> files[k]]

\* Which routes pass through which awaits.
Placed(q) ==
  /\ q.pc = "upsert" => q.route = "link"
  /\ q.pc \in {"exists", "isActive", "effective"} =>
       q.route \in {"content", "list", "record", "effective", "acl"}
  /\ q.pc \in {"risk", "file", "hash", "open", "lastRow", "append", "send"} =>
       q.route = "content"
  /\ q.pc \in {"total", "sendList"} => q.route = "list"
  /\ q.pc = "asset" => q.route \in {"list", "record"}
  /\ q.pc = "classification" => q.route = "effective"
  /\ q.pc \in {"principals", "aces"} => q.route = "acl"
  /\ q.pc \in {"events", "rows"} => q.route \in {"audit", "decisions"}
  /\ q.pc = "sendView" => q.route \in {"record", "effective", "acl", "audit", "decisions"}
  /\ q.route \notin {"list", "decisions"} => q.token \in Token

\* authorize has allowed what the request is about.
Opened(q) ==
  \/ q.pc \in {"risk", "file", "hash", "open", "send", "asset"}
  \/ q.pc \in {"lastRow", "append"} /\ q.reason = "ALLOW"
  \/ q.pc = "sendView" /\ q.route = "record"
  \/ q.pc \in {"classification", "sendView"} /\ q.route = "effective" /\ q.reason = "ALLOW"
  \/ q.route = "acl" /\ (q.reason = "ALLOW" \/ q.pc \in {"principals", "aces", "sendView"})

\* The chain has had the content that the request's file was opened as.
Compared(q) ==
  \/ q.pc = "send"
  \/ q.pc \in {"lastRow", "append"} /\ q.reason = "ALLOW"

\* What a listing has put in, and what it has still to look at.
Listed(q, s) ==
  /\ q.listed \subseteq s.once
  /\ q.pc # "total" => s.always \subseteq 1 .. q.total
  /\ q.pc \in {"exists", "isActive", "effective", "asset"} =>
       /\ q.total \in 0 .. MaxToken /\ q.token \in 1 .. q.total
       /\ s.always \subseteq q.listed \cup (q.token .. q.total)
  /\ q.pc = "sendList" => s.always \subseteq q.listed

Sound(q, s) ==
  /\ Placed(q)
  /\ Opened(q) => q.token \in s.once
  /\ q.pc = "open" => q.hash \in s.contents
  /\ q.pc = "upsert" => q.file.hash \in s.contents
  /\ Compared(q) => q.file.path \in s.contents
  /\ q.route = "list" => Listed(q, s)

\* The history holds what is the case now.
UpToDate(r) ==
  /\ \A t \in Token :
       (Listing(r) \/ t = requests[r].token) =>
         (requests[r].bit \in EffectiveForIdentity(t, requests[r].id) => t \in seen[r].once)
  /\ Listing(r) =>
       \A t \in seen[r].always :
         t \in Token /\ requests[r].bit \in EffectiveForIdentity(t, requests[r].id)
  /\ ~Listing(r) => \A t \in Token :
       t = requests[r].token => assets[t].contentHash \in seen[r].contents

Followed(r) ==
  IF At(r, "idle") THEN seen[r] = NothingSeen
  ELSE Sound(requests[r], seen[r]) /\ UpToDate(r)

RequestsInv == Shapes /\ \A r \in Request : Followed(r)

-----------------------------------------------------------------------------
\* One step of the histories.
LEMMA WatchKeepsUp ==
  ASSUME WatchRequests, NEW r \in Request
  PROVE  IF requests'[r].pc = "idle" THEN seen'[r] = NothingSeen
         ELSE /\ seen[r].once \subseteq seen'[r].once
              /\ seen'[r].always \subseteq seen[r].always
              /\ requests'[r].route # "list" => seen[r].contents \subseteq seen'[r].contents
              /\ UpToDate(r)'
  BY DEF WatchRequests, UpToDate, Listing, Is

\* What is sound stays so while its history grows.
LEMMA SoundGrows ==
  ASSUME NEW q, NEW s, NEW u, Sound(q, s), s.once \subseteq u.once, u.always \subseteq s.always,
         q.route # "list" => s.contents \subseteq u.contents
  PROVE  Sound(q, u)
<1>1. q.pc \in {"open", "upsert"} \/ Compared(q) => q.route # "list"
  BY DEF Sound, Placed, Compared
<1>2. q.route = "list" => Listed(q, u)
  BY DEF Sound, Listed
<1> QED BY <1>1, <1>2 DEF Sound

\* A request that a step does not touch is followed through it.
LEMMA UntouchedIsFollowed ==
  ASSUME WatchRequests, NEW r \in Request, Followed(r), UNCHANGED requests[r]
  PROVE  Followed(r)'
<1>1. CASE At(r, "idle")
  BY <1>1, WatchKeepsUp DEF At, Followed
<1>2. CASE ~At(r, "idle")
  <2>1. requests'[r].pc # "idle"
    BY <1>2 DEF At
  <2>2. /\ Sound(requests[r], seen[r])
        /\ seen[r].once \subseteq seen'[r].once /\ seen'[r].always \subseteq seen[r].always
        /\ requests[r].route # "list" => seen[r].contents \subseteq seen'[r].contents
        /\ UpToDate(r)'
    BY <1>2, <2>1, WatchKeepsUp DEF Followed
  <2>3. Sound(requests'[r], seen'[r])
    BY <2>2, SoundGrows
  <2> QED BY <2>1, <2>2, <2>3 DEF Followed, At
<1> QED BY <1>1, <1>2
-----------------------------------------------------------------------------
(***************************************************************************)
(* A request's own steps.  Each leaves it sound for what was seen before   *)
(* the step, or ends it.                                                   *)
(***************************************************************************)
Alone(r) ==
  /\ Shapes'
  /\ \A o \in Request \ {r} : UNCHANGED requests[o]

Moved(r) ==
  /\ Alone(r)
  /\ requests'[r].pc = "idle" \/ Sound(requests'[r], seen[r])

LEMMA Went ==
  ASSUME Shapes, NEW r \in Request, NEW pc, Goto(r, pc), UNCHANGED files
  PROVE  /\ Alone(r) /\ requests'[r].pc = pc
         /\ UNCHANGED <<requests[r].route, requests[r].id, requests[r].token,
                        requests[r].reason, requests[r].file, requests[r].hash,
                        requests[r].listed, requests[r].total>>
  BY DEF Shapes, Goto, Alone, NoRequest

LEMMA WasLogged ==
  ASSUME Shapes, NEW r \in Request, NEW reason, Log(r, reason), UNCHANGED files
  PROVE  /\ Alone(r) /\ requests'[r].pc = "lastRow" /\ requests'[r].reason = reason
         /\ UNCHANGED <<requests[r].route, requests[r].token, requests[r].file>>
  BY DEF Shapes, Log, Alone, NoRequest

LEMMA WasDone ==
  ASSUME Shapes, NEW r \in Request, Done(r), files' = [k \in RowId |-> files'[k]]
  PROVE  Moved(r)
  BY DEF Shapes, Done, Alone, Moved, NoRequest

\* To be logged: with ALLOW only what was allowed and compared.
LEMMA LoggingMoves ==
  ASSUME Shapes, NEW r \in Request, NEW reason, Log(r, reason), UNCHANGED files,
         requests[r].route = "content", requests[r].token \in Token,
         reason = "ALLOW" => /\ requests[r].token \in seen[r].once
                             /\ requests[r].file.path \in seen[r].contents
  PROVE  Moved(r)
<1>1. /\ Alone(r) /\ requests'[r].pc = "lastRow" /\ requests'[r].reason = reason
      /\ UNCHANGED <<requests[r].route, requests[r].token, requests[r].file>>
  BY WasLogged
<1> QED BY <1>1 DEF Moved, Sound, Placed, Opened, Compared

-----------------------------------------------------------------------------
\* A listing goes on to the next asset: the one it leaves is in the list, or is
\* none of those that could be seen throughout.
LEMMA NextAssetMoves ==
  ASSUME Shapes, NEW r \in Request, NEW listed, NextAsset(r, listed), UNCHANGED files,
         Sound(requests[r], seen[r]), UpToDate(r), Listing(r),
         requests[r].pc \in {"exists", "isActive", "effective", "asset"},
         requests[r].listed \subseteq listed, listed \subseteq seen[r].once,
         requests[r].token \notin seen[r].always \ listed
  PROVE  Moved(r)
<1> DEFINE q == requests[r]
           n == requests'[r]
<1>1. /\ q.route = "list" /\ Listed(q, seen[r])
      /\ q.total \in 0 .. MaxToken /\ q.token \in 1 .. q.total
      /\ seen[r].always \subseteq q.listed \cup (q.token .. q.total)
      /\ seen[r].always \subseteq 1 .. q.total
  BY DEF Sound, Listed, Listing, Is
<1>2. /\ Alone(r) /\ n.listed = listed /\ n.route = "list" /\ n.total = q.total
      /\ n.token = IF q.token < q.total THEN q.token + 1 ELSE q.token
      /\ n.pc = IF q.token < q.total THEN "exists" ELSE "sendList"
  BY <1>1 DEF Shapes, NextAsset, Alone, NoRequest
<1> HIDE DEF q, n
<1>3. CASE q.token < q.total
  <2>1. n.token \in 1 .. n.total /\ n.pc = "exists"
    BY <1>1, <1>2, <1>3, MaxTokenAssumption
  <2>2. seen[r].always \subseteq n.listed \cup (n.token .. n.total)
    BY <1>1, <1>2, <1>3, MaxTokenAssumption DEF q
  <2>3. Listed(n, seen[r])
    BY <1>1, <1>2, <2>1, <2>2 DEF Listed
  <2> QED BY <1>2, <2>1, <2>3 DEF Moved, Sound, Placed, Opened, Compared, n
<1>4. CASE ~(q.token < q.total)
  <2>1. n.pc = "sendList"
    BY <1>2, <1>4
  <2>2. seen[r].always \subseteq n.listed
    BY <1>1, <1>2, <1>4, MaxTokenAssumption DEF q
  <2>3. Listed(n, seen[r])
    BY <1>1, <1>2, <2>1, <2>2 DEF Listed
  <2> QED BY <1>2, <2>1, <2>3 DEF Moved, Sound, Placed, Opened, Compared, n
<1> QED BY <1>3, <1>4
-----------------------------------------------------------------------------
(***************************************************************************)
(* authorize: what its three reads lead to, route by route.                *)
(***************************************************************************)
Authorizing(r) == requests[r].pc \in {"exists", "isActive", "effective"}

\* The list's asset is one of the assets, like any other route's.
LEMMA AuthorizedIsToken ==
  ASSUME NEW r \in Request, Sound(requests[r], seen[r]), Authorizing(r)
  PROVE  requests[r].token \in Token
  BY MaxTokenAssumption DEF Sound, Placed, Listed, Authorizing, Token

LEMMA AclMoves ==
  ASSUME Shapes, NEW r \in Request, NEW reason, AclDecision(r, reason), UNCHANGED files,
         Is(r, "acl"), requests[r].token \in Token,
         requests[r].bit = P_ADMIN \/ requests[r].reason = "ALLOW" \/ reason = "ALLOW",
         reason = "ALLOW" \/ requests[r].reason = "ALLOW" => requests[r].token \in seen[r].once
  PROVE  Moved(r)
<1>1. /\ Alone(r)
      /\ requests'[r].route = "acl" /\ requests'[r].token = requests[r].token
      /\ requests'[r].pc = IF requests[r].bit = P_ADMIN THEN "exists" ELSE "principals"
      /\ requests'[r].reason = IF requests[r].reason = "ALLOW" THEN "ALLOW" ELSE reason
  BY DEF Shapes, AclDecision, Alone, NoRequest, Is
<1> QED BY <1>1 DEF Moved, Sound, Placed, Opened, Compared

LEMMA EffectiveMoves ==
  ASSUME Shapes, NEW r \in Request, NEW reason, NEW effective,
         EffectiveDecision(r, reason, effective), UNCHANGED files,
         Is(r, "effective"), requests[r].token \in Token,
         reason = "ALLOW" => requests[r].token \in seen[r].once
  PROVE  Moved(r)
<1>1. /\ Alone(r)
      /\ requests'[r].route = "effective" /\ requests'[r].token = requests[r].token
      /\ requests'[r].pc = "classification" /\ requests'[r].reason = reason
  BY DEF Shapes, EffectiveDecision, Alone, NoRequest, Is
<1> QED BY <1>1 DEF Moved, Sound, Placed, Opened, Compared

LEMMA DeniedMoves ==
  ASSUME Shapes, NEW r \in Request, NEW effective, Deny(r, effective), UNCHANGED files,
         Sound(requests[r], seen[r]), UpToDate(r), Authorizing(r),
         requests[r].bit \notin EffectiveForIdentity(requests[r].token, requests[r].id)
  PROVE  Moved(r)
<1>1. requests[r].token \in Token
  BY AuthorizedIsToken
<1>2. CASE Is(r, "content") /\ Log(r, "DENIED")
  BY <1>1, <1>2, LoggingMoves DEF Is
<1>3. CASE Is(r, "list") /\ NextAsset(r, requests[r].listed)
  <2>1. requests[r].token \notin seen[r].always
    BY <1>3 DEF UpToDate, Listing
  <2>2. requests[r].listed \subseteq seen[r].once
    BY <1>3 DEF Sound, Listed, Is
  <2> QED BY <1>3, <2>1, <2>2, NextAssetMoves DEF Listing, Authorizing
<1>4. CASE Done(r)
  BY <1>4, WasDone DEF Shapes
<1>5. CASE Is(r, "effective") /\ EffectiveDecision(r, "DENIED", effective)
  BY <1>1, <1>5, EffectiveMoves
<1>6. CASE /\ Is(r, "acl") /\ AclDecision(r, "DENIED")
           /\ requests[r].bit = P_ADMIN \/ requests[r].reason = "ALLOW"
  <2>1. requests[r].reason = "ALLOW" => requests[r].token \in seen[r].once
    BY <1>6 DEF Sound, Opened, Is
  <2> QED BY <1>1, <1>6, <2>1, AclMoves
<1> QED BY <1>2, <1>3, <1>4, <1>5, <1>6 DEF Deny

LEMMA AllowedMoves ==
  ASSUME Shapes, NEW r \in Request, NEW effective, Allow(r, effective), UNCHANGED files,
         Sound(requests[r], seen[r]), UpToDate(r), requests[r].pc = "effective",
         requests[r].bit \in EffectiveForIdentity(requests[r].token, requests[r].id)
  PROVE  Moved(r)
<1>1. requests[r].token \in Token
  BY AuthorizedIsToken DEF Authorizing
<1>2. requests[r].token \in seen[r].once
  BY <1>1 DEF UpToDate
<1>3. CASE Is(r, "content") /\ Goto(r, "risk")
  BY <1>1, <1>2, <1>3, Went DEF Moved, Sound, Placed, Opened, Compared, Is
<1>4. CASE Is(r, "list") /\ Goto(r, "asset")
  <2>1. /\ Alone(r) /\ requests'[r].pc = "asset" /\ requests'[r].route = "list"
        /\ UNCHANGED <<requests[r].token, requests[r].listed, requests[r].total>>
    BY <1>4, Went DEF Is
  <2>2. Listed(requests'[r], seen[r])
    BY <1>4, <2>1 DEF Sound, Listed, Is
  <2> QED BY <1>2, <2>1, <2>2 DEF Moved, Sound, Placed, Opened, Compared
<1>5. CASE /\ Is(r, "record")
           /\ requests' = [requests EXCEPT ![r].pc = "asset", ![r].effective = effective]
  <2>1. /\ Alone(r) /\ requests'[r].pc = "asset" /\ requests'[r].route = "record"
        /\ requests'[r].token = requests[r].token
    BY <1>5 DEF Shapes, Alone, NoRequest, Is
  <2> QED BY <1>1, <1>2, <2>1 DEF Moved, Sound, Placed, Opened, Compared
<1>6. CASE Is(r, "effective") /\ EffectiveDecision(r, "ALLOW", effective)
  BY <1>1, <1>2, <1>6, EffectiveMoves
<1>7. CASE Is(r, "acl") /\ AclDecision(r, "ALLOW")
  BY <1>1, <1>2, <1>7, AclMoves
<1> QED BY <1>3, <1>4, <1>5, <1>6, <1>7 DEF Allow

LEMMA AuthorizeMoves ==
  ASSUME Shapes, NEW r \in Request, Followed(r),
         AskExists(r) \/ AskActive(r) \/ AskEffective(r)
  PROVE  Moved(r)
<1>1. Sound(requests[r], seen[r]) /\ UpToDate(r) /\ Authorizing(r) /\ UNCHANGED files
  BY DEF Followed, At, AskExists, AskActive, AskEffective, Authorizing
<1>2. ASSUME NEW pc \in {"isActive", "effective"}, Goto(r, pc)
      PROVE  Moved(r)
  <2>1. /\ Alone(r) /\ requests'[r].pc = pc
        /\ UNCHANGED <<requests[r].route, requests[r].token, requests[r].reason,
                       requests[r].listed, requests[r].total>>
    BY <1>1, <1>2, Went
  <2>2. requests[r].route = "list" => Listed(requests'[r], seen[r])
    BY <1>1, <2>1 DEF Sound, Listed, Authorizing
  <2>3. Placed(requests'[r])
    BY <1>1, <2>1 DEF Sound, Placed, Authorizing
  <2>4. Opened(requests'[r]) => Opened(requests[r])
    BY <1>1, <2>1 DEF Opened
  <2> QED BY <1>1, <2>1, <2>2, <2>3, <2>4 DEF Moved, Sound, Compared
<1>3. CASE AskExists(r)
  BY <1>1, <1>2, <1>3, DeniedMoves DEF AskExists, EffectiveForIdentity
<1>4. CASE AskActive(r)
  BY <1>1, <1>2, <1>4, DeniedMoves DEF AskActive, EffectiveForIdentity
<1>5. CASE AskEffective(r)
  <2>1. requests[r].pc = "effective"
    BY <1>5 DEF AskEffective, At
  <2> QED BY <1>1, <1>5, <2>1, DeniedMoves, AllowedMoves DEF AskEffective
<1> QED BY <1>3, <1>4, <1>5
-----------------------------------------------------------------------------
(***************************************************************************)
(* The other steps.                                                        *)
(***************************************************************************)

\* The total is the assets that exist, and nobody sees one that does not.
LEMMA AskTotalMoves ==
  ASSUME HashInv, AssetsInv, Shapes, NEW r \in Request, Followed(r), AskTotal(r)
  PROVE  Moved(r)
<1>1. /\ requests[r].route = "list" /\ Listed(requests[r], seen[r]) /\ UpToDate(r)
  BY DEF Followed, At, AskTotal, Sound, Placed
<1>2. nextToken \in 1 .. MaxToken + 1
  BY DEF AssetsInv, AssetTypeOK
<1>3. seen[r].always \subseteq 1 .. nextToken - 1
  <2> SUFFICES ASSUME NEW t \in seen[r].always PROVE t \in 1 .. nextToken - 1
    OBVIOUS
  <2>1. t \in Token /\ Exists(t)
    BY <1>1 DEF UpToDate, Listing, Is, EffectiveForIdentity
  <2> QED BY <1>2, <2>1, MaxTokenAssumption DEF HashInv, FreshTokens, Exists, Token
<1>4. /\ Alone(r) /\ requests'[r].route = "list"
      /\ requests'[r].listed = requests[r].listed
      /\ requests'[r].total = nextToken - 1 /\ requests'[r].token = 1
      /\ requests'[r].pc = IF nextToken = 1 THEN "sendList" ELSE "exists"
  BY <1>1 DEF Shapes, AskTotal, Alone, NoRequest
<1>5. Listed(requests'[r], seen[r])
  BY <1>1, <1>2, <1>3, <1>4, MaxTokenAssumption DEF Listed
<1> QED BY <1>4, <1>5 DEF Moved, Sound, Placed, Opened, Compared

LEMMA ReadAssetMoves ==
  ASSUME Shapes, NEW r \in Request, Followed(r), ReadAsset(r)
  PROVE  Moved(r)
<1>1. /\ Sound(requests[r], seen[r]) /\ UpToDate(r) /\ requests[r].pc = "asset"
      /\ UNCHANGED files
  BY DEF Followed, At, ReadAsset
<1>2. requests[r].token \in seen[r].once
  BY <1>1 DEF Sound, Opened
<1>3. CASE Listing(r) /\ NextAsset(r, requests[r].listed \cup {requests[r].token})
  <2>1. requests[r].listed \subseteq seen[r].once
    BY <1>1, <1>3 DEF Sound, Listed, Listing, Is
  <2> QED BY <1>1, <1>2, <1>3, <2>1, NextAssetMoves
<1>4. CASE Is(r, "record") /\ Goto(r, "sendView")
  <2>1. /\ Alone(r) /\ requests'[r].pc = "sendView" /\ requests'[r].route = "record"
        /\ requests'[r].token = requests[r].token /\ requests[r].token \in Token
    BY <1>1, <1>4, Went DEF Is, Sound, Placed
  <2> QED BY <1>2, <2>1 DEF Moved, Sound, Placed, Opened, Compared
<1> QED BY <1>3, <1>4 DEF ReadAsset

LEMMA ReadOnMoves ==
  ASSUME Shapes, NEW r \in Request, Followed(r), ReadOn(r)
  PROVE  Moved(r)
<1> DEFINE pc == AfterRead[requests[r].pc]
<1>1. /\ requests[r].pc \in {"classification", "principals", "aces", "events", "rows"}
      /\ pc = CASE requests[r].pc = "principals" -> "aces"
                [] requests[r].pc = "events" -> "rows"
                [] OTHER -> "sendView"
      /\ Goto(r, pc) /\ UNCHANGED files
  BY DEF ReadOn, AfterRead
<1>2. Sound(requests[r], seen[r])
  BY <1>1 DEF Followed, At
<1> HIDE DEF pc
<1>3. /\ Alone(r) /\ requests'[r].pc = pc
      /\ UNCHANGED <<requests[r].route, requests[r].token, requests[r].reason>>
  BY <1>1, Went
<1>4. Placed(requests'[r]) /\ requests[r].route # "list"
  BY <1>1, <1>2, <1>3 DEF Sound, Placed
<1>5. Opened(requests'[r]) => Opened(requests[r])
  BY <1>1, <1>2, <1>3 DEF Opened, Sound, Placed
<1> QED BY <1>1, <1>2, <1>3, <1>4, <1>5 DEF Moved, Sound, Compared

LEMMA AnswerMoves ==
  ASSUME Shapes, NEW r \in Request, SendList(r) \/ SendView(r) \/ Send(r) \/ Upsert(r)
  PROVE  Moved(r)
  BY WasDone DEF SendList, SendView, Send, Upsert, Shapes

\* On the way of content from the allowed read to the row of the log.
LEMMA ContentMoves ==
  ASSUME Shapes, NEW r \in Request, Followed(r),
         Score(r) \/ FindFile(r) \/ AskHash(r) \/ OpenFile(r)
  PROVE  Moved(r)
<1>1. /\ Sound(requests[r], seen[r]) /\ UpToDate(r) /\ UNCHANGED files
      /\ requests[r].pc \in {"risk", "file", "hash", "open"}
  BY DEF Followed, At, Score, FindFile, AskHash, OpenFile
<1>2. /\ requests[r].route = "content" /\ requests[r].token \in Token
      /\ requests[r].token \in seen[r].once
  BY <1>1 DEF Sound, Placed, Opened
<1>3. CASE Score(r)
  <2>1. CASE Goto(r, "file")
    BY <1>1, <1>2, <2>1, Went DEF Moved, Sound, Placed, Opened, Compared
  <2>2. CASE \E reason \in {"ANOMALY_SCORE_HIGH", "STEP_UP_REQUIRED"} : Log(r, reason)
    BY <1>1, <1>2, <2>2, LoggingMoves
  <2> QED BY <1>3, <2>1, <2>2 DEF Score
<1>4. CASE FindFile(r)
  <2>1. CASE Done(r)
    BY <1>1, <2>1, WasDone DEF Shapes
  <2>2. CASE requests' = [requests EXCEPT ![r].pc = "hash", ![r].file = files[RowOf(r)]]
    <3>1. /\ Alone(r) /\ requests'[r].pc = "hash"
          /\ UNCHANGED <<requests[r].route, requests[r].token>>
      BY <1>1, <2>2 DEF Shapes, Alone, NoRequest
    <3> QED BY <1>2, <3>1 DEF Moved, Sound, Placed, Opened, Compared
  <2> QED BY <1>4, <2>1, <2>2 DEF FindFile
<1>5. CASE AskHash(r)
  <2>1. assets[requests[r].token].contentHash \in seen[r].contents
    BY <1>1, <1>2 DEF UpToDate, Listing, Is
  <2>2. /\ Alone(r) /\ requests'[r].pc = "open"
        /\ requests'[r].hash = assets[requests[r].token].contentHash
        /\ UNCHANGED <<requests[r].route, requests[r].token>>
    BY <1>1, <1>5 DEF AskHash, Shapes, Alone, NoRequest
  <2> QED BY <1>2, <2>1, <2>2 DEF Moved, Sound, Placed, Opened, Compared
<1>6. CASE OpenFile(r)
  <2>1. requests[r].hash \in seen[r].contents
    BY <1>1, <1>6 DEF OpenFile, At, Sound
  <2>2. PICK reason \in {"FILE_NOT_STORED", "ALLOW", "TAMPER_DETECTED"} :
          /\ Log(r, reason)
          /\ reason = "ALLOW" => requests[r].file.path = requests[r].hash
    BY <1>6 DEF OpenFile
  <2> QED BY <1>1, <1>2, <2>1, <2>2, LoggingMoves
<1> QED BY <1>3, <1>4, <1>5, <1>6

LEMMA LogMoves ==
  ASSUME Shapes, NEW r \in Request, Followed(r), AskLastRow(r) \/ LogDecision(r)
  PROVE  Moved(r)
<1>1. /\ Sound(requests[r], seen[r]) /\ UNCHANGED files
      /\ requests[r].pc \in {"lastRow", "append"}
  BY DEF Followed, At, AskLastRow, LogDecision
<1>2. requests[r].route = "content" /\ requests[r].token \in Token
  BY <1>1 DEF Sound, Placed
<1>3. requests[r].reason = "ALLOW" =>
        requests[r].token \in seen[r].once /\ requests[r].file.path \in seen[r].contents
  BY <1>1 DEF Sound, Opened, Compared
<1>4. CASE AskLastRow(r)
  <2>1. /\ Alone(r) /\ requests'[r].pc = "append"
        /\ UNCHANGED <<requests[r].route, requests[r].token, requests[r].reason, requests[r].file>>
    BY <1>1, <1>4 DEF AskLastRow, Shapes, Alone, NoRequest
  <2> QED BY <1>2, <1>3, <2>1 DEF Moved, Sound, Placed, Opened, Compared
<1>5. CASE LogDecision(r)
  <2>1. CASE requests[r].reason = "ALLOW" /\ Goto(r, "send")
    BY <1>1, <1>2, <1>3, <2>1, Went DEF Moved, Sound, Placed, Opened, Compared
  <2>2. CASE Done(r)
    BY <1>1, <2>2, WasDone DEF Shapes
  <2> QED BY <1>5, <2>1, <2>2 DEF LogDecision
<1> QED BY <1>4, <1>5
-----------------------------------------------------------------------------
(***************************************************************************)
(* Arrivals.                                                               *)
(***************************************************************************)
LEMMA ArrivalMoves ==
  ASSUME Shapes, NEW r \in Request, NEW token,
         \/ \E c \in ReadCall : BeginRead(r, token, c)
         \/ \E c \in ViewCall : BeginView(r, token, c)
         \/ BeginList(r, token)
  PROVE  Moved(r)
<1>1. CASE \E c \in ReadCall : BeginRead(r, token, c)
  <2>1. PICK c \in ReadCall : BeginRead(r, token, c)
    BY <1>1
  <2>2. c.token \in Token
    BY DEF ReadCall
  <2>3. /\ Alone(r) /\ requests'[r].pc = "exists" /\ requests'[r].route = "content"
        /\ requests'[r].token = c.token
    BY <2>1 DEF BeginRead, Shapes, Alone, NoRequest
  <2> QED BY <2>2, <2>3 DEF Moved, Sound, Placed, Opened, Compared
<1>2. CASE \E c \in ViewCall : BeginView(r, token, c)
  <2>1. PICK c \in ViewCall : BeginView(r, token, c)
    BY <1>2
  <2>2. c.route \in View /\ (c.route # "decisions" => c.token \in Token)
    BY DEF ViewCall
  <2>3. /\ Alone(r) /\ requests'[r].route = c.route
        /\ requests'[r].token = c.token /\ requests'[r].reason = "DENIED"
        /\ requests'[r].pc = IF c.route \in Authorized THEN "exists"
                             ELSE IF c.route = "audit" THEN "events" ELSE "rows"
    BY <2>1 DEF BeginView, Shapes, Alone, NoRequest
  <2>4. /\ Authorized = {"record", "effective", "acl"}
        /\ View = {"record", "effective", "acl", "audit", "decisions"}
    BY DEF Authorized, View, ViewBit
  <2> QED BY <2>2, <2>3, <2>4 DEF Moved, Sound, Placed, Opened, Compared
<1>3. CASE BeginList(r, token)
  <2>1. /\ Alone(r) /\ requests'[r].pc = "total" /\ requests'[r].route = "list"
        /\ requests'[r].listed = {}
    BY <1>3 DEF BeginList, Shapes, Alone, NoRequest
  <2> QED BY <2>1 DEF Moved, Sound, Placed, Opened, Compared, Listed
<1> QED BY <1>1, <1>2, <1>3

\* A link is let in with the content that the asset has at that moment.
LEMMA LinkIsFollowed ==
  ASSUME Shapes, WatchRequests, NEW r \in Request, NEW token, NEW c, c.token \in Token,
         BeginLink(r, token, c), UNCHANGED assetsVars
  PROVE  Alone(r) /\ Followed(r)'
<1>1. /\ Alone(r) /\ requests'[r].pc = "upsert" /\ requests'[r].route = "link"
      /\ requests'[r].token = c.token /\ requests'[r].file = c.body
  BY DEF BeginLink, Shapes, Alone, NoRequest
<1>2. UpToDate(r)'
  BY <1>1, WatchKeepsUp
<1>3. assets'[c.token].contentHash = c.body.hash
  BY DEF BeginLink, assetsVars, assetVars
<1>4. c.body.hash \in seen'[r].contents
  BY <1>1, <1>2, <1>3 DEF UpToDate, Listing, Is
<1>5. Sound(requests'[r], seen'[r])
  BY <1>1, <1>4 DEF Sound, Placed, Opened, Compared
<1> QED BY <1>1, <1>2, <1>5 DEF Followed, At

\* The bodies that callers make up.
MadeUp == {c.body : c \in GatewayCalls.link}

LEMMA LinksTyped ==
  ASSUME uploads \subseteq File, NEW c \in Links
  PROVE  /\ c.token \in Token /\ c.spelled \in Spelling /\ c.body \in File
         /\ c.body \in uploads \cup MadeUp
<1>1. CASE c \in GatewayCalls.link
  BY <1>1, GatewayAssumption DEF LinkCall, MadeUp
<1>2. CASE c \in [token : Token, spelled : {Canonical}, body : uploads]
  BY <1>2, SpellingAssumption
<1> QED BY <1>1, <1>2 DEF Links

LEMMA LinksAreAssets ==
  ASSUME NEW c \in Links
  PROVE  c.token \in Token
  BY GatewayAssumption DEF Links, LinkCall

-----------------------------------------------------------------------------
(***************************************************************************)
(* Every step.                                                             *)
(***************************************************************************)
LEMMA MovedIsFollowed ==
  ASSUME WatchRequests, NEW r \in Request, Moved(r)
  PROVE  Followed(r)'
<1>1. CASE requests'[r].pc = "idle"
  BY <1>1, WatchKeepsUp DEF Followed, At
<1>2. CASE requests'[r].pc # "idle"
  <2>1. Sound(requests'[r], seen[r])
    BY <1>2 DEF Moved
  <2>2. /\ seen[r].once \subseteq seen'[r].once
        /\ seen'[r].always \subseteq seen[r].always
        /\ requests'[r].route # "list" => seen[r].contents \subseteq seen'[r].contents
        /\ UpToDate(r)'
    BY <1>2, WatchKeepsUp
  <2>3. Sound(requests'[r], seen'[r])
    BY <2>1, <2>2, SoundGrows
  <2> QED BY <1>2, <2>2, <2>3 DEF Followed, At
<1> QED BY <1>1, <1>2

LEMMA OneMoves ==
  ASSUME RequestsInv, WatchRequests, NEW r \in Request, Alone(r), Followed(r)'
  PROVE  RequestsInv'
<1>1. \A o \in Request \ {r} : Followed(o)'
  BY UntouchedIsFollowed DEF RequestsInv, Alone
<1> QED BY <1>1 DEF RequestsInv, Alone

LEMMA NoneMoves ==
  ASSUME RequestsInv, WatchRequests, UNCHANGED <<requests, files>>
  PROVE  RequestsInv'
<1>1. \A r \in Request : Followed(r)'
  BY UntouchedIsFollowed DEF RequestsInv
<1> QED BY <1>1 DEF RequestsInv, Shapes

LEMMA RequestStepKeeps ==
  ASSUME AssetsInv, HashInv, RequestsInv, WatchRequests, AnyRequestStep, UNCHANGED assetsVars
  PROVE  RequestsInv'
<1>1. Shapes /\ \A r \in Request : Followed(r)
  BY DEF RequestsInv
<1>2. CASE \E token \in tokens, h \in Hash : Upload(token, h)
  BY <1>2, NoneMoves DEF Upload
<1>3. CASE \E token \in tokens, r \in Request, c \in Links : BeginLink(r, token, c)
  BY <1>1, <1>3, LinkIsFollowed, LinksAreAssets, OneMoves
<1>4. CASE \E r \in Request : Moved(r)
  BY <1>4, MovedIsFollowed, OneMoves DEF Moved
<1>5. CASE \E r \in Request :
             \/ \E token \in tokens :
                  \/ \E c \in ReadCall : BeginRead(r, token, c)
                  \/ \E c \in ViewCall : BeginView(r, token, c)
                  \/ BeginList(r, token)
             \/ Upsert(r)
             \/ AskExists(r) \/ AskActive(r) \/ AskEffective(r)
             \/ Score(r) \/ FindFile(r) \/ AskHash(r) \/ OpenFile(r)
             \/ AskLastRow(r) \/ LogDecision(r) \/ Send(r)
             \/ AskTotal(r) \/ ReadAsset(r) \/ SendList(r)
             \/ ReadOn(r) \/ SendView(r)
  BY <1>1, <1>4, <1>5, ArrivalMoves, AnswerMoves, AuthorizeMoves, ContentMoves, LogMoves,
     AskTotalMoves, ReadAssetMoves, ReadOnMoves
<1> QED BY <1>2, <1>3, <1>5 DEF AnyRequestStep, Arrives

LEMMA RestartKeeps ==
  ASSUME RequestsInv, WatchRequests, Restart
  PROVE  RequestsInv'
<1>1. requests' = [r \in Request |-> NoRequest] /\ UNCHANGED files
  BY DEF Restart
<1>2. \A r \in Request : requests'[r].pc = "idle"
  BY <1>1 DEF NoRequest
<1>3. \A r \in Request : Followed(r)'
  BY <1>2, WatchKeepsUp DEF Followed, At
<1>4. Shapes'
  BY <1>1 DEF Shapes, RequestsInv
<1> QED BY <1>3, <1>4 DEF RequestsInv

BackendInv == AssetsInv /\ HashInv /\ RequestsInv

LEMMA BackendInvInit == ContentInit => BackendInv
<1> SUFFICES ASSUME ContentInit PROVE BackendInv
  OBVIOUS
<1>1. AssetsInv /\ HashInv
  BY AssetsTypeInit, HashInit DEF ContentInit, SessionsInit
<1>2. Shapes
  BY DEF ContentInit, Shapes
<1>3. \A r \in Request : Followed(r)
  BY DEF ContentInit, Followed, At, NoRequest
<1> QED BY <1>1, <1>2, <1>3 DEF BackendInv, RequestsInv

\* Nothing but the chain decides who may what.
LEMMA SamePermissions ==
  ASSUME UNCHANGED assetsVars, NEW t, NEW i
  PROVE  UNCHANGED EffectiveForIdentity(t, i)
<1> USE DEF assetsVars, identityVars, roleVars, registryVars, assetVars, accessVars
<1>1. UNCHANGED EntriesFor(t, i)
  BY DEF EntriesFor, PrincipalsOf, HasRoleToken, ControllerOf, IdentityOwner, InForce
<1>2. UNCHANGED Discretionary(t, i)
  BY <1>1 DEF Discretionary
<1> QED
  BY <1>2 DEF EffectiveForIdentity, IsActive, Exists, ApplyRoleRules, HasRoleToken,
              ControllerOf, IdentityOwner, ApplyMandatoryAccessControl, ClearanceOf,
              ClassificationOf

LEMMA BackendInvStep ==
  BackendInv /\ [AnyContentNext]_contentVars => BackendInv'
<1> SUFFICES ASSUME BackendInv, [AnyContentNext]_contentVars
             PROVE  BackendInv'
  OBVIOUS
<1> USE DEF BackendInv
<1>1. CASE AnyContentNext
  <2>1. AnyAssetsStep \/ UNCHANGED assetsVars
    BY <1>1 DEF AnyContentNext, AnyContentStep
  <2>2. AssetsInv' /\ HashInv'
    BY <2>1, AssetsInvStep, HashInvStep
  <2>3. WatchRequests
    BY <1>1 DEF AnyContentNext, Watch
  <2>4. ASSUME UNCHANGED gatewayVars PROVE RequestsInv'
    BY <2>3, <2>4, NoneMoves DEF gatewayVars
  <2>5. ASSUME AnyRequestStep, UNCHANGED assetsVars PROVE RequestsInv'
    BY <2>3, <2>5, RequestStepKeeps
  <2>6. ASSUME DamageStep PROVE RequestsInv'
    BY <2>3, <2>6, NoneMoves DEF DamageStep, DamageFile
  <2>7. ASSUME Restart PROVE RequestsInv'
    BY <2>3, <2>7, RestartKeeps
  <2>8. RequestsInv'
    BY <1>1, <2>4, <2>5, <2>6, <2>7 DEF AnyContentNext, AnyContentStep
  <2> QED BY <2>2, <2>8
<1>2. CASE UNCHANGED contentVars
  <2>1. AssetsInv' /\ HashInv'
    BY <1>2, AssetsInvStep, HashInvStep DEF contentVars, sessionsVars
  <2>2. UNCHANGED <<requests, files, seen, assetsVars>>
    BY <1>2 DEF contentVars, gatewayVars, sessionsVars
  <2>3. RequestsInv'
    BY <2>2, SamePermissions
       DEF RequestsInv, Shapes, Followed, At, UpToDate, Listing, Is, assetsVars, assetVars
  <2> QED BY <2>1, <2>3
<1> QED BY <1>1, <1>2

LEMMA BackendInvHolds == AnyContentSpec => []BackendInv
  BY BackendInvInit, BackendInvStep, PTL DEF AnyContentSpec

-----------------------------------------------------------------------------
\* Whatever changes on the chain between the reads of a request, what it opens
\* is answered only to a reader that could open it at one moment since it came.
THEOREM AnsweredWhileEntitledHolds == ContentSpec => []AnsweredWhileEntitled
<1>1. BackendInv => AnsweredWhileEntitled
  BY DEF BackendInv, RequestsInv, Followed, Sound, Placed, Opened, AnsweredWhileEntitled, At, Is
<1> QED BY <1>1, BackendInvHolds, ContentIsAny, PTL

\* A listing answers for every moment since it came, although it asks about each
\* asset at another one.
THEOREM ListingIsFaithfulHolds == ContentSpec => []ListingIsFaithful
<1>1. BackendInv => ListingIsFaithful
  BY DEF BackendInv, RequestsInv, Followed, Sound, Placed, Listed, ListingIsFaithful, At
<1> QED BY <1>1, BackendInvHolds, ContentIsAny, PTL

\* Whichever key is in the row and whatever was done to the file, the content
\* that leaves was the asset's on the chain while the request was served.
THEOREM ReleasedIsRegisteredHolds == ContentSpec => []ReleasedIsRegistered
<1>1. BackendInv => ReleasedIsRegistered
  BY DEF BackendInv, RequestsInv, Followed, Sound, Compared, ReleasedIsRegistered, At
<1> QED BY <1>1, BackendInvHolds, ContentIsAny, PTL

-----------------------------------------------------------------------------
(***************************************************************************)
(* The log runs ahead of the answers: what is logged for a reader and an   *)
(* asset outnumbers what was sent by those about to be sent.               *)
(***************************************************************************)
SentTo(i, t)  == {n \in DOMAIN released : released[n].identity = i /\ released[n].token = t}
LoggedFor(i, t) == {n \in DOMAIN decisions :
                      /\ decisions[n].identity = i /\ decisions[n].token = t
                      /\ decisions[n].reason = "ALLOW"}
Sending(i, t) == {r \in Request :
                    At(r, "send") /\ requests[r].id = i /\ requests[r].token = t}

IsSequence(s) == \E S : s \in Seq(S)

Ahead(i, t) ==
  /\ IsFiniteSet(Sending(i, t))
  /\ Cardinality(SentTo(i, t)) + Cardinality(Sending(i, t)) <= Cardinality(LoggedFor(i, t))

AheadInv ==
  /\ Shapes /\ IsSequence(released) /\ IsSequence(decisions)
  /\ \A i \in Id, t \in Token : Ahead(i, t)

LEMMA AppendGrows ==
  ASSUME NEW s, IsSequence(s), NEW e
  PROVE  /\ IsSequence(Append(s, e))
         /\ DOMAIN Append(s, e) = DOMAIN s \cup {Len(s) + 1}
         /\ Len(s) + 1 \notin DOMAIN s
         /\ \A n \in DOMAIN s : Append(s, e)[n] = s[n]
         /\ Append(s, e)[Len(s) + 1] = e
<1>1. PICK S : s \in Seq(S)
  BY DEF IsSequence
<1>2. s \in Seq(S \cup {e}) /\ Append(s, e) \in Seq(S \cup {e})
  BY <1>1
<1> QED BY <1>2 DEF IsSequence

\* Entries of a sequence are finitely many.
LEMMA EntriesFinite ==
  ASSUME NEW s, IsSequence(s), NEW T \in SUBSET DOMAIN s
  PROVE  IsFiniteSet(T) /\ Cardinality(T) \in Nat
<1>1. DOMAIN s = 1 .. Len(s) /\ Len(s) \in Nat
  BY DEF IsSequence
<1>2. IsFiniteSet(DOMAIN s)
  BY <1>1, FS_Interval
<1> QED BY <1>2, FS_Subset, FS_CardinalityType

\* A step that logs and sends nothing, and brings nobody to send.
LEMMA QuietIsAhead ==
  ASSUME AheadInv, Shapes', UNCHANGED <<released, decisions>>,
         \A r \in Request : At(r, "send")' => UNCHANGED requests[r]
  PROVE  AheadInv'
<1>1. ASSUME NEW i \in Id, NEW t \in Token PROVE Ahead(i, t)'
  <2>1. /\ UNCHANGED <<SentTo(i, t), LoggedFor(i, t)>> /\ Ahead(i, t)
        /\ Sending(i, t)' \subseteq Sending(i, t)
    BY DEF SentTo, LoggedFor, Sending, AheadInv, At
  <2>2. /\ Cardinality(SentTo(i, t)) \in Nat /\ Cardinality(LoggedFor(i, t)) \in Nat
    BY EntriesFinite DEF AheadInv, SentTo, LoggedFor
  <2>3. /\ IsFiniteSet(Sending(i, t)') /\ Cardinality(Sending(i, t)') \in Nat
        /\ Cardinality(Sending(i, t)) \in Nat
        /\ Cardinality(Sending(i, t)') <= Cardinality(Sending(i, t))
    BY <2>1, FS_Subset, FS_CardinalityType DEF Ahead
  <2> HIDE DEF SentTo, LoggedFor, Sending
  <2> QED BY <2>1, <2>2, <2>3 DEF Ahead
<1> QED BY <1>1 DEF AheadInv

\* The row of an allowed read is in before its request is about to send.
LEMMA LogDecisionIsAhead ==
  ASSUME AheadInv, NEW r \in Request, LogDecision(r)
  PROVE  AheadInv'
<1> DEFINE q   == requests[r]
           row == [identity |-> q.id, token |-> q.token, reason |-> q.reason, prev |-> q.prev]
<1>1. /\ decisions' = Append(decisions, row) /\ UNCHANGED <<files, released>>
      /\ q.pc = "append" /\ IF q.reason = "ALLOW" THEN Goto(r, "send") ELSE Done(r)
  BY DEF LogDecision, AppendRow, At
<1>2. /\ Shapes' /\ \A o \in Request \ {r} : UNCHANGED requests[o]
      /\ At(r, "send")' => q.reason = "ALLOW" /\ UNCHANGED <<requests[r].id, requests[r].token>>
  <2>s. Shapes
    BY DEF AheadInv
  <2>1. CASE q.reason = "ALLOW"
    BY <1>1, <2>s, <2>1, Went DEF Alone, At
  <2>2. CASE q.reason # "ALLOW"
    <3>1. Done(r) /\ files' = [k \in RowId |-> files'[k]]
      BY <1>1, <2>s, <2>2 DEF Shapes
    <3>2. Alone(r) /\ requests'[r].pc = "idle"
      BY <2>s, <3>1, WasDone DEF Shapes, Done, NoRequest, Moved
    <3> QED BY <1>1, <2>2, <3>2 DEF Alone, At
  <2> QED BY <2>1, <2>2
<1>3. /\ IsSequence(decisions') /\ DOMAIN decisions' = DOMAIN decisions \cup {Len(decisions) + 1}
      /\ Len(decisions) + 1 \notin DOMAIN decisions
      /\ \A n \in DOMAIN decisions : decisions'[n] = decisions[n]
      /\ decisions'[Len(decisions) + 1] = row
  BY <1>1, AppendGrows DEF AheadInv
<1>4. row.identity = q.id /\ row.token = q.token /\ row.reason = q.reason
  OBVIOUS
<1> HIDE DEF q, row
<1>5. ASSUME NEW i \in Id, NEW t \in Token PROVE Ahead(i, t)'
  <2>1. /\ Ahead(i, t) /\ UNCHANGED SentTo(i, t)
        /\ Cardinality(SentTo(i, t)) \in Nat /\ Cardinality(LoggedFor(i, t)) \in Nat
        /\ IsFiniteSet(LoggedFor(i, t)) /\ Cardinality(Sending(i, t)) \in Nat
    BY <1>1, EntriesFinite, FS_CardinalityType DEF AheadInv, SentTo, LoggedFor, Ahead
  <2>2. CASE At(r, "send")' /\ q.id = i /\ q.token = t
    <3>1. LoggedFor(i, t)' = LoggedFor(i, t) \cup {Len(decisions) + 1}
      BY <1>2, <1>3, <1>4, <2>2 DEF LoggedFor
    <3>2. Cardinality(LoggedFor(i, t)') = Cardinality(LoggedFor(i, t)) + 1
      <4>1. Len(decisions) + 1 \notin LoggedFor(i, t)
        BY <1>3 DEF LoggedFor
      <4> QED BY <2>1, <3>1, <4>1, FS_AddElement
    <3>3. Sending(i, t)' = Sending(i, t) \cup {r} /\ r \notin Sending(i, t)
      BY <1>1, <1>2, <2>2 DEF Sending, At, q
    <3>4. /\ IsFiniteSet(Sending(i, t)')
          /\ Cardinality(Sending(i, t)') = Cardinality(Sending(i, t)) + 1
      BY <2>1, <3>3, FS_AddElement DEF Ahead
    <3> QED BY <2>1, <3>2, <3>4 DEF Ahead
  <2>3. CASE ~(At(r, "send")' /\ q.id = i /\ q.token = t)
    <3>1. Sending(i, t)' = Sending(i, t)
      BY <1>1, <1>2, <2>3 DEF Sending, At, q
    <3>2. /\ LoggedFor(i, t) \subseteq LoggedFor(i, t)'
          /\ IsFiniteSet(LoggedFor(i, t)') /\ Cardinality(LoggedFor(i, t)') \in Nat
      BY <1>3, EntriesFinite DEF LoggedFor
    <3>3. Cardinality(LoggedFor(i, t)) <= Cardinality(LoggedFor(i, t)')
      BY <3>2, FS_Subset
    <3> QED BY <2>1, <3>1, <3>2, <3>3 DEF Ahead
  <2> QED BY <2>2, <2>3
<1> QED BY <1>1, <1>2, <1>3, <1>5 DEF AheadInv

LEMMA SendIsAhead ==
  ASSUME AheadInv, NEW r \in Request, Send(r)
  PROVE  AheadInv'
<1> DEFINE q      == requests[r]
           answer == [identity |-> q.id, token |-> q.token, content |-> q.file.path]
<1>1. /\ released' = Append(released, answer) /\ UNCHANGED <<files, decisions>>
      /\ q.pc = "send" /\ Done(r)
  BY DEF Send, At
<1>2. Shapes' /\ ~At(r, "send")' /\ \A o \in Request \ {r} : UNCHANGED requests[o]
  BY <1>1 DEF AheadInv, Shapes, Done, NoRequest, At
<1>3. /\ IsSequence(released') /\ DOMAIN released' = DOMAIN released \cup {Len(released) + 1}
      /\ \A n \in DOMAIN released : released'[n] = released[n]
      /\ released'[Len(released) + 1] = answer
      /\ Len(released) + 1 \notin DOMAIN released
  BY <1>1, AppendGrows DEF AheadInv
<1>4. answer.identity = q.id /\ answer.token = q.token
  OBVIOUS
<1> HIDE DEF q, answer
<1>5. ASSUME NEW i \in Id, NEW t \in Token PROVE Ahead(i, t)'
  <2>1. /\ Ahead(i, t) /\ UNCHANGED LoggedFor(i, t)
        /\ Cardinality(SentTo(i, t)) \in Nat /\ Cardinality(LoggedFor(i, t)) \in Nat
        /\ IsFiniteSet(SentTo(i, t)) /\ Cardinality(Sending(i, t)) \in Nat
    BY <1>1, EntriesFinite, FS_CardinalityType DEF AheadInv, SentTo, LoggedFor, Ahead
  <2>2. CASE q.id = i /\ q.token = t
    <3>1. SentTo(i, t)' = SentTo(i, t) \cup {Len(released) + 1}
      BY <1>3, <1>4, <2>2 DEF SentTo
    <3>2. Cardinality(SentTo(i, t)') = Cardinality(SentTo(i, t)) + 1
      <4>1. Len(released) + 1 \notin SentTo(i, t)
        BY <1>3 DEF SentTo
      <4> QED BY <2>1, <3>1, <4>1, FS_AddElement
    <3>3. Sending(i, t)' = Sending(i, t) \ {r} /\ r \in Sending(i, t)
      BY <1>1, <1>2, <2>2 DEF Sending, At, q
    <3>4. /\ IsFiniteSet(Sending(i, t)')
          /\ Cardinality(Sending(i, t)') = Cardinality(Sending(i, t)) - 1
      BY <2>1, <3>3, FS_RemoveElement DEF Ahead
    <3> QED BY <2>1, <3>2, <3>4 DEF Ahead
  <2>3. CASE ~(q.id = i /\ q.token = t)
    <3>1. Sending(i, t)' = Sending(i, t)
      BY <1>1, <1>2, <2>3 DEF Sending, At, q
    <3>2. SentTo(i, t)' = SentTo(i, t)
      BY <1>3, <1>4, <2>3 DEF SentTo
    <3> QED BY <2>1, <3>1, <3>2 DEF Ahead
  <2> QED BY <2>2, <2>3
<1> QED BY <1>1, <1>2, <1>3, <1>5 DEF AheadInv

\* Nothing else brings a request to send.
LEMMA NotToSend ==
  ASSUME Shapes, NEW r \in Request,
         \/ \E token \in tokens : Arrives(r, token)
         \/ Upsert(r)
         \/ AskExists(r) \/ AskActive(r) \/ AskEffective(r)
         \/ Score(r) \/ FindFile(r) \/ AskHash(r) \/ OpenFile(r) \/ AskLastRow(r)
         \/ AskTotal(r) \/ ReadAsset(r) \/ SendList(r) \/ ReadOn(r) \/ SendView(r)
  PROVE  /\ Shapes' /\ UNCHANGED <<released, decisions>>
         /\ ~At(r, "send")' /\ \A o \in Request \ {r} : UNCHANGED requests[o]
<1>s. Shapes
  OBVIOUS
<1>1. CASE \E token \in tokens : Arrives(r, token)
  <2>1. CASE \E token \in tokens, c \in Links : BeginLink(r, token, c)
    BY <2>1 DEF BeginLink, Shapes, NoRequest, At
  <2>2. CASE \E token \in tokens, c \in ReadCall : BeginRead(r, token, c)
    BY <2>2 DEF BeginRead, Shapes, NoRequest, At
  <2>3. CASE \E token \in tokens, c \in ViewCall : BeginView(r, token, c)
    <3>1. PICK token \in tokens, c \in ViewCall : BeginView(r, token, c)
      BY <2>3
    <3> DEFINE first == IF c.route \in Authorized THEN "exists"
                        ELSE IF c.route = "audit" THEN "events" ELSE "rows"
               bit   == IF c.route \in Authorized THEN ViewBit[c.route] ELSE NoRequest.bit
    <3>2. requests' = [requests EXCEPT ![r] =
            [NoRequest EXCEPT !.pc = first, !.route = c.route, !.id = token.id,
               !.clearance = token.clearance, !.token = c.token, !.bit = bit]]
      BY <3>1 DEF BeginView
    <3>3. UNCHANGED <<files, released, decisions>>
      BY <3>1 DEF BeginView
    <3>4. \A o \in Request \ {r} : UNCHANGED requests[o]
      BY <1>s, <3>2 DEF Shapes
    <3>5. requests'[r].pc = first /\ DOMAIN requests'[r] = DOMAIN NoRequest
      BY <1>s, <3>2 DEF Shapes, NoRequest
    <3>6. requests' = [o \in Request |-> requests'[o]]
      BY <1>s, <3>2 DEF Shapes
    <3> QED BY <1>s, <3>3, <3>4, <3>5, <3>6 DEF Shapes, At
  <2>4. CASE \E token \in tokens : BeginList(r, token)
    BY <2>4 DEF BeginList, Shapes, NoRequest, At
  <2> QED BY <1>1, <2>1, <2>2, <2>3, <2>4 DEF Arrives
<1>2. CASE AskExists(r) \/ AskActive(r) \/ AskEffective(r)
  <2>1. /\ UNCHANGED <<files, released, decisions>>
        /\ \/ Goto(r, "isActive") \/ Goto(r, "effective")
           \/ \E effective : Allow(r, effective) \/ Deny(r, effective)
    BY <1>2 DEF AskExists, AskActive, AskEffective
  <2> DEFINE Fine == /\ Shapes' /\ ~At(r, "send")'
                     /\ \A o \in Request \ {r} : UNCHANGED requests[o]
  <2>g. ASSUME NEW pc, pc # "send", Goto(r, pc) PROVE Fine
    BY <2>1, <2>g, Went DEF Alone, At
  <2>l. ASSUME NEW reason, Log(r, reason) PROVE Fine
    BY <2>1, <2>l, WasLogged DEF Alone, At
  <2>n. ASSUME NEW listed, NextAsset(r, listed) PROVE Fine
    BY <2>1, <2>n DEF NextAsset, Shapes, NoRequest, At
  <2>e. ASSUME NEW reason, NEW effective, EffectiveDecision(r, reason, effective) PROVE Fine
    BY <2>1, <2>e DEF EffectiveDecision, Shapes, NoRequest, At
  <2>a. ASSUME NEW reason, AclDecision(r, reason) PROVE Fine
    BY <2>1, <2>a DEF AclDecision, Shapes, NoRequest, At
  <2>d. ASSUME Done(r) PROVE Fine
    <3>1. Alone(r) /\ requests'[r].pc = "idle"
      BY <1>s, <2>1, <2>d, WasDone DEF Shapes, Done, NoRequest, Moved
    <3> QED BY <3>1 DEF Alone, At
  <2>r. ASSUME NEW effective,
               requests' = [requests EXCEPT ![r].pc = "asset", ![r].effective = effective]
        PROVE  Fine
    BY <2>1, <2>r DEF Shapes, NoRequest, At
  <2> HIDE DEF Fine
  <2>2. ASSUME NEW effective, Allow(r, effective) PROVE Fine
    BY <2>2, <2>g, <2>r, <2>e, <2>a DEF Allow
  <2>3. ASSUME NEW effective, Deny(r, effective) PROVE Fine
    BY <2>3, <2>l, <2>n, <2>d, <2>e, <2>a DEF Deny
  <2>4. Fine
    BY <2>1, <2>2, <2>3, <2>g
  <2> QED BY <2>1, <2>4 DEF Fine
<1>3. CASE Upsert(r) \/ SendList(r) \/ SendView(r)
  BY <1>3 DEF Upsert, SendList, SendView, Done, Shapes, NoRequest, At
<1>4. CASE Score(r) \/ OpenFile(r)
  <2>1. /\ UNCHANGED <<files, released, decisions>>
        /\ Goto(r, "file") \/ \E reason : Log(r, reason)
    BY <1>4 DEF Score, OpenFile
  <2> QED BY <2>1, Went, WasLogged DEF Alone, At
<1>7. CASE FindFile(r) \/ AskHash(r) \/ AskLastRow(r)
  BY <1>7 DEF FindFile, AskHash, AskLastRow, Done, Shapes, NoRequest, At
<1>5. CASE AskTotal(r) \/ ReadAsset(r)
  BY <1>5 DEF AskTotal, ReadAsset, NextAsset, Goto, Shapes, NoRequest, At
<1>6. CASE ReadOn(r)
  <2>1. AfterRead[requests[r].pc] # "send"
    BY <1>6 DEF ReadOn, AfterRead
  <2>2. Goto(r, AfterRead[requests[r].pc]) /\ UNCHANGED <<files, released, decisions>>
    BY <1>6 DEF ReadOn
  <2> QED BY <2>1, <2>2, Went DEF Alone, At
<1> QED BY <1>1, <1>2, <1>3, <1>4, <1>5, <1>6, <1>7

LEMMA AheadInvStep == AheadInv /\ [AnyContentNext]_contentVars => AheadInv'
<1> SUFFICES ASSUME AheadInv, [AnyContentNext]_contentVars PROVE AheadInv'
  OBVIOUS
<1>s. Shapes
  BY DEF AheadInv
<1>1. CASE UNCHANGED <<files, requests, released, decisions>>
  BY <1>1, QuietIsAhead DEF AheadInv, Shapes
<1>2. CASE Restart
  <2>1. Shapes' /\ \A r \in Request : ~At(r, "send")'
    BY <1>s, <1>2 DEF Restart, Shapes, At, NoRequest
  <2> QED BY <1>2, <2>1, QuietIsAhead DEF Restart
<1>3. CASE \E r \in Request : LogDecision(r) \/ Send(r)
  BY <1>3, LogDecisionIsAhead, SendIsAhead
<1>4. CASE \E r \in Request :
             \/ \E token \in tokens : Arrives(r, token)
             \/ Upsert(r)
             \/ AskExists(r) \/ AskActive(r) \/ AskEffective(r)
             \/ Score(r) \/ FindFile(r) \/ AskHash(r) \/ OpenFile(r) \/ AskLastRow(r)
             \/ AskTotal(r) \/ ReadAsset(r) \/ SendList(r) \/ ReadOn(r) \/ SendView(r)
  <2>1. PICK r \in Request :
          /\ Shapes' /\ UNCHANGED <<released, decisions>>
          /\ ~At(r, "send")' /\ \A o \in Request \ {r} : UNCHANGED requests[o]
    BY <1>s, <1>4, NotToSend
  <2> QED BY <2>1, QuietIsAhead
<1>5. CASE AnyRequestStep
  <2>1. CASE \E token \in tokens, h \in Hash : Upload(token, h)
    BY <1>1, <2>1 DEF Upload
  <2> QED BY <1>3, <1>4, <1>5, <2>1 DEF AnyRequestStep
<1>6. CASE DamageStep
  BY <1>1, <1>6 DEF DamageStep, DamageFile
<1> QED
  BY <1>1, <1>2, <1>5, <1>6 DEF AnyContentNext, AnyContentStep, contentVars, gatewayVars

LEMMA LoggedAhead == AnyContentSpec => []EveryReleaseIsLogged
<1>1. ContentInit => AheadInv
  <2> SUFFICES ASSUME ContentInit PROVE AheadInv
    OBVIOUS
  <2>1. Shapes /\ IsSequence(released) /\ IsSequence(decisions)
    BY DEF ContentInit, Shapes, IsSequence
  <2>2. ASSUME NEW i \in Id, NEW t \in Token PROVE Ahead(i, t)
    <3>1. SentTo(i, t) = {} /\ LoggedFor(i, t) = {} /\ Sending(i, t) = {}
      BY DEF ContentInit, SentTo, LoggedFor, Sending, At, NoRequest
    <3> QED BY <3>1, FS_EmptySet DEF Ahead
  <2> QED BY <2>1, <2>2 DEF AheadInv
<1>2. AheadInv => EveryReleaseIsLogged
  <2> SUFFICES ASSUME AheadInv, NEW i \in Id, NEW t \in Token
               PROVE  Cardinality(SentTo(i, t)) <= Cardinality(LoggedFor(i, t))
    BY DEF EveryReleaseIsLogged, SentTo, LoggedFor
  <2>1. /\ Ahead(i, t)
        /\ Cardinality(SentTo(i, t)) \in Nat /\ Cardinality(LoggedFor(i, t)) \in Nat
    BY EntriesFinite DEF AheadInv, SentTo, LoggedFor
  <2>2. Cardinality(Sending(i, t)) \in Nat
    BY <2>1, FS_CardinalityType DEF Ahead
  <2> QED BY <2>1, <2>2 DEF Ahead
<1> QED BY <1>1, <1>2, AheadInvStep, PTL DEF AnyContentSpec

\* No answer leaves without a row of its own, whoever reads what at once and
\* wherever the server stops.
THEOREM EveryReleaseIsLoggedHolds == ContentSpec => []EveryReleaseIsLogged
  BY LoggedAhead, ContentIsAny
-----------------------------------------------------------------------------
(***************************************************************************)
(* Types.  What makes them inductive: a request has its reader's identity  *)
(* from the start, and from the row on, or from the link on, a file.       *)
(***************************************************************************)
RequestRecord ==
  [pc : Await, route : Route, id : AnyId, clearance : Tier, token : 0 .. MaxToken,
   spelled : Spelling, bit : Permission, stepUp : BOOLEAN, file : File \cup {NoFile},
   hash : AnyHash, reason : Reason, prev : Nat,
   total : 0 .. MaxToken, listed : SUBSET Token, effective : SUBSET Permission]

Typed(table) == table \in [Request -> RequestRecord]

\* The request has a file at hand.
Holds(q) ==
  \/ q.pc \in {"hash", "open", "send"}
  \/ q.pc \in {"lastRow", "append"} /\ q.reason = "ALLOW"

Whole(q) ==
  /\ q.pc # "idle" /\ q.route # "link" => q.id \in Id
  /\ Holds(q) => q.file \in File
  /\ q.pc = "upsert" => q.file \in uploads \cup MadeUp

FilesInv ==
  /\ storage \in [Hash -> ABSENT .. ALTERED]
  /\ uploads \subseteq File /\ IsFiniteSet(uploads)
  /\ \A up \in uploads : up.dek <= Cardinality(uploads) /\ up.hash \in Hash
  /\ files \in [RowId -> File \cup {NoFile}]
  /\ \A k, m \in RowId :
       (files[k] # NoFile /\ files[m] # NoFile /\ Text(files[k]) = Text(files[m])) => k = m

Answers == Seq([identity : Id, token : Token, content : AnyHash])
Seen    == [once : SUBSET Token, always : SUBSET Token, contents : SUBSET AnyHash]

GatewayInv ==
  /\ FilesInv
  /\ Typed(requests) /\ \A r \in Request : Whole(requests[r])
  /\ released \in Answers
  /\ LogTypeOK
  /\ seen \in [Request -> Seen]

\* Each field of one request takes what it may hold.
LEMMA FieldsTyped ==
  ASSUME NEW table, Typed(table), NEW r \in Request
  PROVE  /\ \A x \in Await : Typed([table EXCEPT ![r].pc = x])
         /\ \A x \in 0 .. MaxToken : Typed([table EXCEPT ![r].token = x])
         /\ \A x \in 0 .. MaxToken : Typed([table EXCEPT ![r].total = x])
         /\ \A x \in Permission : Typed([table EXCEPT ![r].bit = x])
         /\ \A x \in File \cup {NoFile} : Typed([table EXCEPT ![r].file = x])
         /\ \A x \in AnyHash : Typed([table EXCEPT ![r].hash = x])
         /\ \A x \in Reason : Typed([table EXCEPT ![r].reason = x])
         /\ \A x \in Nat : Typed([table EXCEPT ![r].prev = x])
         /\ \A x \in SUBSET Token : Typed([table EXCEPT ![r].listed = x])
         /\ \A x \in SUBSET Permission : Typed([table EXCEPT ![r].effective = x])
<1>1. \A x \in Await : Typed([table EXCEPT ![r].pc = x])
  BY DEF Typed, RequestRecord
<1>2. \A x \in 0 .. MaxToken : Typed([table EXCEPT ![r].token = x])
  BY DEF Typed, RequestRecord
<1>3. \A x \in 0 .. MaxToken : Typed([table EXCEPT ![r].total = x])
  BY DEF Typed, RequestRecord
<1>4. \A x \in Permission : Typed([table EXCEPT ![r].bit = x])
  BY DEF Typed, RequestRecord
<1>5. \A x \in File \cup {NoFile} : Typed([table EXCEPT ![r].file = x])
  BY DEF Typed, RequestRecord
<1>6. \A x \in AnyHash : Typed([table EXCEPT ![r].hash = x])
  BY DEF Typed, RequestRecord
<1>7. \A x \in Reason : Typed([table EXCEPT ![r].reason = x])
  BY DEF Typed, RequestRecord
<1>8. \A x \in Nat : Typed([table EXCEPT ![r].prev = x])
  BY DEF Typed, RequestRecord
<1>9. \A x \in SUBSET Token : Typed([table EXCEPT ![r].listed = x])
  BY DEF Typed, RequestRecord
<1>10. \A x \in SUBSET Permission : Typed([table EXCEPT ![r].effective = x])
  BY DEF Typed, RequestRecord
<1> QED BY <1>1, <1>2, <1>3, <1>4, <1>5, <1>6, <1>7, <1>8, <1>9, <1>10

LEMMA AwaitsTyped ==
  /\ {"idle", "upsert", "total", "exists", "isActive", "effective", "asset", "risk", "file",
      "hash", "open", "lastRow", "append", "send", "sendList", "classification",
      "principals", "aces", "events", "rows", "sendView"} = Await
  /\ {"ALLOW", "DENIED", "ANOMALY_SCORE_HIGH", "STEP_UP_REQUIRED", "FILE_NOT_STORED",
      "TAMPER_DETECTED"} = Reason
  /\ {P_LIST, P_READ_META, P_READ, P_DOWNLOAD, P_ADMIN, P_AUDIT} \subseteq Permission
  /\ {"link", "content", "list", "record", "effective", "acl", "audit", "decisions"} = Route
  BY DEF Await, Reason, Permission, Route, View, Authorized, ViewBit

LEMMA NoRequestTyped == NoRequest \in RequestRecord /\ Whole(NoRequest)
<1>1. /\ "idle" \in Await /\ "content" \in Route /\ P_READ \in Permission
      /\ "DENIED" \in Reason
  BY AwaitsTyped
<1>2. 0 \in AnyId /\ 0 \in 0 .. MaxToken /\ PUBLIC \in Tier
  BY MaxIdAssumption, MaxTokenAssumption DEF AnyId, Tier, PUBLIC, TOP_SECRET
<1>3. Canonical \in Spelling /\ NoHash \in AnyHash
  BY SpellingAssumption DEF AnyHash
<1> HIDE DEF Await, Route, Permission, Reason, Tier
<1> QED BY <1>1, <1>2, <1>3 DEF NoRequest, RequestRecord, Whole, Holds

LEMMA EffectiveTyped ==
  ASSUME AssetsInv, NEW t \in Token, NEW i \in Id
  PROVE  EffectiveForIdentity(t, i) \subseteq Permission
<1>1. PrincipalsOf(i) \subseteq Principal
  BY DEF PrincipalsOf, Principal
<1>2. \A p \in Principal : aces[t][p].allow \subseteq Permission
  BY DEF AssetsInv, AssetTypeOK, AccessTypeOK, Ace
<1>3. \A ace \in EntriesFor(t, i) : ace.allow \subseteq Permission
  BY <1>1, <1>2 DEF EntriesFor
<1>4. Discretionary(t, i) \subseteq Permission
  BY <1>3 DEF Discretionary
<1>5. {P_LIST, P_READ_META, P_AUDIT} \subseteq Permission /\ ADMIN_BITS \subseteq Permission
  BY DEF Permission, ADMIN_BITS
<1> HIDE DEF Permission
<1> QED BY <1>4, <1>5
       DEF EffectiveForIdentity, ApplyRoleRules, ApplyMandatoryAccessControl

\* The table after a step of request r.
Fits(r) ==
  /\ Typed(requests') /\ Whole(requests'[r])
  /\ \A o \in Request \ {r} : UNCHANGED requests[o]

LEMMA GotoFits ==
  ASSUME Typed(requests), NEW r \in Request, Whole(requests[r]), ~At(r, "idle"),
         NEW pc \in Await, Goto(r, pc), pc \notin {"lastRow", "append", "upsert"},
         pc \in {"hash", "open", "send"} => Holds(requests[r])
  PROVE  Fits(r)
<1>1. Typed(requests')
  BY FieldsTyped DEF Goto
<1>2. /\ requests'[r].pc = pc
      /\ UNCHANGED <<requests[r].route, requests[r].id, requests[r].file>>
      /\ \A o \in Request \ {r} : UNCHANGED requests[o]
  BY DEF Goto, Typed, RequestRecord
<1> QED BY <1>1, <1>2 DEF Fits, Whole, Holds, At

LEMMA LogFits ==
  ASSUME Typed(requests), NEW r \in Request, Whole(requests[r]), ~At(r, "idle"),
         NEW reason \in Reason, Log(r, reason), reason = "ALLOW" => Holds(requests[r])
  PROVE  Fits(r)
<1> DEFINE moved == [requests EXCEPT ![r].pc = "lastRow"]
<1>1. Typed(moved)
  BY FieldsTyped, AwaitsTyped
<1>2. requests' = [moved EXCEPT ![r].reason = reason]
  BY DEF Log
<1>3. /\ requests'[r].pc = "lastRow" /\ requests'[r].reason = reason
      /\ UNCHANGED <<requests[r].route, requests[r].id, requests[r].file>>
      /\ \A o \in Request \ {r} : UNCHANGED requests[o]
  BY DEF Log, Typed, RequestRecord
<1> HIDE DEF moved
<1>4. Typed(requests')
  BY <1>1, <1>2, FieldsTyped
<1> QED BY <1>3, <1>4 DEF Fits, Whole, Holds, At

LEMMA DoneFits ==
  ASSUME Typed(requests), NEW r \in Request, Done(r)
  PROVE  Fits(r)
  BY NoRequestTyped DEF Done, Fits, Typed

LEMMA NextAssetFits ==
  ASSUME Typed(requests), NEW r \in Request, Whole(requests[r]), ~At(r, "idle"),
         NEW listed \in SUBSET Token, NextAsset(r, listed)
  PROVE  Fits(r)
<1> DEFINE q  == requests[r]
           on == q.token < q.total
           n  == [q EXCEPT !.listed = listed,
                           !.token = IF on THEN q.token + 1 ELSE q.token,
                           !.pc = IF on THEN "exists" ELSE "sendList"]
           t  == IF on THEN q.token + 1 ELSE q.token
           pc == IF on THEN "exists" ELSE "sendList"
           a  == [requests EXCEPT ![r].listed = listed]
           b  == [a EXCEPT ![r].token = t]
           c  == [b EXCEPT ![r].pc = pc]
<1>1. t \in 0 .. MaxToken /\ pc \in Await
  BY AwaitsTyped, MaxTokenAssumption DEF Typed, RequestRecord
<1>2. requests' = [requests EXCEPT ![r] = n]
  BY DEF NextAsset
<1>3. /\ n.pc \in {"exists", "sendList"} /\ n.id = q.id /\ n.route = q.route
  BY DEF Typed, RequestRecord
<1>4. n = [[[q EXCEPT !.listed = listed] EXCEPT !.token = t] EXCEPT !.pc = pc]
  OBVIOUS
<1>5. n \in RequestRecord
  <2>1. q \in RequestRecord
    BY DEF Typed
  <2> HIDE DEF q, t, pc, n
  <2>2. [q EXCEPT !.listed = listed] \in RequestRecord
    BY <2>1 DEF RequestRecord
  <2> DEFINE x == [q EXCEPT !.listed = listed]
             y == [x EXCEPT !.token = t]
  <2> HIDE DEF x
  <2>3. y \in RequestRecord
    BY <1>1, <2>2 DEF RequestRecord, x
  <2> HIDE DEF y
  <2>4. [y EXCEPT !.pc = pc] \in RequestRecord
    BY <1>1, <2>3 DEF RequestRecord
  <2> QED BY <1>4, <2>4 DEF x, y
<1> HIDE DEF n
<1>6. requests'[r] = n /\ Typed(requests') /\ \A o \in Request \ {r} : UNCHANGED requests[o]
  BY <1>2, <1>5 DEF Typed
<1> QED BY <1>3, <1>6 DEF Fits, Whole, Holds, At

LEMMA AclFits ==
  ASSUME Typed(requests), NEW r \in Request, Whole(requests[r]), ~At(r, "idle"),
         NEW reason \in Reason, AclDecision(r, reason)
  PROVE  Fits(r)
<1> DEFINE pc == IF requests[r].bit = P_ADMIN THEN "exists" ELSE "principals"
           kept == IF requests[r].reason = "ALLOW" THEN requests[r].reason ELSE reason
           a  == [requests EXCEPT ![r].pc = pc]
           b  == [a EXCEPT ![r].bit = P_AUDIT]
<1>1. pc \in Await /\ P_AUDIT \in Permission /\ kept \in Reason
  BY AwaitsTyped DEF Typed, RequestRecord
<1>2. Typed(a)
  BY <1>1, FieldsTyped
<1>3. b[r].reason = requests[r].reason
  BY DEF Typed, RequestRecord
<1>4. requests' = [b EXCEPT ![r].reason = IF @ = "ALLOW" THEN @ ELSE reason]
  BY DEF AclDecision
<1>5. /\ requests'[r].pc = pc
      /\ UNCHANGED <<requests[r].route, requests[r].id>>
      /\ \A o \in Request \ {r} : UNCHANGED requests[o]
  BY DEF AclDecision, Typed, RequestRecord
<1>6. requests' = [b EXCEPT ![r].reason = kept]
  BY <1>3, <1>4
<1> HIDE DEF a, kept
<1>7. Typed(b)
  BY <1>1, <1>2, FieldsTyped
<1> HIDE DEF b
<1>8. Typed(requests')
  BY <1>1, <1>6, <1>7, FieldsTyped
<1> QED BY <1>5, <1>8 DEF Fits, Whole, Holds, At

LEMMA EffectiveFits ==
  ASSUME Typed(requests), NEW r \in Request, Whole(requests[r]), ~At(r, "idle"),
         NEW reason \in Reason, NEW effective \in SUBSET Permission,
         EffectiveDecision(r, reason, effective)
  PROVE  Fits(r)
<1> DEFINE a == [requests EXCEPT ![r].pc = "classification"]
           b == [a EXCEPT ![r].reason = reason]
<1>1. Typed(a)
  BY AwaitsTyped, FieldsTyped
<1>2. requests' = [b EXCEPT ![r].effective = effective]
  BY DEF EffectiveDecision
<1>3. /\ requests'[r].pc = "classification"
      /\ UNCHANGED <<requests[r].route, requests[r].id>>
      /\ \A o \in Request \ {r} : UNCHANGED requests[o]
  BY DEF EffectiveDecision, Typed, RequestRecord
<1> HIDE DEF a
<1>4. Typed(b)
  BY <1>1, FieldsTyped
<1> HIDE DEF b
<1>5. Typed(requests')
  BY <1>2, <1>4, FieldsTyped
<1> QED BY <1>3, <1>5 DEF Fits, Whole, Holds, At

LEMMA AuthorizeFits ==
  ASSUME AssetsInv, Typed(requests), NEW r \in Request, Whole(requests[r]), Followed(r),
         AskExists(r) \/ AskActive(r) \/ AskEffective(r)
  PROVE  Fits(r)
<1>1. Sound(requests[r], seen[r]) /\ Authorizing(r) /\ ~At(r, "idle")
  BY DEF Followed, At, AskExists, AskActive, AskEffective, Authorizing
<1>2. requests[r].token \in Token /\ requests[r].id \in Id
  BY <1>1, AuthorizedIsToken DEF Whole, Sound, Placed, Authorizing
<1>3. {"ALLOW", "DENIED"} \subseteq Reason /\ requests[r].listed \in SUBSET Token
  BY AwaitsTyped DEF Typed, RequestRecord
<1>4. ASSUME NEW effective \in SUBSET Permission, Deny(r, effective) PROVE Fits(r)
  BY <1>1, <1>3, <1>4, LogFits, NextAssetFits, DoneFits, EffectiveFits, AclFits DEF Deny
<1>5. ASSUME NEW effective \in SUBSET Permission, Allow(r, effective) PROVE Fits(r)
  <2>1. {"risk", "asset"} \subseteq Await
    BY AwaitsTyped
  <2>2. CASE Goto(r, "risk") \/ Goto(r, "asset")
    BY <1>1, <2>1, <2>2, GotoFits
  <2>3. CASE requests' = [requests EXCEPT ![r].pc = "asset", ![r].effective = effective]
    <3> DEFINE a == [requests EXCEPT ![r].pc = "asset"]
    <3>1. Typed(a)
      BY <2>1, FieldsTyped
    <3>2. requests' = [a EXCEPT ![r].effective = effective]
      BY <2>3
    <3>3. /\ requests'[r].pc = "asset"
          /\ UNCHANGED <<requests[r].route, requests[r].id>>
          /\ \A o \in Request \ {r} : UNCHANGED requests[o]
      BY <2>3 DEF Typed, RequestRecord
    <3> HIDE DEF a
    <3>4. Typed(requests')
      BY <3>1, <3>2, FieldsTyped
    <3> QED BY <1>1, <3>3, <3>4 DEF Fits, Whole, Holds, At
  <2> QED BY <1>1, <1>3, <1>5, <2>2, <2>3, EffectiveFits, AclFits DEF Allow
<1>6. CASE AskExists(r) \/ AskActive(r)
  <2>1. {"isActive", "effective"} \subseteq Await /\ {} \subseteq Permission
    BY AwaitsTyped
  <2> QED BY <1>1, <1>4, <1>6, <2>1, GotoFits DEF AskExists, AskActive
<1>7. CASE AskEffective(r)
  <2>1. EffectiveForIdentity(requests[r].token, requests[r].id) \in SUBSET Permission
    BY <1>2, EffectiveTyped
  <2> QED BY <1>4, <1>5, <1>7, <2>1 DEF AskEffective
<1> QED BY <1>6, <1>7

LEMMA RowTyped ==
  ASSUME Typed(requests), NEW r \in Request, requests[r].token \in Token
  PROVE  RowOf(r) \in RowId
  BY DEF RowOf, RowId, Typed, RequestRecord

\* From the allowed read of content to its answer.
LEMMA ContentFits ==
  ASSUME AssetsInv, FilesInv, Typed(requests), decisions \in Seq(Row),
         NEW r \in Request, Whole(requests[r]), Followed(r),
         \/ Score(r) \/ FindFile(r) \/ AskHash(r) \/ OpenFile(r)
         \/ AskLastRow(r) \/ LogDecision(r) \/ Send(r)
  PROVE  Fits(r)
<1>1. /\ Sound(requests[r], seen[r]) /\ ~At(r, "idle")
      /\ requests[r].pc \in {"risk", "file", "hash", "open", "lastRow", "append", "send"}
  BY DEF Followed, At, Score, FindFile, AskHash, OpenFile, AskLastRow, LogDecision, Send
<1>2. requests[r].token \in Token /\ requests[r].route = "content"
  BY <1>1 DEF Sound, Placed
<1>3. CASE Score(r)
  <2>1. "file" \in Await /\ {"ANOMALY_SCORE_HIGH", "STEP_UP_REQUIRED"} \subseteq Reason
    BY AwaitsTyped
  <2> QED BY <1>1, <1>3, <2>1, GotoFits, LogFits DEF Score
<1>4. CASE FindFile(r)
  <2>1. CASE Done(r)
    BY <2>1, DoneFits
  <2>2. CASE /\ files[RowOf(r)] # NoFile
             /\ requests' = [requests EXCEPT ![r].pc = "hash", ![r].file = files[RowOf(r)]]
    <3> DEFINE file == files[RowOf(r)]
               a    == [requests EXCEPT ![r].pc = "hash"]
    <3>r. RowOf(r) \in RowId
      BY <1>2, RowTyped
    <3>1. file \in File
      BY <2>2, <3>r DEF FilesInv
    <3>2. requests' = [a EXCEPT ![r].file = file]
      BY <2>2
    <3>3. /\ requests'[r].pc = "hash" /\ requests'[r].file = file
          /\ UNCHANGED <<requests[r].route, requests[r].id>>
          /\ \A o \in Request \ {r} : UNCHANGED requests[o]
      BY <2>2 DEF Typed, RequestRecord
    <3>4. Typed(a)
      BY AwaitsTyped, FieldsTyped
    <3> HIDE DEF a, file
    <3>5. Typed(requests')
      BY <3>1, <3>2, <3>4, FieldsTyped
    <3> QED BY <1>1, <3>1, <3>3, <3>5 DEF Fits, Whole, Holds, At
  <2> QED BY <1>4, <2>1, <2>2 DEF FindFile
<1>5. CASE AskHash(r)
  <2> DEFINE hash == assets[requests[r].token].contentHash
             a    == [requests EXCEPT ![r].pc = "open"]
  <2>1. hash \in AnyHash
    BY <1>2 DEF AnyHash, AssetsInv, AssetTypeOK, AccessTypeOK, Asset
  <2>2. requests' = [a EXCEPT ![r].hash = hash] /\ Holds(requests[r])
    BY <1>5 DEF AskHash, At, Holds
  <2>3. /\ requests'[r].pc = "open"
        /\ UNCHANGED <<requests[r].route, requests[r].id, requests[r].file>>
        /\ \A o \in Request \ {r} : UNCHANGED requests[o]
    BY <1>5 DEF AskHash, Typed, RequestRecord
  <2>4. Typed(a)
    BY AwaitsTyped, FieldsTyped
  <2> HIDE DEF a, hash
  <2>5. Typed(requests')
    BY <2>1, <2>2, <2>4, FieldsTyped
  <2> QED BY <1>1, <2>2, <2>3, <2>5 DEF Fits, Whole, At
<1>6. CASE OpenFile(r)
  <2>1. PICK reason \in {"FILE_NOT_STORED", "ALLOW", "TAMPER_DETECTED"} : Log(r, reason)
    BY <1>6 DEF OpenFile
  <2>2. reason \in Reason /\ Holds(requests[r])
    BY <1>6, AwaitsTyped DEF OpenFile, At, Holds
  <2> QED BY <1>1, <2>1, <2>2, LogFits
<1>7. CASE AskLastRow(r)
  <2> DEFINE a == [requests EXCEPT ![r].pc = "append"]
  <2>1. LastRow \in Nat
    BY DEF LastRow
  <2>2. requests' = [a EXCEPT ![r].prev = LastRow] /\ requests[r].pc = "lastRow"
    BY <1>7 DEF AskLastRow, At
  <2>3. /\ requests'[r].pc = "append"
        /\ UNCHANGED <<requests[r].route, requests[r].id, requests[r].file, requests[r].reason>>
        /\ \A o \in Request \ {r} : UNCHANGED requests[o]
    BY <1>7 DEF AskLastRow, Typed, RequestRecord
  <2>4. Typed(a)
    BY AwaitsTyped, FieldsTyped
  <2> HIDE DEF a
  <2>5. Typed(requests')
    BY <2>1, <2>2, <2>4, FieldsTyped
  <2> QED BY <1>1, <2>2, <2>3, <2>5 DEF Fits, Whole, Holds, At
<1>8. CASE LogDecision(r)
  <2>1. CASE requests[r].reason = "ALLOW" /\ Goto(r, "send")
    <3>1. "send" \in Await /\ Holds(requests[r])
      BY <1>8, <2>1, AwaitsTyped DEF LogDecision, At, Holds
    <3> QED BY <1>1, <2>1, <3>1, GotoFits
  <2> QED BY <1>8, <2>1, DoneFits DEF LogDecision
<1>9. CASE Send(r)
  BY <1>9, DoneFits DEF Send
<1> QED BY <1>3, <1>4, <1>5, <1>6, <1>7, <1>8, <1>9

LEMMA ViewFits ==
  ASSUME AssetsInv, Typed(requests), NEW r \in Request, Whole(requests[r]), Followed(r),
         \/ Upsert(r) \/ AskTotal(r) \/ ReadAsset(r) \/ SendList(r) \/ ReadOn(r) \/ SendView(r)
  PROVE  Fits(r)
<1>1. CASE Upsert(r) \/ SendList(r) \/ SendView(r)
  BY <1>1, DoneFits DEF Upsert, SendList, SendView
<1>2. CASE AskTotal(r)
  <2> DEFINE total == nextToken - 1
             pc    == IF nextToken = 1 THEN "sendList" ELSE "exists"
             a     == [requests EXCEPT ![r].total = total]
             b     == [a EXCEPT ![r].token = 1]
  <2>1. total \in 0 .. MaxToken /\ 1 \in 0 .. MaxToken /\ pc \in Await
    BY MaxTokenAssumption, AwaitsTyped DEF AssetsInv, AssetTypeOK
  <2>2. requests' = [b EXCEPT ![r].pc = pc]
    BY <1>2 DEF AskTotal
  <2>3. /\ requests'[r].pc = pc
        /\ UNCHANGED <<requests[r].route, requests[r].id>>
        /\ \A o \in Request \ {r} : UNCHANGED requests[o]
    BY <1>2 DEF AskTotal, Typed, RequestRecord
  <2>4. Typed(a)
    BY <2>1, FieldsTyped
  <2>5. pc \in {"sendList", "exists"} /\ requests[r].pc = "total"
    BY <1>2 DEF AskTotal, At
  <2> HIDE DEF a, total, pc
  <2>6. Typed(b)
    BY <2>1, <2>4, FieldsTyped
  <2> HIDE DEF b
  <2>7. Typed(requests')
    BY <2>1, <2>2, <2>6, FieldsTyped
  <2> QED BY <2>3, <2>5, <2>7 DEF Fits, Whole, Holds
<1>3. CASE ReadAsset(r)
  <2>1. ~At(r, "idle") /\ Sound(requests[r], seen[r]) /\ requests[r].pc = "asset"
    BY <1>3 DEF ReadAsset, At, Followed
  <2>2. CASE Listing(r) /\ NextAsset(r, requests[r].listed \cup {requests[r].token})
    <3>1. requests[r].token \in Token
      BY <2>1, <2>2, MaxTokenAssumption DEF Sound, Listed, Listing, Is, Token
    <3>2. requests[r].listed \cup {requests[r].token} \in SUBSET Token
      BY <3>1 DEF Typed, RequestRecord
    <3> QED BY <2>1, <2>2, <3>2, NextAssetFits
  <2>3. CASE Goto(r, "sendView")
    BY <2>1, <2>3, AwaitsTyped, GotoFits
  <2> QED BY <1>3, <2>2, <2>3 DEF ReadAsset
<1>4. CASE ReadOn(r)
  <2>1. /\ AfterRead[requests[r].pc] \in {"sendView", "aces", "rows"}
        /\ ~At(r, "idle") /\ Goto(r, AfterRead[requests[r].pc])
    BY <1>4 DEF ReadOn, AfterRead, At
  <2>2. PICK pc \in {"sendView", "aces", "rows"} : Goto(r, pc)
    BY <2>1
  <2>3. pc \in Await
    BY AwaitsTyped
  <2> QED BY <2>1, <2>2, <2>3, GotoFits
<1> QED BY <1>1, <1>2, <1>3, <1>4

LEMMA NewRequestTyped ==
  ASSUME NEW q \in RequestRecord
  PROVE  /\ \A x \in Await : [q EXCEPT !.pc = x] \in RequestRecord
         /\ \A x \in Route : [q EXCEPT !.route = x] \in RequestRecord
         /\ \A x \in Id : [q EXCEPT !.id = x] \in RequestRecord
         /\ \A x \in Tier : [q EXCEPT !.clearance = x] \in RequestRecord
         /\ \A x \in 0 .. MaxToken : [q EXCEPT !.token = x] \in RequestRecord
         /\ \A x \in Permission : [q EXCEPT !.bit = x] \in RequestRecord
         /\ \A x \in BOOLEAN : [q EXCEPT !.stepUp = x] \in RequestRecord
         /\ \A x \in Spelling : [q EXCEPT !.spelled = x] \in RequestRecord
         /\ \A x \in File : [q EXCEPT !.file = x] \in RequestRecord
<1>1. \A x \in Await : [q EXCEPT !.pc = x] \in RequestRecord
  BY DEF RequestRecord
<1>2. \A x \in Route : [q EXCEPT !.route = x] \in RequestRecord
  BY DEF RequestRecord
<1>3. \A x \in Id : [q EXCEPT !.id = x] \in RequestRecord
  <2>1. Id \subseteq AnyId
    BY MaxIdAssumption DEF Id, AnyId
  <2> QED BY <2>1 DEF RequestRecord
<1>4. \A x \in Tier : [q EXCEPT !.clearance = x] \in RequestRecord
  BY DEF RequestRecord
<1>5. \A x \in 0 .. MaxToken : [q EXCEPT !.token = x] \in RequestRecord
  BY DEF RequestRecord
<1>6. \A x \in Permission : [q EXCEPT !.bit = x] \in RequestRecord
  BY DEF RequestRecord
<1>7. \A x \in BOOLEAN : [q EXCEPT !.stepUp = x] \in RequestRecord
  BY DEF RequestRecord
<1>8. \A x \in File : [q EXCEPT !.file = x] \in RequestRecord
  BY DEF RequestRecord
<1>9. \A x \in Spelling : [q EXCEPT !.spelled = x] \in RequestRecord
  BY DEF RequestRecord
<1> QED BY <1>1, <1>2, <1>3, <1>4, <1>5, <1>6, <1>7, <1>8, <1>9

\* A reader's request starts with the identity and the clearance of its token.
Reader(token) == [[NoRequest EXCEPT !.id = token.id] EXCEPT !.clearance = token.clearance]

LEMMA ReaderTyped ==
  ASSUME NEW token \in SessionToken
  PROVE  /\ Reader(token) \in RequestRecord /\ Reader(token).id \in Id
         /\ Reader(token).reason = "DENIED"
<1>1. token.id \in Id /\ token.clearance \in Tier
  BY DEF SessionToken
<1>2. [NoRequest EXCEPT !.id = token.id] \in RequestRecord
  BY <1>1, NoRequestTyped, NewRequestTyped
<1> DEFINE a == [NoRequest EXCEPT !.id = token.id]
<1>3. a.id = token.id /\ a.reason = "DENIED"
  BY DEF NoRequest
<1> HIDE DEF a
<1>4. [a EXCEPT !.clearance = token.clearance] \in RequestRecord
  BY <1>1, <1>2, NewRequestTyped DEF a
<1>5. /\ [a EXCEPT !.clearance = token.clearance].id = a.id
      /\ [a EXCEPT !.clearance = token.clearance].reason = a.reason
  BY <1>2 DEF RequestRecord, a
<1> QED BY <1>1, <1>3, <1>4, <1>5 DEF Reader, a

LEMMA NewFits ==
  ASSUME Typed(requests), NEW r \in Request, NEW q \in RequestRecord, Whole(q),
         requests' = [requests EXCEPT ![r] = q]
  PROVE  Fits(r)
  BY DEF Fits, Typed

LEMMA ArrivalFits ==
  ASSUME FilesInv, Typed(requests), tokens \subseteq SessionToken,
         NEW r \in Request, NEW token \in tokens, Arrives(r, token)
  PROVE  Fits(r)
<1>1. /\ Reader(token) \in RequestRecord /\ Reader(token).id \in Id
      /\ Reader(token).reason = "DENIED"
  BY ReaderTyped
<1>2. CASE \E l \in Links : BeginLink(r, token, l)
  <2>1. PICK l \in Links : BeginLink(r, token, l)
    BY <1>2
  <2> DEFINE a == [NoRequest EXCEPT !.pc = "upsert"]
             b == [a EXCEPT !.route = "link"]
             c == [b EXCEPT !.token = l.token]
             d == [c EXCEPT !.spelled = l.spelled]
             q == [d EXCEPT !.file = l.body]
  <2>l. /\ l.token \in Token /\ l.spelled \in Spelling /\ l.body \in File
        /\ l.body \in uploads \cup MadeUp
    BY LinksTyped DEF FilesInv
  <2>2. "upsert" \in Await /\ "link" \in Route /\ l.token \in 0 .. MaxToken
    BY <2>l, AwaitsTyped, MaxTokenAssumption DEF Token
  <2>3. requests' = [requests EXCEPT ![r] = q]
    BY <2>1 DEF BeginLink
  <2>4. q.pc = "upsert" /\ q.route = "link" /\ q.file = l.body
    BY DEF NoRequest
  <2>5. a \in RequestRecord
    BY <2>2, NoRequestTyped, NewRequestTyped
  <2> HIDE DEF a
  <2>6. b \in RequestRecord
    BY <2>2, <2>5, NewRequestTyped
  <2> HIDE DEF b
  <2>7. c \in RequestRecord
    BY <2>2, <2>6, NewRequestTyped
  <2> HIDE DEF c
  <2>8. d \in RequestRecord
    BY <2>l, <2>7, NewRequestTyped
  <2> HIDE DEF d
  <2>9. q \in RequestRecord
    BY <2>l, <2>8, NewRequestTyped
  <2> HIDE DEF q
  <2> QED BY <2>l, <2>3, <2>4, <2>9, NewFits DEF Whole, Holds
<1>3. CASE \E c \in ReadCall : BeginRead(r, token, c)
  <2>1. PICK c \in ReadCall : BeginRead(r, token, c)
    BY <1>3
  <2> DEFINE n == Reader(token)
             a == [n EXCEPT !.pc = "exists"]
             b == [a EXCEPT !.token = c.token]
             e == [b EXCEPT !.spelled = c.spelled]
             d == [e EXCEPT !.bit = c.bit]
             q == [d EXCEPT !.stepUp = c.stepUp]
  <2>2. /\ "exists" \in Await /\ c.token \in 0 .. MaxToken /\ c.bit \in Permission
        /\ c.stepUp \in BOOLEAN /\ c.spelled \in Spelling
    BY AwaitsTyped, MaxTokenAssumption DEF ReadCall, Token
  <2>3. requests' = [requests EXCEPT ![r] =
          [NoRequest EXCEPT !.pc = "exists", !.id = token.id, !.clearance = token.clearance,
             !.token = c.token, !.spelled = c.spelled, !.bit = c.bit, !.stepUp = c.stepUp]]
    BY <2>1 DEF BeginRead
  <2>4. q = [NoRequest EXCEPT !.pc = "exists", !.id = token.id,
               !.clearance = token.clearance, !.token = c.token, !.spelled = c.spelled,
               !.bit = c.bit, !.stepUp = c.stepUp]
    BY DEF Reader, NoRequest
  <2>5. q.pc = "exists" /\ q.id = token.id
    BY <2>4 DEF NoRequest
  <2> HIDE DEF n
  <2>6. a \in RequestRecord
    BY <1>1, <2>2, NewRequestTyped DEF n
  <2> HIDE DEF a
  <2>7. b \in RequestRecord
    BY <2>2, <2>6, NewRequestTyped
  <2> HIDE DEF b
  <2>8. e \in RequestRecord
    BY <2>2, <2>7, NewRequestTyped
  <2> HIDE DEF e
  <2>9. d \in RequestRecord
    BY <2>2, <2>8, NewRequestTyped
  <2> HIDE DEF d
  <2>10. q \in RequestRecord /\ requests' = [requests EXCEPT ![r] = q]
    BY <2>2, <2>3, <2>4, <2>9, NewRequestTyped
  <2>11. token.id \in Id
    BY DEF SessionToken
  <2> HIDE DEF q
  <2> QED BY <2>5, <2>10, <2>11, NewFits DEF Whole, Holds
<1>4. CASE \E c \in ViewCall : BeginView(r, token, c)
  <2>1. PICK c \in ViewCall : BeginView(r, token, c)
    BY <1>4
  <2> DEFINE first == IF c.route \in Authorized THEN "exists"
                      ELSE IF c.route = "audit" THEN "events" ELSE "rows"
             bit   == IF c.route \in Authorized THEN ViewBit[c.route] ELSE NoRequest.bit
             n == Reader(token)
             a == [n EXCEPT !.pc = first]
             b == [a EXCEPT !.route = c.route]
             d == [b EXCEPT !.token = c.token]
             q == [d EXCEPT !.bit = bit]
  <2>2. /\ first \in Await /\ c.route \in Route /\ c.token \in 0 .. MaxToken
        /\ bit \in Permission /\ first \in {"exists", "events", "rows"}
    BY AwaitsTyped DEF ViewCall, Route, Authorized, ViewBit, NoRequest
  <2>3. requests' = [requests EXCEPT ![r] =
          [NoRequest EXCEPT !.pc = first, !.route = c.route, !.id = token.id,
             !.clearance = token.clearance, !.token = c.token, !.bit = bit]]
    BY <2>1 DEF BeginView
  <2> HIDE DEF first, bit
  <2>4. q = [NoRequest EXCEPT !.pc = first, !.route = c.route, !.id = token.id,
               !.clearance = token.clearance, !.token = c.token, !.bit = bit]
    BY DEF Reader, NoRequest
  <2>5. q.pc = first /\ q.id = token.id
    BY <2>4 DEF NoRequest
  <2> HIDE DEF n
  <2>6. a \in RequestRecord
    BY <1>1, <2>2, NewRequestTyped DEF n
  <2> HIDE DEF a
  <2>7. b \in RequestRecord
    BY <2>2, <2>6, NewRequestTyped
  <2> HIDE DEF b
  <2>8. d \in RequestRecord
    BY <2>2, <2>7, NewRequestTyped
  <2> HIDE DEF d
  <2>9. q \in RequestRecord /\ requests' = [requests EXCEPT ![r] = q]
    BY <2>2, <2>3, <2>4, <2>8, NewRequestTyped
  <2>10. token.id \in Id
    BY DEF SessionToken
  <2> HIDE DEF q
  <2> QED BY <2>2, <2>5, <2>9, <2>10, NewFits DEF Whole, Holds
<1>5. CASE BeginList(r, token)
  <2> DEFINE n == Reader(token)
             a == [n EXCEPT !.pc = "total"]
             b == [a EXCEPT !.route = "list"]
             q == [b EXCEPT !.bit = P_LIST]
  <2>2. "total" \in Await /\ "list" \in Route /\ P_LIST \in Permission
    BY AwaitsTyped
  <2>3. requests' = [requests EXCEPT ![r] =
          [NoRequest EXCEPT !.pc = "total", !.route = "list", !.id = token.id,
             !.clearance = token.clearance, !.bit = P_LIST]]
    BY <1>5 DEF BeginList
  <2>4. q = [NoRequest EXCEPT !.pc = "total", !.route = "list", !.id = token.id,
               !.clearance = token.clearance, !.bit = P_LIST]
    BY DEF Reader, NoRequest
  <2>5. q.pc = "total" /\ q.id = token.id
    BY <2>4 DEF NoRequest
  <2> HIDE DEF n
  <2>6. a \in RequestRecord
    BY <1>1, <2>2, NewRequestTyped DEF n
  <2> HIDE DEF a
  <2>7. b \in RequestRecord
    BY <2>2, <2>6, NewRequestTyped
  <2> HIDE DEF b
  <2>8. q \in RequestRecord /\ requests' = [requests EXCEPT ![r] = q]
    BY <2>2, <2>3, <2>4, <2>7, NewRequestTyped
  <2>9. token.id \in Id
    BY DEF SessionToken
  <2> HIDE DEF q
  <2> QED BY <2>5, <2>8, <2>9, NewFits DEF Whole, Holds
<1> QED BY <1>2, <1>3, <1>4, <1>5 DEF Arrives

-----------------------------------------------------------------------------
(***************************************************************************)
(* The files, the log, the answers and the histories.                      *)
(***************************************************************************)
\* What the next upload of a content answers.
Fresh(h) ==
  [hash |-> h, spelled |-> Canonical, path |-> h, dek |-> Cardinality(uploads) + 1]

LEMMA UploadIsNew ==
  ASSUME FilesInv, NEW token, NEW h \in Hash, Upload(token, h)
  PROVE  /\ Cardinality(uploads) \in Nat /\ Cardinality(uploads) + 1 \in 1 .. MaxUpload
         /\ Fresh(h) \in File /\ Fresh(h).dek = Cardinality(uploads) + 1
         /\ Fresh(h) \notin uploads /\ uploads' = uploads \cup {Fresh(h)}
<1> DEFINE dek == Cardinality(uploads) + 1
           up  == Fresh(h)
<1>1. dek <= MaxUpload /\ uploads' = uploads \cup {up}
  BY DEF Upload, EncryptAndStore, Fresh
<1>2. Cardinality(uploads) \in Nat
  BY FS_CardinalityType DEF FilesInv
<1>3. dek \in 1 .. MaxUpload
  BY <1>1, <1>2, GatewayAssumption
<1>4. up \in File /\ up.dek = dek
  BY <1>3, SpellingAssumption DEF File, AnyHash, Fresh
<1>5. up \notin uploads
  BY <1>2, <1>4 DEF FilesInv
<1> QED BY <1>1, <1>2, <1>3, <1>4, <1>5

LEMMA UploadFits ==
  ASSUME FilesInv, NEW token, NEW h \in Hash, Upload(token, h)
  PROVE  FilesInv'
<1> DEFINE dek == Cardinality(uploads) + 1
           up  == Fresh(h)
<1>1. storage' = [storage EXCEPT ![h] = dek] /\ UNCHANGED files
  BY DEF Upload, EncryptAndStore
<1>2. /\ Cardinality(uploads) \in Nat /\ dek \in 1 .. MaxUpload
      /\ up \in File /\ up \notin uploads /\ uploads' = uploads \cup {up}
  BY UploadIsNew
<1>3. up.dek = dek /\ up.hash = h /\ dek \in ABSENT .. ALTERED
  BY <1>2, UploadIsNew, GatewayAssumption DEF ABSENT, ALTERED, Fresh
<1>4. IsFiniteSet(uploads') /\ Cardinality(uploads') = dek
  BY <1>2, FS_AddElement DEF FilesInv
<1> HIDE DEF up
<1>5. \A x \in uploads' : x.dek <= dek /\ x.hash \in Hash
  <2>1. \A x \in uploads : x.dek \in Nat
    BY GatewayAssumption DEF FilesInv, File, FORGED
  <2> QED BY <1>2, <1>3, <2>1 DEF FilesInv
<1>6. storage' \in [Hash -> ABSENT .. ALTERED]
  BY <1>1, <1>3 DEF FilesInv
<1>7. uploads' \subseteq File
  BY <1>2 DEF FilesInv
<1> QED BY <1>1, <1>4, <1>5, <1>6, <1>7 DEF FilesInv

\* The unique index: a row is written where no other has the content, so spelled.
LEMMA UpsertFits ==
  ASSUME FilesInv, Typed(requests), NEW r \in Request, Whole(requests[r]), Followed(r), Upsert(r)
  PROVE  FilesInv'
<1> DEFINE file == requests[r].file
           k    == RowOf(r)
<1>1. requests[r].pc = "upsert" /\ UNCHANGED <<storage, uploads>>
  BY DEF Upsert, At
<1>2. file \in File /\ k \in RowId
  <2>1. requests[r].token \in Token
    BY <1>1 DEF Followed, At, Sound, Placed
  <2>2. MadeUp \subseteq File
    BY GatewayAssumption DEF MadeUp, LinkCall
  <2> QED BY <1>1, <2>1, <2>2, RowTyped DEF Whole, FilesInv
<1>3. CASE UNCHANGED files
  BY <1>1, <1>3 DEF FilesInv
<1>4. CASE /\ \A m \in RowId \ {k} : ~(files[m] # NoFile /\ Text(files[m]) = Text(file))
           /\ files' = [files EXCEPT ![k] = file]
  <2> HIDE DEF file, k
  <2>1. files' \in [RowId -> File \cup {NoFile}]
    BY <1>2, <1>4 DEF FilesInv
  <2>2. files'[k] = file /\ \A m \in RowId \ {k} : files'[m] = files[m]
    BY <1>2, <1>4 DEF FilesInv
  <2>3. \A m, n \in RowId :
          (files'[m] # NoFile /\ files'[n] # NoFile /\ Text(files'[m]) = Text(files'[n])) => m = n
    BY <1>4, <2>2 DEF FilesInv
  <2> QED BY <1>1, <2>1, <2>3 DEF FilesInv
<1> QED BY <1>3, <1>4 DEF Upsert

LEMMA DamageFits == FilesInv /\ DamageStep => FilesInv'
<1> SUFFICES ASSUME FilesInv, NEW h \in Hash, NEW damage \in Damage, DamageFile(h, damage)
             PROVE  FilesInv'
  BY DEF DamageStep
<1>1. damage \in ABSENT .. ALTERED
  BY GatewayAssumption DEF ABSENT, ALTERED
<1>2. storage' \in [Hash -> ABSENT .. ALTERED]
  BY <1>1 DEF DamageFile, FilesInv
<1> QED BY <1>2 DEF DamageFile, FilesInv

LEMMA RowFits ==
  ASSUME LogTypeOK, Typed(requests), NEW r \in Request, LogDecision(r)
  PROVE  LogTypeOK'
<1> DEFINE q   == requests[r]
           row == [identity |-> q.id, token |-> q.token, reason |-> q.reason, prev |-> q.prev]
<1>1. AnyId \subseteq Nat /\ 0 .. MaxToken \subseteq Nat
  BY MaxIdAssumption, MaxTokenAssumption DEF AnyId
<1>2. row \in Row
  BY <1>1 DEF Typed, RequestRecord, Row
<1>3. decisions' = Append(decisions, row)
  BY DEF LogDecision, AppendRow
<1> HIDE DEF row
<1> QED BY <1>2, <1>3 DEF LogTypeOK

LEMMA AnswerFits ==
  ASSUME released \in Answers, Typed(requests), NEW r \in Request, Whole(requests[r]),
         Followed(r), Send(r)
  PROVE  released' \in Answers
<1> DEFINE q      == requests[r]
           answer == [identity |-> q.id, token |-> q.token, content |-> q.file.path]
<1>1. q.pc = "send" /\ released' = Append(released, answer)
  BY DEF Send, At
<1>2. q.token \in Token /\ q.route = "content"
  BY <1>1 DEF Followed, At, Sound, Placed
<1>3. q.id \in Id /\ q.file \in File
  BY <1>1, <1>2 DEF Whole, Holds
<1>4. answer \in [identity : Id, token : Token, content : AnyHash]
  BY <1>2, <1>3 DEF File
<1> HIDE DEF answer
<1> QED BY <1>1, <1>4 DEF Answers

LEMMA HistoryFits ==
  ASSUME AssetsInv', seen \in [Request -> Seen], WatchRequests
  PROVE  seen' \in [Request -> Seen]
<1> SUFFICES ASSUME NEW r \in Request PROVE seen'[r] \in Seen
  BY DEF WatchRequests
<1>1. seen[r] \in Seen
  OBVIOUS
<1>2. \A t \in Token : assets'[t].contentHash \in AnyHash
  BY DEF AnyHash, AssetsInv, AssetTypeOK, AccessTypeOK, Asset
<1>3. NothingSeen \in Seen
  BY DEF NothingSeen, Seen
<1>4. CASE requests'[r].pc = "idle"
  BY <1>3, <1>4 DEF WatchRequests
<1>5. CASE requests'[r].pc # "idle"
  <2> DEFINE about   == IF Listing(r)' THEN Token ELSE {requests'[r].token} \cap Token
             granted == {t \in about :
                           (requests[r].bit \in EffectiveForIdentity(t, requests[r].id))'}
  <2>1. seen'[r] = [once     |-> seen[r].once \cup granted,
                    always   |-> seen[r].always \cap (granted \cup (Token \ about)),
                    contents |-> IF Listing(r)' THEN {}
                                 ELSE seen[r].contents \cup
                                        {assets'[t].contentHash : t \in about}]
    BY <1>5 DEF WatchRequests
  <2>2. about \subseteq Token /\ granted \subseteq about
    OBVIOUS
  <2> HIDE DEF about, granted
  <2>3. {assets'[t].contentHash : t \in about} \subseteq AnyHash
    BY <1>2, <2>2
  <2> QED BY <1>1, <2>1, <2>2, <2>3 DEF Seen
<1> QED BY <1>4, <1>5

LEMMA GatewayInit == ContentInit => GatewayInv
<1> SUFFICES ASSUME ContentInit PROVE GatewayInv
  OBVIOUS
<1>1. /\ storage = [h \in Hash |-> ABSENT] /\ uploads = {} /\ files = [k \in RowId |-> NoFile]
      /\ requests = [r \in Request |-> NoRequest] /\ decisions = <<>> /\ released = <<>>
      /\ seen = [r \in Request |-> NothingSeen]
  BY DEF ContentInit
<1>2. FilesInv
  <2>1. ABSENT \in ABSENT .. ALTERED
    BY GatewayAssumption DEF ABSENT, ALTERED
  <2> QED BY <1>1, <2>1, FS_EmptySet DEF FilesInv
<1>3. Typed(requests) /\ \A r \in Request : Whole(requests[r])
  BY <1>1, NoRequestTyped DEF Typed
<1>4. seen \in [Request -> Seen]
  BY <1>1 DEF Seen, NothingSeen
<1>5. released \in Answers /\ LogTypeOK
  BY <1>1 DEF Answers, LogTypeOK
<1> QED BY <1>2, <1>3, <1>4, <1>5 DEF GatewayInv

\* What a step of one request leaves of the rest.
LEMMA OneFits ==
  ASSUME GatewayInv, NEW r \in Request, Fits(r)
  PROVE  Typed(requests') /\ \A o \in Request : Whole(requests'[o])
  BY DEF GatewayInv, Fits

LEMMA RequestFits ==
  ASSUME GatewayInv, AssetsInv, RequestsInv, tokens \subseteq SessionToken, AnyRequestStep
  PROVE  /\ FilesInv' /\ released' \in Answers /\ LogTypeOK'
         /\ Typed(requests') /\ \A r \in Request : Whole(requests'[r])
<1>1. /\ FilesInv /\ released \in Answers /\ LogTypeOK /\ Typed(requests)
      /\ \A r \in Request : Whole(requests[r]) /\ Followed(r)
  BY DEF GatewayInv, RequestsInv
<1>2. CASE \E token \in tokens, h \in Hash : Upload(token, h)
  <2>1. FilesInv' /\ UNCHANGED <<requests, decisions, released>>
    BY <1>1, <1>2, UploadFits DEF Upload
  <2> QED BY <1>1, <2>1 DEF LogTypeOK
<1>3. CASE \E r \in Request : \E token \in tokens : Arrives(r, token)
  <2>1. PICK r \in Request, token \in tokens : Arrives(r, token)
    BY <1>3
  <2>2. Typed(requests') /\ \A o \in Request : Whole(requests'[o])
    BY <1>1, <2>1, ArrivalFits, OneFits
  <2>3. UNCHANGED <<storage, uploads, files, decisions, released>>
    BY <2>1 DEF Arrives, BeginLink, BeginRead, BeginView, BeginList
  <2> QED BY <1>1, <2>2, <2>3 DEF FilesInv, LogTypeOK
<1>4. CASE \E r \in Request : Upsert(r)
  <2>1. PICK r \in Request : Upsert(r)
    BY <1>4
  <2>2. Typed(requests') /\ \A o \in Request : Whole(requests'[o])
    BY <1>1, <2>1, ViewFits, OneFits
  <2>3. FilesInv' /\ UNCHANGED <<decisions, released>>
    BY <1>1, <2>1, UpsertFits DEF Upsert
  <2> QED BY <1>1, <2>2, <2>3 DEF LogTypeOK
<1>5. CASE \E r \in Request : LogDecision(r) \/ Send(r)
  <2>1. PICK r \in Request : LogDecision(r) \/ Send(r)
    BY <1>5
  <2>2. Typed(requests') /\ \A o \in Request : Whole(requests'[o])
    BY <1>1, <2>1, ContentFits, OneFits DEF LogTypeOK
  <2>3. FilesInv'
    BY <1>1, <2>1 DEF LogDecision, Send, FilesInv
  <2>4. released' \in Answers /\ LogTypeOK'
    <3>1. CASE LogDecision(r)
      BY <1>1, <3>1, RowFits DEF LogDecision
    <3>2. CASE Send(r)
      BY <1>1, <3>2, AnswerFits DEF Send, LogTypeOK
    <3> QED BY <2>1, <3>1, <3>2
  <2> QED BY <2>2, <2>3, <2>4
<1>6. CASE \E r \in Request :
             \/ AskExists(r) \/ AskActive(r) \/ AskEffective(r)
             \/ Score(r) \/ FindFile(r) \/ AskHash(r) \/ OpenFile(r) \/ AskLastRow(r)
             \/ AskTotal(r) \/ ReadAsset(r) \/ SendList(r) \/ ReadOn(r) \/ SendView(r)
  <2>1. PICK r \in Request :
             \/ AskExists(r) \/ AskActive(r) \/ AskEffective(r)
             \/ Score(r) \/ FindFile(r) \/ AskHash(r) \/ OpenFile(r) \/ AskLastRow(r)
             \/ AskTotal(r) \/ ReadAsset(r) \/ SendList(r) \/ ReadOn(r) \/ SendView(r)
    BY <1>6
  <2>2. Fits(r)
    BY <1>1, <2>1, AuthorizeFits, ContentFits, ViewFits DEF LogTypeOK
  <2>3. UNCHANGED <<storage, uploads, files, decisions, released>>
    BY <2>1 DEF AskExists, AskActive, AskEffective, Score, FindFile, AskHash, OpenFile,
                AskLastRow, AskTotal, ReadAsset, SendList, ReadOn, SendView
  <2> QED BY <1>1, <2>2, <2>3, OneFits DEF FilesInv, LogTypeOK
<1> QED BY <1>2, <1>3, <1>4, <1>5, <1>6 DEF AnyRequestStep

\* What was uploaded stays uploaded.
LEMMA UploadsStay == [AnyContentNext]_contentVars => uploads \subseteq uploads'
<1>1. ASSUME NEW r \in Request, NEW token, Arrives(r, token) PROVE UNCHANGED uploads
  BY <1>1 DEF Arrives, BeginLink, BeginRead, BeginView, BeginList
<1>2. ASSUME AnyRequestStep PROVE uploads \subseteq uploads'
  BY <1>1, <1>2 DEF AnyRequestStep, Upload, EncryptAndStore, Upsert, AskExists, AskActive,
                    AskEffective, Score, FindFile, AskHash, OpenFile, AskLastRow,
                    LogDecision, Send, AskTotal, ReadAsset, SendList, ReadOn, SendView
<1> QED BY <1>2 DEF AnyContentNext, AnyContentStep, DamageStep, DamageFile, Restart,
                    contentVars, gatewayVars

LEMMA GatewayInvStep ==
  ASSUME BackendInv, BackendInv', GatewayInv, tokens \subseteq SessionToken,
         [AnyContentNext]_contentVars
  PROVE  GatewayInv'
<1>1. /\ FilesInv' /\ released' \in Answers /\ LogTypeOK'
      /\ Typed(requests') /\ \A r \in Request : Whole(requests'[r])
  <2>1. CASE UNCHANGED gatewayVars
    BY <2>1 DEF gatewayVars, GatewayInv, FilesInv, LogTypeOK
  <2>2. CASE AnyRequestStep
    BY <2>2, RequestFits DEF BackendInv
  <2>3. CASE DamageStep
    <3>1. UNCHANGED <<requests, decisions, released>>
      BY <2>3 DEF DamageStep, DamageFile
    <3> QED BY <2>3, <3>1, DamageFits DEF GatewayInv, LogTypeOK
  <2>4. CASE Restart
    BY <2>4, NoRequestTyped DEF Restart, GatewayInv, FilesInv, LogTypeOK, Typed
  <2> QED BY <2>1, <2>2, <2>3, <2>4 DEF AnyContentNext, AnyContentStep, contentVars
<1>2. seen' \in [Request -> Seen]
  <2>1. CASE UNCHANGED seen
    BY <2>1 DEF GatewayInv
  <2>2. CASE WatchRequests
    BY <2>2, HistoryFits DEF BackendInv, GatewayInv
  <2> QED BY <2>1, <2>2 DEF AnyContentNext, Watch, contentVars
<1>3. uploads \subseteq uploads'
  BY UploadsStay
<1>4. \A r \in Request : Whole(requests[r])'
  BY <1>1, <1>3 DEF Whole, Holds
<1> QED BY <1>1, <1>2, <1>4 DEF GatewayInv

BackendTypeInv == BackendInv /\ TenureInv /\ SessionsTypeOK /\ GatewayInv

LEMMA BackendTypeInvInit == ContentInit => BackendTypeInv
  BY BackendInvInit, TenureInvInit, SessionsTypeInit, GatewayInit DEF BackendTypeInv

LEMMA BackendTypeStep ==
  BackendTypeInv /\ [AnyContentNext]_contentVars => BackendTypeInv'
<1> SUFFICES ASSUME BackendTypeInv, [AnyContentNext]_contentVars PROVE BackendTypeInv'
  OBVIOUS
<1>1. BackendInv' /\ TenureInv' /\ SessionsTypeOK'
  BY BackendInvStep, TenureInvStep, SessionsTypeStep DEF BackendTypeInv
<1>2. tokens \subseteq SessionToken
  BY DEF BackendTypeInv, SessionsTypeOK
<1> QED BY <1>1, <1>2, GatewayInvStep DEF BackendTypeInv

LEMMA BackendTypeInvHolds == AnyContentSpec => []BackendTypeInv
  BY BackendTypeInvInit, BackendTypeStep, PTL DEF AnyContentSpec

LEMMA BackendTypes == BackendTypeInv => BackendTypeOK
<1> SUFFICES ASSUME BackendTypeInv PROVE BackendTypeOK
  OBVIOUS
<1>1. AssetsTypeOK /\ SessionsTypeOK /\ LogTypeOK
  BY DEF BackendTypeInv, BackendInv, AssetsInv, IdentityInv, AssetsTypeOK, GatewayInv
<1>2. ContentTypeOK
  BY DEF BackendTypeInv, GatewayInv, FilesInv, Typed, RequestRecord, Answers, Seen,
         ContentTypeOK
<1> QED BY <1>1, <1>2 DEF BackendTypeOK

\* Every table of the server and every request, token and answer is well formed:
\* an asset has one row and a content one asset, and who is answered is an
\* identity that was issued, about an asset that can exist.
THEOREM BackendTypeCorrect == ContentSpec => []BackendTypeOK
  BY BackendTypeInvHolds, BackendTypes, ContentIsAny, PTL

-----------------------------------------------------------------------------
\* An upsert writes what was compared, and nothing else writes a row.
LEMMA RowsStep ==
  ASSUME BackendTypeInv, [AnyContentNext]_contentVars, NEW k \in RowId, files'[k] # files[k]
  PROVE  \E r \in Request : /\ RowOf(r) = k
                           /\ files'[k] = requests[r].file
                           /\ files'[k].hash \in seen[r].contents
                           /\ files'[k] \in uploads \cup MadeUp
<1>1. PICK r \in Request : Upsert(r)
  BY DEF AnyContentNext, AnyContentStep, contentVars, gatewayVars, AnyRequestStep, Arrives,
         Upload, BeginLink, BeginRead, BeginView, BeginList, AskExists, AskActive,
         AskEffective, Score, FindFile, AskHash, OpenFile, AskLastRow, LogDecision, Send,
         AskTotal, ReadAsset, SendList, ReadOn, SendView, DamageStep, DamageFile, Restart
<1>2. /\ BackendInv /\ RequestsInv /\ Shapes /\ Whole(requests[r]) /\ Followed(r)
  BY DEF BackendTypeInv, BackendInv, RequestsInv, GatewayInv
<1>3. RowOf(r) = k /\ files'[k] = requests[r].file /\ requests[r].pc = "upsert"
  BY <1>1, <1>2 DEF Upsert, Shapes, At
<1>4. Sound(requests[r], seen[r])
  BY <1>2, <1>3 DEF Followed, At
<1> QED BY <1>2, <1>3, <1>4 DEF Sound, Whole

LEMMA RowsWereCompared == AnyContentSpec => RowsWereRegistered
<1>1. BackendTypeInv /\ [AnyContentNext]_contentVars =>
        [\A k \in RowId : files'[k] # files[k] =>
           \E r \in Request :
             /\ RowOf(r) = k
             /\ files'[k] = requests[r].file
             /\ files'[k].hash \in seen[r].contents
             /\ files'[k] \in uploads \cup {c.body : c \in GatewayCalls.link}]_contentVars
  BY RowsStep DEF MadeUp
<1> QED BY <1>1, BackendTypeInvHolds, PTL DEF AnyContentSpec, RowsWereRegistered

\* However many links are in flight, for whichever numbers the callers guessed,
\* a row is what one of them sent, about a content that was the asset's.  Only
\* the path and the key are the caller's word; the others' rows stay as they are.
THEOREM RowsWereRegisteredHolds == ContentSpec => RowsWereRegistered
  BY RowsWereCompared, ContentIsAny
=============================================================================
