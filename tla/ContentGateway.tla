---------------------------- MODULE ContentGateway ----------------------------
(***************************************************************************)
(* backend/src/controllers/assets.ts and audit.ts with pdp.ts, risk.ts and *)
(* storage.ts: uploading a file, linking it to the asset that was minted   *)
(* for it, listing the assets, reading the content of one, and the views   *)
(* of its record, permissions, access list and history.  The server is one *)
(* process; a step is what it does from one await to the next, and the     *)
(* chain, the other requests and the storage move in between.              *)
(*                                                                         *)
(* A content stands for its SHA-256.  The reason codes of a denial, which  *)
(* tell the reader why and change nothing, are one.  Numbers and hashes    *)
(* arrive as text: the chain takes two spellings of one (leading zeros,    *)
(* upper case) for the same, the database does not.                        *)
(***************************************************************************)
EXTENDS Sessions, DecisionLog

CONSTANTS
  Request,     \* slots for requests in flight
  Spelling,    \* the ways to write a number or a hash
  Canonical,   \* the one that the server and the page use
  MaxUpload,   \* bound: uploads
  MaxRow,      \* bound: decisions that are logged
  Damage,      \* the damage done to a stored file from outside, if any
  GatewayCalls \* the arguments explored, per route

VARIABLES
  storage,     \* storage[h]: the key that seals the file of content h
  uploads,     \* the answers to POST /upload, in the hands of their callers
  files,       \* the table StoredFile, by its key, the number as it was written
  requests,
  released,    \* history: the contents that left the server, in order
  seen         \* history: what was true of each read since it arrived

gatewayVars == <<storage, uploads, files, requests, decisions, released>>
contentVars == <<sessionsVars, gatewayVars, seen>>

ABSENT  == 0              \* no ciphertext of this content
ALTERED == MaxUpload + 1  \* a ciphertext that no key opens

FORGED  == MaxUpload + 2  \* as a wrapped key: nothing the server has wrapped

AnyHash == Hash \cup {NoHash}

\* What an upload answers, a link sends and a row has: contentHash, storagePath,
\* as the content that the file there is named after, and wrappedDek.  NoHash
\* is bytes32(0) as a content, and any other place on the disk as a path.
File ==
  [hash : AnyHash, spelled : Spelling, path : AnyHash, dek : (1 .. MaxUpload) \cup {FORGED}]
NoFile == [hash |-> NoHash, spelled |-> Canonical, path |-> NoHash, dek |-> ABSENT]

RowId == Token \X Spelling

LinkCall == [token : Token, spelled : Spelling, body : File]

Await == {"idle", "upsert", "total", "exists", "isActive", "effective", "asset",
          "risk", "file", "hash", "open", "lastRow", "append", "send", "sendList",
          "classification", "principals", "aces", "events", "rows", "sendView"}

\* The bit that a view asks authorize for first; the history asks for none.
ViewBit == [record |-> P_READ_META, effective |-> P_LIST, acl |-> P_ADMIN]
Authorized == DOMAIN ViewBit
View  == Authorized \cup {"audit", "decisions"}
Route == {"link", "content", "list"} \cup View

NoRequest ==
  [pc |-> "idle", route |-> "content", id |-> 0, clearance |-> PUBLIC, token |-> 0,
   spelled |-> Canonical, bit |-> P_READ, stepUp |-> FALSE, file |-> NoFile,
   hash |-> NoHash, reason |-> "DENIED", prev |-> 0, total |-> 0, listed |-> {},
   effective |-> {}]

NothingSeen == [once |-> {}, always |-> Token, contents |-> {}]

ASSUME GatewayAssumption ==
  /\ MaxUpload \in Nat /\ MaxRow \in Nat
  /\ Damage \subseteq {ABSENT, ALTERED}
  /\ GatewayCalls.upload \subseteq Hash
  /\ GatewayCalls.link \subseteq LinkCall
  /\ GatewayCalls.read \subseteq
       [token : Token, spelled : Spelling, bit : {P_READ, P_DOWNLOAD}, stepUp : BOOLEAN]
  /\ GatewayCalls.view \subseteq [route : View, token : Token]

ASSUME SpellingAssumption == Canonical \in Spelling

\* A row's contentHash as the database compares it.
Text(file) == <<file.hash, file.spelled>>

ContentTypeOK ==
  /\ storage \in [Hash -> ABSENT .. ALTERED]
  /\ uploads \subseteq File
  /\ files \in [RowId -> File \cup {NoFile}]
  /\ \A k, m \in RowId :                          \* contentHash @unique
       (files[k] # NoFile /\ files[m] # NoFile /\ Text(files[k]) = Text(files[m])) => k = m
  /\ requests \in [Request ->
       [pc : Await, route : Route, id : AnyId, clearance : Tier, token : 0 .. MaxToken,
        spelled : Spelling, bit : Permission, stepUp : BOOLEAN, file : File \cup {NoFile},
        hash : AnyHash, reason : Reason, prev : Nat,
        total : 0 .. MaxToken, listed : SUBSET Token, effective : SUBSET Permission]]
  /\ released \in Seq([identity : Id, token : Token, content : AnyHash])
  /\ seen \in [Request -> [once : SUBSET Token, always : SUBSET Token,
                           contents : SUBSET AnyHash]]

At(r, pc)   == requests[r].pc = pc
Goto(r, pc) == requests' = [requests EXCEPT ![r].pc = pc]
Done(r)     == requests' = [requests EXCEPT ![r] = NoRequest]

\* On the way to logDecision; the answer is sent when the row is in.
Log(r, reason) ==
  requests' = [requests EXCEPT ![r].pc = "lastRow", ![r].reason = reason]

-----------------------------------------------------------------------------
(***************************************************************************)
(* Upload and link.                                                        *)
(***************************************************************************)

\* The file is named after its content and sealed with a fresh key; one that
\* was stored under the name before is overwritten.
EncryptAndStore(h) ==
  LET dek == Cardinality(uploads) + 1
  IN /\ dek <= MaxUpload                                  \* bound
     /\ storage' = [storage EXCEPT ![h] = dek]
     /\ uploads' = uploads \cup
          {[hash |-> h, spelled |-> Canonical, path |-> h, dek |-> dek]}

\* POST /upload has no await after the session check, which trusts the roles
\* in the token.
Upload(session, h) ==
  /\ Accepted(session)
  /\ ADMIN \in session.roles
  /\ EncryptAndStore(h)
  /\ UNCHANGED <<files, requests, decisions, released>>

\* What callers send: what an upload answered, or whatever they make up.
Links == GatewayCalls.link \cup [token : Token, spelled : {Canonical}, body : uploads]

\* A key that was not wrapped yet is in nobody's hands.
InHand(body) == body.dek = FORGED \/ \E up \in uploads : up.dek = body.dek

\* Variant of BeginLink that takes the asset's number on trust.
BeginLinkUnchecked(r, session, c) ==
  /\ At(r, "idle")
  /\ Accepted(session)
  /\ InHand(c.body)
  /\ requests' = [requests EXCEPT ![r] =
       [NoRequest EXCEPT !.pc = "upsert", !.route = "link", !.token = c.token,
          !.spelled = c.spelled, !.file = c.body]]
  /\ UNCHANGED <<storage, uploads, files, decisions, released>>

\* POST /:id/link: the chain is asked whether the asset has this content, zero
\* if it was never minted.  The path and the key are what the caller says ...
BeginLink(r, session, c) ==
  /\ At(r, "idle")
  /\ Accepted(session)
  /\ InHand(c.body)
  /\ assets[c.token].contentHash = c.body.hash
  /\ requests' = [requests EXCEPT ![r] =
       [NoRequest EXCEPT !.pc = "upsert", !.route = "link", !.token = c.token,
          !.spelled = c.spelled, !.file = c.body]]
  /\ UNCHANGED <<storage, uploads, files, decisions, released>>

RowOf(r) == <<requests[r].token, requests[r].spelled>>

\* Variant of Upsert without the unique index.
UpsertRegardless(r) ==
  /\ At(r, "upsert")
  /\ files' = [files EXCEPT ![RowOf(r)] = requests[r].file]
  /\ Done(r)
  /\ UNCHANGED <<storage, uploads, decisions, released>>

\* ... and then the row is written.  contentHash is unique in the table, as it
\* is spelled: if another row has it, the upsert fails and the request with it.
Upsert(r) ==
  LET file  == requests[r].file
      taken == \E k \in RowId \ {RowOf(r)} : files[k] # NoFile /\ Text(files[k]) = Text(file)
  IN /\ At(r, "upsert")
     /\ files' = IF taken THEN files ELSE [files EXCEPT ![RowOf(r)] = file]
     /\ Done(r)
     /\ UNCHANGED <<storage, uploads, decisions, released>>

-----------------------------------------------------------------------------
(***************************************************************************)
(* GET /:id/content: authorize, score, row, hash, ciphertext, log, send.   *)
(* GET /: authorize for one asset after the other.                         *)
(***************************************************************************)
BeginRead(r, session, c) ==
  /\ At(r, "idle")
  /\ Accepted(session)
  /\ requests' = [requests EXCEPT ![r] =
       [NoRequest EXCEPT !.pc = "exists", !.id = session.id,
          !.clearance = session.clearance, !.token = c.token, !.spelled = c.spelled,
          !.bit = c.bit, !.stepUp = c.stepUp]]
  /\ UNCHANGED <<storage, uploads, files, decisions, released>>

BeginList(r, session) ==
  /\ At(r, "idle")
  /\ Accepted(session)
  /\ requests' = [requests EXCEPT ![r] =
       [NoRequest EXCEPT !.pc = "total", !.route = "list", !.id = session.id,
          !.clearance = session.clearance, !.bit = P_LIST]]
  /\ UNCHANGED <<storage, uploads, files, decisions, released>>

\* GET /:id, /:id/effective and /:id/acl, and the two routes that show decisions.
BeginView(r, session, c) ==
  /\ At(r, "idle")
  /\ Accepted(session)
  /\ requests' = [requests EXCEPT ![r] =
       [NoRequest EXCEPT
          !.pc = IF c.route \in Authorized THEN "exists"
                 ELSE IF c.route = "audit" THEN "events" ELSE "rows",
          !.route = c.route, !.id = session.id, !.clearance = session.clearance,
          !.token = c.token, !.bit = IF c.route \in Authorized THEN ViewBit[c.route] ELSE @]]
  /\ UNCHANGED <<storage, uploads, files, decisions, released>>

Is(r, route) == requests[r].route = route
Listing(r)   == Is(r, "list")

\* The assets are numbered without gaps; what is minted later is not listed.
AskTotal(r) ==
  /\ At(r, "total")
  /\ requests' = [requests EXCEPT ![r].total = nextToken - 1, ![r].token = 1,
       ![r].pc = IF nextToken = 1 THEN "sendList" ELSE "exists"]
  /\ UNCHANGED <<storage, uploads, files, decisions, released>>

NextAsset(r, listed) ==
  LET q == requests[r]
  IN requests' = [requests EXCEPT ![r] =
       [q EXCEPT !.listed = listed,
          !.token = IF q.token < q.total THEN q.token + 1 ELSE q.token,
          !.pc = IF q.token < q.total THEN "exists" ELSE "sendList"]]

\* The access list is shown to whoever may administer or audit the asset: both
\* are asked about, one after the other.  reason keeps the better answer.
AclDecision(r, reason) ==
  requests' = [requests EXCEPT
    ![r].pc = IF requests[r].bit = P_ADMIN THEN "exists" ELSE "principals",
    ![r].bit = P_AUDIT,
    ![r].reason = IF @ = "ALLOW" THEN @ ELSE reason]

\* Effective permissions are answered with the decision, whatever it is.
EffectiveDecision(r, reason, effective) ==
  requests' = [requests EXCEPT ![r].pc = "classification", ![r].reason = reason,
                               ![r].effective = effective]

\* What each route does when authorize allows ...
Allow(r, effective) ==
  \/ Is(r, "content") /\ Goto(r, "risk")
  \/ Is(r, "list") /\ Goto(r, "asset")
  \/ /\ Is(r, "record")
     /\ requests' = [requests EXCEPT ![r].pc = "asset", ![r].effective = effective]
  \/ Is(r, "effective") /\ EffectiveDecision(r, "ALLOW", effective)
  \/ Is(r, "acl") /\ AclDecision(r, "ALLOW")

\* Variant of Deny that lists a refused asset all the same.
DenyButList(r, effective) ==
  \/ Is(r, "content") /\ Log(r, "DENIED")
  \/ Is(r, "list") /\ NextAsset(r, requests[r].listed \cup {requests[r].token})
  \/ Is(r, "record") /\ Done(r)
  \/ Is(r, "effective") /\ EffectiveDecision(r, "DENIED", effective)
  \/ Is(r, "acl") /\ AclDecision(r, "DENIED")

\* ... and when it refuses: only content is logged.  explain() reads the chain
\* again, only to choose among the codes and messages.
Deny(r, effective) ==
  \/ Is(r, "content") /\ Log(r, "DENIED")
  \/ Is(r, "list") /\ NextAsset(r, requests[r].listed)
  \/ Is(r, "record") /\ Done(r)
  \/ Is(r, "effective") /\ EffectiveDecision(r, "DENIED", effective)
  \/ Is(r, "acl") /\ requests[r].bit = P_AUDIT /\ requests[r].reason # "ALLOW" /\ Done(r)
  \/ /\ Is(r, "acl")
     /\ requests[r].bit = P_ADMIN \/ requests[r].reason = "ALLOW"
     /\ AclDecision(r, "DENIED")

\* The three reads of authorize().
AskExists(r) ==
  /\ At(r, "exists")
  /\ IF Exists(requests[r].token) THEN Goto(r, "isActive") ELSE Deny(r, {})
  /\ UNCHANGED <<storage, uploads, files, decisions, released>>

AskActive(r) ==
  /\ At(r, "isActive")
  /\ IF IsActive(requests[r].id) THEN Goto(r, "effective") ELSE Deny(r, {})
  /\ UNCHANGED <<storage, uploads, files, decisions, released>>

\* Variant of AskEffective that takes the clearance from the session.
AskEffectiveOfSession(r) ==
  LET q         == requests[r]
      effective == Discretionary(q.token, q.id)
  IN /\ At(r, "effective")
     /\ IF q.clearance >= ClassificationOf(q.token) /\ q.bit \in effective
        THEN Allow(r, effective) ELSE Deny(r, effective)
     /\ UNCHANGED <<storage, uploads, files, decisions, released>>

AskEffective(r) ==
  LET effective == EffectiveForIdentity(requests[r].token, requests[r].id)
  IN /\ At(r, "effective")
     /\ IF requests[r].bit \in effective THEN Allow(r, effective) ELSE Deny(r, effective)
     /\ UNCHANGED <<storage, uploads, files, decisions, released>>

\* The asset's record and its row are read and go into the list, or are the view.
ReadAsset(r) ==
  /\ At(r, "asset")
  /\ \/ Listing(r) /\ NextAsset(r, requests[r].listed \cup {requests[r].token})
     \/ Is(r, "record") /\ Goto(r, "sendView")
  /\ UNCHANGED <<storage, uploads, files, decisions, released>>

SendList(r) ==
  /\ At(r, "sendList")
  /\ Done(r)
  /\ UNCHANGED <<storage, uploads, files, decisions, released>>

\* The awaits of the other views that nothing hangs on: the classification; the
\* principals and then their entries; the events and then the rows.
AfterRead == [classification |-> "sendView", principals |-> "aces", aces |-> "sendView",
              events |-> "rows", rows |-> "sendView"]

ReadOn(r) ==
  /\ requests[r].pc \in DOMAIN AfterRead
  /\ Goto(r, AfterRead[requests[r].pc])
  /\ UNCHANGED <<storage, uploads, files, decisions, released>>

SendView(r) ==
  /\ At(r, "sendView")
  /\ Done(r)
  /\ UNCHANGED <<storage, uploads, files, decisions, released>>

\* The score depends on the hour and on what the log held at three moments
\* within the last five minutes, so any level is possible: above 80, above 40,
\* or below.
RiskLevel == {"high", "elevated", "low"}

Score(r) ==
  /\ At(r, "risk")
  /\ \E level \in RiskLevel :
       IF level = "high" THEN Log(r, "ANOMALY_SCORE_HIGH")
       ELSE IF level = "elevated" /\ ~requests[r].stepUp
       THEN Log(r, "STEP_UP_REQUIRED")
       ELSE Goto(r, "file")
  /\ UNCHANGED <<storage, uploads, files, decisions, released>>

\* An asset without a row is answered with FILE_NOT_STORED and not logged.
FindFile(r) ==
  /\ At(r, "file")
  /\ IF files[RowOf(r)] = NoFile THEN Done(r)
     ELSE requests' = [requests EXCEPT ![r].pc = "hash", ![r].file = files[RowOf(r)]]
  /\ UNCHANGED <<storage, uploads, files, decisions, released>>

AskHash(r) ==
  /\ At(r, "hash")
  /\ requests' = [requests EXCEPT ![r].pc = "open",
                                  ![r].hash = assets[requests[r].token].contentHash]
  /\ UNCHANGED <<storage, uploads, files, decisions, released>>

\* What is at a path: elsewhere than in the storage nothing, or something that
\* no key of the server opens.
FoundAt(path) == IF path = NoHash THEN {ABSENT, ALTERED} ELSE {storage[path]}

\* Variant of OpenFile that relies on the cipher's tag alone.
OpenFileUnhashed(r) ==
  LET q == requests[r]
  IN /\ At(r, "open")
     /\ \E found \in FoundAt(q.file.path) :
          Log(r, IF q.file.dek = FORGED THEN "TAMPER_DETECTED"
                 ELSE IF found = ABSENT THEN "FILE_NOT_STORED"
                 ELSE IF found = q.file.dek THEN "ALLOW"
                 ELSE "TAMPER_DETECTED")
     /\ UNCHANGED <<storage, uploads, files, decisions, released>>

\* loadAndDecrypt unwraps the row's key, reads the file and opens it: the tag
\* fails unless it is sealed with that key.  A file that opens has the content
\* it is named after, and that has to be what the chain has for the asset.
OpenFile(r) ==
  LET q == requests[r]
  IN /\ At(r, "open")
     /\ \E found \in FoundAt(q.file.path) :
          Log(r, IF q.file.dek = FORGED THEN "TAMPER_DETECTED"
                 ELSE IF found = ABSENT THEN "FILE_NOT_STORED"
                 ELSE IF found = q.file.dek /\ q.file.path = q.hash THEN "ALLOW"
                 ELSE "TAMPER_DETECTED")
     /\ UNCHANGED <<storage, uploads, files, decisions, released>>

\* The two awaits of logDecision.
AskLastRow(r) ==
  /\ At(r, "lastRow")
  /\ requests' = [requests EXCEPT ![r].pc = "append", ![r].prev = LastRow]
  /\ UNCHANGED <<storage, uploads, files, decisions, released>>

\* Variant of LogDecision that does not wait for the insertion, which fails.
LogDecisionUnawaited(r) ==
  /\ At(r, "append")
  /\ IF requests[r].reason = "ALLOW" THEN Goto(r, "send") ELSE Done(r)
  /\ UNCHANGED <<storage, uploads, files, decisions, released>>

LogDecision(r) ==
  LET q == requests[r]
  IN /\ At(r, "append")
     /\ Len(decisions) < MaxRow                           \* bound
     /\ AppendRow(q.id, q.token, q.reason, q.prev)
     /\ IF q.reason = "ALLOW" THEN Goto(r, "send") ELSE Done(r)
     /\ UNCHANGED <<storage, uploads, files, released>>

Send(r) ==
  /\ At(r, "send")
  /\ released' = Append(released, [identity |-> requests[r].id,
                                   token |-> requests[r].token,
                                   content |-> requests[r].file.path])
  /\ Done(r)
  /\ UNCHANGED <<storage, uploads, files, decisions>>

-----------------------------------------------------------------------------
\* What happens to the stored files behind the server's back.
DamageFile(h, damage) ==
  /\ storage[h] # ABSENT
  /\ storage' = [storage EXCEPT ![h] = damage]
  /\ UNCHANGED <<uploads, files, requests, decisions, released>>

\* The database, the files and the tokens outlive the process.
Restart ==
  /\ requests' = [r \in Request |-> NoRequest]
  /\ UNCHANGED <<storage, uploads, files, decisions, released>>
  /\ RestartLogins

ContentInit ==
  /\ SessionsInit
  /\ storage = [h \in Hash |-> ABSENT]
  /\ uploads = {}
  /\ files = [k \in RowId |-> NoFile]
  /\ requests = [r \in Request |-> NoRequest]
  /\ decisions = <<>>
  /\ released = <<>>
  /\ seen = [r \in Request |-> NothingSeen]

RequestStep ==
  \/ \E session \in tokens :
       \/ \E h \in GatewayCalls.upload : Upload(session, h)
       \/ \E r \in Request :
            \/ \E c \in Links : BeginLink(r, session, c)
            \/ \E c \in GatewayCalls.read : BeginRead(r, session, c)
            \/ \E c \in GatewayCalls.view : BeginView(r, session, c)
            \/ BeginList(r, session)
  \/ \E r \in Request :
       \/ Upsert(r)
       \/ AskExists(r) \/ AskActive(r) \/ AskEffective(r)
       \/ Score(r) \/ FindFile(r) \/ AskHash(r) \/ OpenFile(r)
       \/ AskLastRow(r) \/ LogDecision(r) \/ Send(r)
       \/ AskTotal(r) \/ ReadAsset(r) \/ SendList(r)
       \/ ReadOn(r) \/ SendView(r)

DamageStep == \E h \in Hash, damage \in Damage : DamageFile(h, damage)

\* History, no part of the program: on which assets has the reader had the bit
\* it asked for, once and always, and which contents has the asset had, since
\* the request arrived?
WatchRequests ==
  seen' = [r \in Request |->
    IF requests'[r].pc = "idle" THEN NothingSeen
    ELSE LET about   == IF Listing(r)' THEN Token ELSE {requests'[r].token} \cap Token
             granted == {t \in about :
               (requests[r].bit \in EffectiveForIdentity(t, requests[r].id))'}
         IN [once     |-> seen[r].once \cup granted,
             always   |-> seen[r].always \cap (granted \cup (Token \ about)),
             contents |-> IF Listing(r)' THEN {}
                          ELSE seen[r].contents \cup {assets'[t].contentHash : t \in about}]]

ContentStep ==
  \/ AssetsNext /\ UNCHANGED <<loginVars, gatewayVars>>
  \/ LoginStep /\ UNCHANGED <<assetsVars, gatewayVars>>
  \/ RequestStep /\ UNCHANGED <<assetsVars, loginVars>>
  \/ DamageStep /\ UNCHANGED <<assetsVars, loginVars>>
  \/ Restart /\ UNCHANGED assetsVars

Watch == WatchLogins /\ WatchRequests

ContentNext == ContentStep /\ Watch

ContentSpec == ContentInit /\ [][ContentNext]_contentVars

BackendTypeOK == AssetsTypeOK /\ SessionsTypeOK /\ ContentTypeOK /\ LogTypeOK

-----------------------------------------------------------------------------
\* "A suspension takes effect immediately even while a valid session is open"
\* (README.md:268): content, a record, an access list or an effective permission
\* is answered only if, at some moment since the request arrived, the reader was
\* active and had a bit that opens it, however the reads of the chain interleave
\* with changes on it.
AnsweredWhileEntitled ==
  \A r \in Request :
    \/ At(r, "send")
    \/ At(r, "sendView") /\ (Is(r, "record") \/ Is(r, "acl"))
    \/ At(r, "sendView") /\ Is(r, "effective") /\ requests[r].reason = "ALLOW"
    => requests[r].token \in seen[r].once

\* "invisible: more than one level above clearance" (assets.ts:25): a listing
\* has only assets that the reader could see at some moment since it arrived,
\* and all that it could see throughout, though every asset is asked about at
\* another moment.
ListingIsFaithful ==
  \A r \in Request : At(r, "sendList") =>
    /\ requests[r].listed \subseteq seen[r].once
    /\ seen[r].always \subseteq requests[r].listed

\* "Hash verified against the chain on every read" (README.md:209): what
\* leaves was the asset's registered content at some moment since the request
\* arrived, whatever path and key were linked and whatever happened to the file.
ReleasedIsRegistered ==
  \A r \in Request : At(r, "send") => requests[r].file.path \in seen[r].contents

\* "the chain is the authority" (assets.ts:112): a row comes whole from one
\* link, and its content was the asset's at some moment since that arrived,
\* however far the number that the caller guessed from totalMinted is off.  Its
\* path and key are those of an upload of that content, unless the caller made
\* them up.
RowsWereRegistered ==
  [][\A k \in RowId : files'[k] # files[k] =>
       \E r \in Request :
         /\ RowOf(r) = k
         /\ files'[k] = requests[r].file
         /\ files'[k].hash \in seen[r].contents
         /\ files'[k] \in uploads \cup {c.body : c \in GatewayCalls.link}]_contentVars

\* "every release before it is logged against a named identity" (README.md:231):
\* an identity received an asset's content no more often than the log says,
\* also if the server stops between the row and the answer.
EveryReleaseIsLogged ==
  \A i \in Id, t \in Token :
    Cardinality({n \in DOMAIN released :
                   released[n].identity = i /\ released[n].token = t})
    <= Cardinality({n \in DOMAIN decisions :
                      /\ decisions[n].identity = i /\ decisions[n].token = t
                      /\ decisions[n].reason = "ALLOW"})

\* Two ways a tampered file shows up, "both are the same incident"
\* (assets.ts:146-148): where nobody touches the stored files, none is logged.
TamperMeansTampered ==
  Damage = {} => \A n \in DOMAIN decisions : decisions[n].reason # "TAMPER_DETECTED"
=============================================================================
