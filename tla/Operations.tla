------------------------------ MODULE Operations ------------------------------
(***************************************************************************)
(* Setting the platform up and resetting it: scripts/deploy.ts and seed.ts *)
(* send transactions to one node, backend/src/dev/reset.ts runs them       *)
(* between clearing the files and the database and uploading a demo file,  *)
(* and a server keeps the addresses it read when it started (chain.ts).    *)
(* One terminal runs the scripts; a script may be killed between any two   *)
(* steps.  Next to it, an Admin uploads through the page.                  *)
(*                                                                         *)
(* A deployment is the set of contracts one run of deploy.ts created; its  *)
(* number stands for their addresses.                                      *)
(***************************************************************************)
EXTENDS Naturals, Sequences, FiniteSets

CONSTANTS
  MaxDeployment,  \* bound: runs of deploy.ts
  MaxFile,        \* bound: files that are uploaded
  Rules           \* what the operator keeps to

\* "together": deploy.ts runs by itself only for the first setup, and the backend
\* is stopped before a reset (README.md:175-181).  "late": and not started again
\* before the reset has deployed, which the README does not say.
ASSUME OperationsAssumption ==
  MaxDeployment \in Nat /\ MaxFile \in Nat /\ Rules \subseteq {"together", "late"}

VARIABLES
  wired,      \* wired[d]: the transactions of deployment d that were mined
  seeded,     \* seeded[d]: how many steps a seed of d has taken
  minted,     \* minted[d]: the contents of its assets, by number
  published,  \* the deployment that deployments/<network>.json names, 0: no file
  folder,     \* is there a directory storage?
  stored,     \* the contents that have a ciphertext
  tables,     \* does the database have its tables?
  rows,       \* rows[t]: the content of asset t in the table StoredFile, 0: no row
  server,
  script,     \* what the terminal runs
  page,       \* the upload of the page that waits to be linked
  files       \* how many files were uploaded so far

operationsVars ==
  <<wired, seeded, minted, published, folder, stored, tables, rows, server, script, page, files>>

Deployment == 1 .. MaxDeployment

\* The files of the seed, of which only the hash is on the chain, and uploads.
SPECS   == 1
BOM     == 2
BUDGET  == 3
Content == 1 .. 3 + MaxFile
Asset   == Content          \* no content is minted twice in a deployment

Transaction ==
  {"contracts", "setAuthorizer", "seeder", "accessExecutor", "assetsExecutor",
   "identityExecutor", "rolesExecutor", "aclWriter", "relayer", "anchor", "bootstrap"}

\* Variant of DeployPlan that writes the file once the addresses are known.
DeployPlanPublishingFirst ==
  <<"contracts", "publish", "setAuthorizer", "seeder", "accessExecutor", "assetsExecutor",
    "identityExecutor", "rolesExecutor", "aclWriter", "relayer", "anchor", "bootstrap">>

\* The seven contracts count as one: until the file is written nobody knows
\* where they are.
DeployPlan ==
  <<"contracts", "setAuthorizer", "seeder", "accessExecutor", "assetsExecutor",
    "identityExecutor", "rolesExecutor", "aclWriter", "relayer", "anchor", "bootstrap",
    "publish">>

\* The transactions of the seed; a proposal is made, approved and executed
\* by the same script.
SeedPlan ==
  <<"registerAdmin", "registerManager", "registerOthers", "grantRoles",
    "bootstrapClearance", "mintSpecs", "mintBom", "upliftManager", "mintBudget",
    "userOnSpecs", "userOnBudget">>

\* Variant of ResetPlan in which the chain is redeployed before the database is
\* cleared.
ResetPlanChainFirst ==
  <<"clearStorage", "deploy", "clearDatabase", "migrate", "seed", "login", "upload",
    "mint", "askTotal", "link", "announce">>

\* "The chain, the database and the ciphertext on disk all carry token ids"
\* (reset.ts:12); the last steps but one are full-upload.ts.
ResetPlan ==
  <<"clearStorage", "clearDatabase", "migrate", "deploy", "seed", "login", "upload",
    "mint", "askTotal", "link", "announce">>

Job == {"deploy", "seed", "look", "upload", "fullUpload", "reset"}

\* The steps of a script, in order.
Plan == [deploy     |-> <<"deploy">>,
         seed       |-> <<"seed">>,
         look       |-> <<"login", "look">>,
         upload     |-> <<"login", "upload">>,
         fullUpload |-> <<"login", "upload", "mint", "askTotal", "link">>,
         reset      |-> ResetPlan]

NoScript == [job |-> "none", step |-> 0, on |-> 0, done |-> 0, file |-> 0, token |-> 0]
NoUpload == [file |-> 0, token |-> 0]

OperationsTypeOK ==
  /\ wired \in [Deployment -> SUBSET Transaction]
  /\ seeded \in [Deployment -> 0 .. Len(SeedPlan)]
  /\ minted \in [Deployment -> Seq(Content)]
  /\ published \in 0 .. MaxDeployment
  /\ folder \in BOOLEAN
  /\ stored \subseteq Content
  /\ tables \in BOOLEAN
  /\ rows \in [Asset -> Content \cup {0}]
  /\ server \in [up : BOOLEAN, on : 0 .. MaxDeployment, connected : BOOLEAN]
  /\ script \in [job : Job \cup {"none"}, step : Nat, on : 0 .. MaxDeployment,
                 done : Nat, file : Content \cup {0}, token : Nat]
  /\ page \in [file : Content \cup {0}, token : Nat]
  /\ files \in 0 .. MaxFile

-----------------------------------------------------------------------------
At(step) == script.job # "none" /\ Plan[script.job][script.step] = step

\* The script goes on to its next step, if it has one.
Goes(changed) ==
  script' = IF script.step = Len(Plan[script.job]) THEN NoScript
            ELSE [changed EXCEPT !.step = @ + 1, !.done = 0]

\* A step fails: every script ends there, with what it has done so far.
Dies == script' = NoScript

\* Contents are unique: a timestamp in the demo file, the bytes of a document.
NewFile == files < MaxFile /\ files' = files + 1     \* bound

\* The next addresses.
Fresh(d) == wired[d] = {} /\ \A e \in Deployment : e < d => wired[e] # {}

\* The asset's content on the chain that the server asks.
OnChain(d, t) == IF d # 0 /\ t \in 1 .. Len(minted[d]) THEN minted[d][t] ELSE 0

-----------------------------------------------------------------------------
(***************************************************************************)
(* The steps of reset.ts that are its own.                                 *)
(***************************************************************************)
ClearStorage ==
  /\ At("clearStorage")
  /\ folder' = FALSE
  /\ stored' = {}
  /\ Goes(script)
  /\ UNCHANGED <<wired, seeded, minted, published, tables, rows, server, page, files>>

\* A database that a server has open cannot be removed; force only forgives a
\* missing file.
ClearDatabase ==
  /\ At("clearDatabase")
  /\ IF server.up /\ server.connected THEN Dies /\ UNCHANGED <<tables, rows>>
     ELSE /\ tables' = FALSE
          /\ rows' = [t \in Asset |-> 0]
          /\ Goes(script)
  /\ UNCHANGED <<wired, seeded, minted, published, folder, stored, server, page, files>>

Migrate ==
  /\ At("migrate")
  /\ tables' = TRUE
  /\ Goes(script)
  /\ UNCHANGED <<wired, seeded, minted, published, folder, stored, rows, server, page, files>>

\* "reset complete: chain redeployed, seeded, demo file uploaded"
Announce ==
  /\ At("announce")
  /\ Goes(script)
  /\ UNCHANGED <<wired, seeded, minted, published, folder, stored, tables, rows,
                 server, page, files>>

-----------------------------------------------------------------------------
(***************************************************************************)
(* deploy.ts and seed.ts.                                                  *)
(***************************************************************************)
\* The first transaction makes a deployment of its own, the others go to it.
Deploy ==
  /\ At("deploy")
  /\ \E d \in Deployment :
       /\ IF script.done = 0 THEN Fresh(d) ELSE d = script.on
       /\ LET next == DeployPlan[script.done + 1]
          IN IF next = "publish"
             THEN published' = d /\ UNCHANGED wired
             ELSE wired' = [wired EXCEPT ![d] = @ \cup {next}] /\ UNCHANGED published
       /\ IF script.done + 1 = Len(DeployPlan) THEN Goes([script EXCEPT !.on = 0])
          ELSE script' = [script EXCEPT !.on = d, !.done = @ + 1]
  /\ UNCHANGED <<seeded, minted, folder, stored, tables, rows, server, page, files>>

Mints(step) ==
  CASE step = "mintSpecs"  -> <<SPECS>>
    [] step = "mintBom"    -> <<BOM>>
    [] step = "mintBudget" -> <<BUDGET>>
    [] OTHER -> <<>>

\* Variant of Seed that passes over what is there already.
SeedRegardless ==
  LET d == IF script.done = 0 THEN published ELSE script.on
  IN /\ At("seed")
     /\ d # 0
     /\ seeded' = [seeded EXCEPT ![d] = @ + 1]
     /\ minted' = [minted EXCEPT ![d] = @ \o Mints(SeedPlan[script.done + 1])]
     /\ IF script.done + 1 = Len(SeedPlan) THEN Goes([script EXCEPT !.on = 0])
        ELSE script' = [script EXCEPT !.on = d, !.done = @ + 1]
     /\ UNCHANGED <<wired, published, folder, stored, tables, rows, server, page, files>>

\* The file is read once.  What an earlier seed has done reverts, at the first
\* registration already, so a seed that stopped half way is never completed.
Seed ==
  LET d == IF script.done = 0 THEN published ELSE script.on
  IN /\ At("seed")
     /\ IF d # 0 /\ seeded[d] = script.done
        THEN /\ seeded' = [seeded EXCEPT ![d] = @ + 1]
             /\ minted' = [minted EXCEPT ![d] = @ \o Mints(SeedPlan[script.done + 1])]
             /\ IF script.done + 1 = Len(SeedPlan) THEN Goes([script EXCEPT !.on = 0])
                ELSE script' = [script EXCEPT !.on = d, !.done = @ + 1]
        ELSE Dies /\ UNCHANGED <<seeded, minted>>
     /\ UNCHANGED <<wired, published, folder, stored, tables, rows, server, page, files>>

-----------------------------------------------------------------------------
(***************************************************************************)
(* The clients under backend/src/dev.                                      *)
(***************************************************************************)
Registered(d, n) == d # 0 /\ seeded[d] >= n

\* Variant of Login that waits until there is a server.
LoginWaiting ==
  /\ At("login")
  /\ server.up
  /\ Goes([script EXCEPT !.on = published])
  /\ UNCHANGED <<wired, seeded, minted, published, folder, stored, tables, rows,
                 server, page, files>>

\* The scripts that need the chain read the addresses when they start, from the
\* file; the server is asked at its fixed address and lets the Admin in if the
\* Admin is registered where the server looks.
Login ==
  /\ At("login")
  /\ IF server.up /\ Registered(server.on, 1) THEN Goes([script EXCEPT !.on = published])
     ELSE Dies
  /\ UNCHANGED <<wired, seeded, minted, published, folder, stored, tables, rows,
                 server, page, files>>

\* One request with the token; any route but the chain's opens the database.
Look ==
  /\ At("look")
  /\ Goes(script)
  /\ server' = [server EXCEPT !.connected = server.up]
  /\ UNCHANGED <<wired, seeded, minted, published, folder, stored, tables, rows, page, files>>

\* The server makes the directory only when it starts (storage.ts:8): one that was
\* started before a reset cleared it cannot store anything.
UploadFile ==
  /\ At("upload")
  /\ IF server.up /\ folder /\ files < MaxFile
     THEN /\ NewFile
          /\ stored' = stored \cup {3 + files'}
          /\ Goes([script EXCEPT !.file = 3 + files'])
     ELSE Dies /\ UNCHANGED <<stored, files>>
  /\ UNCHANGED <<wired, seeded, minted, published, folder, tables, rows, server, page>>

\* The only step that writes to the chain; the owner is the Manager.
MintFile ==
  /\ At("mint")
  /\ IF Registered(script.on, 2)
     THEN minted' = [minted EXCEPT ![script.on] = Append(@, script.file)] /\ Goes(script)
     ELSE Dies /\ UNCHANGED minted
  /\ UNCHANGED <<wired, seeded, published, folder, stored, tables, rows, server, page, files>>

AskTotal ==
  /\ At("askTotal")
  /\ Goes([script EXCEPT !.token = Len(minted[script.on])])
  /\ UNCHANGED <<wired, seeded, minted, published, folder, stored, tables, rows,
                 server, page, files>>

\* POST /:id/link: the row is written if the server's chain has the content.
\* ContentGateway has it in detail.
Links(t, file) ==
  rows' = IF OnChain(server.on, t) = file THEN [rows EXCEPT ![t] = file] ELSE rows

\* The answer is printed and not looked at.
LinkFile ==
  /\ At("link")
  /\ IF server.up /\ tables
     THEN /\ Links(script.token, script.file)
          /\ server' = [server EXCEPT !.connected = TRUE]
          /\ Goes(script)
     ELSE Dies /\ UNCHANGED <<rows, server>>
  /\ UNCHANGED <<wired, seeded, minted, published, folder, stored, tables, page, files>>

-----------------------------------------------------------------------------
(***************************************************************************)
(* The operator, the server and an Admin at the page.                      *)
(***************************************************************************)
Position(step) == CHOOSE k \in 1 .. Len(ResetPlan) : ResetPlan[k] = step
Redeploying    == script.job = "reset" /\ script.step <= Position("deploy")

Advised(job) ==
  CASE job = "deploy" -> published = 0
    [] job = "reset"  -> ~server.up
    [] OTHER -> TRUE

Start(job) ==
  /\ script.job = "none"
  /\ job \in {"deploy", "reset"} => \E d \in Deployment : Fresh(d)     \* bound
  /\ "together" \in Rules => Advised(job)
  /\ script' = [NoScript EXCEPT !.job = job, !.step = 1]
  /\ UNCHANGED <<wired, seeded, minted, published, folder, stored, tables, rows,
                 server, page, files>>

Kill ==
  /\ script.job # "none"
  /\ Dies
  /\ UNCHANGED <<wired, seeded, minted, published, folder, stored, tables, rows,
                 server, page, files>>

\* chain.ts is evaluated once: the server keeps these addresses while it runs.
StartServer ==
  /\ ~server.up
  /\ published # 0
  /\ "late" \in Rules => ~Redeploying
  /\ server' = [up |-> TRUE, on |-> published, connected |-> FALSE]
  /\ folder' = TRUE
  /\ UNCHANGED <<wired, seeded, minted, published, stored, tables, rows, script, page, files>>

StopServer ==
  /\ server.up
  /\ server' = [server EXCEPT !.up = FALSE]
  /\ UNCHANGED <<wired, seeded, minted, published, folder, stored, tables, rows, script, page, files>>

\* The page has the server's addresses (GET /config): its Admin uploads a file
\* and mints for it there.  Browser has the flow in detail.
PageMint ==
  /\ server.up
  /\ Registered(server.on, 2)
  /\ page = NoUpload
  /\ folder
  /\ NewFile
  /\ stored' = stored \cup {3 + files'}
  /\ minted' = [minted EXCEPT ![server.on] = Append(@, 3 + files')]
  /\ page' = [file |-> 3 + files', token |-> Len(minted'[server.on])]
  /\ UNCHANGED <<wired, seeded, published, folder, tables, rows, server, script>>

PageLink ==
  /\ page # NoUpload
  /\ server.up
  /\ tables
  /\ Links(page.token, page.file)
  /\ server' = [server EXCEPT !.connected = TRUE]
  /\ page' = NoUpload
  /\ UNCHANGED <<wired, seeded, minted, published, folder, stored, tables, script, files>>

-----------------------------------------------------------------------------
OperationsInit ==
  /\ wired = [d \in Deployment |-> {}]
  /\ seeded = [d \in Deployment |-> 0]
  /\ minted = [d \in Deployment |-> <<>>]
  /\ published = 0
  /\ folder = FALSE
  /\ stored = {}
  /\ tables = TRUE                \* npx prisma migrate deploy
  /\ rows = [t \in Asset |-> 0]
  /\ server = [up |-> FALSE, on |-> 0, connected |-> FALSE]
  /\ script = NoScript
  /\ page = NoUpload
  /\ files = 0

ScriptStep ==
  \/ ClearStorage \/ ClearDatabase \/ Migrate \/ Announce
  \/ Deploy \/ Seed
  \/ Login \/ Look \/ UploadFile \/ MintFile \/ AskTotal \/ LinkFile

OperatorStep ==
  \/ \E job \in Job : Start(job)
  \/ Kill \/ StartServer \/ StopServer

OperationsNext == ScriptStep \/ OperatorStep \/ PageMint \/ PageLink

\* A script that nobody kills goes on; nobody has to start or stop anything.
OperationsSpec ==
  OperationsInit /\ [][OperationsNext]_operationsVars /\ WF_operationsVars(ScriptStep)

-----------------------------------------------------------------------------
\* "the part that silently breaks everything if missed" (deploy.ts:49): the
\* file, and so every server, names only contracts that are wired to each other
\* and have their first Admin, wherever an earlier deployment was killed.
PublishedIsWired ==
  \A d \in {published, server.on} \ {0} : wired[d] = Transaction

\* "Resetting one without the others leaves rows pointing at the wrong asset"
\* (reset.ts:13): where the operator keeps to both rules, each row's asset has
\* the row's content on the chain that the running server asks, though scripts
\* are killed half way and pages link late.
RowsAreOfTheChain ==
  (Rules = {"together", "late"} /\ server.up) =>
    \A t \in Asset : rows[t] # 0 => OnChain(server.on, t) = rows[t]

\* No script waits for a server that is not there: a reset ends even though the
\* backend was stopped for it.
ScriptsEnd == script.job # "none" ~> script.job = "none"

-----------------------------------------------------------------------------
(***************************************************************************)
(* What the documentation says and the code does not do.                   *)
(***************************************************************************)

\* "reset complete: chain redeployed, seeded, demo file uploaded" (reset.ts:26):
\* when a reset says so, the demo file is linked to its asset of the deployment
\* in force.  The script has to be served by a server that was started under way.
CompleteIsComplete ==
  At("announce") =>
    \E t \in Asset : rows[t] = script.file /\ OnChain(published, t) = script.file
=============================================================================
