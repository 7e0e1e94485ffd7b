--------------------------- MODULE Operations_proofs ---------------------------
(***************************************************************************)
(* What the address file and the servers that read it name, for every      *)
(* number of deployments and whatever the operator keeps to.               *)
(***************************************************************************)
EXTENDS Operations, SequenceTheorems, TLAPS

\* The records have their fields, whatever is in them.
Fields(s) ==
  s = [job |-> s.job, step |-> s.step, on |-> s.on, done |-> s.done, file |-> s.file,
       token |-> s.token]

Shapes ==
  /\ Fields(script)
  /\ server = [up |-> server.up, on |-> server.on, connected |-> server.connected]

\* The transactions that a run of deploy.ts has sent after n steps.
SentBy(n) == {DeployPlan[k] : k \in 1 .. n}

\* A run under way works on a deployment of its own, to which exactly what the
\* run has sent so far has been done: that is why the file names a wired one.
DeployInv ==
  /\ Shapes
  /\ wired \in [Deployment -> SUBSET Transaction]
  /\ published \in 0 .. MaxDeployment
  /\ server.on \in 0 .. MaxDeployment
  /\ At("deploy") =>
       \/ script.done = 0
       \/ /\ script.done \in 1 .. 11
          /\ script.on \in Deployment
          /\ wired[script.on] = SentBy(script.done)
  /\ PublishedIsWired

\* The plan sends every transaction, and then writes the file.
LEMMA PlanIsComplete ==
  /\ Len(DeployPlan) = 12 /\ DeployPlan[12] = "publish"
  /\ \A n \in 1 .. 11 : DeployPlan[n] \in Transaction /\ DeployPlan[n] # "publish"
  /\ SentBy(11) = Transaction
<1>1. Len(DeployPlan) = 12 /\ DeployPlan[12] = "publish"
  BY DEF DeployPlan
<1>2. \A n \in 1 .. 11 : DeployPlan[n] \in Transaction /\ DeployPlan[n] # "publish"
  <2> SUFFICES ASSUME NEW n \in 1 .. 11
               PROVE  DeployPlan[n] \in Transaction /\ DeployPlan[n] # "publish"
    OBVIOUS
  <2>1. n \in {1, 2, 3, 4, 5, 6, 7, 8, 9, 10, 11}
    OBVIOUS
  <2> QED BY <2>1 DEF DeployPlan, Transaction
<1>3. SentBy(11) = Transaction
  <2>1. SentBy(11) \subseteq Transaction
    BY <1>2 DEF SentBy
  <2>2. ASSUME NEW x \in Transaction PROVE \E n \in 1 .. 11 : DeployPlan[n] = x
    BY DEF DeployPlan, Transaction
  <2> QED BY <2>1, <2>2 DEF SentBy
<1> QED BY <1>1, <1>2, <1>3

LEMMA SentNext ==
  ASSUME NEW n \in Nat
  PROVE  SentBy(n + 1) = SentBy(n) \cup {DeployPlan[n + 1]}
<1>1. 1 .. n + 1 = (1 .. n) \cup {n + 1}
  OBVIOUS
<1> QED BY <1>1 DEF SentBy

-----------------------------------------------------------------------------
\* What any step but Deploy does to what the invariant is about: a script that
\* comes to the deployment has sent nothing yet.
Bystander ==
  /\ UNCHANGED <<wired, published>>
  /\ server'.on \in {server.on, published}
  /\ At("deploy")' => script'.done = 0 \/ UNCHANGED script

\* Whatever the step has noted, the script's next one starts afresh.
LEMMA GoingOn ==
  ASSUME NEW changed, Fields(changed), Goes(changed)
  PROVE  Fields(script') /\ (At("deploy")' => script'.done = 0)
<1>1. CASE script' = NoScript
  BY <1>1 DEF NoScript, Fields, At
<1>2. CASE script' = [changed EXCEPT !.step = @ + 1, !.done = 0]
  BY <1>2 DEF Fields
<1> QED BY <1>1, <1>2 DEF Goes

LEMMA Ending == ASSUME Dies PROVE Fields(script') /\ ~At("deploy")'
  BY DEF Dies, NoScript, Fields, At

LEMMA Noting ==
  ASSUME Fields(script)
  PROVE  /\ \A x : Fields([script EXCEPT !.on = x])
         /\ \A x : Fields([script EXCEPT !.file = x])
         /\ \A x : Fields([script EXCEPT !.token = x])
  BY DEF Fields

LEMMA ScriptsStandBy ==
  ASSUME Shapes, ScriptStep, ~Deploy
  PROVE  Bystander /\ Shapes'
<1> USE DEF Shapes, Bystander
<1>1. CASE ClearStorage \/ ClearDatabase \/ Migrate \/ Announce
  BY <1>1, GoingOn, Ending DEF ClearStorage, ClearDatabase, Migrate, Announce
<1>2. CASE Seed
  <2>1. UNCHANGED <<wired, published, server>>
    BY <1>2 DEF Seed
  <2>2. PICK d : \/ Goes([script EXCEPT !.on = 0])
                 \/ script' = [script EXCEPT !.on = d, !.done = @ + 1]
                 \/ Dies
    BY <1>2 DEF Seed
  <2>3. CASE script' = [script EXCEPT !.on = d, !.done = @ + 1]
    <3>1. Fields(script') /\ script'.job = script.job /\ script'.step = script.step
      BY <2>3 DEF Fields
    <3> QED BY <1>2, <2>1, <3>1 DEF Seed, At
  <2>4. CASE Goes([script EXCEPT !.on = 0]) \/ Dies
    BY <2>1, <2>4, GoingOn, Ending, Noting
  <2> QED BY <2>2, <2>3, <2>4
<1>3. CASE Login
  <2>1. UNCHANGED <<wired, published, server>>
    BY <1>3 DEF Login
  <2>2. Goes([script EXCEPT !.on = published]) \/ Dies
    BY <1>3 DEF Login
  <2> QED BY <2>1, <2>2, GoingOn, Ending, Noting
<1>4. CASE Look
  BY <1>4, GoingOn DEF Look
<1>5. CASE UploadFile
  <2>1. UNCHANGED <<wired, published, server>>
    BY <1>5 DEF UploadFile
  <2>2. Goes([script EXCEPT !.file = 3 + files']) \/ Dies
    BY <1>5 DEF UploadFile
  <2> QED BY <2>1, <2>2, GoingOn, Ending, Noting
<1>6. CASE MintFile
  BY <1>6, GoingOn, Ending DEF MintFile
<1>7. CASE AskTotal
  <2>1. UNCHANGED <<wired, published, server>>
    BY <1>7 DEF AskTotal
  <2>2. Goes([script EXCEPT !.token = Len(minted[script.on])])
    BY <1>7 DEF AskTotal
  <2> QED BY <2>1, <2>2, GoingOn, Noting
<1>8. CASE LinkFile
  BY <1>8, GoingOn, Ending DEF LinkFile
<1> QED BY <1>1, <1>2, <1>3, <1>4, <1>5, <1>6, <1>7, <1>8 DEF ScriptStep

LEMMA OthersStandBy ==
  ASSUME Shapes, OperatorStep \/ PageMint \/ PageLink \/ UNCHANGED operationsVars
  PROVE  Bystander /\ Shapes'
<1> USE DEF Shapes, Fields, Bystander, Dies, NoScript
<1>1. CASE \E job \in Job : Start(job)
  BY <1>1 DEF Start
<1>2. CASE Kill
  BY <1>2 DEF Kill, At
<1>3. CASE StartServer \/ StopServer
  BY <1>3 DEF StartServer, StopServer
<1>4. CASE PageMint \/ PageLink
  BY <1>4 DEF PageMint, PageLink
<1>5. CASE UNCHANGED operationsVars
  BY <1>5 DEF operationsVars
<1> QED BY <1>1, <1>2, <1>3, <1>4, <1>5 DEF OperatorStep

LEMMA BystandersKeepInv ==
  ASSUME DeployInv, Bystander, Shapes'
  PROVE  DeployInv'
<1>1. PublishedIsWired'
  BY DEF DeployInv, Bystander, PublishedIsWired
<1>2. /\ wired' \in [Deployment -> SUBSET Transaction]
      /\ published' \in 0 .. MaxDeployment
      /\ server'.on \in 0 .. MaxDeployment
  BY DEF DeployInv, Bystander
<1>3. ASSUME At("deploy")', script'.done # 0
      PROVE  /\ script'.done \in 1 .. 11
             /\ script'.on \in Deployment
             /\ wired'[script'.on] = SentBy(script'.done)
  <2>1. UNCHANGED <<script, wired>>
    BY <1>3 DEF Bystander
  <2> QED BY <1>3, <2>1 DEF DeployInv, At
<1> QED BY <1>1, <1>2, <1>3 DEF DeployInv

-----------------------------------------------------------------------------
\* A transaction goes to the run's own deployment; the file is written when all
\* have been sent.
LEMMA DeployKeepsInv ==
  ASSUME DeployInv, Deploy
  PROVE  DeployInv'
<1> DEFINE next == DeployPlan[script.done + 1]
<1>1. PICK d \in Deployment :
        /\ IF script.done = 0 THEN Fresh(d) ELSE d = script.on
        /\ IF next = "publish"
           THEN published' = d /\ UNCHANGED wired
           ELSE wired' = [wired EXCEPT ![d] = @ \cup {next}] /\ UNCHANGED published
        /\ IF script.done + 1 = Len(DeployPlan) THEN Goes([script EXCEPT !.on = 0])
           ELSE script' = [script EXCEPT !.on = d, !.done = @ + 1]
  BY DEF Deploy
<1>2. UNCHANGED server
  BY DEF Deploy
<1>3. /\ script.done \in 0 .. 11
      /\ wired[d] = SentBy(script.done)
  <2>1. CASE script.done = 0
    BY <1>1, <2>1 DEF Fresh, SentBy
  <2>2. CASE script.done # 0
    BY <1>1, <2>2 DEF DeployInv, Deploy
  <2> QED BY <2>1, <2>2
<1> HIDE DEF next
<1>4. CASE script.done = 11
  <2>1. next = "publish" /\ wired[d] = Transaction
    BY <1>3, <1>4, PlanIsComplete DEF next
  <2>2. published' = d /\ UNCHANGED wired
    BY <1>1, <2>1
  <2>3. PublishedIsWired'
    BY <1>2, <2>1, <2>2 DEF DeployInv, PublishedIsWired
  <2>4. Goes([script EXCEPT !.on = 0])
    BY <1>1, <1>4, PlanIsComplete
  <2>5. Shapes' /\ (At("deploy")' => script'.done = 0)
    BY <1>2, <2>4 DEF DeployInv, Shapes, Fields, Goes, NoScript, At
  <2> QED BY <1>2, <2>2, <2>3, <2>5 DEF DeployInv, Deployment
<1>5. CASE script.done # 11
  <2>1. script.done \in 0 .. 10
    BY <1>3, <1>5
  <2>2. next \in Transaction /\ next # "publish"
    BY <2>1, PlanIsComplete DEF next
  <2>3. wired' = [wired EXCEPT ![d] = @ \cup {next}] /\ UNCHANGED published
    BY <1>1, <2>2
  <2>4. script' = [script EXCEPT !.on = d, !.done = @ + 1]
    BY <1>1, <2>1, PlanIsComplete
  <2>5. Shapes' /\ script'.on = d /\ script'.done = script.done + 1
    BY <1>2, <2>4 DEF DeployInv, Shapes, Fields
  <2>6. wired'[d] = SentBy(script.done + 1)
    BY <1>3, <2>1, <2>3, SentNext DEF DeployInv, next
  <2>7. PublishedIsWired'
    BY <1>2, <2>2, <2>3 DEF DeployInv, PublishedIsWired, Deployment
  <2>8. wired' \in [Deployment -> SUBSET Transaction]
    BY <2>2, <2>3 DEF DeployInv
  <2> QED BY <1>2, <2>1, <2>3, <2>5, <2>6, <2>7, <2>8 DEF DeployInv
<1> QED BY <1>4, <1>5

LEMMA DeployInvHolds == OperationsSpec => []DeployInv
<1>1. OperationsInit => DeployInv
  BY OperationsAssumption
     DEF OperationsInit, DeployInv, Shapes, Fields, NoScript, At, PublishedIsWired
<1>2. DeployInv /\ [OperationsNext]_operationsVars => DeployInv'
  <2> SUFFICES ASSUME DeployInv, [OperationsNext]_operationsVars PROVE DeployInv'
    OBVIOUS
  <2>1. CASE Deploy
    BY <2>1, DeployKeepsInv
  <2>2. CASE ~Deploy
    <3>1. Bystander /\ Shapes'
      BY <2>2, ScriptsStandBy, OthersStandBy DEF OperationsNext, DeployInv
    <3> QED BY <3>1, BystandersKeepInv
  <2> QED BY <2>1, <2>2
<1> QED BY <1>1, <1>2, PTL DEF OperationsSpec

\* The file, and so every server, names only a deployment that is wired and has
\* its first Admin, however many deployments were killed half way.
THEOREM PublishedIsWiredHolds == OperationsSpec => []PublishedIsWired
<1>1. DeployInv => PublishedIsWired
  BY DEF DeployInv
<1> QED BY <1>1, DeployInvHolds, PTL

-----------------------------------------------------------------------------
(***************************************************************************)
(* The scripts: what the steps that are done have left for the next one.   *)
(***************************************************************************)
Script == [job : Job \cup {"none"}, step : Nat, on : 0 .. MaxDeployment,
           done : Nat, file : Content \cup {0}, token : Nat]

\* The script has this step behind it.
Done(name) == \E k \in 1 .. script.step - 1 : Plan[script.job][k] = name

\* A script that has uploaded holds the file, one that has minted works on a
\* deployment, and one that seeds has a step of the seed left.
ScriptInv ==
  script.job # "none" =>
    /\ script.job \in Job
    /\ script.step \in 1 .. Len(Plan[script.job])
    /\ Done("upload") => script.file \in Content
    /\ Done("mint") => script.on \in Deployment
    /\ At("seed") => script.done \in 0 .. 10

TypeInv ==
  /\ OperationsTypeOK
  /\ ScriptInv
  /\ page # NoUpload => page.file \in Content

\* The plans are sequences, in which one deploys, seeds and logs in first, mints
\* what is uploaded, asks for the token of what is minted and links last.
LEMMA PlanOrder ==
  ASSUME NEW job \in Job
  PROVE  /\ Len(Plan[job]) \in Nat
         /\ \A k \in 1 .. Len(Plan[job]) :
              /\ Plan[job][k] \in {"mint", "askTotal", "link"} =>
                   \E i \in 1 .. k - 1 : Plan[job][i] = "upload"
              /\ Plan[job][k] \in {"askTotal", "link"} =>
                   \E i \in 1 .. k - 1 : Plan[job][i] = "mint"
              /\ Plan[job][k] \in {"deploy", "seed", "login"} =>
                   \A i \in 1 .. k - 1 : Plan[job][i] # "mint"
<1>1. CASE job \in {"deploy", "seed", "look", "upload"}
  <2>1. Plan[job] \in {<<"deploy">>, <<"seed">>, <<"login", "look">>, <<"login", "upload">>}
    BY <1>1 DEF Plan
  <2>2. /\ Len(Plan[job]) \in {1, 2}
        /\ \A k \in {1, 2} : k <= Len(Plan[job]) => Plan[job][k] \in {"deploy", "seed", "login", "look", "upload"}
    BY <2>1
  <2>3. \A k \in 1 .. Len(Plan[job]) : Plan[job][k] \notin {"mint", "askTotal", "link"}
    BY <2>2
  <2> QED BY <2>2, <2>3
<1>2. CASE job = "fullUpload"
  <2>1. Plan[job] = <<"login", "upload", "mint", "askTotal", "link">>
    BY <1>2 DEF Plan
  <2>2. Len(Plan[job]) = 5 /\ Plan[job][1] = "login" /\ Plan[job][2] = "upload" /\ Plan[job][3] = "mint"
    BY <2>1
  <2>3. \A k \in 1 .. 5 : k \in {1, 2} \/ (2 \in 1 .. k - 1 /\ (k = 3 \/ 3 \in 1 .. k - 1))
    OBVIOUS
  <2>4. \A k \in 2 .. 5 : Plan[job][k] \notin {"deploy", "seed", "login"}
    BY <2>1
  <2> QED BY <2>2, <2>3, <2>4
<1>3. CASE job = "reset"
  <2>1. Plan[job] = <<"clearStorage", "clearDatabase", "migrate", "deploy", "seed", "login",
                      "upload", "mint", "askTotal", "link", "announce">>
    BY <1>3 DEF Plan, ResetPlan
  <2>2. /\ Len(Plan[job]) = 11 /\ Plan[job][7] = "upload" /\ Plan[job][8] = "mint"
        /\ \A k \in 1 .. 7 : Plan[job][k] \notin {"mint", "askTotal", "link"}
    BY <2>1
  <2>3. \A k \in 1 .. 11 : k \in 1 .. 7 \/ (7 \in 1 .. k - 1 /\ (k = 8 \/ 8 \in 1 .. k - 1))
    OBVIOUS
  <2>4. \A k \in 7 .. 11 : Plan[job][k] \notin {"deploy", "seed", "login"}
    BY <2>1
  <2>5. \A k \in 1 .. 11 : k \in 7 .. 11 \/ 1 .. k - 1 \subseteq 1 .. 7
    OBVIOUS
  <2> QED BY <2>2, <2>3, <2>4, <2>5
<1> QED BY <1>1, <1>2, <1>3 DEF Job

LEMMA StepOrder ==
  ASSUME ScriptInv
  PROVE  /\ At("mint") \/ At("askTotal") \/ At("link") => script.file \in Content
         /\ At("askTotal") \/ At("link") => script.on \in Deployment
         /\ At("deploy") \/ At("seed") \/ At("login") => ~Done("mint")
<1> SUFFICES ASSUME script.job # "none" 
    PROVE  /\ At("mint") \/ At("askTotal") \/ At("link") => script.file \in Content
           /\ At("askTotal") \/ At("link") => script.on \in Deployment
           /\ At("deploy") \/ At("seed") \/ At("login") => ~Done("mint")
  BY DEF At
<1>1. script.job \in Job /\ script.step \in 1 .. Len(Plan[script.job])
  BY DEF ScriptInv
<1>2. At("mint") \/ At("askTotal") \/ At("link") => Done("upload")
  BY <1>1, PlanOrder DEF At, Done
<1>3. At("askTotal") \/ At("link") => Done("mint")
  BY <1>1, PlanOrder DEF At, Done
<1>4. At("deploy") \/ At("seed") \/ At("login") => ~Done("mint")
  BY <1>1, PlanOrder DEF At, Done
<1> QED BY <1>2, <1>3, <1>4 DEF ScriptInv

LEMMA Dying == ASSUME Dies PROVE script' \in Script /\ ScriptInv'
<1>1. NoScript \in Script
  BY OperationsAssumption DEF NoScript, Script
<1> QED BY <1>1 DEF Dies, NoScript, ScriptInv

\* What a step has noted is there for the next one.
LEMMA Onward ==
  ASSUME ScriptInv, script.job # "none", NEW changed \in Script, Goes(changed),
         changed.job = script.job, changed.step = script.step,
         Done("upload") \/ At("upload") => changed.file \in Content,
         Done("mint") \/ At("mint") => changed.on \in Deployment
  PROVE  script' \in Script /\ ScriptInv'
<1>1. CASE Dies
  BY <1>1, Dying
<1>2. CASE ~Dies
  <2>1. script' = [changed EXCEPT !.step = @ + 1, !.done = 0] /\ script.step # Len(Plan[script.job])
    BY <1>2 DEF Goes, Dies
  <2>2. /\ script' \in Script
        /\ script'.job = script.job /\ script'.step = script.step + 1
        /\ script'.on = changed.on /\ script'.file = changed.file /\ script'.done = 0
    <3>1. script' = [job |-> changed.job, step |-> changed.step + 1, on |-> changed.on,
                     done |-> 0, file |-> changed.file, token |-> changed.token]
      BY <2>1 DEF Script
    <3>2. /\ changed.job \in Job \cup {"none"} /\ changed.step \in Nat
          /\ changed.on \in 0 .. MaxDeployment /\ changed.file \in Content \cup {0}
          /\ changed.token \in Nat
      BY DEF Script
    <3> QED BY <3>1, <3>2 DEF Script
  <2>3. script.job \in Job /\ script.step \in 1 .. Len(Plan[script.job])
    BY DEF ScriptInv
  <2>4. script'.step \in 1 .. Len(Plan[script.job]) /\ script'.step - 1 = script.step
    BY <2>1, <2>2, <2>3, PlanOrder
  <2>5. ASSUME NEW name, Done(name)' PROVE Done(name) \/ At(name)
    <3>1. PICK k \in 1 .. script.step : Plan[script.job][k] = name
      BY <2>2, <2>4, <2>5 DEF Done
    <3>2. CASE k = script.step
      BY <3>1, <3>2 DEF At
    <3>3. CASE k # script.step
      BY <2>3, <3>1, <3>3, PlanOrder DEF Done
    <3> QED BY <3>2, <3>3
  <2>6. Done("upload")' => script'.file \in Content
    BY <2>2, <2>5
  <2>7. Done("mint")' => script'.on \in Deployment
    BY <2>2, <2>5
  <2> QED BY <2>2, <2>3, <2>4, <2>6, <2>7 DEF ScriptInv
<1> QED BY <1>1, <1>2

\* A script that stays at its step, where it counts and notes its deployment.
LEMMA Staying ==
  ASSUME ScriptInv, script \in Script, NEW d \in Deployment,
         script' = [script EXCEPT !.on = d, !.done = @ + 1],
         At("seed") => script.done + 1 \in 0 .. 10
  PROVE  script' \in Script /\ ScriptInv'
<1>1. /\ script' \in Script
      /\ script'.job = script.job /\ script'.step = script.step
      /\ script'.on = d /\ script'.file = script.file /\ script'.done = script.done + 1
  <2>1. script' = [job |-> script.job, step |-> script.step, on |-> d,
                   done |-> script.done + 1, file |-> script.file, token |-> script.token]
    BY DEF Script
  <2>2. /\ script.job \in Job \cup {"none"} /\ script.step \in Nat
        /\ d \in 0 .. MaxDeployment /\ script.done \in Nat
        /\ script.file \in Content \cup {0} /\ script.token \in Nat
    BY OperationsAssumption DEF Script, Deployment
  <2> QED BY <2>1, <2>2 DEF Script
<1> QED BY <1>1 DEF ScriptInv, Done, At

\* A step of a script or of the operator that leaves what is stored and the rows
\* alone: the script keeps to its course and the rest stays typed.
LEMMA CourseIsTyped ==
  ASSUME TypeInv, script' \in Script /\ ScriptInv',
         wired' \in [Deployment -> SUBSET Transaction],
         seeded' \in [Deployment -> 0 .. Len(SeedPlan)],
         minted' \in [Deployment -> Seq(Content)],
         published' \in 0 .. MaxDeployment,
         UNCHANGED <<folder, stored, tables, rows, server, page, files>>
  PROVE  TypeInv'
<1>1. page' # NoUpload => page'.file \in Content
  BY DEF TypeInv, NoUpload
<1> QED BY <1>1 DEF TypeInv, OperationsTypeOK, Script

LEMMA FileIsContent ==
  ASSUME files \in 0 .. MaxFile, NewFile
  PROVE  files' \in 0 .. MaxFile /\ 3 + files' \in Content
BY OperationsAssumption DEF NewFile, Content

LEMMA MintsContent == ASSUME NEW step PROVE Mints(step) \in Seq(Content)
<1>1. SPECS \in Content /\ BOM \in Content /\ BUDGET \in Content
  BY OperationsAssumption DEF SPECS, BOM, BUDGET, Content
<1>2. \A c \in Content : <<c>> \in Seq(Content)
  OBVIOUS
<1>3. \/ Mints(step) = <<SPECS>> \/ Mints(step) = <<BOM>>
      \/ Mints(step) = <<BUDGET>> \/ Mints(step) = <<>>
  BY DEF Mints
<1> QED BY <1>1, <1>2, <1>3, EmptySeq

LEMMA SeedPlanLength == Len(SeedPlan) = 11
BY DEF SeedPlan

LEMMA DeployIsTyped ==
  ASSUME TypeInv, DeployInv, DeployInv', Deploy
  PROVE  TypeInv'
<1>1. PICK d \in Deployment :
        IF script.done + 1 = Len(DeployPlan) THEN Goes([script EXCEPT !.on = 0])
        ELSE script' = [script EXCEPT !.on = d, !.done = @ + 1]
  BY DEF Deploy
<1>2. At("deploy") /\ script \in Script /\ ScriptInv
  BY DEF Deploy, TypeInv, OperationsTypeOK, Script
<1>3. script' \in Script /\ ScriptInv'
  <2>1. CASE script' = [script EXCEPT !.on = d, !.done = @ + 1]
    BY <1>2, <2>1, Staying DEF At
  <2>2. CASE Goes([script EXCEPT !.on = 0])
    <3>1. /\ [script EXCEPT !.on = 0] \in Script
          /\ [script EXCEPT !.on = 0].job = script.job
          /\ [script EXCEPT !.on = 0].step = script.step
          /\ [script EXCEPT !.on = 0].file = script.file
      BY <1>2, OperationsAssumption DEF Script
    <3>2. ~Done("mint") /\ ~At("mint") /\ ~At("upload")
      BY <1>2, StepOrder DEF At
    <3> HIDE DEF Script
    <3> QED BY <1>2, <2>2, <3>1, <3>2, Onward DEF At, ScriptInv
  <2> QED BY <1>1, <2>1, <2>2
<1>4. UNCHANGED <<seeded, minted, folder, stored, tables, rows, server, page, files>>
  BY DEF Deploy
<1>5. seeded' \in [Deployment -> 0 .. Len(SeedPlan)] /\ minted' \in [Deployment -> Seq(Content)]
  BY <1>4 DEF TypeInv, OperationsTypeOK
<1> QED BY <1>3, <1>4, <1>5, CourseIsTyped DEF DeployInv

LEMMA SeedIsTyped ==
  ASSUME TypeInv, Seed
  PROVE  TypeInv'
<1> DEFINE d == IF script.done = 0 THEN published ELSE script.on
           steps == Mints(SeedPlan[script.done + 1])
<1>1. At("seed") /\ script \in Script /\ ScriptInv
  BY DEF Seed, TypeInv, OperationsTypeOK, Script
<1>2. UNCHANGED <<wired, published, folder, stored, tables, rows, server, page, files>>
  BY DEF Seed
<1>3. script.done \in 0 .. 10
  BY <1>1 DEF ScriptInv, At
<1>4. seeded \in [Deployment -> 0 .. 11] /\ minted \in [Deployment -> Seq(Content)]
  BY SeedPlanLength DEF TypeInv, OperationsTypeOK
<1>5. wired' \in [Deployment -> SUBSET Transaction] /\ published' \in 0 .. MaxDeployment
  BY <1>2 DEF TypeInv, OperationsTypeOK
<1>6. CASE Dies /\ UNCHANGED <<seeded, minted>>
  BY <1>2, <1>4, <1>5, <1>6, Dying, CourseIsTyped, SeedPlanLength
<1>7. CASE /\ d # 0 /\ seeded[d] = script.done
           /\ seeded' = [seeded EXCEPT ![d] = @ + 1]
           /\ minted' = [minted EXCEPT ![d] = @ \o steps]
           /\ IF script.done + 1 = Len(SeedPlan) THEN Goes([script EXCEPT !.on = 0])
              ELSE script' = [script EXCEPT !.on = d, !.done = @ + 1]
  <2>1. d \in Deployment
    BY <1>1, <1>7, OperationsAssumption DEF TypeInv, OperationsTypeOK, Script, Deployment
  <2> HIDE DEF d
  <2>2. seeded' \in [Deployment -> 0 .. 11]
    BY <1>3, <1>4, <1>7, <2>1
  <2>3. steps \in Seq(Content)
    BY MintsContent
  <2>4. minted' \in [Deployment -> Seq(Content)]
    <3>1. minted[d] \o steps \in Seq(Content)
      BY <1>4, <2>1, <2>3, ConcatProperties
    <3> QED BY <1>4, <1>7, <2>1, <3>1
  <2>5. script' \in Script /\ ScriptInv'
    <3>1. CASE script.done # 10
      <4>1. script' = [script EXCEPT !.on = d, !.done = @ + 1]
        BY <1>3, <1>7, <3>1, SeedPlanLength
      <4>2. script.done + 1 \in 0 .. 10
        BY <1>3, <3>1
      <4> QED BY <1>1, <2>1, <4>1, <4>2, Staying DEF At
    <3>2. CASE script.done = 10
      <4>1. /\ [script EXCEPT !.on = 0] \in Script
            /\ [script EXCEPT !.on = 0].job = script.job
            /\ [script EXCEPT !.on = 0].step = script.step
            /\ [script EXCEPT !.on = 0].file = script.file
        BY <1>1, OperationsAssumption DEF Script
      <4>2. ~Done("mint") /\ ~At("mint") /\ ~At("upload")
        BY <1>1, StepOrder DEF At
      <4>3. Goes([script EXCEPT !.on = 0])
        BY <1>7, <3>2, SeedPlanLength
      <4> QED BY <1>1, <4>1, <4>2, <4>3, Onward DEF At, ScriptInv
    <3> QED BY <3>1, <3>2
  <2> QED BY <1>2, <1>5, <2>2, <2>4, <2>5, CourseIsTyped, SeedPlanLength
<1> QED BY <1>6, <1>7 DEF Seed

\* The steps that note something for the next one, or nothing.
LEMMA NotedIsScript ==
  ASSUME script \in Script
  PROVE  /\ \A x \in 0 .. MaxDeployment :
              LET s == [script EXCEPT !.on = x]
              IN s \in Script /\ s.job = script.job /\ s.step = script.step /\ s.file = script.file
         /\ \A x \in Content :
              LET s == [script EXCEPT !.file = x]
              IN s \in Script /\ s.job = script.job /\ s.step = script.step
                 /\ s.on = script.on /\ s.file = x
         /\ \A x \in Nat :
              LET s == [script EXCEPT !.token = x]
              IN s \in Script /\ s.job = script.job /\ s.step = script.step
                 /\ s.on = script.on /\ s.file = script.file
BY DEF Script

LEMMA OnwardAsIs ==
  ASSUME TypeInv, script.job # "none", Goes(script),
         At("upload") => script.file \in Content, At("mint") => script.on \in Deployment
  PROVE  script' \in Script /\ ScriptInv'
<1>1. script \in Script /\ ScriptInv
  BY DEF TypeInv, OperationsTypeOK, Script
<1> QED BY <1>1, Onward DEF ScriptInv

LEMMA RowsAreTyped ==
  ASSUME rows \in [Asset -> Content \cup {0}], NEW t, NEW file \in Content \cup {0},
         Links(t, file)
  PROVE  rows' \in [Asset -> Content \cup {0}]
BY DEF Links

LEMMA ClientsAreTyped ==
  ASSUME TypeInv, Login \/ Look \/ UploadFile \/ MintFile \/ AskTotal \/ LinkFile
  PROVE  TypeInv'
<1> USE OperationsAssumption
<1>1. script \in Script /\ ScriptInv /\ OperationsTypeOK
  BY DEF TypeInv, OperationsTypeOK, Script
<1>2. minted \in [Deployment -> Seq(Content)] /\ server \in [up : BOOLEAN, on : 0 .. MaxDeployment, connected : BOOLEAN]
  BY <1>1 DEF OperationsTypeOK
<1>3. CASE Login
  <2>1. UNCHANGED <<wired, seeded, minted, published, folder, stored, tables, rows, server, page, files>>
    BY <1>3 DEF Login
  <2>2. Dies \/ Goes([script EXCEPT !.on = published])
    BY <1>3 DEF Login
  <2>3. At("login") /\ ~Done("mint") /\ ~At("mint") /\ ~At("upload") /\ published \in 0 .. MaxDeployment
    BY <1>1, <1>3, StepOrder DEF Login, At, OperationsTypeOK
  <2>4. script' \in Script /\ ScriptInv'
    BY <1>1, <2>2, <2>3, Onward, Dying, NotedIsScript DEF ScriptInv, At
  <2> QED BY <2>1, <2>4, CourseIsTyped DEF TypeInv, OperationsTypeOK
<1>4. CASE Look
  <2>1. script' \in Script /\ ScriptInv'
    BY <1>4, OnwardAsIs DEF Look, At
  <2>2. UNCHANGED <<wired, seeded, minted, published, folder, stored, tables, rows, page, files>>
    BY <1>4 DEF Look
  <2>3. server' \in [up : BOOLEAN, on : 0 .. MaxDeployment, connected : BOOLEAN]
    BY <1>2, <1>4 DEF Look
  <2> QED BY <2>1, <2>2, <2>3 DEF TypeInv, OperationsTypeOK, Script, NoUpload
<1>5. CASE UploadFile
  <2>1. UNCHANGED <<wired, seeded, minted, published, folder, tables, rows, server, page>>
    BY <1>5 DEF UploadFile
  <2>2. files' \in 0 .. MaxFile /\ stored' \subseteq Content
    BY <1>1, <1>5, FileIsContent DEF UploadFile, OperationsTypeOK
  <2>3. script' \in Script /\ ScriptInv'
    <3>1. Dies \/ (3 + files' \in Content /\ Goes([script EXCEPT !.file = 3 + files']))
      BY <1>1, <1>5, FileIsContent DEF UploadFile, OperationsTypeOK
    <3>2. ~At("mint") /\ script.job # "none"
      BY <1>5 DEF UploadFile, At
    <3> QED BY <1>1, <3>1, <3>2, Onward, Dying, NotedIsScript DEF ScriptInv
  <2> QED BY <2>1, <2>2, <2>3 DEF TypeInv, OperationsTypeOK, Script, NoUpload
<1>6. CASE MintFile
  <2>1. UNCHANGED <<wired, seeded, published, folder, stored, tables, rows, server, page, files>>
    BY <1>6 DEF MintFile
  <2>2. script.file \in Content /\ At("mint") /\ ~At("upload") /\ script.job # "none"
    BY <1>1, <1>6, StepOrder DEF MintFile, At
  <2>3. CASE Dies /\ UNCHANGED minted
    BY <1>1, <2>1, <2>3, Dying, CourseIsTyped DEF OperationsTypeOK
  <2>4. CASE /\ Registered(script.on, 2) /\ Goes(script)
             /\ minted' = [minted EXCEPT ![script.on] = Append(@, script.file)]
    <3>1. script.on \in Deployment
      BY <1>1, <2>4 DEF Registered, Script, Deployment
    <3>2. minted' \in [Deployment -> Seq(Content)]
      <4>1. Append(minted[script.on], script.file) \in Seq(Content)
        BY <1>2, <2>2, <3>1, AppendProperties
      <4> QED BY <1>2, <2>4, <3>1, <4>1
    <3>3. script' \in Script /\ ScriptInv'
      BY <2>2, <2>4, <3>1, OnwardAsIs
    <3> QED BY <1>1, <2>1, <3>2, <3>3, CourseIsTyped DEF OperationsTypeOK
  <2> QED BY <1>6, <2>3, <2>4 DEF MintFile
<1>7. CASE AskTotal
  <2>1. UNCHANGED <<wired, seeded, minted, published, folder, stored, tables, rows, server, page, files>>
    BY <1>7 DEF AskTotal
  <2>2. At("askTotal") /\ script.on \in Deployment /\ ~At("upload") /\ ~At("mint") /\ script.job # "none"
    BY <1>1, <1>7, StepOrder DEF AskTotal, At
  <2>3. Len(minted[script.on]) \in Nat
    BY <1>2, <2>2, LenProperties
  <2>4. Goes([script EXCEPT !.token = Len(minted[script.on])])
    BY <1>7 DEF AskTotal
  <2>5. script' \in Script /\ ScriptInv'
    BY <1>1, <2>2, <2>3, <2>4, Onward, NotedIsScript DEF ScriptInv
  <2> QED BY <1>1, <2>1, <2>5, CourseIsTyped DEF OperationsTypeOK
<1>8. CASE LinkFile
  <2>1. UNCHANGED <<wired, seeded, minted, published, folder, stored, tables, page, files>>
    BY <1>8 DEF LinkFile
  <2>2. At("link") /\ script.file \in Content /\ ~At("upload") /\ ~At("mint") /\ script.job # "none"
    BY <1>1, <1>8, StepOrder DEF LinkFile, At
  <2>3. script' \in Script /\ ScriptInv'
    BY <1>8, <2>2, OnwardAsIs, Dying DEF LinkFile
  <2>4. server' \in [up : BOOLEAN, on : 0 .. MaxDeployment, connected : BOOLEAN]
    BY <1>2, <1>8 DEF LinkFile
  <2>5. rows' \in [Asset -> Content \cup {0}]
    BY <1>1, <1>8, <2>2, RowsAreTyped DEF LinkFile, OperationsTypeOK
  <2> QED BY <2>1, <2>3, <2>4, <2>5 DEF TypeInv, OperationsTypeOK, Script, NoUpload
<1> QED BY <1>3, <1>4, <1>5, <1>6, <1>7, <1>8

LEMMA ResetIsTyped ==
  ASSUME TypeInv, ClearStorage \/ ClearDatabase \/ Migrate \/ Announce
  PROVE  TypeInv'
<1>1. script' \in Script /\ ScriptInv'
  <2>1. script.job # "none" /\ ~At("mint") /\ ~At("upload")
    BY DEF ClearStorage, ClearDatabase, Migrate, Announce, At
  <2> QED BY <2>1, OnwardAsIs, Dying DEF ClearStorage, ClearDatabase, Migrate, Announce
<1>2. UNCHANGED <<wired, seeded, minted, published, server, page, files>>
  BY DEF ClearStorage, ClearDatabase, Migrate, Announce
<1>3. tables' \in BOOLEAN /\ rows' \in [Asset -> Content \cup {0}]
  BY DEF ClearStorage, ClearDatabase, Migrate, Announce, TypeInv, OperationsTypeOK
<1>4. stored' \subseteq Content /\ folder' \in BOOLEAN
  BY DEF ClearStorage, ClearDatabase, Migrate, Announce, TypeInv, OperationsTypeOK
<1> QED BY <1>1, <1>2, <1>3, <1>4 DEF TypeInv, OperationsTypeOK, Script, NoUpload

LEMMA OthersAreTyped ==
  ASSUME TypeInv, OperatorStep \/ PageMint \/ PageLink
  PROVE  TypeInv'
<1> USE OperationsAssumption
<1>1. script \in Script /\ ScriptInv /\ OperationsTypeOK
  BY DEF TypeInv, OperationsTypeOK, Script
<1>2. minted \in [Deployment -> Seq(Content)] /\ server \in [up : BOOLEAN, on : 0 .. MaxDeployment, connected : BOOLEAN]
  BY <1>1 DEF OperationsTypeOK
<1>3. ASSUME NEW job \in Job, Start(job)
      PROVE  TypeInv'
  <2>1. script' = [job |-> job, step |-> 1, on |-> 0, done |-> 0, file |-> 0, token |-> 0]
    BY <1>3 DEF Start, NoScript
  <2>2. script' \in Script
    BY <2>1 DEF Script
  <2>3. Len(Plan[job]) >= 1 /\ Len(Plan[job]) \in Nat
    BY DEF Plan, Job, ResetPlan
  <2>4. ScriptInv'
    <3>1. 1 \in 1 .. Len(Plan[job])
      BY <2>3
    <3> QED BY <2>1, <3>1 DEF ScriptInv, Done
  <2> QED BY <1>1, <1>3, <2>2, <2>4, CourseIsTyped DEF Start, OperationsTypeOK
<1>4. CASE Kill
  BY <1>1, <1>4, Dying, CourseIsTyped DEF Kill, OperationsTypeOK
<1>5. CASE StartServer \/ StopServer
  <2>1. server' \in [up : BOOLEAN, on : 0 .. MaxDeployment, connected : BOOLEAN]
    <3>1. CASE StartServer
      BY <1>1, <3>1 DEF StartServer, OperationsTypeOK
    <3>2. CASE StopServer
      BY <1>2, <3>2 DEF StopServer
    <3> QED BY <1>5, <3>1, <3>2
  <2>2. /\ UNCHANGED <<wired, seeded, minted, published, stored, tables, rows, script, page, files>>
        /\ folder' \in BOOLEAN
    BY <1>1, <1>5 DEF StartServer, StopServer, OperationsTypeOK
  <2>3. ScriptInv'
    BY <1>1, <2>2 DEF ScriptInv, Done, At
  <2> QED BY <2>1, <2>2, <2>3 DEF TypeInv, OperationsTypeOK, NoUpload
<1>6. CASE PageMint
  <2>1. UNCHANGED <<wired, seeded, published, folder, tables, rows, server, script>>
    BY <1>6 DEF PageMint
  <2>2. ScriptInv'
    BY <1>1, <2>1 DEF ScriptInv, Done, At
  <2>3. files' \in 0 .. MaxFile /\ 3 + files' \in Content
    BY <1>1, <1>6, FileIsContent DEF PageMint, OperationsTypeOK
  <2>4. server.on \in Deployment
    BY <1>2, <1>6 DEF PageMint, Registered, Deployment
  <2>5. minted' \in [Deployment -> Seq(Content)]
    <3>1. Append(minted[server.on], 3 + files') \in Seq(Content)
      BY <1>2, <2>3, <2>4, AppendProperties
    <3> QED BY <1>2, <1>6, <2>4, <3>1 DEF PageMint
  <2>6. page' = [file |-> 3 + files', token |-> Len(minted'[server.on])]
    BY <1>6 DEF PageMint
  <2>7. Len(minted'[server.on]) \in Nat
    BY <2>4, <2>5, LenProperties
  <2>8. page' \in [file : Content \cup {0}, token : Nat] /\ page'.file \in Content
    BY <2>3, <2>6, <2>7
  <2>9. stored' \subseteq Content
    BY <1>1, <1>6, <2>3 DEF PageMint, OperationsTypeOK
  <2> QED BY <2>1, <2>2, <2>3, <2>5, <2>8, <2>9 DEF TypeInv, OperationsTypeOK
<1>7. CASE PageLink
  <2>1. UNCHANGED <<wired, seeded, minted, published, folder, stored, tables, script, files>>
    BY <1>7 DEF PageLink
  <2>2. ScriptInv'
    BY <1>1, <2>1 DEF ScriptInv, Done, At
  <2>3. server' \in [up : BOOLEAN, on : 0 .. MaxDeployment, connected : BOOLEAN]
    BY <1>2, <1>7 DEF PageLink
  <2>4. rows' \in [Asset -> Content \cup {0}]
    BY <1>7, RowsAreTyped DEF PageLink, TypeInv, OperationsTypeOK
  <2>5. page' = NoUpload /\ page' \in [file : Content \cup {0}, token : Nat]
    BY <1>7 DEF PageLink, NoUpload
  <2> QED BY <2>1, <2>2, <2>3, <2>4, <2>5 DEF TypeInv, OperationsTypeOK
<1> QED BY <1>3, <1>4, <1>5, <1>6, <1>7 DEF OperatorStep

LEMMA InitIsTyped == OperationsInit => TypeInv
<1> SUFFICES ASSUME OperationsInit PROVE TypeInv
  OBVIOUS
<1> USE OperationsAssumption
<1>1. script \in Script /\ ScriptInv
  BY DEF OperationsInit, NoScript, Script, ScriptInv
<1>2. wired \in [Deployment -> SUBSET Transaction] /\ seeded \in [Deployment -> 0 .. Len(SeedPlan)]
  BY SeedPlanLength DEF OperationsInit
<1>3. minted \in [Deployment -> Seq(Content)]
  <2>1. <<>> \in Seq(Content)
    OBVIOUS
  <2> QED BY <2>1 DEF OperationsInit
<1>4. server \in [up : BOOLEAN, on : 0 .. MaxDeployment, connected : BOOLEAN]
  BY DEF OperationsInit
<1>5. page \in [file : Content \cup {0}, token : Nat] /\ page = NoUpload
  BY DEF OperationsInit, NoUpload
<1>6. rows \in [Asset -> Content \cup {0}]
  BY DEF OperationsInit
<1>7. published \in 0 .. MaxDeployment /\ files \in 0 .. MaxFile
  BY DEF OperationsInit
<1>8. folder \in BOOLEAN /\ tables \in BOOLEAN /\ stored \subseteq Content
  BY Zenon DEF OperationsInit
<1> HIDE OperationsAssumption
<1> QED
  BY <1>1, <1>2, <1>3, <1>4, <1>5, <1>6, <1>7, <1>8 DEF TypeInv, OperationsTypeOK, Script

LEMMA StepsAreTyped ==
  ASSUME TypeInv, DeployInv, DeployInv', [OperationsNext]_operationsVars
  PROVE  TypeInv'
<1>1. CASE ScriptStep
  BY <1>1, DeployIsTyped, SeedIsTyped, ClientsAreTyped, ResetIsTyped DEF ScriptStep
<1>2. CASE OperatorStep \/ PageMint \/ PageLink
  BY <1>2, OthersAreTyped
<1>3. CASE UNCHANGED operationsVars
  BY <1>3 DEF TypeInv, OperationsTypeOK, ScriptInv, Done, At, operationsVars, NoUpload
<1> QED BY <1>1, <1>2, <1>3 DEF OperationsNext

LEMMA TypeInvHolds == OperationsSpec => []TypeInv
<1>1. TypeInv /\ DeployInv /\ DeployInv' /\ [OperationsNext]_operationsVars => TypeInv'
  BY StepsAreTyped
<1> QED BY <1>1, InitIsTyped, DeployInvHolds, PTL DEF OperationsSpec

\* Whatever scripts run, are killed and fail: every script that goes on finds the
\* file, the deployment and the counts that its step is about.
THEOREM OperationsTypeCorrect == OperationsSpec => []OperationsTypeOK
<1>1. TypeInv => OperationsTypeOK
  BY DEF TypeInv
<1> QED BY <1>1, TypeInvHolds, PTL

-----------------------------------------------------------------------------
(***************************************************************************)
(* The rows of the database, where the operator keeps to both rules.       *)
(***************************************************************************)

\* No server runs between the start of a reset and its deployment, so what the
\* reset has cleared stays empty until the file names the new deployment; a
\* first deployment finds an empty database.
RowsInv ==
  /\ server.up => server.on = published /\ published # 0
  /\ \A t \in Asset : rows[t] # 0 => OnChain(published, t) = rows[t]
  /\ script.job = "deploy" => published = 0
  /\ Redeploying => ~server.up
  /\ (Redeploying /\ script.step > Position("clearDatabase")) => \A t \in Asset : rows[t] = 0

LEMMA Positions ==
  /\ Position("clearDatabase") = 2 /\ Position("deploy") = 4
  /\ Plan["reset"] = ResetPlan /\ Len(ResetPlan) = 11
  /\ \A k \in 1 .. 11 : /\ ResetPlan[k] = "clearDatabase" <=> k = 2
                        /\ ResetPlan[k] = "deploy" <=> k = 4
  /\ Plan["deploy"] = <<"deploy">>
<1>1. Len(ResetPlan) = 11 /\ Plan["reset"] = ResetPlan /\ Plan["deploy"] = <<"deploy">>
  BY DEF ResetPlan, Plan
<1>2. \A k \in 1 .. 11 : /\ ResetPlan[k] = "clearDatabase" <=> k = 2
                         /\ ResetPlan[k] = "deploy" <=> k = 4
  <2> SUFFICES ASSUME NEW k \in 1 .. 11
               PROVE  /\ ResetPlan[k] = "clearDatabase" <=> k = 2
                      /\ ResetPlan[k] = "deploy" <=> k = 4
    OBVIOUS
  <2>1. k \in {1, 2, 3, 4, 5, 6, 7, 8, 9, 10, 11}
    OBVIOUS
  <2> QED BY <2>1 DEF ResetPlan
<1>3. Position("clearDatabase") = 2 /\ Position("deploy") = 4
  BY <1>1, <1>2 DEF Position
<1> QED BY <1>1, <1>2, <1>3

LEMMA DeployIsAt ==
  ASSUME NEW job \in Job, NEW k \in 1 .. Len(Plan[job]), Plan[job][k] = "deploy"
  PROVE  \/ job = "deploy" /\ k = 1
         \/ job = "reset" /\ k = 4
<1>1. CASE job \in {"seed", "look", "upload"}
  <2>1. Plan[job] \in {<<"seed">>, <<"login", "look">>, <<"login", "upload">>}
    BY <1>1 DEF Plan
  <2>2. /\ Len(Plan[job]) \in {1, 2}
        /\ \A i \in {1, 2} : i <= Len(Plan[job]) => Plan[job][i] # "deploy"
    BY <2>1
  <2> QED BY <2>2
<1>2. CASE job = "fullUpload"
  <2>1. Plan[job] = <<"login", "upload", "mint", "askTotal", "link">>
    BY <1>2 DEF Plan
  <2>2. Len(Plan[job]) = 5 /\ \A i \in 1 .. 5 : Plan[job][i] # "deploy"
    BY <2>1
  <2> QED BY <2>2
<1>3. CASE job = "deploy"
  <2>1. Plan[job] = <<"deploy">>
    BY <1>3 DEF Plan
  <2> QED BY <1>3, <2>1
<1>4. CASE job = "reset"
  BY <1>4, Positions
<1> QED BY <1>1, <1>2, <1>3, <1>4 DEF Job

\* What is on the chain stays there, at its number.
LEMMA AppendedStays ==
  ASSUME minted \in [Deployment -> Seq(Content)], NEW d \in Deployment,
         NEW more \in Seq(Content), minted'[d] = minted[d] \o more,
         \A x \in Deployment \ {d} : minted'[x] = minted[x],
         NEW e \in 0 .. MaxDeployment, NEW t, OnChain(e, t) # 0
  PROVE  OnChain(e, t)' = OnChain(e, t)
<1>1. e \in Deployment /\ t \in 1 .. Len(minted[e]) /\ OnChain(e, t) = minted[e][t]
  BY OperationsAssumption DEF OnChain, Deployment
<1>2. CASE e # d
  BY <1>1, <1>2 DEF OnChain
<1>3. CASE e = d
  <2>1. minted'[e] = minted[e] \o more
    BY <1>1, <1>3
  <2>2. /\ t \in 1 .. Len(minted[e] \o more)
        /\ (minted[e] \o more)[t] = minted[e][t]
    BY <1>1, ConcatProperties
  <2> QED BY <1>1, <2>1, <2>2 DEF OnChain, Deployment
<1> QED BY <1>2, <1>3

LEMMA ChainGrows ==
  ASSUME TypeInv, [OperationsNext]_operationsVars,
         NEW e \in 0 .. MaxDeployment, NEW t, OnChain(e, t) # 0
  PROVE  OnChain(e, t)' = OnChain(e, t)
<1>1. minted \in [Deployment -> Seq(Content)]
  BY DEF TypeInv, OperationsTypeOK
<1>2. CASE UNCHANGED minted
  BY <1>2 DEF OnChain
<1>3. ASSUME NEW d \in Deployment, NEW more \in Seq(Content), minted'[d] = minted[d] \o more,
             \A x \in Deployment \ {d} : minted'[x] = minted[x]
      PROVE  OnChain(e, t)' = OnChain(e, t)
  BY <1>1, <1>3, AppendedStays
<1>4. \A d \in Deployment, c \in Content :
        <<c>> \in Seq(Content) /\ Append(minted[d], c) = minted[d] \o <<c>>
  BY <1>1, AppendIsConcat
<1>5. CASE Seed
  <2> DEFINE d == IF script.done = 0 THEN published ELSE script.on
  <2>1. \/ UNCHANGED minted
        \/ d # 0 /\ minted' = [minted EXCEPT ![d] = @ \o Mints(SeedPlan[script.done + 1])]
    BY <1>5 DEF Seed
  <2>2. d \in 0 .. MaxDeployment
    BY DEF TypeInv, OperationsTypeOK
  <2> HIDE DEF d
  <2> DEFINE more == Mints(SeedPlan[script.done + 1])
  <2>3. more \in Seq(Content)
    BY MintsContent
  <2>4. CASE d # 0 /\ minted' = [minted EXCEPT ![d] = @ \o more]
    <3>1. d \in Deployment
      BY <2>2, <2>4, OperationsAssumption DEF Deployment
    <3> HIDE DEF more
    <3>2. minted'[d] = minted[d] \o more /\ \A x \in Deployment \ {d} : minted'[x] = minted[x]
      BY <1>1, <2>4, <3>1
    <3> QED BY <1>3, <2>3, <3>1, <3>2
  <2> QED BY <1>2, <2>1, <2>4
<1>6. CASE MintFile
  <2>1. script.file \in Content /\ script.on \in 0 .. MaxDeployment
    BY <1>6, StepOrder DEF MintFile, TypeInv, OperationsTypeOK
  <2>2. \/ UNCHANGED minted
        \/ script.on # 0 /\ minted' = [minted EXCEPT ![script.on] = Append(@, script.file)]
    BY <1>6 DEF MintFile, Registered
  <2>3. CASE script.on # 0 /\ minted' = [minted EXCEPT ![script.on] = Append(@, script.file)]
    <3>1. script.on \in Deployment
      BY <2>1, <2>3, OperationsAssumption DEF Deployment
    <3>2. /\ minted'[script.on] = minted[script.on] \o <<script.file>>
          /\ \A x \in Deployment \ {script.on} : minted'[x] = minted[x]
      BY <1>1, <1>4, <2>1, <2>3, <3>1
    <3>3. <<script.file>> \in Seq(Content)
      BY <2>1
    <3> QED BY <1>3, <3>1, <3>2, <3>3
  <2> QED BY <1>2, <2>2, <2>3
<1>7. CASE PageMint
  <2>1. 3 + files' \in Content /\ server.on \in 0 .. MaxDeployment
    BY <1>7, FileIsContent DEF PageMint, TypeInv, OperationsTypeOK
  <2>2. server.on # 0 /\ minted' = [minted EXCEPT ![server.on] = Append(@, 3 + files')]
    BY <1>7 DEF PageMint, Registered
  <2>3. server.on \in Deployment
    BY <2>1, <2>2, OperationsAssumption DEF Deployment
  <2>4. /\ minted'[server.on] = minted[server.on] \o <<3 + files'>>
        /\ \A x \in Deployment \ {server.on} : minted'[x] = minted[x]
    BY <1>1, <1>4, <2>1, <2>2, <2>3
  <2>5. <<3 + files'>> \in Seq(Content)
    BY <2>1
  <2> QED BY <1>3, <2>3, <2>4, <2>5
<1>8. CASE ScriptStep /\ ~Seed /\ ~MintFile
  BY <1>2, <1>8 DEF ScriptStep, ClearStorage, ClearDatabase, Migrate, Announce, Deploy, Login,
                    Look, UploadFile, AskTotal, LinkFile
<1>9. CASE OperatorStep \/ PageLink \/ UNCHANGED operationsVars
  BY <1>2, <1>9 DEF OperatorStep, Start, Kill, StartServer, StopServer, PageLink, operationsVars
<1> QED BY <1>5, <1>6, <1>7, <1>8, <1>9 DEF OperationsNext

\* How a script's step leaves the script: at its end, where it was or at the
\* next step.
LEMMA ScriptMoves ==
  ASSUME TypeInv, ScriptStep
  PROVE  \/ script' = NoScript
         \/ script'.job = script.job /\ script'.step = script.step + 1
         \/ script'.job = script.job /\ script'.step = script.step /\ (Deploy \/ Seed)
<1>1. script \in Script
  BY DEF TypeInv, OperationsTypeOK, Script
<1>2. /\ \A x : [script EXCEPT !.on = x].job = script.job /\ [script EXCEPT !.on = x].step = script.step
      /\ \A x : [script EXCEPT !.file = x].job = script.job /\ [script EXCEPT !.file = x].step = script.step
      /\ \A x : [script EXCEPT !.token = x].job = script.job /\ [script EXCEPT !.token = x].step = script.step
      /\ \A x : Fields([script EXCEPT !.on = x]) /\ Fields([script EXCEPT !.file = x])
                /\ Fields([script EXCEPT !.token = x])
  BY <1>1 DEF Script, Fields
<1>3. Fields(script)
  BY <1>1 DEF Script, Fields
<1>4. ASSUME NEW changed, Fields(changed), Goes(changed),
             changed.job = script.job, changed.step = script.step
      PROVE  \/ script' = NoScript
             \/ script'.job = script.job /\ script'.step = script.step + 1
  BY <1>4 DEF Goes, Fields
<1>5. CASE ClearStorage \/ ClearDatabase \/ Migrate \/ Announce \/ Look \/ MintFile \/ LinkFile
  BY <1>3, <1>4, <1>5 DEF ClearStorage, ClearDatabase, Migrate, Announce, Look, MintFile, LinkFile, Dies
<1>6. CASE Deploy \/ Seed
  <2>1. PICK d : \/ Goes([script EXCEPT !.on = 0])
                 \/ script' = [script EXCEPT !.on = d, !.done = @ + 1]
                 \/ script' = NoScript
    BY <1>6 DEF Deploy, Seed, Dies
  <2>2. CASE script' = [script EXCEPT !.on = d, !.done = @ + 1]
    BY <1>1, <1>6, <2>2 DEF Script
  <2> QED BY <1>2, <1>4, <2>1, <2>2
<1>7. CASE Login \/ UploadFile \/ AskTotal
  BY <1>2, <1>4, <1>7 DEF Login, UploadFile, AskTotal, Dies
<1> QED BY <1>5, <1>6, <1>7 DEF ScriptStep

\* Rows that were of the chain still are after a step that writes no other file.
LEMMA SameChain ==
  ASSUME TypeInv, [OperationsNext]_operationsVars, UNCHANGED published,
         \A x \in Asset : rows'[x] # 0 => OnChain(published, x) = rows'[x]
  PROVE  \A x \in Asset : rows'[x] # 0 => OnChain(published, x)' = rows'[x]
<1> SUFFICES ASSUME NEW x \in Asset, rows'[x] # 0
             PROVE  OnChain(published, x)' = rows'[x]
  OBVIOUS
<1>1. PICK e \in 0 .. MaxDeployment : e = published
  BY DEF TypeInv, OperationsTypeOK
<1>2. OnChain(e, x) = rows'[x]
  BY <1>1
<1>3. OnChain(e, x)' = OnChain(e, x)
  BY <1>2, ChainGrows
<1>4. OnChain(published, x)' = OnChain(e, x)'
  BY <1>1 DEF OnChain
<1> QED BY <1>2, <1>3, <1>4

\* A link writes what the server's chain has.
LEMMA LinkKeepsRows ==
  ASSUME TypeInv, RowsInv, server.up, NEW t, NEW file, Links(t, file)
  PROVE  \A x \in Asset : rows'[x] # 0 => OnChain(published, x) = rows'[x]
<1>1. server.on = published
  BY DEF RowsInv
<1>2. rows \in [Asset -> Content \cup {0}]
  BY DEF TypeInv, OperationsTypeOK
<1>3. CASE OnChain(server.on, t) = file
  <2>1. rows' = [rows EXCEPT ![t] = file]
    BY <1>3 DEF Links
  <2>2. ASSUME NEW x \in Asset, rows'[x] # 0 PROVE OnChain(published, x) = rows'[x]
    BY <1>1, <1>2, <1>3, <2>1, <2>2 DEF RowsInv
  <2> QED BY <2>2
<1>4. CASE OnChain(server.on, t) # file
  BY <1>4 DEF Links, RowsInv
<1> QED BY <1>3, <1>4

LEMMA ScriptStepsKeepRows ==
  ASSUME TypeInv, DeployInv, RowsInv, ScriptStep
  PROVE  RowsInv'
<1> USE OperationsAssumption
<1>1. script.job \in Job /\ script.step \in 1 .. Len(Plan[script.job])
  BY DEF ScriptStep, ClearStorage, ClearDatabase, Migrate, Announce, Deploy, Seed, Login, Look,
         UploadFile, MintFile, AskTotal, LinkFile, At, TypeInv, ScriptInv
<1>2. server'.up = server.up /\ server'.on = server.on
  BY DEF ScriptStep, ClearStorage, ClearDatabase, Migrate, Announce, Deploy, Seed, Login, Look,
         UploadFile, MintFile, AskTotal, LinkFile, TypeInv, OperationsTypeOK
<1>3. Redeploying' => Redeploying
  BY <1>1, ScriptMoves, Positions DEF Redeploying, NoScript
<1>4. [OperationsNext]_operationsVars
  BY DEF OperationsNext
<1>5. CASE Deploy
  <2>1. At("deploy") /\ UNCHANGED rows
    BY <1>5 DEF Deploy
  <2>2. \/ script.job = "deploy" /\ script.step = 1
        \/ script.job = "reset" /\ script.step = 4
    BY <1>1, <2>1, DeployIsAt DEF At
  <2>3. ~server.up /\ \A t \in Asset : rows[t] = 0
    BY <2>2, Positions DEF RowsInv, Redeploying, OnChain
  <2>4. CASE UNCHANGED published
    BY <1>2, <1>3, <2>1, <2>3, <2>4, ScriptMoves DEF RowsInv, NoScript
  <2>5. CASE published' # published
    <3>1. script.done \in 0 .. 11
      BY <2>1 DEF DeployInv
    <3>2. DeployPlan[script.done + 1] = "publish" /\ published' \in Deployment
      BY <1>5, <2>5 DEF Deploy
    <3>3. script.done + 1 = 12
      BY <3>1, <3>2, PlanIsComplete
    <3>4. Goes([script EXCEPT !.on = 0])
      BY <1>5, <3>3, PlanIsComplete DEF Deploy
    <3>5. [script EXCEPT !.on = 0].job = script.job /\ [script EXCEPT !.on = 0].step = script.step
      BY DEF TypeInv, OperationsTypeOK
    <3>6. Fields([script EXCEPT !.on = 0])
      BY Noting DEF DeployInv, Shapes
    <3>7. \/ script' = NoScript
          \/ script'.job = "reset" /\ script'.step = 5
      <4>1. CASE script.job = "deploy"
        BY <2>2, <3>4, <4>1, Positions DEF Goes
      <4>2. CASE script.job = "reset"
        <5>1. CASE script' = NoScript
          BY <5>1
        <5>2. CASE script' # NoScript
          BY <2>2, <3>4, <3>5, <3>6, <4>2, <5>2 DEF Goes, Fields
        <5> QED BY <5>1, <5>2
      <4> QED BY <2>2, <4>1, <4>2
    <3>8. ~Redeploying' /\ script'.job # "deploy"
      <4>1. CASE script' = NoScript
        BY <4>1 DEF Redeploying, NoScript
      <4>2. CASE script'.job = "reset" /\ script'.step = 5
        <5>1. ~(script'.step <= Position("deploy"))
          BY <4>2, Positions
        <5> QED BY <4>2, <5>1 DEF Redeploying
      <4> QED BY <3>7, <4>1, <4>2
    <3>9. ~server'.up /\ \A t \in Asset : rows'[t] = 0
      BY <1>2, <2>1, <2>3
    <3> QED BY <3>8, <3>9 DEF RowsInv
  <2> QED BY <2>4, <2>5
<1>6. CASE ~Deploy
  <2>1. UNCHANGED published
    BY <1>6 DEF ScriptStep, ClearStorage, ClearDatabase, Migrate, Announce, Seed, Login, Look,
                UploadFile, MintFile, AskTotal, LinkFile
  <2>2. script'.job = "deploy" => published = 0
    BY ScriptMoves DEF RowsInv, NoScript
  <2>3. CASE ClearDatabase
    <3>1. (\A t \in Asset : rows'[t] = 0) \/ (UNCHANGED rows /\ script' = NoScript)
      BY <2>3 DEF ClearDatabase, Dies
    <3>2. CASE \A t \in Asset : rows'[t] = 0
      BY <1>2, <1>3, <2>1, <2>2, <3>2 DEF RowsInv
    <3>3. CASE UNCHANGED rows /\ script' = NoScript
      <4>1. UNCHANGED minted /\ ~Redeploying'
        BY <2>3, <3>3 DEF ClearDatabase, Redeploying, NoScript
      <4> QED BY <1>2, <2>1, <2>2, <3>3, <4>1 DEF RowsInv, OnChain
    <3> QED BY <3>1, <3>2, <3>3
  <2>4. CASE LinkFile
    <3>1. CASE Links(script.token, script.file) /\ server.up
      <4>1. ~Redeploying'
        BY <1>3, <3>1 DEF RowsInv
      <4>2. \A t \in Asset : rows'[t] # 0 => OnChain(published, t)' = rows'[t]
        BY <1>4, <2>1, <3>1, LinkKeepsRows, SameChain
      <4> QED BY <1>2, <2>1, <2>2, <4>1, <4>2 DEF RowsInv
    <3>2. CASE Dies /\ UNCHANGED rows
      <4>1. ~Redeploying'
        BY <3>2 DEF Redeploying, Dies, NoScript
      <4>2. \A t \in Asset : rows'[t] # 0 => OnChain(published, t)' = rows'[t]
        BY <1>4, <2>1, <3>2, SameChain DEF RowsInv
      <4> QED BY <1>2, <2>1, <2>2, <4>1, <4>2 DEF RowsInv
    <3> QED BY <2>4, <3>1, <3>2 DEF LinkFile
  <2>5. CASE ~ClearDatabase /\ ~LinkFile
    <3>1. UNCHANGED rows
      BY <1>6, <2>5 DEF ScriptStep, ClearStorage, Migrate, Announce, Seed, Login, Look,
                UploadFile, MintFile, AskTotal
    <3>2. \A t \in Asset : rows'[t] # 0 => OnChain(published, t)' = rows'[t]
      BY <1>4, <2>1, <3>1, SameChain DEF RowsInv
    <3>3. ASSUME Redeploying', script'.step > 2
          PROVE  Redeploying /\ script.step > 2
      <4>1. script.job = "reset" /\ script.step \in 1 .. 11
        BY <1>1, <1>3, <3>3, Positions DEF Redeploying
      <4>2. ~At("clearDatabase")
        BY <1>6, <2>5 DEF ScriptStep, ClearStorage, Migrate, Announce, Seed, Login, Look,
                          UploadFile, MintFile, AskTotal, At
      <4>3. script.step # 2
        BY <4>1, <4>2, Positions DEF At
      <4>4. script'.step \in {script.step, script.step + 1}
        BY <3>3, ScriptMoves DEF NoScript
      <4> QED BY <1>3, <3>3, <4>1, <4>3, <4>4
    <3> QED BY <1>2, <1>3, <2>1, <2>2, <3>1, <3>2, <3>3, Positions DEF RowsInv
  <2> QED BY <2>3, <2>4, <2>5
<1> QED BY <1>5, <1>6

LEMMA OthersKeepRows ==
  ASSUME TypeInv, RowsInv, Rules = {"together", "late"},
         OperatorStep \/ PageMint \/ PageLink \/ UNCHANGED operationsVars
  PROVE  RowsInv'
<1>1. [OperationsNext]_operationsVars /\ UNCHANGED published
  BY DEF OperationsNext, OperatorStep, Start, Kill, StartServer, StopServer, PageMint, PageLink,
         operationsVars
<1>2. CASE \E job \in Job : Start(job)
  <2>1. PICK job \in Job : Start(job)
    BY <1>2
  <2>2. script'.job = job /\ script'.step = 1 /\ Advised(job)
    BY <2>1 DEF Start, NoScript
  <2>3. UNCHANGED <<rows, minted, published, server>>
    BY <2>1 DEF Start
  <2>4. job = "deploy" => published = 0
    BY <2>2 DEF Advised
  <2>5. job = "reset" => ~server.up
    BY <2>2 DEF Advised
  <2>6. ~(script'.step > 2)
    BY <2>2
  <2> QED BY <2>2, <2>3, <2>4, <2>5, <2>6, Positions DEF RowsInv, Redeploying, OnChain
<1>3. CASE Kill
  BY <1>3 DEF Kill, Dies, NoScript, RowsInv, Redeploying, OnChain
<1>4. CASE StartServer
  <2>1. /\ server'.up /\ server'.on = published /\ published # 0 /\ ~Redeploying
        /\ UNCHANGED <<rows, minted, published, script>>
    BY <1>4 DEF StartServer
  <2> QED BY <2>1 DEF RowsInv, Redeploying, OnChain
<1>5. CASE StopServer
  <2>1. ~server'.up /\ UNCHANGED <<rows, minted, published, script>>
    BY <1>5 DEF StopServer, TypeInv, OperationsTypeOK
  <2> QED BY <2>1 DEF RowsInv, Redeploying, OnChain
<1>6. CASE PageMint
  <2>1. UNCHANGED <<rows, server, script, published>>
    BY <1>6 DEF PageMint
  <2>2. \A t \in Asset : rows'[t] # 0 => OnChain(published, t)' = rows'[t]
    BY <1>1, <2>1, SameChain DEF RowsInv
  <2> QED BY <2>1, <2>2 DEF RowsInv, Redeploying
<1>7. CASE PageLink
  <2>1. server.up /\ Links(page.token, page.file) /\ UNCHANGED <<script, published>>
    BY <1>7 DEF PageLink
  <2>2. server'.up /\ server'.on = server.on
    BY <1>7, <2>1 DEF PageLink, TypeInv, OperationsTypeOK
  <2>3. \A t \in Asset : rows'[t] # 0 => OnChain(published, t)' = rows'[t]
    BY <1>1, <2>1, LinkKeepsRows, SameChain
  <2>4. ~Redeploying /\ ~Redeploying'
    BY <2>1 DEF RowsInv, Redeploying
  <2> QED BY <2>1, <2>2, <2>3, <2>4 DEF RowsInv
<1>8. CASE UNCHANGED operationsVars
  BY <1>8 DEF operationsVars, RowsInv, Redeploying, OnChain
<1> QED BY <1>2, <1>3, <1>4, <1>5, <1>6, <1>7, <1>8 DEF OperatorStep

LEMMA RowsInvHolds == OperationsSpec => [](Rules = {"together", "late"} => RowsInv)
<1>1. OperationsInit => RowsInv
  BY DEF OperationsInit, RowsInv, NoScript, Redeploying
<1>2. TypeInv /\ DeployInv /\ (Rules = {"together", "late"} => RowsInv) /\ [OperationsNext]_operationsVars
      => (Rules = {"together", "late"} => RowsInv)'
  BY ScriptStepsKeepRows, OthersKeepRows DEF OperationsNext
<1> QED BY <1>1, <1>2, TypeInvHolds, DeployInvHolds, PTL DEF OperationsSpec

\* "Resetting one without the others leaves rows pointing at the wrong asset"
\* (reset.ts:13): where the operator keeps to both rules, each row's asset has
\* the row's content on the chain that the running server asks, however many
\* deployments, files, killed scripts and late links there are.
THEOREM RowsAreOfTheChainHolds == OperationsSpec => []RowsAreOfTheChain
<1>1. (Rules = {"together", "late"} => RowsInv) => RowsAreOfTheChain
  BY DEF RowsInv, RowsAreOfTheChain
<1> QED BY <1>1, RowsInvHolds, PTL
=============================================================================
