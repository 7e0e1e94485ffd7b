------------------------------ MODULE MCWorkflow ------------------------------
(***************************************************************************)
(* Small instances of the whole on-chain system.  One unit of time is an   *)
(* hour of the SECRET timelock; the other durations keep their order and   *)
(* are shortened to what the runs can cross.                               *)
(*                                                                         *)
(* scene splits the main run in two: in "grant" proposals for a SECRET     *)
(* asset are voted on, vetoed, waited for, hurried and executed; in        *)
(* "owner" classified assets are minted and handed on, through the         *)
(* workflow and, if it were possible, directly, while a policy tightens.   *)
(***************************************************************************)
EXTENDS GrantWorkflow, TLC

CONSTANTS admin, alice, carol, dave, relayer, e0, e1, e2, e3, h1, h2

VARIABLE scene

Person(did, emp, clearance, roles) ==
  [did |-> did, emp |-> emp, clearance |-> clearance, validUntil |-> 0, roles |-> roles]

\* Identity numbers, in the order of registration.
Admin == 1
Alice == 2
Carol == 3
Dave  == 4

\* An uncleared Admin, a cleared one, an officer, and an Auditor whose votes do
\* not reach SECRET.
Committee ==
  <<Person(admin, e0, RESTRICTED, {ADMIN}),
    Person(alice, e1, SECRET, {ADMIN, MANAGER}),
    Person(carol, e2, TOP_SECRET, {SECURITY_OFFICER}),
    Person(dave, e3, CONFIDENTIAL, {AUDITOR})>>

MCTimelock == [tier \in Tier |-> IF tier = TOP_SECRET THEN 3 ELSE IF tier = SECRET THEN 1 ELSE 0]
MCMaxTtl   == [tier \in Tier |-> IF tier = TOP_SECRET THEN 4 ELSE 5]

NoIdentityCalls ==
  [changeOwner |-> {}, bootstrap |-> {}, roleToken |-> {}, register |-> {},
   status |-> {}, bootstrapClearance |-> {}, admin |-> {}, clearance |-> {},
   adminGrant |-> {}]
NoAccessCalls ==
  [setAce |-> {}, delegate |-> {}, revokeAce |-> {}, mint |-> {},
   transfer |-> {}, updateContent |-> {}]
NoExecutorCalls == [grant |-> {}, mint |-> {}, transfer |-> {}]
NoWorkflowCalls ==
  [grant |-> {}, mint |-> {}, transfer |-> {}, uplift |-> {}, adminGrant |-> {},
   setPolicy |-> {}, lifecycle |-> {}]

NoAssets == <<>>
SecretAsset == <<[to |-> Alice, hash |-> h1, classification |-> SECRET]>>

-----------------------------------------------------------------------------
\* The arguments of both scenes. Two grants on the SECRET asset, which can also
\* be handed on, and be written or revoked by the administrators of entries if
\* that were possible; assets minted for a content that the two kinds of mint
\* compete for.
GrantFor(p, expiresAt, justified) ==
  [token |-> 1, principal |-> p, allow |-> {P_LIST, P_READ}, deny |-> {},
   expiresAt |-> expiresAt, depth |-> 0, justified |-> justified]
WorkCalls ==
  [NoWorkflowCalls EXCEPT
     !.grant = {GrantFor(IdentityPrincipal(Carol), 5, TRUE),
                GrantFor(RolePrincipal(MANAGER), 0, TRUE)},
     !.lifecycle = {"reject", "breakGlass"},
     !.mint = {[to |-> Carol, hash |-> h2, classification |-> CONFIDENTIAL, justified |-> TRUE]},
     !.transfer = {[token |-> 2, to |-> Admin, justified |-> TRUE],
                   [token |-> 2, to |-> Dave, justified |-> TRUE],
                   [token |-> 2, to |-> Dave, justified |-> FALSE]},
     !.setPolicy = {[tier |-> CONFIDENTIAL,
                     policy |-> [InitialPolicy[CONFIDENTIAL] EXCEPT !.approvals = n]] :
                      n \in {1, 2}}]
DirectCalls ==
  [NoAccessCalls EXCEPT
     !.setAce = {[token |-> 1, principal |-> RolePrincipal(USER), allow |-> {P_READ},
                  deny |-> {}, notBefore |-> 0, expiresAt |-> 0, depth |-> 0,
                  grantedBy |-> Admin]},
     !.delegate = {[token |-> 1, to |-> RolePrincipal(MANAGER),
                    allow |-> {P_READ, P_DOWNLOAD}, expiresAt |-> 0]},
     !.mint = {[to |-> Alice, hash |-> h2, classification |-> RESTRICTED]},
     !.transfer = {[token |-> 2, to |-> Dave]}]

Granting ==
  /\ scene = "grant"
  /\ \/ ClockStep
     \/ ProposeStep /\ proposals'[nextPid].kind = "GRANT"
     \/ VoteStep
     \/ PolicyStep /\ UNCHANGED policyFor
     \/ ExecuteStep
     \/ AccessStep /\ now = 1 /\ UNCHANGED workflowVars

Owning ==
  /\ scene = "owner"
  /\ \/ AssetStep /\ UNCHANGED workflowVars
     \/ ProposeStep /\ proposals'[nextPid].kind # "GRANT"
     \/ VoteStep /\ \A p \in Pid : ~(proposals'[p].breakGlass \/ proposals'[p].rejected)
     \/ PolicyStep
     \/ ExecuteStep

WorkInit == ChainInit /\ scene \in {"grant", "owner"}
WorkNext == (Granting \/ Owning) /\ UNCHANGED scene

workVars == <<chainVars, scene>>

\* Another block always comes, and somebody executes what can be executed, which
\* anyone may.
WorkSpec ==
  /\ WorkInit /\ [][WorkNext]_workVars
  /\ WF_workVars(scene = "grant" /\ ClockStep /\ UNCHANGED scene)
  /\ \A p \in Pid : WF_workVars(Execute(p) /\ UNCHANGED scene)

\* One scene is enough where the calls tell what happens.
OneSceneInit == ChainInit /\ scene = "all"
OneSceneNext == ChainNext /\ UNCHANGED scene

OneScene == OneSceneInit /\ [][OneSceneNext]_workVars

-----------------------------------------------------------------------------
\* Who may ever be cleared, and who may ever be Admin: one Admin, two officers
\* cleared for everything, the founding door, demotions and revocations.
TopOfficers ==
  <<Person(admin, e0, RESTRICTED, {ADMIN}),
    Person(carol, e2, TOP_SECRET, {SECURITY_OFFICER}),
    Person(dave, e3, TOP_SECRET, {SECURITY_OFFICER})>>
GovernanceCalls ==
  [NoWorkflowCalls EXCEPT
     !.uplift = {[target |-> 1, tier |-> SECRET, justified |-> TRUE],
                 [target |-> 2, tier |-> PUBLIC, justified |-> FALSE]},
     !.adminGrant = {[did |-> admin, justified |-> FALSE]},
     !.lifecycle = {"reject"}]
GovernanceIdentityCalls ==
  [NoIdentityCalls EXCEPT
     !.bootstrap = {carol},
     !.roleToken = {[who |-> admin, role |-> ADMIN]},
     !.bootstrapClearance = {SECRET},
     !.admin = {"renounce"}]
ShortTimelock == [tier \in Tier |-> IF tier >= SECRET THEN 1 ELSE 0]

-----------------------------------------------------------------------------
\* The calls that make a documented claim fail.
LoweredPolicy ==
  [tier |-> SECRET, policy |-> [InitialPolicy[SECRET] EXCEPT !.approvals = 1]]
PolicyCalls ==
  [NoWorkflowCalls EXCEPT
     !.grant = {GrantFor(IdentityPrincipal(Carol), 5, TRUE)},
     !.setPolicy = {LoweredPolicy}]
=============================================================================
