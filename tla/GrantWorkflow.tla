----------------------------- MODULE GrantWorkflow -----------------------------
(***************************************************************************)
(* contracts/GrantWorkflow.sol: proposals, their approval under the policy *)
(* of their tier, and their execution, which acts on the three layers      *)
(* below in the same transaction.  ChainSpec is the whole on-chain system. *)
(*                                                                         *)
(* A proposal keeps the call it asks for.  hasApproved[pid] is the set of  *)
(* the approvers of pid, as both are written together.                     *)
(***************************************************************************)
EXTENDS AssetNFT

CONSTANTS
  MaxPid,            \* bound: proposals that may be made
  Relayers,          \* holders of RELAYER_ROLE
  Timelock, MaxTtl,  \* per tier, in the time unit of the model
  BREAK_GLASS_TTL,   \* four hours, in the same unit
  WorkflowCalls      \* the arguments explored, per function

VARIABLES proposals, nextPid, policyFor

workflowVars == <<proposals, nextPid, policyFor>>
chainVars    == <<assetsVars, workflowVars>>

Pid  == 1 .. MaxPid
Kind == {"GRANT", "MINT_AND_ALLOCATE", "TRANSFER", "CLEARANCE_UPLIFT", "ADMIN_ROLE_MINT"}

ASSUME WorkflowAssumption ==
  /\ MaxPid \in Nat
  /\ Relayers \subseteq Address
  /\ Timelock \in [Tier -> Nat]
  /\ MaxTtl \in [Tier -> Nat]
  /\ BREAK_GLASS_TTL \in Nat \ {0}

Policy ==
  [approvals : Nat, officer : BOOLEAN, topSecret : BOOLEAN, timelock : Nat, maxTtl : Nat]

GrantCall ==
  [token : Token, principal : Principal, allow : SUBSET Permission,
   deny : SUBSET Permission, expiresAt : Nat, depth : Nat, justified : BOOLEAN]
MintRequest     == [to : AnyId, hash : Hash, classification : Tier, justified : BOOLEAN]
TransferRequest == [token : Token, to : AnyId, justified : BOOLEAN]
UpliftRequest   == [target : AnyId, tier : Tier, justified : BOOLEAN]
AdminRequest    == [did : AnyAddress, justified : BOOLEAN]

CallsOf(kind) ==
  CASE kind = "GRANT"             -> GrantCall
    [] kind = "MINT_AND_ALLOCATE" -> MintRequest
    [] kind = "TRANSFER"          -> TransferRequest
    [] kind = "CLEARANCE_UPLIFT"  -> UpliftRequest
    [] OTHER                      -> AdminRequest

ASSUME WorkflowCallsAssumption ==
  /\ WorkflowCalls.grant \subseteq GrantCall
  /\ WorkflowCalls.mint \subseteq MintRequest
  /\ WorkflowCalls.transfer \subseteq TransferRequest
  /\ WorkflowCalls.uplift \subseteq UpliftRequest
  /\ WorkflowCalls.adminGrant \subseteq AdminRequest
  /\ WorkflowCalls.setPolicy \subseteq [tier : Tier, policy : Policy]
  /\ WorkflowCalls.lifecycle \subseteq {"reject", "breakGlass"}

\* proposedAt is the block time of the Proposed event.
NoProposal ==
  [kind |-> "GRANT", call |-> [justified |-> FALSE], tier |-> PUBLIC,
   expiresAt |-> 0, proposer |-> 0, approvers |-> <<>>, proposedAt |-> 0,
   readyAt |-> 0, executed |-> FALSE, rejected |-> FALSE, breakGlass |-> FALSE]

Made(p) == proposals[p].proposer # 0

\* The constructor's table; only the durations are parameters.
InitialPolicy ==
  [tier \in Tier |->
     [approvals |-> IF tier >= SECRET THEN 2 ELSE IF tier = CONFIDENTIAL THEN 1 ELSE 0,
      officer   |-> tier >= SECRET,
      topSecret |-> tier = TOP_SECRET,
      timelock  |-> Timelock[tier],
      maxTtl    |-> MaxTtl[tier]]]

-----------------------------------------------------------------------------
\* _resolveActor: a relayer acts for the identity it names, anybody else for
\* the identity indexed under its key; either must be active.
ActsAs(sender, i) ==
  /\ sender \in Relayers \/ i = byController[sender]
  /\ IsActive(i)

IsAdminIdentity(i) == HasRoleToken(ControllerOf(i), ADMIN)

Propose(kind, call, tier, expiresAt, proposer) ==
  /\ nextPid \in Pid                               \* bound
  /\ nextPid' = nextPid + 1
  /\ proposals' = [proposals EXCEPT ![nextPid] =
       [NoProposal EXCEPT
          !.kind = kind, !.call = call, !.tier = tier, !.expiresAt = expiresAt,
          !.proposer = proposer, !.proposedAt = now,
          !.readyAt = now + policyFor[tier].timelock]]
  /\ UNCHANGED policyFor

\* Classified grants expire; no grant may ask for more than its tier's TTL.
ProposeGrant(proposer, c) ==
  LET tier == ClassificationOf(c.token)
  IN /\ Exists(c.token)
     /\ c.principal # IdentityPrincipal(proposer)
     /\ P_ADMIN \in EffectiveForIdentity(c.token, proposer)
     /\ tier >= CONFIDENTIAL => c.expiresAt # 0
     /\ c.expiresAt # 0 => c.expiresAt <= now + policyFor[tier].maxTtl
     /\ Propose("GRANT", c, tier, c.expiresAt, proposer)

ProposeMint(proposer, c) ==
  /\ IsAdminIdentity(proposer)
  /\ Propose("MINT_AND_ALLOCATE", c, c.classification, 0, proposer)

ProposeTransfer(proposer, c) ==
  /\ Exists(c.token)
  /\ P_ADMIN \in EffectiveForIdentity(c.token, proposer)
  /\ Propose("TRANSFER", c, ClassificationOf(c.token), 0, proposer)

ProposeClearanceUplift(proposer, c) ==
  /\ IsAdminIdentity(proposer)
  /\ Propose("CLEARANCE_UPLIFT", c, c.tier, 0, proposer)

\* Variant of ProposeAdminGrant with the kind of another proposal.
ProposeAdminGrantAsGrant(proposer, c) ==
  /\ IsAdminIdentity(proposer)
  /\ Propose("GRANT", c, TOP_SECRET, 0, proposer)

\* Judged at the TOP_SECRET tier.
ProposeAdminGrant(proposer, c) ==
  /\ IsAdminIdentity(proposer)
  /\ Propose("ADMIN_ROLE_MINT", c, TOP_SECRET, 0, proposer)

-----------------------------------------------------------------------------
\* Variant of Live that forgets about rejections.
LiveThoughRejected(p) == Made(p) /\ ~proposals[p].executed

Live(p) == Made(p) /\ ~proposals[p].executed /\ ~proposals[p].rejected

ApproversOf(p) == {proposals[p].approvers[k] : k \in 1 .. Len(proposals[p].approvers)}

IsOfficer(i) == HasRoleToken(ControllerOf(i), SECURITY_OFFICER)

\* Variant of Approve that lets an identity approve its own proposal.
ApproveOwn(i, p) ==
  /\ Live(p)
  /\ i \notin ApproversOf(p)
  /\ ClearanceOf(i) >= proposals[p].tier
  /\ proposals' = [proposals EXCEPT ![p].approvers = Append(@, i)]
  /\ UNCHANGED <<nextPid, policyFor>>

\* Variant of Approve that counts the vote of any active identity.
ApproveUncleared(i, p) ==
  /\ Live(p)
  /\ i # proposals[p].proposer
  /\ i \notin ApproversOf(p)
  /\ proposals' = [proposals EXCEPT ![p].approvers = Append(@, i)]
  /\ UNCHANGED <<nextPid, policyFor>>

\* The officer and TOP_SECRET conditions are asked of all approvers when, and
\* only when, an approval makes their number sufficient.
Approve(i, p) ==
  LET pr     == proposals[p]
      policy == policyFor[pr.tier]
      voters == ApproversOf(p) \cup {i}
  IN /\ Live(p)
     /\ i # pr.proposer
     /\ i \notin ApproversOf(p)
     /\ ClearanceOf(i) >= pr.tier
     /\ Len(pr.approvers) + 1 >= policy.approvals =>
          /\ policy.officer => \E v \in voters : IsOfficer(v)
          /\ policy.topSecret => \A v \in voters : ClearanceOf(v) >= TOP_SECRET
     /\ proposals' = [proposals EXCEPT ![p].approvers = Append(@, i)]
     /\ UNCHANGED <<nextPid, policyFor>>

\* Any active identity may veto, whatever its clearance.
Reject(p) ==
  /\ Live(p)
  /\ proposals' = [proposals EXCEPT ![p].rejected = TRUE]
  /\ UNCHANGED <<nextPid, policyFor>>

\* Variant of BreakGlass that leaves the expiry alone.
BreakGlassUncapped(i, p) ==
  /\ Live(p)
  /\ IsOfficer(i)
  /\ proposals' = [proposals EXCEPT ![p].breakGlass = TRUE, ![p].readyAt = now]
  /\ UNCHANGED <<nextPid, policyFor>>

\* Waives the waiting period, and caps the expiry a grant asked for.
BreakGlass(i, p) ==
  LET pr  == proposals[p]
      cap == now + BREAK_GLASS_TTL
  IN /\ Live(p)
     /\ IsOfficer(i)
     /\ proposals' = [proposals EXCEPT
          ![p].breakGlass = TRUE,
          ![p].readyAt = now,
          ![p].expiresAt = IF pr.kind = "GRANT" /\ (@ = 0 \/ @ > cap) THEN cap ELSE @]
     /\ UNCHANGED <<nextPid, policyFor>>

\* What the executed proposal does to the layers below; if it reverts there,
\* the whole execution does.  Only the first three look at the justification.
Dispatch(pr) ==
  \/ /\ pr.kind = "GRANT"
     /\ pr.call.justified
     /\ ExecuteGrant(pr.call.token, pr.call.principal, pr.call.allow, pr.call.deny,
                     pr.expiresAt, pr.call.depth, pr.proposer)
     /\ UNCHANGED <<identityVars, assetVars>>
  \/ /\ pr.kind = "MINT_AND_ALLOCATE"
     /\ pr.call.justified
     /\ MintAsset(pr.call)
     /\ UNCHANGED identityVars
  \/ /\ pr.kind = "TRANSFER"
     /\ pr.call.justified
     /\ DoTransfer(pr.call)
     /\ UNCHANGED identityVars
  \/ /\ pr.kind = "CLEARANCE_UPLIFT"
     /\ SetClearance(pr.call.target, pr.tier)
     /\ UNCHANGED <<now, owners, roleVars, assetVars, accessVars>>
  \/ /\ pr.kind = "ADMIN_ROLE_MINT"
     /\ ExecuteAdminGrant(pr.call.did)
     /\ UNCHANGED <<now, owners, registryVars, assetVars, accessVars>>

\* Variant of Execute that forgets to look at the waiting period.
ExecuteAtOnce(p) ==
  LET pr == proposals[p]
  IN /\ Live(p)
     /\ Len(pr.approvers) >= policyFor[pr.tier].approvals
     /\ proposals' = [proposals EXCEPT ![p].executed = TRUE]
     /\ UNCHANGED <<nextPid, policyFor>>
     /\ Dispatch(pr)

\* Variant of Execute that is one approval short.
ExecuteOneShort(p) ==
  LET pr == proposals[p]
  IN /\ Live(p)
     /\ Len(pr.approvers) + 1 >= policyFor[pr.tier].approvals
     /\ now >= pr.readyAt
     /\ proposals' = [proposals EXCEPT ![p].executed = TRUE]
     /\ UNCHANGED <<nextPid, policyFor>>
     /\ Dispatch(pr)

\* Variant of Execute that does not carry out a grant that has run out.
ExecuteUnexpired(p) ==
  LET pr == proposals[p]
  IN /\ Live(p)
     /\ Len(pr.approvers) >= policyFor[pr.tier].approvals
     /\ now >= pr.readyAt
     /\ pr.expiresAt # 0 => now < pr.expiresAt
     /\ proposals' = [proposals EXCEPT ![p].executed = TRUE]
     /\ UNCHANGED <<nextPid, policyFor>>
     /\ Dispatch(pr)

\* Anyone may execute, against the policy of the moment; who approved is not
\* asked again.
Execute(p) ==
  LET pr == proposals[p]
  IN /\ Live(p)
     /\ Len(pr.approvers) >= policyFor[pr.tier].approvals
     /\ now >= pr.readyAt
     /\ proposals' = [proposals EXCEPT ![p].executed = TRUE]
     /\ UNCHANGED <<nextPid, policyFor>>
     /\ Dispatch(pr)

\* onlyRole(WORKFLOW_ADMIN_ROLE): the deployer.
SetPolicy(sender, c) ==
  /\ sender = Deployer
  /\ policyFor' = [policyFor EXCEPT ![c.tier] = c.policy]
  /\ UNCHANGED <<proposals, nextPid>>

-----------------------------------------------------------------------------
ChainInit ==
  /\ AssetsInit
  /\ proposals = [p \in Pid |-> NoProposal]
  /\ nextPid = 1
  /\ policyFor = InitialPolicy

ProposeStep ==
  /\ \E sender \in Address, i \in Id :
       /\ ActsAs(sender, i)
       /\ \/ \E c \in WorkflowCalls.grant : ProposeGrant(i, c)
          \/ \E c \in WorkflowCalls.mint : ProposeMint(i, c)
          \/ \E c \in WorkflowCalls.transfer : ProposeTransfer(i, c)
          \/ \E c \in WorkflowCalls.uplift : ProposeClearanceUplift(i, c)
          \/ \E c \in WorkflowCalls.adminGrant : ProposeAdminGrant(i, c)
  /\ UNCHANGED assetsVars

VoteStep ==
  /\ \E sender \in Address, i \in Id, p \in Pid :
       /\ ActsAs(sender, i)
       /\ \/ Approve(i, p)
          \/ "reject" \in WorkflowCalls.lifecycle /\ Reject(p)
          \/ "breakGlass" \in WorkflowCalls.lifecycle /\ BreakGlass(i, p)
  /\ UNCHANGED assetsVars

PolicyStep ==
  /\ \E sender \in Address, c \in WorkflowCalls.setPolicy : SetPolicy(sender, c)
  /\ UNCHANGED assetsVars

ExecuteStep == \E p \in Pid : Execute(p)

ChainNext ==
  \/ AssetsDirect /\ UNCHANGED workflowVars
  \/ ProposeStep
  \/ VoteStep
  \/ PolicyStep
  \/ ExecuteStep

ChainSpec == ChainInit /\ [][ChainNext]_chainVars

\* Another block, and nothing else.
ClockStep == TimeStep /\ UNCHANGED <<assetVars, accessVars, workflowVars>>

-----------------------------------------------------------------------------
AnyCall ==
  GrantCall \cup MintRequest \cup TransferRequest \cup UpliftRequest
    \cup AdminRequest \cup {NoProposal.call}

Proposal ==
  [kind : Kind, call : AnyCall, tier : Tier, expiresAt : Nat, proposer : AnyId,
   approvers : Seq(Id), proposedAt : Nat, readyAt : Nat, executed : BOOLEAN,
   rejected : BOOLEAN, breakGlass : BOOLEAN]

WorkflowTypeOK ==
  /\ proposals \in [Pid -> Proposal]
  /\ \A p \in Pid : Made(p) => proposals[p].call \in CallsOf(proposals[p].kind)
  /\ nextPid \in 1 .. MaxPid + 1
  /\ policyFor \in [Tier -> Policy]

ChainTypeOK == AssetsTypeOK /\ WorkflowTypeOK

\* INV-7, "the account that proposes access is never the account that approves
\* it" (GrantWorkflow.sol:17-18): the approvers of a proposal are distinct
\* identities and its proposer is none of them, through rotations and relayers.
FourEyes ==
  \A p \in Pid : Made(p) =>
    /\ proposals[p].proposer \notin ApproversOf(p)
    /\ Cardinality(ApproversOf(p)) = Len(proposals[p].approvers)

\* Was p executed after the votes of enough other identities?
VotedAndExecuted(p) ==
  /\ proposals[p].executed
  /\ Cardinality(ApproversOf(p) \ {proposals[p].proposer})
       >= InitialPolicy[proposals[p].tier].approvals

\* setPolicy only ever tightens the constructor's table.
PoliciesStand ==
  \A c \in WorkflowCalls.setPolicy :
    /\ c.policy.approvals >= InitialPolicy[c.tier].approvals
    /\ c.policy.timelock >= Timelock[c.tier]

\* The approval matrix of README.md:92-99, as long as the policies stand: what
\* was executed had its votes, and its waiting period unless the glass was broken.
ApprovalMatrix ==
  PoliciesStand =>
    \A p \in Pid : proposals[p].executed =>
      /\ VotedAndExecuted(p)
      /\ ~proposals[p].rejected
      /\ \/ proposals[p].breakGlass
         \/ now >= proposals[p].proposedAt + Timelock[proposals[p].tier]

\* The promise in the abstract: a proposal is a ballot of the other identities,
\* with the votes that the constructor's table asks for, as long as it stands.
Decision == INSTANCE Ballot WITH
  Paper   <- Pid,
  Voter   <- Id,
  text    <- [p \in Pid |-> <<proposals[p].kind, proposals[p].call, proposals[p].tier>>],
  author  <- [p \in Pid |-> proposals[p].proposer],
  needs   <- [p \in Pid |-> IF PoliciesStand THEN InitialPolicy[proposals[p].tier].approvals
                            ELSE 0],
  votes   <- [p \in Pid |-> ApproversOf(p)],
  outcome <- [p \in Pid |-> IF proposals[p].executed THEN "carried"
                            ELSE IF proposals[p].rejected THEN "vetoed"
                            ELSE IF Made(p) THEN "open" ELSE "blank"]

\* However votes, vetoes, broken glass, changes of policy and executions of
\* several proposals interleave, what is voted on stays what it was, only others
\* than the proposer vote, each once, and it is carried with enough votes, or
\* vetoed, once and for all (GrantWorkflow.sol:13-24).
VotesAreBallots == Decision!BallotSpec

\* A final proposal is final: nothing about it changes any more.
FinalIsFinal ==
  [][\A p \in Pid :
       (proposals[p].executed \/ proposals[p].rejected) =>
         proposals'[p] = proposals[p]]_chainVars

\* Has the proposal what execute asks for at the end of its waiting period?
Approved(p) ==
  /\ Live(p)
  /\ Len(proposals[p].approvers) >= policyFor[proposals[p].tier].approvals
  /\ proposals[p].readyAt <= MaxTime

\* Can p not be carried out now, however often it is tried?
Impossible(p) ==
  LET pr == proposals[p]
  IN \/ Len(pr.approvers) < policyFor[pr.tier].approvals
     \/ pr.kind \in {"GRANT", "MINT_AND_ALLOCATE", "TRANSFER"} /\ ~pr.call.justified
     \/ /\ pr.kind = "MINT_AND_ALLOCATE"
        /\ \/ tokenOfHash[pr.call.hash] # 0
           \/ nextToken \notin Token                         \* bound
     \/ /\ pr.kind \in {"MINT_AND_ALLOCATE", "TRANSFER"}
        /\ ~Qualifies(pr.call.to, pr.tier)

\* No proposal hangs: what is approved is decided, unless what it asks for is not
\* possible any more because of what was done meanwhile.  Waiting periods, votes
\* that go on, repeated broken glass and other proposals do not keep it open.
ApprovedIsDecided ==
  \A p \in Pid : Approved(p) ~> (~Live(p) \/ Impossible(p))

\* With the founding door closed, every clearance above RESTRICTED that an
\* identity gains was voted for by at least one other identity than the
\* proposer, and for that identity and that tier.
ClearanceNeedsVote ==
  [][(identityAdmins = {} /\ PoliciesStand) =>
       \A i \in Id :
         (ClearanceOf(i)' > ClearanceOf(i) /\ ClearanceOf(i)' > RESTRICTED) =>
           \E p \in Pid :
             /\ ~proposals[p].executed
             /\ VotedAndExecuted(p)'
             /\ proposals[p].kind = "CLEARANCE_UPLIFT"
             /\ proposals[p].call.target = i
             /\ proposals[p].tier = ClearanceOf(i)']_chainVars

\* INV-5: above the threshold, whoever owns an asset got it at its minting or
\* at a transfer that others than the proposer voted for.
ClassifiedOwnerWasVoted ==
  PoliciesStand =>
    \A t \in Token :
      (Exists(t) /\ ClassificationOf(t) >= CONFIDENTIAL) =>
        \/ SeededAsset(t) /\ assets[t].owner = SeededAssets[t].to
        \/ \E p \in Pid :
             /\ VotedAndExecuted(p)
             /\ proposals[p].tier = ClassificationOf(t)
             /\ \/ /\ proposals[p].kind = "MINT_AND_ALLOCATE"
                   /\ proposals[p].call.hash = assets[t].mintedHash
                \/ /\ proposals[p].kind = "TRANSFER"
                   /\ proposals[p].call.token = t
             /\ proposals[p].call.to = assets[t].owner

\* An entry that somebody with P_SHARE handed on: delegate asks for no vote at
\* any classification.
Reshared(t, p) ==
  \E c \in AccessCalls.delegate :
    /\ c.token = t /\ c.to = p
    /\ c.allow = aces[t][p].allow /\ aces[t][p].deny = {}
    /\ p # IdentityPrincipal(aces[t][p].grantedBy)

\* INV-6, "above a classification threshold, nobody grants access alone"
\* (README.md:22): every entry of a classified asset but the seeded ones and
\* those an entry's holder handed on was put to the vote of the asset's tier,
\* with these very bits, however it was overwritten, revoked and written again.
ClassifiedEntryWasVoted ==
  PoliciesStand =>
    \A t \in Token, q \in Principal :
      (/\ ClassificationOf(t) >= CONFIDENTIAL
       /\ aces[t][q].written
       /\ aces[t][q].grantedBy # SYSTEM) =>
        \/ Reshared(t, q)
        \/ \E p \in Pid :
             /\ VotedAndExecuted(p)
             /\ proposals[p].kind = "GRANT"
             /\ proposals[p].tier = ClassificationOf(t)
             /\ proposals[p].call.token = t
             /\ proposals[p].call.principal = q
             /\ proposals[p].call.allow = aces[t][q].allow
             /\ proposals[p].call.deny = aces[t][q].deny
             /\ proposals[p].proposer = aces[t][q].grantedBy

\* A grant executed over broken glass is short: whatever it asked for and
\* however late it is executed, its entry ends within BREAK_GLASS_TTL.
BreakGlassGrantIsShort ==
  [][\A p \in Pid :
       (/\ ~proposals[p].executed /\ proposals'[p].executed
        /\ proposals[p].kind = "GRANT" /\ proposals[p].breakGlass) =>
         aces'[proposals[p].call.token][proposals[p].call.principal].expiresAt
           \in 1 .. now + BREAK_GLASS_TTL]_chainVars

-----------------------------------------------------------------------------
High == {i \in Id : ClearanceOf(i) >= SECRET}

\* Nobody can join the SECRET clearances: the founding door is closed, and the
\* identities that could ever vote for an open proposal are fewer than two.
Locked ==
  /\ identityAdmins = {}
  /\ Cardinality(High) <= 1
  /\ \A p \in Pid : (Live(p) /\ proposals[p].tier >= SECRET) =>
       Cardinality(High \cup ApproversOf(p)) <= 1

\* "At minimum two Security Officers" (ArgusIdentity.sol:191-201): a deployment
\* that closes the door with one SECRET clearance never has a second one.
LoneOfficerStaysAlone ==
  [][PoliciesStand /\ Locked => Locked']_chainVars

\* Once nobody is Admin and no proposal to make one is open, nobody ever is.
NoAdminLeft ==
  /\ bootstrapped
  /\ \A a \in Address : ~HasRoleToken(a, ADMIN)
  /\ \A p \in Pid : Live(p) => proposals[p].kind # "ADMIN_ROLE_MINT"

NoAdminIsPermanent == [][NoAdminLeft => NoAdminLeft']_chainVars

-----------------------------------------------------------------------------
(***************************************************************************)
(* What the documentation says and the code does not do.                   *)
(***************************************************************************)

\* The Security Officer requirement "is checked once enough approvals exist, so
\* approvers may arrive in any order" (GrantWorkflow.sol:254-255): a proposal
\* executed under a policy that requires an officer has one among its approvers.
OfficerAmongApprovers ==
  [][\A p \in Pid :
       (/\ ~proposals[p].executed /\ proposals'[p].executed
        /\ policyFor[proposals[p].tier].officer) =>
          \E v \in ApproversOf(p) : IsOfficer(v)]_chainVars
=============================================================================
