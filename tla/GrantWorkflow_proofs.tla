--------------------------- MODULE GrantWorkflow_proofs ---------------------------
(***************************************************************************)
(* Theorems about the whole on-chain system, for every deployment, every   *)
(* policy the deployer may set and every bound.                            *)
(***************************************************************************)
EXTENDS GrantWorkflow, AssetNFT_proofs, SequenceTheorems, FiniteSetTheorems

\* Proposal ids are given out in order: the others are blank.
FreshPids == \A p \in Pid : p >= nextPid => proposals[p] = NoProposal

ChainInv == AssetsInv /\ WorkflowTypeOK /\ FreshPids

LEMMA TierTyped ==
  /\ TOP_SECRET \in Tier /\ PUBLIC \in Tier
  /\ Tier \subseteq Nat
  BY DEF Tier, TOP_SECRET, PUBLIC

LEMMA CallsAreCalls ==
  ASSUME NEW kind \in Kind, NEW call \in CallsOf(kind)
  PROVE  call \in AnyCall
  BY DEF CallsOf, AnyCall, Kind

LEMMA NoProposalTyped == NoProposal \in Proposal
<1>1. 0 \in AnyId
  BY MaxIdAssumption DEF AnyId
<1>2. NoProposal.call \in AnyCall
  BY DEF AnyCall
<1>3. <<>> \in Seq(Id)
  OBVIOUS
<1> QED BY <1>1, <1>2, <1>3, TierTyped DEF NoProposal, Proposal, Kind

LEMMA InitialPolicyTyped == InitialPolicy \in [Tier -> Policy]
  BY WorkflowAssumption DEF InitialPolicy, Policy

LEMMA WorkflowInit == ChainInit => ChainInv
<1> SUFFICES ASSUME ChainInit PROVE ChainInv
  OBVIOUS
<1>1. AssetsInv
  BY AssetsTypeInit DEF ChainInit
<1>2. nextPid \in 1 .. MaxPid + 1
  BY WorkflowAssumption DEF ChainInit
<1>3. \A p \in Pid : proposals[p] = NoProposal
  BY DEF ChainInit
<1>4. proposals \in [Pid -> Proposal]
  BY NoProposalTyped DEF ChainInit
<1>5. \A p \in Pid : ~Made(p)
  BY <1>3 DEF Made, NoProposal
<1>6. policyFor \in [Tier -> Policy]
  BY InitialPolicyTyped DEF ChainInit
<1> QED BY <1>1, <1>2, <1>3, <1>4, <1>5, <1>6 DEF ChainInv, WorkflowTypeOK, FreshPids

-----------------------------------------------------------------------------
\* A new proposal of any kind is typed, and made under an id that was blank.
LEMMA ProposeType ==
  ASSUME ChainInv, NEW kind \in Kind, NEW call \in CallsOf(kind), NEW tier \in Tier,
         NEW expiresAt \in Nat, NEW i \in Id,
         Propose(kind, call, tier, expiresAt, i)
  PROVE  /\ WorkflowTypeOK' /\ FreshPids'
         /\ \A p \in Pid : proposals[p] # NoProposal => proposals'[p] = proposals[p]
         /\ \A p \in Pid :
              \/ proposals'[p] = proposals[p]
              \/ proposals'[p].kind = kind /\ proposals'[p].approvers = <<>>
<1> DEFINE made == [NoProposal EXCEPT
             !.kind = kind, !.call = call, !.tier = tier, !.expiresAt = expiresAt,
             !.proposer = i, !.proposedAt = now,
             !.readyAt = now + policyFor[tier].timelock]
<1>1. /\ nextPid \in Pid /\ nextPid' = nextPid + 1 /\ policyFor' = policyFor
      /\ proposals' = [proposals EXCEPT ![nextPid] = made]
  BY DEF Propose
<1>2. made \in Proposal /\ made.kind = kind /\ made.call = call /\ made.approvers = <<>>
  <2>1. now \in Nat /\ now + policyFor[tier].timelock \in Nat
    BY MaxTimeAssumption
       DEF ChainInv, AssetsInv, IdentityInv, IdentityTypeOK, WorkflowTypeOK, Policy
  <2>2. call \in AnyCall /\ i \in AnyId
    BY CallsAreCalls, MaxIdAssumption DEF Id, AnyId
  <2> QED BY <2>1, <2>2, NoProposalTyped DEF NoProposal, Proposal
<1> HIDE DEF made
<1>3. nextPid \in Nat /\ nextPid' \in 1 .. MaxPid + 1
  BY <1>1, WorkflowAssumption DEF Pid
<1>4. proposals' \in [Pid -> Proposal]
  BY <1>1, <1>2 DEF ChainInv, WorkflowTypeOK
<1>5. \A p \in Pid : proposals'[p] = IF p = nextPid THEN made ELSE proposals[p]
  BY <1>1 DEF ChainInv, WorkflowTypeOK
<1>6. \A p \in Pid : Made(p)' => proposals'[p].call \in CallsOf(proposals'[p].kind)
  BY <1>2, <1>5 DEF ChainInv, WorkflowTypeOK, Made
<1>7. FreshPids'
  BY <1>1, <1>3, <1>5 DEF ChainInv, FreshPids, Pid
<1>8. proposals[nextPid] = NoProposal
  BY <1>1, <1>3 DEF ChainInv, FreshPids
<1> QED BY <1>1, <1>2, <1>3, <1>4, <1>5, <1>6, <1>7, <1>8 DEF ChainInv, WorkflowTypeOK

\* Every way to propose is one of those.
LEMMA ProposeStepIsPropose ==
  ASSUME ChainInv, ProposeStep
  PROVE  \E sender \in Address, i \in Id, kind \in Kind, tier \in Tier, expiresAt \in Nat :
           /\ ActsAs(sender, i)
           /\ kind = "ADMIN_ROLE_MINT" => IsAdminIdentity(i)
           /\ \E call \in CallsOf(kind) : Propose(kind, call, tier, expiresAt, i)
<1>1. PICK sender \in Address, i \in Id :
        /\ ActsAs(sender, i)
        /\ \/ \E c \in WorkflowCalls.grant : ProposeGrant(i, c)
           \/ \E c \in WorkflowCalls.mint : ProposeMint(i, c)
           \/ \E c \in WorkflowCalls.transfer : ProposeTransfer(i, c)
           \/ \E c \in WorkflowCalls.uplift : ProposeClearanceUplift(i, c)
           \/ \E c \in WorkflowCalls.adminGrant : ProposeAdminGrant(i, c)
  BY DEF ProposeStep
<1>k. \A kind \in {"GRANT", "MINT_AND_ALLOCATE", "TRANSFER", "CLEARANCE_UPLIFT",
                   "ADMIN_ROLE_MINT"} : kind \in Kind
  BY DEF Kind
<1>t. \A t \in Token : ClassificationOf(t) \in Tier
  BY DEF ClassificationOf, ChainInv, AssetsInv, AssetTypeOK, AccessTypeOK, Asset
<1>2. CASE \E c \in WorkflowCalls.grant : ProposeGrant(i, c)
  <2>1. PICK c \in WorkflowCalls.grant :
          Propose("GRANT", c, ClassificationOf(c.token), c.expiresAt, i)
    BY <1>2 DEF ProposeGrant
  <2>2. c \in CallsOf("GRANT") /\ c.token \in Token /\ c.expiresAt \in Nat
    BY WorkflowCallsAssumption DEF CallsOf, GrantCall
  <2> QED BY <1>1, <1>k, <1>t, <2>1, <2>2
<1>3. CASE \E c \in WorkflowCalls.mint : ProposeMint(i, c)
  <2>1. PICK c \in WorkflowCalls.mint :
          Propose("MINT_AND_ALLOCATE", c, c.classification, 0, i)
    BY <1>3 DEF ProposeMint
  <2>2. c \in CallsOf("MINT_AND_ALLOCATE") /\ c.classification \in Tier
    BY WorkflowCallsAssumption DEF CallsOf, MintRequest
  <2> QED BY <1>1, <1>k, <2>1, <2>2
<1>4. CASE \E c \in WorkflowCalls.transfer : ProposeTransfer(i, c)
  <2>1. PICK c \in WorkflowCalls.transfer :
          Propose("TRANSFER", c, ClassificationOf(c.token), 0, i)
    BY <1>4 DEF ProposeTransfer
  <2>2. c \in CallsOf("TRANSFER") /\ c.token \in Token
    BY WorkflowCallsAssumption DEF CallsOf, TransferRequest
  <2> QED BY <1>1, <1>k, <1>t, <2>1, <2>2
<1>5. CASE \E c \in WorkflowCalls.uplift : ProposeClearanceUplift(i, c)
  <2>1. PICK c \in WorkflowCalls.uplift : Propose("CLEARANCE_UPLIFT", c, c.tier, 0, i)
    BY <1>5 DEF ProposeClearanceUplift
  <2>2. c \in CallsOf("CLEARANCE_UPLIFT") /\ c.tier \in Tier
    BY WorkflowCallsAssumption DEF CallsOf, UpliftRequest
  <2> QED BY <1>1, <1>k, <2>1, <2>2
<1>6. CASE \E c \in WorkflowCalls.adminGrant : ProposeAdminGrant(i, c)
  <2>1. PICK c \in WorkflowCalls.adminGrant :
          IsAdminIdentity(i) /\ Propose("ADMIN_ROLE_MINT", c, TOP_SECRET, 0, i)
    BY <1>6 DEF ProposeAdminGrant
  <2>2. c \in CallsOf("ADMIN_ROLE_MINT")
    BY WorkflowCallsAssumption DEF CallsOf
  <2> QED BY <1>1, <1>k, <2>1, <2>2, TierTyped
<1> QED BY <1>1, <1>2, <1>3, <1>4, <1>5, <1>6

-----------------------------------------------------------------------------
\* Another field of a proposal that was made changes to a value of its type;
\* every other proposal stays as it is.
Amended(p, row) ==
  /\ row \in Proposal
  /\ row.kind = proposals[p].kind /\ row.call = proposals[p].call
  /\ row.proposer = proposals[p].proposer /\ row.tier = proposals[p].tier
  /\ proposals' = [proposals EXCEPT ![p] = row]
  /\ UNCHANGED <<nextPid, policyFor>>

LEMMA AmendedType ==
  ASSUME ChainInv, NEW p \in Pid, Made(p), NEW row, Amended(p, row)
  PROVE  WorkflowTypeOK' /\ FreshPids'
<1>1. ~(p >= nextPid)
  BY DEF ChainInv, FreshPids, Made, NoProposal
<1>2. \A q \in Pid : proposals'[q] = IF q = p THEN row ELSE proposals[q]
  BY DEF Amended, ChainInv, WorkflowTypeOK
<1>3. proposals' \in [Pid -> Proposal]
  BY DEF Amended, ChainInv, WorkflowTypeOK
<1>4. \A q \in Pid : Made(q)' => proposals'[q].call \in CallsOf(proposals'[q].kind)
  BY <1>2 DEF Amended, ChainInv, WorkflowTypeOK, Made
<1>5. FreshPids'
  BY <1>1, <1>2 DEF Amended, ChainInv, FreshPids
<1> QED BY <1>3, <1>4, <1>5 DEF Amended, ChainInv, WorkflowTypeOK

LEMMA ApproveAmends ==
  ASSUME ChainInv, NEW i \in Id, NEW p \in Pid, Approve(i, p)
  PROVE  /\ Live(p) /\ i # proposals[p].proposer /\ i \notin ApproversOf(p)
         /\ \E row : /\ Amended(p, row)
                     /\ row.approvers = Append(proposals[p].approvers, i)
                     /\ row.executed = proposals[p].executed
                     /\ row.rejected = proposals[p].rejected
<1> DEFINE row == [proposals[p] EXCEPT !.approvers = Append(@, i)]
<1>1. proposals[p] \in Proposal
  BY DEF ChainInv, WorkflowTypeOK
<1>2. Append(proposals[p].approvers, i) \in Seq(Id)
  BY <1>1 DEF Proposal
<1>3. /\ row \in Proposal /\ row.kind = proposals[p].kind /\ row.call = proposals[p].call
      /\ row.proposer = proposals[p].proposer /\ row.tier = proposals[p].tier
      /\ row.approvers = Append(proposals[p].approvers, i)
      /\ row.executed = proposals[p].executed /\ row.rejected = proposals[p].rejected
  BY <1>1, <1>2 DEF Proposal
<1>4. /\ proposals' = [proposals EXCEPT ![p] = row]
      /\ UNCHANGED <<nextPid, policyFor>>
  BY DEF Approve
<1>5. Live(p) /\ i # proposals[p].proposer /\ i \notin ApproversOf(p)
  BY DEF Approve
<1> HIDE DEF row
<1> QED BY <1>3, <1>4, <1>5 DEF Amended

LEMMA RejectAmends ==
  ASSUME ChainInv, NEW p \in Pid, Reject(p)
  PROVE  /\ Live(p)
         /\ \E row : /\ Amended(p, row)
                     /\ row.approvers = proposals[p].approvers
<1> DEFINE row == [proposals[p] EXCEPT !.rejected = TRUE]
<1>1. proposals[p] \in Proposal
  BY DEF ChainInv, WorkflowTypeOK
<1>2. /\ row \in Proposal /\ row.kind = proposals[p].kind /\ row.call = proposals[p].call
      /\ row.proposer = proposals[p].proposer /\ row.tier = proposals[p].tier
      /\ row.approvers = proposals[p].approvers
  BY <1>1 DEF Proposal
<1>3. /\ proposals' = [proposals EXCEPT ![p] = row] /\ UNCHANGED <<nextPid, policyFor>>
      /\ Live(p)
  BY DEF Reject
<1> HIDE DEF row
<1> QED BY <1>2, <1>3 DEF Amended

LEMMA BreakGlassAmends ==
  ASSUME ChainInv, NEW i \in Id, NEW p \in Pid, BreakGlass(i, p)
  PROVE  /\ Live(p)
         /\ \E row : /\ Amended(p, row)
                     /\ row.approvers = proposals[p].approvers
<1> DEFINE pr  == proposals[p]
           cap == now + BREAK_GLASS_TTL
           new == IF pr.kind = "GRANT" /\ (pr.expiresAt = 0 \/ pr.expiresAt > cap)
                  THEN cap ELSE pr.expiresAt
           row == [pr EXCEPT !.breakGlass = TRUE, !.readyAt = now, !.expiresAt = new]
<1>1. pr \in Proposal
  BY DEF ChainInv, WorkflowTypeOK
<1>2. now \in Nat /\ cap \in Nat
  BY MaxTimeAssumption, WorkflowAssumption DEF ChainInv, AssetsInv, IdentityInv, IdentityTypeOK
<1>3. new \in Nat
  BY <1>1, <1>2 DEF Proposal
<1>4. proposals' = [proposals EXCEPT ![p] = row]
  BY <1>1 DEF BreakGlass, Proposal, ChainInv, WorkflowTypeOK
<1> HIDE DEF new
<1>5. /\ row \in Proposal /\ row.kind = proposals[p].kind /\ row.call = proposals[p].call
      /\ row.proposer = proposals[p].proposer /\ row.tier = proposals[p].tier
      /\ row.approvers = proposals[p].approvers
  BY <1>1, <1>2, <1>3 DEF Proposal
<1>6. Live(p) /\ UNCHANGED <<nextPid, policyFor>>
  BY DEF BreakGlass
<1> HIDE DEF row
<1> QED BY <1>4, <1>5, <1>6 DEF Amended

LEMMA ExecuteAmends ==
  ASSUME ChainInv, NEW p \in Pid, Execute(p)
  PROVE  /\ Live(p) /\ Dispatch(proposals[p])
         /\ \E row : /\ Amended(p, row)
                     /\ row.approvers = proposals[p].approvers
                     /\ row.executed
<1> DEFINE row == [proposals[p] EXCEPT !.executed = TRUE]
<1>1. proposals[p] \in Proposal
  BY DEF ChainInv, WorkflowTypeOK
<1>2. /\ row \in Proposal /\ row.kind = proposals[p].kind /\ row.call = proposals[p].call
      /\ row.proposer = proposals[p].proposer /\ row.tier = proposals[p].tier
      /\ row.approvers = proposals[p].approvers /\ row.executed
  BY <1>1 DEF Proposal
<1>3. /\ proposals' = [proposals EXCEPT ![p] = row] /\ UNCHANGED <<nextPid, policyFor>>
      /\ Live(p) /\ Dispatch(proposals[p])
  BY DEF Execute
<1> HIDE DEF row
<1> QED BY <1>2, <1>3 DEF Amended

-----------------------------------------------------------------------------
\* Whatever a proposal does when it is executed is one of the steps the layers
\* below allow their executor.
LEMMA DispatchIsAssetsStep ==
  ASSUME ChainInv, NEW p \in Pid, Made(p), Dispatch(proposals[p])
  PROVE  AnyAssetsStep
<1> DEFINE pr == proposals[p]
<1>1. pr \in Proposal /\ pr.call \in CallsOf(pr.kind)
  BY DEF ChainInv, WorkflowTypeOK
<1>2. CASE /\ pr.kind = "GRANT"
           /\ ExecuteGrant(pr.call.token, pr.call.principal, pr.call.allow, pr.call.deny,
                           pr.expiresAt, pr.call.depth, pr.proposer)
           /\ UNCHANGED <<identityVars, assetVars>>
  <2>1. /\ pr.call \in GrantCall /\ pr.expiresAt \in Nat /\ pr.proposer \in AnyId
    BY <1>1, <1>2 DEF CallsOf, Proposal
  <2>2. /\ pr.call.token \in Token /\ pr.call.principal \in Principal
        /\ pr.call.allow \in SUBSET Permission /\ pr.call.deny \in SUBSET Permission
        /\ pr.call.depth \in Nat
    BY <2>1 DEF GrantCall
  <2> QED BY <1>2, <2>1, <2>2 DEF AnyGrant, AnyAssetsStep
<1>3. CASE /\ pr.kind = "MINT_AND_ALLOCATE"
           /\ MintAsset(pr.call)
           /\ UNCHANGED identityVars
  <2>1. pr.call.to \in AnyId /\ pr.call.hash \in Hash /\ pr.call.classification \in Tier
    BY <1>1, <1>3 DEF CallsOf, MintRequest
  <2> QED BY <1>3, <2>1 DEF AnyMint, AnyAssetsStep
<1>4. CASE /\ pr.kind = "TRANSFER"
           /\ DoTransfer(pr.call)
           /\ UNCHANGED identityVars
  <2>1. pr.call.token \in Token /\ pr.call.to \in AnyId
    BY <1>1, <1>4 DEF CallsOf, TransferRequest
  <2> QED BY <1>4, <2>1 DEF AnyTransfer, AnyAssetsStep
<1>5. CASE /\ pr.kind = "CLEARANCE_UPLIFT"
           /\ SetClearance(pr.call.target, pr.tier)
           /\ UNCHANGED <<now, owners, roleVars, assetVars, accessVars>>
  <2>1. pr.call.target \in Id /\ pr.tier \in Tier
    BY <1>5 DEF SetClearance, Registered
  <2> QED BY <1>5, <2>1 DEF AnyExecutorStep, AnyIdentityStep, AnyAssetsStep
<1>6. CASE /\ pr.kind = "ADMIN_ROLE_MINT"
           /\ ExecuteAdminGrant(pr.call.did)
           /\ UNCHANGED <<now, owners, registryVars, assetVars, accessVars>>
  <2>1. pr.call.did \in AnyAddress
    BY <1>1, <1>6 DEF CallsOf, AdminRequest
  <2> QED BY <1>6, <2>1 DEF AnyExecutorStep, AnyIdentityStep, AnyAssetsStep
<1> QED BY <1>2, <1>3, <1>4, <1>5, <1>6 DEF Dispatch

\* Every step of the chain is a step of the assets layer or leaves it alone.
LEMMA ChainStepBelow ==
  ASSUME ChainInv, [ChainNext]_chainVars
  PROVE  AnyAssetsStep \/ UNCHANGED assetsVars
<1>1. CASE AssetsDirect
  BY <1>1, AssetsNextIsAnyStep DEF AssetsNext
<1>2. CASE ExecuteStep
  <2>1. PICK p \in Pid : Execute(p)
    BY <1>2 DEF ExecuteStep
  <2>2. Made(p) /\ Dispatch(proposals[p])
    BY <2>1, ExecuteAmends DEF Live
  <2> QED BY <2>2, DispatchIsAssetsStep
<1> QED BY <1>1, <1>2 DEF ChainNext, ProposeStep, VoteStep, PolicyStep, chainVars

LEMMA ChainInvStep ==
  ASSUME ChainInv, [ChainNext]_chainVars
  PROVE  ChainInv'
<1>1. AssetsInv'
  BY ChainStepBelow, AssetsInvStep DEF ChainInv
<1>2. WorkflowTypeOK' /\ FreshPids'
  <2>1. CASE UNCHANGED workflowVars
    BY <2>1 DEF workflowVars, ChainInv, WorkflowTypeOK, FreshPids, Made
  <2>2. CASE ProposeStep
    BY <2>2, ProposeStepIsPropose, ProposeType
  <2>3. CASE VoteStep
    <3>1. PICK sender \in Address, i \in Id, p \in Pid :
            Approve(i, p) \/ Reject(p) \/ BreakGlass(i, p)
      BY <2>3 DEF VoteStep
    <3>2. Made(p) /\ \E row : Amended(p, row)
      BY <3>1, ApproveAmends, RejectAmends, BreakGlassAmends DEF Live
    <3> QED BY <3>2, AmendedType
  <2>4. CASE PolicyStep
    <3>1. PICK sender \in Address, c \in WorkflowCalls.setPolicy : SetPolicy(sender, c)
      BY <2>4 DEF PolicyStep
    <3>2. c.tier \in Tier /\ c.policy \in Policy
      BY WorkflowCallsAssumption
    <3>3. policyFor' \in [Tier -> Policy] /\ UNCHANGED <<proposals, nextPid>>
      BY <3>1, <3>2 DEF SetPolicy, ChainInv, WorkflowTypeOK
    <3> QED BY <3>3 DEF ChainInv, WorkflowTypeOK, FreshPids, Made
  <2>5. CASE ExecuteStep
    <3>1. PICK p \in Pid : Execute(p)
      BY <2>5 DEF ExecuteStep
    <3>2. Made(p) /\ \E row : Amended(p, row)
      BY <3>1, ExecuteAmends DEF Live
    <3> QED BY <3>2, AmendedType
  <2> QED BY <2>1, <2>2, <2>3, <2>4, <2>5 DEF ChainNext, chainVars
<1> QED BY <1>1, <1>2 DEF ChainInv

\* The whole on-chain state is always well typed: what a proposal carries is
\* what its execution needs, whichever of the five kinds it is.
THEOREM ChainTypeCorrect == ChainSpec => []ChainTypeOK
<1>1. ChainInit => ChainInv
  BY WorkflowInit
<1>2. ChainInv /\ [ChainNext]_chainVars => ChainInv'
  BY ChainInvStep
<1>3. ChainInv => ChainTypeOK
  BY DEF ChainInv, AssetsInv, IdentityInv, AssetsTypeOK, ChainTypeOK
<1> QED BY <1>1, <1>2, <1>3, PTL DEF ChainSpec

-----------------------------------------------------------------------------
(***************************************************************************)
(* Four eyes.                                                              *)
(***************************************************************************)

\* The proposer and the approvers of p are distinct, and finitely many.
Eyes(p) ==
  /\ IsFiniteSet(ApproversOf(p))
  /\ Made(p) => proposals[p].proposer \notin ApproversOf(p)
  /\ Cardinality(ApproversOf(p)) = Len(proposals[p].approvers)

EyesInv == \A p \in Pid : Eyes(p)

LEMMA NoApprovers ==
  ASSUME NEW p, proposals[p].approvers = <<>>
  PROVE  Eyes(p)
<1>1. ApproversOf(p) = {}
  BY DEF ApproversOf
<1> QED BY <1>1, FS_EmptySet DEF Eyes

\* One more approver, who was none before and is not the proposer.
LEMMA ApprovalKeepsEyes ==
  ASSUME ChainInv, EyesInv, NEW i \in Id, NEW p \in Pid, Approve(i, p)
  PROVE  EyesInv'
<1>1. PICK row : /\ Amended(p, row)
                 /\ row.approvers = Append(proposals[p].approvers, i)
  BY ApproveAmends
<1>2. \A q \in Pid : proposals'[q] = IF q = p THEN row ELSE proposals[q]
  BY <1>1 DEF Amended, ChainInv, WorkflowTypeOK
<1>3. i # proposals[p].proposer /\ i \notin ApproversOf(p) /\ Made(p)
  BY ApproveAmends DEF Live
<1> DEFINE before == proposals[p].approvers
<1>4. before \in Seq(Id) /\ Len(before) \in Nat
  BY DEF ChainInv, WorkflowTypeOK, Proposal
<1>5. ApproversOf(p)' = ApproversOf(p) \cup {i}
  <2>1. proposals'[p].approvers = Append(before, i)
    BY <1>1, <1>2
  <2>2. /\ Len(Append(before, i)) = Len(before) + 1
        /\ \A k \in 1 .. Len(before) : Append(before, i)[k] = before[k]
        /\ Append(before, i)[Len(before) + 1] = i
    BY <1>4
  <2> HIDE DEF before
  <2>3. ApproversOf(p)' = {Append(before, i)[k] : k \in 1 .. Len(before) + 1}
    BY <2>1, <2>2 DEF ApproversOf
  <2>4. ApproversOf(p) = {before[k] : k \in 1 .. Len(before)}
    BY DEF ApproversOf, before
  <2>5. 1 .. Len(before) + 1 = (1 .. Len(before)) \cup {Len(before) + 1}
    BY <1>4
  <2> QED BY <2>2, <2>3, <2>4, <2>5
<1>6. Eyes(p)'
  <2>1. IsFiniteSet(ApproversOf(p)) /\ Cardinality(ApproversOf(p)) = Len(before)
    BY DEF EyesInv, Eyes
  <2>2. /\ IsFiniteSet(ApproversOf(p) \cup {i})
        /\ Cardinality(ApproversOf(p) \cup {i}) = Len(before) + 1
    BY <1>3, <2>1, FS_AddElement
  <2>3. Len(proposals'[p].approvers) = Len(before) + 1
    BY <1>1, <1>2, <1>4
  <2>4. proposals'[p].proposer = proposals[p].proposer
    BY <1>1, <1>2 DEF Amended
  <2>5. proposals[p].proposer \notin ApproversOf(p)
    BY <1>3 DEF EyesInv, Eyes
  <2> QED BY <1>3, <1>5, <2>2, <2>3, <2>4, <2>5 DEF Eyes
<1>7. \A q \in Pid : q # p => Eyes(q)'
  BY <1>2 DEF EyesInv, Eyes, ApproversOf, Made
<1> QED BY <1>6, <1>7 DEF EyesInv

\* Any other amendment leaves the approvers and the proposer.
LEMMA AmendmentKeepsEyes ==
  ASSUME ChainInv, EyesInv, NEW p \in Pid, NEW row, Amended(p, row),
         row.approvers = proposals[p].approvers
  PROVE  EyesInv'
<1>1. \A q \in Pid : /\ proposals'[q].approvers = proposals[q].approvers
                     /\ proposals'[q].proposer = proposals[q].proposer
  BY DEF Amended, ChainInv, WorkflowTypeOK
<1>2. ASSUME NEW q \in Pid PROVE Eyes(q)'
  <2>1. ApproversOf(q)' = ApproversOf(q) /\ (Made(q)' <=> Made(q))
    BY <1>1 DEF ApproversOf, Made
  <2>2. Eyes(q)
    BY DEF EyesInv
  <2> QED BY <1>1, <2>1, <2>2 DEF Eyes
<1> QED BY <1>2 DEF EyesInv

LEMMA EyesStep ==
  ASSUME ChainInv, EyesInv, [ChainNext]_chainVars
  PROVE  EyesInv'
<1>1. CASE UNCHANGED proposals
  BY <1>1 DEF EyesInv, Eyes, ApproversOf, Made
<1>2. CASE ProposeStep
  <2>1. \A p \in Pid : proposals'[p] = proposals[p] \/ proposals'[p].approvers = <<>>
    BY <1>2, ProposeStepIsPropose, ProposeType
  <2>2. ASSUME NEW p \in Pid, proposals'[p] = proposals[p] PROVE Eyes(p)'
    BY <2>2 DEF EyesInv, Eyes, ApproversOf, Made
  <2>3. ASSUME NEW p \in Pid, proposals'[p].approvers = <<>> PROVE Eyes(p)'
    <3>1. ApproversOf(p)' = {}
      BY <2>3 DEF ApproversOf
    <3> QED BY <2>3, <3>1, FS_EmptySet DEF Eyes
  <2> QED BY <2>1, <2>2, <2>3 DEF EyesInv
<1>3. CASE VoteStep
  <2>1. PICK sender \in Address, i \in Id, p \in Pid :
          Approve(i, p) \/ Reject(p) \/ BreakGlass(i, p)
    BY <1>3 DEF VoteStep
  <2> QED BY <2>1, ApprovalKeepsEyes, RejectAmends, BreakGlassAmends, AmendmentKeepsEyes
<1>4. CASE ExecuteStep
  BY <1>4, ExecuteAmends, AmendmentKeepsEyes DEF ExecuteStep
<1> QED
  BY <1>1, <1>2, <1>3, <1>4 DEF ChainNext, PolicyStep, SetPolicy, workflowVars, chainVars

\* Nobody approves what they proposed and nobody approves twice, through every
\* rotation of keys, every relayer and every change of policy.
THEOREM FourEyesHolds == ChainSpec => []FourEyes
<1> DEFINE Inv == ChainInv /\ EyesInv
<1>1. ChainInit => Inv
  BY WorkflowInit, NoApprovers DEF ChainInit, EyesInv, NoProposal
<1>2. Inv /\ [ChainNext]_chainVars => Inv'
  BY ChainInvStep, EyesStep
<1>3. Inv => FourEyes
  BY DEF EyesInv, Eyes, FourEyes
<1> QED BY <1>1, <1>2, <1>3, PTL DEF ChainSpec

-----------------------------------------------------------------------------
Final(p) == proposals[p].executed \/ proposals[p].rejected

LEMMA FinalStays ==
  ASSUME ChainInv, [ChainNext]_chainVars
  PROVE  \A p \in Pid : Final(p) => proposals'[p] = proposals[p]
<1> DEFINE Kept == \A p \in Pid : Final(p) => proposals'[p] = proposals[p]
<1>1. CASE UNCHANGED proposals
  BY <1>1
<1>2. CASE ProposeStep
  <2>1. \A p \in Pid : proposals[p] # NoProposal => proposals'[p] = proposals[p]
    BY <1>2, ProposeStepIsPropose, ProposeType
  <2>2. \A p \in Pid : Final(p) => proposals[p] # NoProposal
    BY DEF Final, NoProposal
  <2> QED BY <2>1, <2>2
<1>3. ASSUME NEW p \in Pid, Live(p), \E row : Amended(p, row) PROVE Kept
  BY <1>3 DEF Final, Live, Amended, ChainInv, WorkflowTypeOK
<1>4. CASE VoteStep
  <2>1. PICK sender \in Address, i \in Id, p \in Pid :
          Approve(i, p) \/ Reject(p) \/ BreakGlass(i, p)
    BY <1>4 DEF VoteStep
  <2> QED BY <1>3, <2>1, ApproveAmends, RejectAmends, BreakGlassAmends
<1>5. CASE ExecuteStep
  BY <1>3, <1>5, ExecuteAmends DEF ExecuteStep
<1> QED BY <1>1, <1>2, <1>4, <1>5 DEF ChainNext, PolicyStep, SetPolicy, workflowVars, chainVars

\* Executed or rejected, a proposal is out of everybody's reach: it cannot be
\* executed a second time, and a veto cannot be taken back or overtaken.
THEOREM FinalIsFinalHolds == ChainSpec => FinalIsFinal
<1>1. ChainInit => ChainInv
  BY WorkflowInit
<1>2. ChainInv /\ [ChainNext]_chainVars => ChainInv'
  BY ChainInvStep
<1>3. ChainInv /\ [ChainNext]_chainVars =>
        [\A p \in Pid : (proposals[p].executed \/ proposals[p].rejected) =>
           proposals'[p] = proposals[p]]_chainVars
  BY FinalStays DEF Final
<1> QED BY <1>1, <1>2, <1>3, PTL DEF ChainSpec, FinalIsFinal

-----------------------------------------------------------------------------
\* What holds of the layers below with any executor holds with this one: over
\* the workflow too, no two keys act for one identity and content hashes and
\* assets stay one to one.
THEOREM LayersBelowHold == ChainSpec => [](OneKeyPerIdentity /\ HashIndexExact)
<1> DEFINE Inv == ChainInv /\ IndexPointsBack /\ HashInv
<1>1. ChainInit => Inv
  BY WorkflowInit, PointsBackInit, HashInit DEF ChainInit, AssetsInit
<1>2. ASSUME Inv, [ChainNext]_chainVars PROVE Inv'
  <2>1. ChainInv'
    BY <1>2, ChainInvStep
  <2>2. AnyAssetsStep \/ UNCHANGED assetsVars
    BY <1>2, ChainStepBelow
  <2>3. HashInv'
    BY <1>2, <2>2, HashInvStep DEF ChainInv
  <2>4. AnyIdentityStep \/ UNCHANGED identityVars
    BY <2>2 DEF AnyAssetsStep, AccessStep, AssetStep, AnyMint, AnyTransfer, AnyGrant, assetsVars
  <2>5. IndexPointsBack'
    BY <1>2, <2>4, PointsBackStep DEF ChainInv, AssetsInv
  <2> QED BY <2>1, <2>3, <2>5
<1>3. Inv => OneKeyPerIdentity /\ HashIndexExact
  BY PointsBackImpliesOneKey DEF HashInv
<1> QED BY <1>1, <1>2, <1>3, PTL DEF ChainSpec

-----------------------------------------------------------------------------
(***************************************************************************)
(* Without an Admin and without a proposal to make one, there is never one *)
(* again.                                                                  *)
(***************************************************************************)

\* Nobody who acts on the chain directly can make an Admin any more.
LEMMA NobodyMakesAdmin ==
  ASSUME AssetsInv, bootstrapped, \A a \in Address : ~HasRoleToken(a, ADMIN),
         IdentityDirect
  PROVE  bootstrapped' /\ \A a \in Address : ~HasRoleToken(a, ADMIN)'
<1>t. balance \in [AnyAddress -> [Role -> Nat]] /\ Address \subseteq AnyAddress
  BY DEF AssetsInv, IdentityInv, IdentityTypeOK, RoleTypeOK, AnyAddress
<1>1. CASE UNCHANGED roleVars
  BY <1>1 DEF roleVars, HasRoleToken
<1>2. CASE RoleStep
  <2>1. PICK sender \in Address :
          \/ \E founder \in IdentityCalls.bootstrap : Bootstrap(sender, founder)
          \/ \E c \in IdentityCalls.roleToken :
               \/ GrantRoleToken(sender, c.who, c.role)
               \/ RevokeRoleToken(sender, c.who, c.role)
          \/ RenounceRoleAdmin(sender)
    BY <1>2 DEF RoleStep
  <2>2. RenounceRoleAdmin(sender)
    BY <2>1 DEF Bootstrap, GrantRoleToken, RevokeRoleToken
  <2> QED BY <2>2 DEF RenounceRoleAdmin, HasRoleToken
<1> QED BY <1>1, <1>2 DEF IdentityDirect, TimeStep, DidStep, RegistryStep, SyncStep

\* Nor can anybody propose to: the proposer of a new Admin is an Admin.
LEMMA NoAdminProposes ==
  ASSUME AssetsInv, \A a \in Address : ~HasRoleToken(a, ADMIN),
         NEW sender \in Address, NEW i \in Id, ActsAs(sender, i)
  PROVE  ~IsAdminIdentity(i)
<1>1. i \in Registered
  BY DEF ActsAs, IsActive, Registered
<1>2. identities[i].did \in Address
  BY <1>1 DEF AssetsInv, IdentityInv, IssuedShape, Registered, NoIdentity, Id, AnyId
<1>3. ControllerOf(i) \in Address
  BY <1>2, IdentityOwnerType DEF ControllerOf, AssetsInv, IdentityInv, IdentityTypeOK
<1> QED BY <1>3 DEF IsAdminIdentity

LEMMA NoAdminStep ==
  ASSUME ChainInv, NoAdminLeft, ChainNext
  PROVE  NoAdminLeft'
<1>a. /\ AssetsInv /\ bootstrapped /\ \A a \in Address : ~HasRoleToken(a, ADMIN)
  BY DEF ChainInv, NoAdminLeft
<1>1. CASE AssetsDirect /\ UNCHANGED workflowVars
  <2>1. bootstrapped' /\ \A a \in Address : ~HasRoleToken(a, ADMIN)'
    <3>1. CASE IdentityDirect
      BY <3>1, <1>a, NobodyMakesAdmin
    <3>2. CASE UNCHANGED identityVars
      BY <3>2, <1>a DEF identityVars, roleVars, HasRoleToken
    <3> QED BY <1>1, <3>1, <3>2 DEF AssetsDirect, AccessStep, AssetStep
  <2> QED BY <1>1, <2>1 DEF NoAdminLeft, workflowVars, Live, Made
<1>2. CASE ProposeStep
  <2>1. PICK sender \in Address, i \in Id, kind \in Kind, tier \in Tier, expiresAt \in Nat :
          /\ ActsAs(sender, i)
          /\ kind = "ADMIN_ROLE_MINT" => IsAdminIdentity(i)
          /\ \E call \in CallsOf(kind) : Propose(kind, call, tier, expiresAt, i)
    BY <1>2, ProposeStepIsPropose
  <2>2. kind # "ADMIN_ROLE_MINT"
    BY <2>1, <1>a, NoAdminProposes
  <2>3. \A p \in Pid : proposals'[p] = proposals[p] \/ proposals'[p].kind = kind
    BY <2>1, ProposeType
  <2>4. \A p \in Pid : Live(p)' => proposals'[p].kind # "ADMIN_ROLE_MINT"
    BY <2>2, <2>3 DEF NoAdminLeft, Live, Made
  <2>5. UNCHANGED roleVars
    BY <1>2 DEF ProposeStep, assetsVars, identityVars
  <2> QED BY <1>a, <2>4, <2>5 DEF NoAdminLeft, roleVars, HasRoleToken
<1>3. CASE VoteStep
  <2>1. PICK sender \in Address, i \in Id, q \in Pid :
          Approve(i, q) \/ Reject(q) \/ BreakGlass(i, q)
    BY <1>3 DEF VoteStep
  <2>2. PICK row : Live(q) /\ Amended(q, row)
    BY <2>1, ApproveAmends, RejectAmends, BreakGlassAmends
  <2>3. \A p \in Pid : Live(p)' => proposals'[p].kind # "ADMIN_ROLE_MINT"
    BY <2>2 DEF NoAdminLeft, Amended, Live, Made, ChainInv, WorkflowTypeOK
  <2>4. UNCHANGED roleVars
    BY <1>3 DEF VoteStep, assetsVars, identityVars
  <2> QED BY <1>a, <2>3, <2>4 DEF NoAdminLeft, roleVars, HasRoleToken
<1>4. CASE PolicyStep
  BY <1>4, <1>a DEF PolicyStep, SetPolicy, NoAdminLeft, assetsVars, identityVars, roleVars,
     HasRoleToken, Live, Made
<1>5. CASE ExecuteStep
  <2>1. PICK q \in Pid : Execute(q)
    BY <1>5 DEF ExecuteStep
  <2>2. PICK row : Live(q) /\ Dispatch(proposals[q]) /\ Amended(q, row)
    BY <2>1, ExecuteAmends
  <2>3. \A p \in Pid : Live(p)' => proposals'[p].kind # "ADMIN_ROLE_MINT"
    BY <2>2 DEF NoAdminLeft, Amended, Live, Made, ChainInv, WorkflowTypeOK
  <2>4. UNCHANGED roleVars
    BY <2>2 DEF NoAdminLeft, Dispatch, identityVars
  <2> QED BY <1>a, <2>3, <2>4 DEF NoAdminLeft, roleVars, HasRoleToken
<1> QED BY <1>1, <1>2, <1>3, <1>4, <1>5 DEF ChainNext

\* The governance can be lost for good: once the last Admin is gone and no
\* proposal for another is open, no sequence of calls, votes, policies or
\* syncs makes one.
THEOREM NoAdminIsPermanentHolds == ChainSpec => NoAdminIsPermanent
<1>1. ChainInit => ChainInv
  BY WorkflowInit
<1>2. ChainInv /\ [ChainNext]_chainVars => ChainInv'
  BY ChainInvStep
<1>3. ChainInv /\ [ChainNext]_chainVars => [NoAdminLeft => NoAdminLeft']_chainVars
  BY NoAdminStep
<1> QED BY <1>1, <1>2, <1>3, PTL DEF ChainSpec, NoAdminIsPermanent
-----------------------------------------------------------------------------
(***************************************************************************)
(* What was executed had the votes and the waiting period of the           *)
(* constructor's table, or ends soon; and the workflow implements Ballot.  *)
(***************************************************************************)
\* As long as setPolicy may only tighten the table, the policies in force do.
TightInv ==
  PoliciesStand =>
    \A tier \in Tier : /\ policyFor[tier].approvals >= InitialPolicy[tier].approvals
                       /\ policyFor[tier].timelock >= Timelock[tier]

LEMMA TightInit == ChainInit => TightInv
<1> SUFFICES ASSUME ChainInit PROVE TightInv
  OBVIOUS
<1>1. policyFor = InitialPolicy /\ \A tier \in Tier : InitialPolicy[tier] \in Policy
  BY InitialPolicyTyped DEF ChainInit
<1>2. \A tier \in Tier : InitialPolicy[tier].timelock = Timelock[tier]
  BY DEF InitialPolicy
<1>3. \A tier \in Tier : InitialPolicy[tier].approvals \in Nat /\ Timelock[tier] \in Nat
  BY <1>1, WorkflowAssumption DEF Policy
<1> QED BY <1>1, <1>2, <1>3 DEF TightInv

LEMMA TightStep ==
  ASSUME ChainInv, TightInv, [ChainNext]_chainVars
  PROVE  TightInv'
<1>1. CASE UNCHANGED policyFor
  BY <1>1 DEF TightInv, PoliciesStand
<1>2. CASE PolicyStep
  <2>1. PICK sender \in Address, c \in WorkflowCalls.setPolicy : SetPolicy(sender, c)
    BY <1>2 DEF PolicyStep
  <2>2. c.tier \in Tier /\ policyFor' = [policyFor EXCEPT ![c.tier] = c.policy]
    BY <2>1, WorkflowCallsAssumption DEF SetPolicy
  <2>3. policyFor \in [Tier -> Policy]
    BY DEF ChainInv, WorkflowTypeOK
  <2> QED BY <2>2, <2>3 DEF TightInv, PoliciesStand
<1>3. CASE ProposeStep
  BY <1>1, <1>3, ProposeStepIsPropose DEF Propose
<1>4. CASE VoteStep
  BY <1>1, <1>4 DEF VoteStep, Approve, Reject, BreakGlass
<1>5. CASE ExecuteStep
  BY <1>1, <1>5 DEF ExecuteStep, Execute
<1> QED BY <1>1, <1>2, <1>3, <1>4, <1>5 DEF ChainNext, workflowVars, chainVars

-----------------------------------------------------------------------------
(***************************************************************************)
(* The votes of a proposal that is executed.                               *)
(***************************************************************************)

\* With the votes that execute asks for, all of them others'.
LEMMA ExecutedHasVotes ==
  ASSUME ChainInv, EyesInv, TightInv, PoliciesStand, NEW p \in Pid, Execute(p)
  PROVE  Cardinality(ApproversOf(p)) >= InitialPolicy[proposals[p].tier].approvals
<1>1. proposals[p] \in Proposal /\ proposals[p].tier \in Tier
  BY DEF ChainInv, WorkflowTypeOK, Proposal
<1>2. Len(proposals[p].approvers) >= policyFor[proposals[p].tier].approvals
  BY DEF Execute
<1>3. /\ policyFor[proposals[p].tier].approvals \in Nat
      /\ InitialPolicy[proposals[p].tier].approvals \in Nat
      /\ Len(proposals[p].approvers) \in Nat
  BY <1>1, InitialPolicyTyped DEF ChainInv, WorkflowTypeOK, Policy, Proposal
<1>4. Cardinality(ApproversOf(p)) = Len(proposals[p].approvers)
  BY DEF EyesInv, Eyes
<1> QED BY <1>1, <1>2, <1>3, <1>4 DEF TightInv

\* One more approver in the sequence is one more in the set.
LEMMA OneMoreApprover ==
  ASSUME ChainInv, NEW p \in Pid, NEW i \in Id,
         proposals'[p].approvers = Append(proposals[p].approvers, i)
  PROVE  ApproversOf(p)' = ApproversOf(p) \cup {i}
<1> DEFINE before == proposals[p].approvers
<1>1. before \in Seq(Id) /\ Len(before) \in Nat
  BY DEF ChainInv, WorkflowTypeOK, Proposal
<1>2. /\ Len(Append(before, i)) = Len(before) + 1
      /\ \A k \in 1 .. Len(before) : Append(before, i)[k] = before[k]
      /\ Append(before, i)[Len(before) + 1] = i
  BY <1>1
<1> HIDE DEF before
<1>3. ApproversOf(p)' = {Append(before, i)[k] : k \in 1 .. Len(before) + 1}
  BY <1>2 DEF ApproversOf, before
<1>4. ApproversOf(p) = {before[k] : k \in 1 .. Len(before)}
  BY DEF ApproversOf, before
<1>5. 1 .. Len(before) + 1 = (1 .. Len(before)) \cup {Len(before) + 1}
  BY <1>1
<1> QED BY <1>2, <1>3, <1>4, <1>5

-----------------------------------------------------------------------------
(***************************************************************************)
(* The refinement.                                                         *)
(***************************************************************************)

\* A proposal that a step leaves alone is a paper that the step leaves alone.
LEMMA PaperStands ==
  ASSUME NEW p \in Pid, \A q \in Pid \ {p} : proposals'[q] = proposals[q]
  PROVE  Decision!OthersStand(p)
  BY DEF Decision!OthersStand, ApproversOf, Made, PoliciesStand

\* Ballot counts as everybody does.
LEMMA SameCount == ASSUME NEW S PROVE Decision!Cardinality(S) = Cardinality(S)
  BY DEF Decision!Cardinality, Cardinality

LEMMA NothingDecided ==
  ASSUME \A q \in Pid : proposals'[q] = proposals[q]
  PROVE  UNCHANGED Decision!ballotVars
  BY DEF Decision!ballotVars, ApproversOf, Made, PoliciesStand

LEMMA BallotStart == ChainInit => Decision!BallotInit
<1> SUFFICES ASSUME ChainInit PROVE Decision!BallotInit
  OBVIOUS
<1>1. \A p \in Pid : /\ ApproversOf(p) = {} /\ ~Made(p)
                     /\ ~proposals[p].executed /\ ~proposals[p].rejected
  BY DEF ChainInit, NoProposal, ApproversOf, Made
<1> QED BY <1>1 DEF Decision!BallotInit

\* One step for each thing that can happen to a proposal.
LEMMA ProposalOpens ==
  ASSUME ChainInv, ProposeStep
  PROVE  Decision!BallotNext
<1>0. PICK kind \in Kind, tier \in Tier, expiresAt \in Nat, i \in Id :
        \E call \in CallsOf(kind) : Propose(kind, call, tier, expiresAt, i)
  BY ProposeStepIsPropose
<1>1. PICK call \in CallsOf(kind) : Propose(kind, call, tier, expiresAt, i)
  BY <1>0
<1>2. PICK p \in Pid : p = nextPid
  BY <1>1 DEF Propose
<1>3. proposals[p] = NoProposal
  <2>1. p >= nextPid
    BY <1>2, WorkflowAssumption DEF Pid
  <2> QED BY <2>1 DEF ChainInv, FreshPids
<1> DEFINE made == [NoProposal EXCEPT
             !.kind = kind, !.call = call, !.tier = tier, !.expiresAt = expiresAt,
             !.proposer = i, !.proposedAt = now,
             !.readyAt = now + policyFor[tier].timelock]
<1>4. proposals' = [proposals EXCEPT ![p] = made]
  BY <1>1, <1>2 DEF Propose
<1>5. /\ made.proposer = i /\ made.approvers = <<>>
      /\ made.executed = FALSE /\ made.rejected = FALSE
  BY DEF NoProposal
<1> HIDE DEF made
<1>6. proposals'[p] = made /\ \A q \in Pid \ {p} : proposals'[q] = proposals[q]
  BY <1>4 DEF ChainInv, WorkflowTypeOK
<1>7. i # 0 /\ i \in Id
  BY MaxIdAssumption DEF Id
<1>8. /\ NoProposal.proposer = 0
      /\ NoProposal.executed = FALSE /\ NoProposal.rejected = FALSE
  BY DEF NoProposal
<1>9. Made(p)' /\ ~Made(p)
  BY <1>3, <1>5, <1>6, <1>7, <1>8 DEF Made
<1>10. ApproversOf(p)' = {}
  <2>1. Len(made.approvers) = 0
    BY <1>5
  <2>2. 1 .. 0 = {}
    OBVIOUS
  <2> QED BY <1>6, <2>1, <2>2 DEF ApproversOf
<1>11. Decision!Open(p)
  <2>1. /\ ~proposals[p].executed /\ ~proposals[p].rejected
        /\ ~proposals'[p].executed /\ ~proposals'[p].rejected
        /\ proposals'[p].proposer = i
    BY <1>3, <1>5, <1>6, <1>8
  <2> QED BY <1>2, <1>7, <1>9, <1>10, <2>1 DEF Decision!Open
<1>12. Decision!OthersStand(p)
  BY <1>2, <1>6, PaperStands
<1> QED BY <1>2, <1>11, <1>12 DEF Decision!BallotNext

\* What any amendment of a live proposal leaves as it was.
LEMMA AmendedPaper ==
  ASSUME ChainInv, NEW p \in Pid, NEW row, Amended(p, row), Live(p)
  PROVE  /\ Decision!OthersStand(p) /\ Decision!Settled(p)
         /\ proposals'[p] = row /\ Made(p)'
         /\ ~proposals[p].executed /\ ~proposals[p].rejected /\ Made(p)
<1>1. \A q \in Pid : proposals'[q] = IF q = p THEN row ELSE proposals[q]
  BY DEF Amended, ChainInv, WorkflowTypeOK
<1>2. Decision!OthersStand(p)
  BY <1>1, PaperStands
<1>3. Decision!Settled(p)
  BY <1>1 DEF Decision!Settled, Amended, PoliciesStand
<1> QED BY <1>1, <1>2, <1>3 DEF Amended, Live, Made

LEMMA VoteIsCast ==
  ASSUME ChainInv, NEW i \in Id, NEW p \in Pid, Approve(i, p)
  PROVE  Decision!BallotNext
<1>1. PICK row : /\ Amended(p, row)
                 /\ row.approvers = Append(proposals[p].approvers, i)
                 /\ row.executed = proposals[p].executed
                 /\ row.rejected = proposals[p].rejected
  BY ApproveAmends
<1>2. Live(p) /\ i # proposals[p].proposer /\ i \notin ApproversOf(p)
  BY ApproveAmends
<1>3. ApproversOf(p)' = ApproversOf(p) \cup {i}
  BY <1>1, <1>2, AmendedPaper, OneMoreApprover
<1>4. Decision!Vote(p)
  BY <1>1, <1>2, <1>3, AmendedPaper DEF Decision!Vote
<1> QED BY <1>1, <1>2, <1>4, AmendedPaper DEF Decision!BallotNext

LEMMA VetoIsCast ==
  ASSUME ChainInv, NEW p \in Pid, Reject(p)
  PROVE  Decision!BallotNext
<1>1. /\ proposals'[p].rejected /\ proposals'[p].executed = proposals[p].executed
      /\ proposals'[p].approvers = proposals[p].approvers
  BY DEF Reject, ChainInv, WorkflowTypeOK, Proposal
<1>2. PICK row : Amended(p, row)
  BY RejectAmends
<1>3. Live(p) /\ ApproversOf(p)' = ApproversOf(p)
  BY <1>1, RejectAmends DEF ApproversOf
<1>4. Decision!Veto(p)
  BY <1>1, <1>2, <1>3, AmendedPaper DEF Decision!Veto
<1> QED BY <1>2, <1>3, <1>4, AmendedPaper DEF Decision!BallotNext

\* Breaking the glass decides nothing.
LEMMA GlassDecidesNothing ==
  ASSUME ChainInv, NEW i \in Id, NEW p \in Pid, BreakGlass(i, p)
  PROVE  UNCHANGED Decision!ballotVars
<1>1. /\ proposals'[p].rejected = proposals[p].rejected
      /\ proposals'[p].executed = proposals[p].executed
      /\ proposals'[p].approvers = proposals[p].approvers
  BY DEF BreakGlass, ChainInv, WorkflowTypeOK, Proposal
<1>2. PICK row : Amended(p, row)
  BY BreakGlassAmends
<1>3. Live(p) /\ ApproversOf(p)' = ApproversOf(p)
  BY <1>1, BreakGlassAmends DEF ApproversOf
<1>4. /\ Decision!OthersStand(p) /\ Decision!Settled(p) /\ Made(p)' /\ Made(p)
  BY <1>2, <1>3, AmendedPaper
<1> QED BY <1>1, <1>3, <1>4 DEF Decision!ballotVars, Decision!OthersStand, Decision!Settled

LEMMA ExecutionCarries ==
  ASSUME ChainInv, EyesInv, TightInv, NEW p \in Pid, Execute(p)
  PROVE  Decision!BallotNext
<1>1. PICK row : /\ Amended(p, row)
                 /\ row.approvers = proposals[p].approvers
                 /\ row.executed
  BY ExecuteAmends
<1>2. Live(p)
  BY ExecuteAmends
<1>3. proposals'[p] = row /\ ApproversOf(p)' = ApproversOf(p)
  BY <1>1, <1>2, AmendedPaper DEF ApproversOf
<1>4. Cardinality(ApproversOf(p)) \in Nat
  BY FS_CardinalityType DEF EyesInv, Eyes
<1>5. Cardinality(ApproversOf(p))
        >= IF PoliciesStand THEN InitialPolicy[proposals[p].tier].approvals ELSE 0
  BY <1>4, ExecutedHasVotes
<1>6. Decision!Carry(p)
  BY <1>1, <1>2, <1>3, <1>5, SameCount, AmendedPaper DEF Decision!Carry
<1> QED BY <1>1, <1>2, <1>6, AmendedPaper DEF Decision!BallotNext

LEMMA BallotStep ==
  ASSUME ChainInv, EyesInv, TightInv, [ChainNext]_chainVars
  PROVE  [Decision!BallotNext]_(Decision!ballotVars)
<1>1. CASE UNCHANGED proposals
  BY <1>1, NothingDecided
<1>2. CASE ProposeStep
  BY <1>2, ProposalOpens
<1>3. CASE VoteStep
  <2>1. PICK sender \in Address, i \in Id, p \in Pid :
          Approve(i, p) \/ Reject(p) \/ BreakGlass(i, p)
    BY <1>3 DEF VoteStep
  <2> QED BY <2>1, VoteIsCast, VetoIsCast, GlassDecidesNothing
<1>4. CASE ExecuteStep
  BY <1>4, ExecutionCarries DEF ExecuteStep
<1> QED
  BY <1>1, <1>2, <1>3, <1>4 DEF ChainNext, PolicyStep, SetPolicy, workflowVars, chainVars

\* The workflow implements the ballot: votes, vetoes, broken glass, policies and
\* executions amount to nothing but opening, voting, carrying and vetoing.
THEOREM VotesAreBallotsHolds == ChainSpec => VotesAreBallots
<1> DEFINE Inv == ChainInv /\ EyesInv /\ TightInv
<1>1. ChainInit => Inv
  BY WorkflowInit, TightInit, NoApprovers DEF ChainInit, EyesInv, NoProposal
<1>2. Inv /\ [ChainNext]_chainVars => Inv'
  BY ChainInvStep, EyesStep, TightStep
<1>3. Inv /\ [ChainNext]_chainVars => [Decision!BallotNext]_(Decision!ballotVars)
  BY BallotStep
<1> QED
  BY <1>1, <1>2, <1>3, BallotStart, PTL DEF ChainSpec, VotesAreBallots, Decision!BallotSpec
-----------------------------------------------------------------------------
(***************************************************************************)
(* The approval matrix.  The waiting period of a proposal is fixed when it *)
(* is made; what it had when it was executed it keeps.                     *)
(***************************************************************************)

MatrixRow(p) ==
  /\ Made(p) => \/ proposals[p].breakGlass
                \/ proposals[p].readyAt >= proposals[p].proposedAt + Timelock[proposals[p].tier]
  /\ proposals[p].executed =>
       /\ Made(p)
       /\ ~proposals[p].rejected
       /\ now >= proposals[p].readyAt
       /\ Cardinality(ApproversOf(p)) >= InitialPolicy[proposals[p].tier].approvals

MatrixInv == PoliciesStand => \A p \in Pid : MatrixRow(p)

\* The clock of the chain never goes back.
LEMMA ClockGoesOn ==
  ASSUME ChainInv, [ChainNext]_chainVars
  PROVE  now \in Nat /\ now' \in Nat /\ now' >= now
<1>1. now \in Nat
  BY MaxTimeAssumption DEF ChainInv, AssetsInv, IdentityInv, IdentityTypeOK
<1>2. AnyAssetsStep \/ UNCHANGED assetsVars
  BY ChainStepBelow
<1>3. AnyIdentityStep \/ UNCHANGED now
  BY <1>2 DEF AnyAssetsStep, AccessStep, AssetStep, AnyMint, AnyTransfer, AnyGrant,
     assetsVars, identityVars
<1>4. now' = now \/ now' = now + 1
  BY <1>3 DEF AnyIdentityStep, IdentityDirect, AnyExecutorStep, TimeStep, Tick, DidStep,
     RoleStep, RegistryStep, SyncStep
<1> QED BY <1>1, <1>4

LEMMA RowStands ==
  ASSUME ChainInv, NEW p \in Pid, MatrixRow(p), proposals'[p] = proposals[p],
         now \in Nat, now' \in Nat, now' >= now
  PROVE  MatrixRow(p)'
<1>1. proposals[p].readyAt \in Nat
  BY DEF ChainInv, WorkflowTypeOK, Proposal
<1>2. ApproversOf(p)' = ApproversOf(p) /\ (Made(p)' <=> Made(p))
  BY DEF ApproversOf, Made
<1> QED BY <1>1, <1>2 DEF MatrixRow

\* Voting, vetoing and breaking the glass leave the proposal live, or dead, but
\* not executed, and its waiting period as it was unless the glass is broken.
LEMMA VoteKeepsRow ==
  ASSUME ChainInv, NEW p \in Pid, MatrixRow(p), NEW i \in Id,
         Approve(i, p) \/ Reject(p) \/ BreakGlass(i, p)
  PROVE  MatrixRow(p)'
<1>1. Live(p) /\ \E row : Amended(p, row)
  BY ApproveAmends, RejectAmends, BreakGlassAmends
<1>2. /\ proposals'[p].executed = proposals[p].executed
      /\ proposals'[p].tier = proposals[p].tier
      /\ proposals'[p].proposedAt = proposals[p].proposedAt
      /\ \/ proposals'[p].breakGlass
         \/ /\ proposals'[p].breakGlass = proposals[p].breakGlass
            /\ proposals'[p].readyAt = proposals[p].readyAt
  BY DEF Approve, Reject, BreakGlass, ChainInv, WorkflowTypeOK, Proposal
<1> QED BY <1>1, <1>2 DEF MatrixRow, Live, Made

LEMMA ExecutionKeepsRow ==
  ASSUME ChainInv, EyesInv, TightInv, PoliciesStand, NEW p \in Pid, MatrixRow(p), Execute(p),
         now \in Nat, now' \in Nat, now' >= now
  PROVE  MatrixRow(p)'
<1>1. Live(p) /\ now >= proposals[p].readyAt
  BY DEF Execute
<1>2. /\ proposals'[p].tier = proposals[p].tier
      /\ proposals'[p].proposer = proposals[p].proposer
      /\ proposals'[p].proposedAt = proposals[p].proposedAt
      /\ proposals'[p].readyAt = proposals[p].readyAt
      /\ proposals'[p].approvers = proposals[p].approvers
      /\ proposals'[p].breakGlass = proposals[p].breakGlass
      /\ proposals'[p].rejected = proposals[p].rejected
  BY DEF Execute, ChainInv, WorkflowTypeOK, Proposal
<1>3. ApproversOf(p)' = ApproversOf(p) /\ Made(p) /\ Made(p)'
  BY <1>1, <1>2 DEF ApproversOf, Live, Made
<1>4. Cardinality(ApproversOf(p)) >= InitialPolicy[proposals[p].tier].approvals
  BY ExecutedHasVotes
<1>5. proposals[p].readyAt \in Nat
  BY DEF ChainInv, WorkflowTypeOK, Proposal
<1> QED BY <1>1, <1>2, <1>3, <1>4, <1>5 DEF MatrixRow, Live

\* A proposal starts with the waiting period that is in force.
LEMMA ProposalKeepsRows ==
  ASSUME ChainInv, TightInv, MatrixInv, PoliciesStand, ProposeStep,
         now \in Nat, now' \in Nat, now' >= now
  PROVE  \A p \in Pid : MatrixRow(p)'
<1>1. PICK kind \in Kind, tier \in Tier, expiresAt \in Nat, i \in Id :
        \E call \in CallsOf(kind) : Propose(kind, call, tier, expiresAt, i)
  BY ProposeStepIsPropose
<1>2. PICK call \in CallsOf(kind) : Propose(kind, call, tier, expiresAt, i)
  BY <1>1
<1> DEFINE made == [NoProposal EXCEPT
             !.kind = kind, !.call = call, !.tier = tier, !.expiresAt = expiresAt,
             !.proposer = i, !.proposedAt = now,
             !.readyAt = now + policyFor[tier].timelock]
<1>3. /\ made.tier = tier /\ made.proposedAt = now /\ made.executed = FALSE
      /\ made.readyAt = now + policyFor[tier].timelock
  BY DEF NoProposal
<1>4. proposals' = [proposals EXCEPT ![nextPid] = made]
  BY <1>2 DEF Propose
<1> HIDE DEF made
<1>5. \A p \in Pid : proposals'[p] = IF p = nextPid THEN made ELSE proposals[p]
  BY <1>4 DEF ChainInv, WorkflowTypeOK
<1>6. /\ policyFor[tier].timelock \in Nat /\ Timelock[tier] \in Nat
      /\ policyFor[tier].timelock >= Timelock[tier]
  BY WorkflowAssumption DEF TightInv, ChainInv, WorkflowTypeOK, Policy
<1>7. made.readyAt >= made.proposedAt + Timelock[made.tier]
  BY <1>3, <1>6
<1>8. ASSUME NEW p \in Pid PROVE MatrixRow(p)'
  <2>1. CASE proposals'[p] = made
    BY <2>1, <1>3, <1>7 DEF MatrixRow
  <2>2. CASE proposals'[p] = proposals[p]
    BY <2>2, RowStands DEF MatrixInv
  <2> QED BY <1>5, <2>1, <2>2
<1> QED BY <1>8

LEMMA MatrixStep ==
  ASSUME ChainInv, EyesInv, TightInv, MatrixInv, [ChainNext]_chainVars
  PROVE  MatrixInv'
<1> SUFFICES ASSUME PoliciesStand PROVE \A p \in Pid : MatrixRow(p)'
  BY DEF MatrixInv, PoliciesStand
<1>n. now \in Nat /\ now' \in Nat /\ now' >= now
  BY ClockGoesOn
<1>r. \A p \in Pid : MatrixRow(p)
  BY DEF MatrixInv
<1>1. CASE UNCHANGED proposals
  BY <1>1, <1>n, <1>r, RowStands
<1>2. CASE ProposeStep
  BY <1>2, <1>n, ProposalKeepsRows
<1>3. ASSUME NEW p \in Pid, NEW row, Amended(p, row), MatrixRow(p)'
      PROVE  \A q \in Pid : MatrixRow(q)'
  <2>1. \A q \in Pid : q # p => proposals'[q] = proposals[q]
    BY <1>3 DEF Amended, ChainInv, WorkflowTypeOK
  <2> QED BY <1>3, <1>n, <1>r, <2>1, RowStands
<1>4. CASE VoteStep
  <2>1. PICK sender \in Address, i \in Id, p \in Pid :
          Approve(i, p) \/ Reject(p) \/ BreakGlass(i, p)
    BY <1>4 DEF VoteStep
  <2>2. \E row : Amended(p, row)
    BY <2>1, ApproveAmends, RejectAmends, BreakGlassAmends
  <2>3. MatrixRow(p)'
    BY <2>1, <1>r, VoteKeepsRow
  <2> QED BY <2>2, <2>3, <1>3
<1>5. CASE ExecuteStep
  <2>1. PICK p \in Pid : Execute(p)
    BY <1>5 DEF ExecuteStep
  <2>2. \E row : Amended(p, row)
    BY <2>1, ExecuteAmends
  <2>3. MatrixRow(p)'
    BY <2>1, <1>n, <1>r, ExecutionKeepsRow
  <2> QED BY <2>2, <2>3, <1>3
<1> QED
  BY <1>1, <1>2, <1>4, <1>5 DEF ChainNext, PolicyStep, SetPolicy, workflowVars, chainVars

\* The approval matrix for every deployment: nothing is executed without the
\* votes of as many others as the table of README.md:92-99 says, nor before its
\* waiting period unless the glass was broken.
THEOREM ApprovalMatrixHolds == ChainSpec => []ApprovalMatrix
<1> DEFINE Inv == ChainInv /\ EyesInv /\ TightInv /\ MatrixInv
<1>1. ChainInit => Inv
  <2> SUFFICES ASSUME ChainInit PROVE Inv
    OBVIOUS
  <2>1. \A p \in Pid : proposals[p].proposer = 0 /\ proposals[p].executed = FALSE
    BY DEF ChainInit, NoProposal
  <2>2. MatrixInv
    BY <2>1 DEF MatrixInv, MatrixRow, Made
  <2> QED BY <2>2, WorkflowInit, TightInit, NoApprovers DEF ChainInit, EyesInv, NoProposal
<1>2. Inv /\ [ChainNext]_chainVars => Inv'
  BY ChainInvStep, EyesStep, TightStep, MatrixStep
<1>3. Inv => ApprovalMatrix
  <2> SUFFICES ASSUME Inv, PoliciesStand, NEW p \in Pid, proposals[p].executed
               PROVE  /\ VotedAndExecuted(p)
                      /\ ~proposals[p].rejected
                      /\ \/ proposals[p].breakGlass
                         \/ now >= proposals[p].proposedAt + Timelock[proposals[p].tier]
    BY DEF ApprovalMatrix
  <2>1. MatrixRow(p) /\ Eyes(p)
    BY DEF MatrixInv, EyesInv
  <2>2. Made(p)
    BY <2>1 DEF MatrixRow
  <2>3. ApproversOf(p) \ {proposals[p].proposer} = ApproversOf(p)
    BY <2>1, <2>2 DEF Eyes
  <2>4. /\ now \in Nat /\ proposals[p].readyAt \in Nat /\ proposals[p].proposedAt \in Nat
        /\ Timelock[proposals[p].tier] \in Nat
    BY MaxTimeAssumption, WorkflowAssumption DEF ChainInv, AssetsInv, IdentityInv,
       IdentityTypeOK, WorkflowTypeOK, Proposal
  <2> QED BY <2>1, <2>2, <2>3, <2>4 DEF MatrixRow, VotedAndExecuted
<1> QED BY <1>1, <1>2, <1>3, PTL DEF ChainSpec
-----------------------------------------------------------------------------
(***************************************************************************)
(* Broken glass.  The cap is counted from the moment the glass breaks, and *)
(* the clock only goes on.                                                 *)
(***************************************************************************)
Hurried(p) ==
  (Made(p) /\ proposals[p].kind = "GRANT" /\ proposals[p].breakGlass) =>
    proposals[p].expiresAt # 0 /\ proposals[p].expiresAt <= now + BREAK_GLASS_TTL

GlassInv == \A p \in Pid : Hurried(p)

LEMMA BrokenGlassCaps ==
  ASSUME ChainInv, NEW i \in Id, NEW p \in Pid, BreakGlass(i, p), proposals[p].kind = "GRANT"
  PROVE  proposals'[p].expiresAt # 0 /\ proposals'[p].expiresAt <= now + BREAK_GLASS_TTL
<1> DEFINE cap == now + BREAK_GLASS_TTL
           old == proposals[p].expiresAt
<1>1. now \in Nat /\ old \in Nat /\ cap \in Nat /\ cap # 0
  BY MaxTimeAssumption, WorkflowAssumption DEF ChainInv, AssetsInv, IdentityInv,
     IdentityTypeOK, WorkflowTypeOK, Proposal
<1>2. proposals'[p].expiresAt = IF old = 0 \/ old > cap THEN cap ELSE old
  BY DEF BreakGlass, ChainInv, WorkflowTypeOK, Proposal
<1> QED BY <1>1, <1>2

LEMMA GlassStep ==
  ASSUME ChainInv, GlassInv, [ChainNext]_chainVars
  PROVE  GlassInv'
<1>n. now \in Nat /\ now' \in Nat /\ now' >= now
  BY ClockGoesOn
<1>1. ASSUME NEW p \in Pid,
             /\ proposals'[p].kind = proposals[p].kind
             /\ proposals'[p].breakGlass = proposals[p].breakGlass
             /\ proposals'[p].expiresAt = proposals[p].expiresAt
             /\ proposals'[p].proposer = proposals[p].proposer
      PROVE  Hurried(p)'
  <2>1. proposals[p].expiresAt \in Nat /\ BREAK_GLASS_TTL \in Nat
    BY WorkflowAssumption DEF ChainInv, WorkflowTypeOK, Proposal
  <2>2. (Made(p)' /\ proposals'[p].kind = "GRANT" /\ proposals'[p].breakGlass) =>
          proposals[p].expiresAt # 0 /\ proposals[p].expiresAt <= now + BREAK_GLASS_TTL
    BY <1>1, Zenon DEF GlassInv, Hurried, Made
  <2>3. proposals[p].expiresAt <= now + BREAK_GLASS_TTL =>
          proposals[p].expiresAt <= now' + BREAK_GLASS_TTL
    BY <1>n, <2>1
  <2> QED BY <1>1, <2>2, <2>3, Zenon DEF Hurried
<1>2. CASE UNCHANGED proposals
  BY <1>1, <1>2 DEF GlassInv
<1>3. CASE ProposeStep
  <2>1. PICK kind \in Kind, tier \in Tier, expiresAt \in Nat, i \in Id :
          \E call \in CallsOf(kind) : Propose(kind, call, tier, expiresAt, i)
    BY <1>3, ProposeStepIsPropose
  <2>2. PICK call \in CallsOf(kind) : Propose(kind, call, tier, expiresAt, i)
    BY <2>1
  <2> DEFINE made == [NoProposal EXCEPT
               !.kind = kind, !.call = call, !.tier = tier, !.expiresAt = expiresAt,
               !.proposer = i, !.proposedAt = now,
               !.readyAt = now + policyFor[tier].timelock]
  <2>3. made.breakGlass = FALSE
    BY DEF NoProposal
  <2>4. proposals' = [proposals EXCEPT ![nextPid] = made]
    BY <2>2 DEF Propose
  <2> HIDE DEF made
  <2>5. \A p \in Pid : proposals'[p] = made \/ proposals'[p] = proposals[p]
    BY <2>4 DEF ChainInv, WorkflowTypeOK
  <2>6. ASSUME NEW p \in Pid, proposals'[p] = made PROVE Hurried(p)'
    BY <2>3, <2>6 DEF Hurried
  <2> QED BY <1>1, <2>5, <2>6 DEF GlassInv
<1>4. ASSUME NEW p \in Pid, NEW row, Amended(p, row), Hurried(p)' PROVE GlassInv'
  <2>1. \A q \in Pid : q # p => proposals'[q] = proposals[q]
    BY <1>4 DEF Amended, ChainInv, WorkflowTypeOK
  <2> QED BY <1>1, <1>4, <2>1 DEF GlassInv
<1>5. CASE VoteStep
  <2>1. PICK sender \in Address, i \in Id, p \in Pid :
          Approve(i, p) \/ Reject(p) \/ BreakGlass(i, p)
    BY <1>5 DEF VoteStep
  <2>2. PICK row : Amended(p, row)
    BY <2>1, ApproveAmends, RejectAmends, BreakGlassAmends
  <2>3. CASE Approve(i, p) \/ Reject(p)
    <3>1. /\ proposals'[p].kind = proposals[p].kind
          /\ proposals'[p].breakGlass = proposals[p].breakGlass
          /\ proposals'[p].expiresAt = proposals[p].expiresAt
          /\ proposals'[p].proposer = proposals[p].proposer
      BY <2>3 DEF Approve, Reject, ChainInv, WorkflowTypeOK, Proposal
    <3> QED BY <1>1, <1>4, <2>2, <3>1
  <2>4. CASE BreakGlass(i, p)
    <3>1. UNCHANGED now
      BY <1>5 DEF VoteStep, assetsVars, identityVars
    <3>2. proposals'[p].kind = proposals[p].kind
      BY <2>2 DEF Amended, ChainInv, WorkflowTypeOK
    <3>3. Hurried(p)'
      BY <2>4, <3>1, <3>2, BrokenGlassCaps DEF Hurried
    <3> QED BY <1>4, <2>2, <3>3
  <2> QED BY <2>1, <2>3, <2>4
<1>6. CASE ExecuteStep
  <2>1. PICK p \in Pid : Execute(p)
    BY <1>6 DEF ExecuteStep
  <2>2. /\ proposals'[p].kind = proposals[p].kind
        /\ proposals'[p].breakGlass = proposals[p].breakGlass
        /\ proposals'[p].expiresAt = proposals[p].expiresAt
        /\ proposals'[p].proposer = proposals[p].proposer
    BY <2>1 DEF Execute, ChainInv, WorkflowTypeOK, Proposal
  <2>3. PICK row : Amended(p, row)
    BY <2>1, ExecuteAmends
  <2> QED BY <1>1, <1>4, <2>2, <2>3
<1> QED
  BY <1>2, <1>3, <1>5, <1>6 DEF ChainNext, PolicyStep, SetPolicy, workflowVars, chainVars

\* Executing a hurried grant writes an entry that ends in time.
LEMMA HurriedGrantIsShort ==
  ASSUME ChainInv, GlassInv, ChainNext, NEW p \in Pid,
         ~proposals[p].executed, proposals'[p].executed,
         proposals[p].kind = "GRANT", proposals[p].breakGlass
  PROVE  aces'[proposals[p].call.token][proposals[p].call.principal].expiresAt
           \in 1 .. now + BREAK_GLASS_TTL
<1>1. Execute(p)
  <2>1. CASE UNCHANGED proposals
    BY <2>1
  <2>2. CASE ProposeStep
    <3>1. PICK kind \in Kind, tier \in Tier, expiresAt \in Nat, i \in Id :
            \E call \in CallsOf(kind) : Propose(kind, call, tier, expiresAt, i)
      BY <2>2, ProposeStepIsPropose
    <3>2. PICK call \in CallsOf(kind) : Propose(kind, call, tier, expiresAt, i)
      BY <3>1
    <3> DEFINE made == [NoProposal EXCEPT
                 !.kind = kind, !.call = call, !.tier = tier, !.expiresAt = expiresAt,
                 !.proposer = i, !.proposedAt = now,
                 !.readyAt = now + policyFor[tier].timelock]
    <3>3. made.executed = FALSE
      BY DEF NoProposal
    <3>4. proposals' = [proposals EXCEPT ![nextPid] = made]
      BY <3>2 DEF Propose
    <3> HIDE DEF made
    <3> QED BY <3>3, <3>4 DEF ChainInv, WorkflowTypeOK
  <2>3. CASE VoteStep
    <3>1. PICK sender \in Address, i \in Id, q \in Pid :
            Approve(i, q) \/ Reject(q) \/ BreakGlass(i, q)
      BY <2>3 DEF VoteStep
    <3>2. proposals \in [Pid -> Proposal]
      BY DEF ChainInv, WorkflowTypeOK
    <3>3. ASSUME Approve(i, q)
          PROVE  proposals'[p].executed = proposals[p].executed
      BY <3>2, <3>3 DEF Approve, Proposal
    <3>4. ASSUME Reject(q)
          PROVE  proposals'[p].executed = proposals[p].executed
      BY <3>2, <3>4 DEF Reject, Proposal
    <3>5. ASSUME BreakGlass(i, q)
          PROVE  proposals'[p].executed = proposals[p].executed
      <4>1. PICK cap : proposals' = [proposals EXCEPT ![q] = [proposals[q] EXCEPT
                         !.breakGlass = TRUE, !.readyAt = now, !.expiresAt = cap]]
        BY <3>2, <3>5 DEF BreakGlass
      <4> QED BY <3>2, <4>1 DEF Proposal
    <3> QED BY <3>1, <3>3, <3>4, <3>5
  <2>4. CASE ExecuteStep
    <3>1. PICK q \in Pid : Execute(q)
      BY <2>4 DEF ExecuteStep
    <3>2. q = p
      BY <3>1 DEF Execute, ChainInv, WorkflowTypeOK
    <3> QED BY <3>1, <3>2
  <2> QED BY <2>1, <2>2, <2>3, <2>4 DEF ChainNext, PolicyStep, SetPolicy, workflowVars
<1> DEFINE c == proposals[p].call
<1>2. Made(p) /\ c \in GrantCall
  BY <1>1, ExecuteAmends DEF Live, ChainInv, WorkflowTypeOK, CallsOf
<1>3. WriteAce(c.token, c.principal,
        Written(c.allow, c.deny, now, proposals[p].expiresAt, c.depth, proposals[p].proposer))
  BY <1>1 DEF Execute, Dispatch, ExecuteGrant
<1>4. c.token \in Token /\ c.principal \in Principal
  BY <1>2 DEF GrantCall
<1>5. aces'[c.token][c.principal].expiresAt = proposals[p].expiresAt
  BY <1>3, <1>4 DEF WriteAce, Written, ChainInv, AssetsInv, AssetTypeOK, AccessTypeOK
<1>6. proposals[p].expiresAt # 0 /\ proposals[p].expiresAt <= now + BREAK_GLASS_TTL
  BY <1>2 DEF GlassInv, Hurried
<1>7. proposals[p].expiresAt \in Nat
  BY DEF ChainInv, WorkflowTypeOK, Proposal
<1>8. now \in Nat /\ BREAK_GLASS_TTL \in Nat
  BY MaxTimeAssumption, WorkflowAssumption DEF ChainInv, AssetsInv, IdentityInv, IdentityTypeOK
<1> QED BY <1>5, <1>6, <1>7, <1>8

\* However late a hurried grant is executed, and however often the glass was
\* broken before, what it writes ends within the four hours.
THEOREM BreakGlassGrantIsShortHolds == ChainSpec => BreakGlassGrantIsShort
<1> DEFINE Inv == ChainInv /\ GlassInv
<1>1. ChainInit => Inv
  <2> SUFFICES ASSUME ChainInit PROVE Inv
    OBVIOUS
  <2>1. \A p \in Pid : proposals[p].proposer = 0
    BY DEF ChainInit, NoProposal
  <2> QED BY <2>1, WorkflowInit DEF GlassInv, Hurried, Made
<1>2. Inv /\ [ChainNext]_chainVars => Inv'
  BY ChainInvStep, GlassStep
<1>3. Inv /\ [ChainNext]_chainVars =>
        [\A p \in Pid :
           (/\ ~proposals[p].executed /\ proposals'[p].executed
            /\ proposals[p].kind = "GRANT" /\ proposals[p].breakGlass) =>
             aces'[proposals[p].call.token][proposals[p].call.principal].expiresAt
               \in 1 .. now + BREAK_GLASS_TTL]_chainVars
  BY HurriedGrantIsShort
<1> QED BY <1>1, <1>2, <1>3, PTL DEF ChainSpec, BreakGlassGrantIsShort
=============================================================================
