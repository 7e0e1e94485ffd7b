--------------------------- MODULE Classified_proofs ---------------------------
(***************************************************************************)
(* Above the classification threshold nobody decides alone, in every       *)
(* deployment: what others than the proposer voted for is still the reason *)
(* for each entry and each owner of a classified asset, however the calls  *)
(* that write entries and owners interleave.                               *)
(***************************************************************************)
EXTENDS GrantWorkflow_proofs

\* A proposal is judged at the tier of the asset it is about, for good, as no
\* classification changes.
AtTier(p) ==
  /\ proposals[p].kind \in {"GRANT", "TRANSFER"} =>
       /\ proposals[p].call.token \in Token
       /\ Exists(proposals[p].call.token)
       /\ proposals[p].tier = ClassificationOf(proposals[p].call.token)
  /\ proposals[p].kind = "MINT_AND_ALLOCATE" =>
       proposals[p].tier = proposals[p].call.classification

TiersMatch == \A p \in Pid : Made(p) => AtTier(p)

\* No entry is older than its asset.
WrittenOnAssets == \A t \in Token, q \in Principal : aces[t][q].written => Exists(t)

-----------------------------------------------------------------------------
\* Assets stay, with their classifications and the content of their minting.
LEMMA AssetsStay ==
  ASSUME AssetsInv, HashInv, AnyAssetsStep \/ UNCHANGED assetsVars
  PROVE  \A t \in Token : Exists(t) =>
           /\ Exists(t)' /\ ClassificationOf(t)' = ClassificationOf(t)
           /\ assets'[t].mintedHash = assets[t].mintedHash
<1>t. IdentityInv /\ AssetTypeOK
  BY DEF AssetsInv
<1>1. CASE UNCHANGED assets
  BY <1>1 DEF Exists, ClassificationOf
<1>2. CASE AnyMint
  <2>1. PICK c : c.to \in AnyId /\ MintAsset(c)
    BY <1>2 DEF AnyMint
  <2>2. PICK n \in Token :
          /\ n = nextToken
          /\ \A u \in Token : assets'[u] = IF u = n THEN MintedAsset(c) ELSE assets[u]
    BY <1>t, <2>1, TablesAfterMint
  <2>3. ~Exists(n)
    BY <2>2, MaxTokenAssumption DEF HashInv, FreshTokens, Exists, Token
  <2> QED BY <2>2, <2>3 DEF Exists, ClassificationOf
<1>3. CASE AnyTransfer
  BY <1>t, <1>3 DEF AnyTransfer, DoTransfer, AssetTypeOK, AccessTypeOK, Asset, Exists,
     ClassificationOf
<1>4. CASE AnyRewrite
  BY <1>t, <1>4 DEF AnyRewrite, AssetTypeOK, AccessTypeOK, Asset, Exists, ClassificationOf
<1> QED BY <1>1, <1>2, <1>3, <1>4, StepsOnTables DEF accessVars

\* The row of a new proposal.
LEMMA ProposedRow ==
  ASSUME ChainInv, NEW kind, NEW call, NEW tier, NEW expiresAt, NEW i,
         Propose(kind, call, tier, expiresAt, i), NEW p \in Pid
  PROVE  \/ proposals'[p] = proposals[p]
         \/ /\ proposals'[p].kind = kind /\ proposals'[p].call = call
            /\ proposals'[p].tier = tier
<1> DEFINE made == [NoProposal EXCEPT
             !.kind = kind, !.call = call, !.tier = tier, !.expiresAt = expiresAt,
             !.proposer = i, !.proposedAt = now,
             !.readyAt = now + policyFor[tier].timelock]
<1>1. proposals' = [proposals EXCEPT ![nextPid] = made]
  BY DEF Propose
<1>2. made.kind = kind /\ made.call = call /\ made.tier = tier
  BY DEF NoProposal
<1> HIDE DEF made
<1> QED BY <1>1, <1>2 DEF ChainInv, WorkflowTypeOK

\* Whatever is proposed is about an asset there is, at its tier.
LEMMA ProposedAtTier ==
  ASSUME ChainInv, ProposeStep, NEW p \in Pid, proposals'[p] # proposals[p]
  PROVE  AtTier(p)'
<1>1. PICK sender \in Address, i \in Id :
        \/ \E c \in WorkflowCalls.grant : ProposeGrant(i, c)
        \/ \E c \in WorkflowCalls.mint : ProposeMint(i, c)
        \/ \E c \in WorkflowCalls.transfer : ProposeTransfer(i, c)
        \/ \E c \in WorkflowCalls.uplift : ProposeClearanceUplift(i, c)
        \/ \E c \in WorkflowCalls.adminGrant : ProposeAdminGrant(i, c)
  BY DEF ProposeStep
<1>a. UNCHANGED assets
  BY DEF ProposeStep, assetsVars, assetVars
<1>2. CASE \E c \in WorkflowCalls.grant : ProposeGrant(i, c)
  <2>1. PICK c \in WorkflowCalls.grant : ProposeGrant(i, c)
    BY <1>2
  <2>2. /\ Exists(c.token) /\ c.token \in Token
        /\ Propose("GRANT", c, ClassificationOf(c.token), c.expiresAt, i)
    BY <2>1, WorkflowCallsAssumption DEF ProposeGrant, GrantCall
  <2>3. /\ proposals'[p].kind = "GRANT" /\ proposals'[p].call = c
        /\ proposals'[p].tier = ClassificationOf(c.token)
    BY <2>2, ProposedRow
  <2> QED BY <1>a, <2>2, <2>3 DEF AtTier, Exists, ClassificationOf
<1>3. CASE \E c \in WorkflowCalls.mint : ProposeMint(i, c)
  <2>1. PICK c \in WorkflowCalls.mint : ProposeMint(i, c)
    BY <1>3
  <2>2. Propose("MINT_AND_ALLOCATE", c, c.classification, 0, i)
    BY <2>1 DEF ProposeMint
  <2>3. /\ proposals'[p].kind = "MINT_AND_ALLOCATE" /\ proposals'[p].call = c
        /\ proposals'[p].tier = c.classification
    BY <2>2, ProposedRow
  <2> QED BY <2>3 DEF AtTier
<1>4. CASE \E c \in WorkflowCalls.transfer : ProposeTransfer(i, c)
  <2>1. PICK c \in WorkflowCalls.transfer : ProposeTransfer(i, c)
    BY <1>4
  <2>2. /\ Exists(c.token) /\ c.token \in Token
        /\ Propose("TRANSFER", c, ClassificationOf(c.token), 0, i)
    BY <2>1, WorkflowCallsAssumption DEF ProposeTransfer, TransferRequest
  <2>3. /\ proposals'[p].kind = "TRANSFER" /\ proposals'[p].call = c
        /\ proposals'[p].tier = ClassificationOf(c.token)
    BY <2>2, ProposedRow
  <2> QED BY <1>a, <2>2, <2>3 DEF AtTier, Exists, ClassificationOf
<1>5. CASE \E c \in WorkflowCalls.uplift : ProposeClearanceUplift(i, c)
  <2>1. proposals'[p].kind = "CLEARANCE_UPLIFT"
    BY <1>5, ProposedRow DEF ProposeClearanceUplift
  <2> QED BY <2>1 DEF AtTier
<1>6. CASE \E c \in WorkflowCalls.adminGrant : ProposeAdminGrant(i, c)
  <2>1. proposals'[p].kind = "ADMIN_ROLE_MINT"
    BY <1>6, ProposedRow DEF ProposeAdminGrant
  <2> QED BY <2>1 DEF AtTier
<1> QED BY <1>1, <1>2, <1>3, <1>4, <1>5, <1>6

\* A step that is no proposal keeps what is proposed.
LEMMA ProposalsKeepTheirCalls ==
  ASSUME ChainInv, [ChainNext]_chainVars, ~ProposeStep, NEW p \in Pid
  PROVE  /\ proposals'[p].kind = proposals[p].kind /\ proposals'[p].call = proposals[p].call
         /\ proposals'[p].tier = proposals[p].tier
         /\ proposals'[p].proposer = proposals[p].proposer
<1>1. CASE UNCHANGED proposals
  BY <1>1
<1>2. ASSUME NEW q \in Pid, \E row : Amended(q, row)
      PROVE  /\ proposals'[p].kind = proposals[p].kind /\ proposals'[p].call = proposals[p].call
             /\ proposals'[p].tier = proposals[p].tier
             /\ proposals'[p].proposer = proposals[p].proposer
  BY <1>2 DEF Amended, ChainInv, WorkflowTypeOK
<1>3. CASE VoteStep
  <2>1. PICK sender \in Address, i \in Id, q \in Pid :
          Approve(i, q) \/ Reject(q) \/ BreakGlass(i, q)
    BY <1>3 DEF VoteStep
  <2> QED BY <1>2, <2>1, ApproveAmends, RejectAmends, BreakGlassAmends
<1>4. CASE ExecuteStep
  BY <1>2, <1>4, ExecuteAmends DEF ExecuteStep
<1> QED BY <1>1, <1>3, <1>4 DEF ChainNext, PolicyStep, SetPolicy, workflowVars, chainVars

LEMMA TiersStep ==
  ASSUME ChainInv, HashInv, TiersMatch, [ChainNext]_chainVars
  PROVE  TiersMatch'
<1> SUFFICES ASSUME NEW p \in Pid, Made(p)' PROVE AtTier(p)'
  BY DEF TiersMatch
<1>1. \A t \in Token : Exists(t) => Exists(t)' /\ ClassificationOf(t)' = ClassificationOf(t)
  BY ChainStepBelow, AssetsStay DEF ChainInv
<1>2. CASE ProposeStep /\ proposals'[p] # proposals[p]
  BY <1>2, ProposedAtTier
<1>3. CASE proposals'[p] = proposals[p]
  BY <1>1, <1>3 DEF TiersMatch, AtTier, Made
<1>4. CASE ~ProposeStep
  BY <1>1, <1>4, ProposalsKeepTheirCalls DEF TiersMatch, AtTier, Made
<1> QED BY <1>2, <1>3, <1>4
-----------------------------------------------------------------------------
(***************************************************************************)
(* What a step of the chain can do to entries and owners.                  *)
(***************************************************************************)
LEMMA ExecutionActs ==
  ASSUME ChainInv, NEW p \in Pid, Execute(p)
  PROVE  \/ /\ proposals[p].kind = "GRANT"
            /\ proposals[p].call \in GrantCall
            /\ ExecuteGrant(proposals[p].call.token, proposals[p].call.principal,
                            proposals[p].call.allow, proposals[p].call.deny,
                            proposals[p].expiresAt, proposals[p].call.depth,
                            proposals[p].proposer)
            /\ UNCHANGED assets
         \/ /\ proposals[p].kind = "MINT_AND_ALLOCATE"
            /\ proposals[p].call.to \in AnyId /\ MintAsset(proposals[p].call)
         \/ /\ proposals[p].kind = "TRANSFER"
            /\ proposals[p].call.token \in Token /\ proposals[p].call.to \in AnyId
            /\ DoTransfer(proposals[p].call)
         \/ UNCHANGED <<assets, accessVars>>
<1> DEFINE pr == proposals[p]
<1>1. pr.call \in CallsOf(pr.kind) /\ Dispatch(pr)
  BY ExecuteAmends DEF Live, ChainInv, WorkflowTypeOK
<1>2. CASE pr.kind = "GRANT"
  BY <1>1, <1>2 DEF Dispatch, CallsOf, assetVars
<1>3. CASE pr.kind = "MINT_AND_ALLOCATE"
  <2>1. pr.call.to \in AnyId
    BY <1>1, <1>3 DEF CallsOf, MintRequest
  <2> QED BY <1>1, <1>3, <2>1 DEF Dispatch
<1>4. CASE pr.kind = "TRANSFER"
  <2>1. pr.call.token \in Token /\ pr.call.to \in AnyId
    BY <1>1, <1>4 DEF CallsOf, TransferRequest
  <2> QED BY <1>1, <1>4, <2>1 DEF Dispatch
<1>5. CASE pr.kind \notin {"GRANT", "MINT_AND_ALLOCATE", "TRANSFER"}
  BY <1>1, <1>5 DEF Dispatch, assetVars, accessVars
<1> QED BY <1>2, <1>3, <1>4, <1>5

\* Why the entry of q on t is what it is after a step.
Granted(p, t, q) ==
  /\ proposals[p].kind = "GRANT"
  /\ proposals[p].call.token = t
  /\ proposals[p].call.principal = q
  /\ proposals[p].call.allow = aces'[t][q].allow
  /\ proposals[p].call.deny = aces'[t][q].deny
  /\ proposals[p].proposer = aces'[t][q].grantedBy

Cause(t, q) ==
  \/ aces'[t][q] = aces[t][q]
  \/ ~aces'[t][q].written
  \/ aces'[t][q].grantedBy = SYSTEM /\ Exists(t)'
  \/ Exists(t) /\ (ClassificationOf(t) < CONFIDENTIAL \/ Reshared(t, q)')
  \/ \E p \in Pid : Execute(p) /\ Granted(p, t, q) /\ Exists(t)

LEMMA MintCauses ==
  ASSUME IdentityInv, AssetTypeOK, NEW c, c.to \in AnyId, MintAsset(c),
         NEW t \in Token, NEW q \in Principal
  PROVE  Cause(t, q)
<1>1. PICK n \in Token :
        /\ assets'[n] = MintedAsset(c)
        /\ aces'[t][q] = IF t # n THEN aces[t][q]
                         ELSE IF q = RolePrincipal(ADMIN) THEN SeededAce(ADMIN_BITS)
                         ELSE IF q = IdentityPrincipal(c.to) THEN SeededAce(OWNER_BITS)
                         ELSE aces[t][q]
  <2>1. PICK n \in Token :
          /\ \A u \in Token : assets'[u] = IF u = n THEN MintedAsset(c) ELSE assets[u]
          /\ \A u \in Token, r \in Principal :
               aces'[u][r] = IF u # n THEN aces[u][r]
                             ELSE IF r = RolePrincipal(ADMIN) THEN SeededAce(ADMIN_BITS)
                             ELSE IF r = IdentityPrincipal(c.to) THEN SeededAce(OWNER_BITS)
                             ELSE aces[u][r]
    BY TablesAfterMint
  <2> QED BY <2>1
<1>2. assets'[n].minted
  BY <1>1 DEF MintedAsset
<1>3. SeededAce(ADMIN_BITS).grantedBy = SYSTEM /\ SeededAce(OWNER_BITS).grantedBy = SYSTEM
  BY SeededFields
<1>4. \/ aces'[t][q] = aces[t][q]
      \/ t = n /\ aces'[t][q].grantedBy = SYSTEM
  BY <1>1, <1>3
<1> QED BY <1>2, <1>4 DEF Cause, Exists

LEMMA TransferCauses ==
  ASSUME IdentityInv, AssetTypeOK, NEW c, c.token \in Token, c.to \in AnyId, DoTransfer(c),
         NEW t \in Token, NEW q \in Principal
  PROVE  Cause(t, q)
  BY TablesAfterTransfer, SeededFields DEF Cause, Exists

LEMMA WriteCauses ==
  ASSUME AssetTypeOK, DirectWrite, NEW t \in Token, NEW q \in Principal
  PROVE  Cause(t, q)
<1>1. PICK u \in Token, p \in Principal, ace \in Ace :
        /\ WriteAce(u, p, ace) /\ Exists(u)
        /\ ClassificationOf(u) < CONFIDENTIAL \/ HandedOn(u, p, ace)
  BY DEF DirectWrite
<1>2. aces'[t][q] = IF t = u /\ q = p THEN ace ELSE aces[t][q]
  BY <1>1, TablesAfterWrite
<1>3. CASE t = u /\ q = p /\ HandedOn(u, p, ace)
  BY <1>1, <1>2, <1>3 DEF Cause, HandedOn, Reshared
<1> QED BY <1>1, <1>2, <1>3 DEF Cause

LEMMA GrantCauses ==
  ASSUME ChainInv, TiersMatch, NEW p \in Pid, Execute(p),
         proposals[p].kind = "GRANT", proposals[p].call \in GrantCall,
         ExecuteGrant(proposals[p].call.token, proposals[p].call.principal,
                      proposals[p].call.allow, proposals[p].call.deny,
                      proposals[p].expiresAt, proposals[p].call.depth,
                      proposals[p].proposer),
         NEW t \in Token, NEW q \in Principal
  PROVE  Cause(t, q)
<1> DEFINE c   == proposals[p].call
           ace == Written(c.allow, c.deny, now, proposals[p].expiresAt, c.depth,
                          proposals[p].proposer)
<1>1. WriteAce(c.token, c.principal, ace)
  BY DEF ExecuteGrant
<1>2. ace.allow = c.allow /\ ace.deny = c.deny /\ ace.grantedBy = proposals[p].proposer
  BY DEF Written
<1>3. /\ c.allow \in SUBSET Permission /\ c.deny \in SUBSET Permission /\ c.depth \in Nat
      /\ c.token \in Token /\ c.principal \in Principal
  BY DEF GrantCall
<1>4. now \in Nat /\ proposals[p].expiresAt \in Nat /\ proposals[p].proposer \in AnyId
  BY MaxTimeAssumption DEF ChainInv, AssetsInv, IdentityInv, IdentityTypeOK, WorkflowTypeOK,
     Proposal
<1>5. ace \in Ace
  BY <1>3, <1>4, WrittenTyped
<1> HIDE DEF ace
<1>6. AssetTypeOK
  BY DEF ChainInv, AssetsInv
<1>7. aces'[t][q] = IF t = c.token /\ q = c.principal THEN ace ELSE aces[t][q]
  BY <1>1, <1>3, <1>5, <1>6, TablesAfterWrite
<1>8. Exists(c.token)
  BY ExecuteAmends DEF TiersMatch, AtTier, Live
<1> QED BY <1>2, <1>7, <1>8 DEF Cause, Granted

LEMMA StepCauses ==
  ASSUME ChainInv, TiersMatch, [ChainNext]_chainVars, NEW t \in Token, NEW q \in Principal
  PROVE  Cause(t, q)
<1>t. IdentityInv /\ AssetTypeOK /\ AssetsInv
  BY DEF ChainInv, AssetsInv
<1>1. CASE UNCHANGED accessVars
  BY <1>1 DEF accessVars, Cause
<1>2. CASE AccessStep
  <2>1. DirectWrite \/ AnyRevoke
    BY <1>t, <1>2, AccessStepWrites
  <2>2. CASE AnyRevoke
    BY <1>t, <2>2, SeededFields DEF AnyRevoke, Cause, AssetTypeOK, AccessTypeOK
  <2> QED BY <1>t, <2>1, <2>2, WriteCauses
<1>3. CASE AssetStep
  <2>1. AnyMint \/ AnyTransfer \/ UNCHANGED accessVars
    BY <1>3, AssetStepWrites DEF AnyRewrite
  <2> QED BY <1>t, <1>1, <2>1, MintCauses, TransferCauses DEF AnyMint, AnyTransfer
<1>4. CASE ExecuteStep
  <2>1. PICK p \in Pid : Execute(p)
    BY <1>4 DEF ExecuteStep
  <2> QED BY <1>t, <1>1, <2>1, ExecutionActs, GrantCauses, MintCauses, TransferCauses
<1> QED
  BY <1>1, <1>2, <1>3, <1>4 DEF ChainNext, AssetsDirect, ProposeStep, VoteStep, PolicyStep,
     assetsVars, chainVars

LEMMA WrittenStep ==
  ASSUME ChainInv, HashInv, TiersMatch, WrittenOnAssets, [ChainNext]_chainVars
  PROVE  WrittenOnAssets'
<1> SUFFICES ASSUME NEW t \in Token, NEW q \in Principal, aces'[t][q].written
             PROVE  Exists(t)'
  BY DEF WrittenOnAssets
<1>1. Exists(t) => Exists(t)'
  BY ChainStepBelow, AssetsStay DEF ChainInv
<1>2. Cause(t, q)
  BY StepCauses
<1> QED BY <1>1, <1>2 DEF Cause, WrittenOnAssets

-----------------------------------------------------------------------------
(***************************************************************************)
(* Entries were voted.                                                     *)
(***************************************************************************)

\* Nothing is executed without its votes, and what was executed stays so.
LEMMA ExecutedIsVoted ==
  ASSUME ChainInv, EyesInv, TightInv, PoliciesStand, NEW p \in Pid, Execute(p)
  PROVE  /\ VotedAndExecuted(p)'
         /\ proposals'[p].kind = proposals[p].kind /\ proposals'[p].call = proposals[p].call
         /\ proposals'[p].tier = proposals[p].tier
         /\ proposals'[p].proposer = proposals[p].proposer
<1>1. PICK row : /\ Amended(p, row) /\ row.approvers = proposals[p].approvers
                 /\ row.executed
  BY ExecuteAmends
<1>2. proposals'[p] = row
  BY <1>1 DEF Amended, ChainInv, WorkflowTypeOK
<1>3. ApproversOf(p)' = ApproversOf(p)
  BY <1>1, <1>2 DEF ApproversOf
<1>4. Cardinality(ApproversOf(p)) >= InitialPolicy[proposals[p].tier].approvals
  BY ExecutedHasVotes
<1>5. ApproversOf(p) \ {proposals[p].proposer} = ApproversOf(p)
  BY ExecuteAmends DEF EyesInv, Eyes, Live
<1> QED BY <1>1, <1>2, <1>3, <1>4, <1>5 DEF Amended, VotedAndExecuted

LEMMA VotedStays ==
  ASSUME ChainInv, [ChainNext]_chainVars, NEW p \in Pid, VotedAndExecuted(p)
  PROVE  proposals'[p] = proposals[p] /\ VotedAndExecuted(p)'
<1>1. proposals'[p] = proposals[p]
  BY FinalStays DEF Final, VotedAndExecuted
<1> QED BY <1>1 DEF VotedAndExecuted, ApproversOf

\* The vote behind the entry of q on t.
EntryVote(p, t, q) ==
  /\ VotedAndExecuted(p)
  /\ proposals[p].kind = "GRANT"
  /\ proposals[p].tier = ClassificationOf(t)
  /\ proposals[p].call.token = t
  /\ proposals[p].call.principal = q
  /\ proposals[p].call.allow = aces[t][q].allow
  /\ proposals[p].call.deny = aces[t][q].deny
  /\ proposals[p].proposer = aces[t][q].grantedBy

LEMMA EntriesStep ==
  ASSUME ChainInv, HashInv, EyesInv, TightInv, TiersMatch, WrittenOnAssets,
         ClassifiedEntryWasVoted, [ChainNext]_chainVars
  PROVE  ClassifiedEntryWasVoted'
<1> SUFFICES ASSUME PoliciesStand, NEW t \in Token, NEW q \in Principal,
                    ClassificationOf(t)' >= CONFIDENTIAL, aces'[t][q].written,
                    aces'[t][q].grantedBy # SYSTEM
             PROVE  Reshared(t, q)' \/ \E p \in Pid : EntryVote(p, t, q)'
  BY DEF ClassifiedEntryWasVoted, EntryVote, PoliciesStand
<1>1. Exists(t) => ClassificationOf(t)' = ClassificationOf(t)
  BY ChainStepBelow, AssetsStay DEF ChainInv
<1>2. CASE aces'[t][q] = aces[t][q]
  <2>1. Exists(t) /\ ClassificationOf(t)' = ClassificationOf(t)
    BY <1>1, <1>2 DEF WrittenOnAssets
  <2>2. Reshared(t, q) \/ \E p \in Pid : EntryVote(p, t, q)
    BY <1>2, <2>1 DEF ClassifiedEntryWasVoted, EntryVote
  <2>3. CASE Reshared(t, q)
    BY <1>2, <2>3 DEF Reshared
  <2>4. ASSUME NEW p \in Pid, EntryVote(p, t, q) PROVE EntryVote(p, t, q)'
    <3>1. proposals'[p] = proposals[p] /\ VotedAndExecuted(p)'
      BY <2>4, VotedStays DEF EntryVote
    <3> QED BY <1>2, <2>1, <2>4, <3>1 DEF EntryVote
  <2> QED BY <2>2, <2>3, <2>4
<1>3. CASE Exists(t) /\ ClassificationOf(t) < CONFIDENTIAL
  BY <1>1, <1>3 DEF CONFIDENTIAL, ClassificationOf, ChainInv, AssetsInv, AssetTypeOK,
     AccessTypeOK, Asset, Tier, PUBLIC, TOP_SECRET
<1>4. ASSUME NEW p \in Pid, Execute(p), Granted(p, t, q), Exists(t)
      PROVE  EntryVote(p, t, q)'
  <2>1. proposals[p].tier = ClassificationOf(t)
    BY <1>4, ExecuteAmends DEF TiersMatch, AtTier, Granted, Live
  <2> QED BY <1>1, <1>4, <2>1, ExecutedIsVoted DEF EntryVote, Granted
<1>5. Cause(t, q)
  BY StepCauses
<1> QED BY <1>2, <1>3, <1>4, <1>5 DEF Cause

ClassifiedInv ==
  ChainInv /\ HashInv /\ EyesInv /\ TightInv /\ TiersMatch /\ WrittenOnAssets

LEMMA ClassifiedInit == ChainInit => ClassifiedInv
<1> SUFFICES ASSUME ChainInit PROVE ClassifiedInv
  OBVIOUS
<1>1. AssetsInit /\ \A p \in Pid : ~Made(p)
  BY DEF ChainInit, NoProposal, Made
<1>2. WrittenOnAssets
  BY <1>1, SeededFields DEF AssetsInit, WrittenOnAssets, Exists, MintedAsset
<1> QED
  BY <1>1, <1>2, WorkflowInit, HashInit, TightInit, NoApprovers
  DEF ClassifiedInv, ChainInit, EyesInv, NoProposal, TiersMatch

LEMMA ClassifiedStep == ClassifiedInv /\ [ChainNext]_chainVars => ClassifiedInv'
<1>1. ASSUME ClassifiedInv, [ChainNext]_chainVars PROVE HashInv'
  BY <1>1, ChainStepBelow, HashInvStep DEF ClassifiedInv, ChainInv
<1> QED
  BY <1>1, ChainInvStep, EyesStep, TightStep, TiersStep, WrittenStep DEF ClassifiedInv

\* INV-6 for every deployment whose policies tighten the table: above the
\* threshold an entry that was neither seeded nor handed on was put to the vote
\* of its tier, and carried with these bits.
THEOREM ClassifiedEntryWasVotedHolds == ChainSpec => []ClassifiedEntryWasVoted
<1> DEFINE Inv == ClassifiedInv /\ ClassifiedEntryWasVoted
<1>1. ChainInit => Inv
  <2>1. ASSUME ChainInit, NEW t \in Token, NEW q \in Principal, aces[t][q].written
        PROVE  aces[t][q].grantedBy = SYSTEM
    BY <2>1, SeededFields DEF ChainInit, AssetsInit
  <2> QED BY <2>1, ClassifiedInit DEF ClassifiedEntryWasVoted
<1>2. Inv /\ [ChainNext]_chainVars => Inv'
  BY ClassifiedStep, EntriesStep DEF ClassifiedInv
<1>3. Inv => ClassifiedEntryWasVoted
  OBVIOUS
<1> QED BY <1>1, <1>2, <1>3, PTL DEF ChainSpec
-----------------------------------------------------------------------------
(***************************************************************************)
(* Owners were voted.                                                      *)
(***************************************************************************)
Allocated(p, t) ==
  /\ \/ /\ proposals[p].kind = "MINT_AND_ALLOCATE"
        /\ proposals[p].call.hash = assets'[t].mintedHash
        /\ proposals[p].tier = ClassificationOf(t)'
     \/ /\ proposals[p].kind = "TRANSFER"
        /\ proposals[p].call.token = t
        /\ Exists(t)
  /\ proposals[p].call.to = assets'[t].owner

\* Why the owner of t is who it is after a step.
OwnerCause(t) ==
  \/ ~Exists(t)'
  \/ Exists(t) /\ assets'[t].owner = assets[t].owner
  \/ ClassificationOf(t)' < CONFIDENTIAL
  \/ \E p \in Pid : Execute(p) /\ Allocated(p, t)

\* Only the asset that is minted or transferred changes its owner.
LEMMA MintAllocates ==
  ASSUME IdentityInv, AssetTypeOK, NEW c, c.to \in AnyId, MintAsset(c), NEW t \in Token
  PROVE  \/ assets'[t] = assets[t]
         \/ /\ assets'[t].owner = c.to /\ assets'[t].mintedHash = c.hash
            /\ ClassificationOf(t)' = c.classification
<1>1. PICK n \in Token :
        \A u \in Token : assets'[u] = IF u = n THEN MintedAsset(c) ELSE assets[u]
  BY TablesAfterMint
<1> QED BY <1>1 DEF MintedAsset, ClassificationOf

LEMMA DirectOwnerCauses ==
  ASSUME IdentityInv, AssetTypeOK, AssetStep, NEW t \in Token
  PROVE  OwnerCause(t)
<1>1. PICK sender \in Address :
        \/ \E c \in AccessCalls.mint : Mint(sender, c)
        \/ \E c \in AccessCalls.transfer : ControlledTransfer(sender, c)
        \/ \E c \in AccessCalls.updateContent : UpdateContent(sender, c)
  BY DEF AssetStep
<1>0. Id \subseteq AnyId
  BY MaxIdAssumption DEF Id, AnyId
<1>2. CASE \E c \in AccessCalls.mint : Mint(sender, c)
  <2>1. PICK c \in AccessCalls.mint : MintAsset(c) /\ c.classification < CONFIDENTIAL
    BY <1>2 DEF Mint
  <2>2. c.to \in AnyId
    BY <1>0, AssetCallsAssumption DEF MintCall
  <2> QED BY <2>1, <2>2, MintAllocates DEF OwnerCause, Exists
<1>3. CASE \E c \in AccessCalls.transfer : ControlledTransfer(sender, c)
  <2>1. PICK c \in AccessCalls.transfer :
          DoTransfer(c) /\ ClassificationOf(c.token) < CONFIDENTIAL
    BY <1>3 DEF ControlledTransfer
  <2>2. c.token \in Token /\ c.to \in AnyId
    BY <1>0, AssetCallsAssumption
  <2> QED BY <2>1, <2>2, TablesAfterTransfer DEF OwnerCause, Exists, ClassificationOf
<1>4. CASE \E c \in AccessCalls.updateContent : UpdateContent(sender, c)
  <2>1. PICK c \in AccessCalls.updateContent :
          assets' = [assets EXCEPT ![c.token].contentHash = c.hash]
    BY <1>4 DEF UpdateContent
  <2>2. assets'[t].minted = assets[t].minted /\ assets'[t].owner = assets[t].owner
    BY <2>1 DEF AssetTypeOK, AccessTypeOK, Asset
  <2> QED BY <2>2 DEF OwnerCause, Exists
<1> QED BY <1>1, <1>2, <1>3, <1>4

LEMMA OwnerCauses ==
  ASSUME ChainInv, TiersMatch, [ChainNext]_chainVars, NEW t \in Token
  PROVE  OwnerCause(t)
<1>t. IdentityInv /\ AssetTypeOK
  BY DEF ChainInv, AssetsInv
<1>1. CASE UNCHANGED assets
  BY <1>1 DEF OwnerCause, Exists
<1>2. CASE AssetStep
  BY <1>t, <1>2, DirectOwnerCauses
<1>3. CASE ExecuteStep
  <2>1. PICK p \in Pid : Execute(p)
    BY <1>3 DEF ExecuteStep
  <2>2. Made(p) /\ AtTier(p)
    BY <2>1, ExecuteAmends DEF Live, TiersMatch
  <2>3. CASE /\ proposals[p].kind = "MINT_AND_ALLOCATE"
             /\ proposals[p].call.to \in AnyId /\ MintAsset(proposals[p].call)
    <3>1. \/ assets'[t] = assets[t]
          \/ /\ assets'[t].owner = proposals[p].call.to
             /\ assets'[t].mintedHash = proposals[p].call.hash
             /\ ClassificationOf(t)' = proposals[p].call.classification
      BY <1>t, <2>3, MintAllocates
    <3> QED BY <2>1, <2>2, <2>3, <3>1 DEF OwnerCause, Allocated, AtTier, Exists
  <2>4. CASE /\ proposals[p].kind = "TRANSFER"
             /\ proposals[p].call.token \in Token /\ proposals[p].call.to \in AnyId
             /\ DoTransfer(proposals[p].call)
    <3>1. /\ Exists(proposals[p].call.token)
          /\ assets'[t].minted = assets[t].minted
          /\ assets'[t].owner = IF t = proposals[p].call.token THEN proposals[p].call.to
                                ELSE assets[t].owner
      BY <1>t, <2>4, TablesAfterTransfer
    <3> QED BY <2>1, <2>4, <3>1 DEF OwnerCause, Allocated, Exists
  <2> QED BY <1>1, <2>1, <2>3, <2>4, ExecutionActs
<1> QED
  BY <1>1, <1>2, <1>3 DEF ChainNext, AssetsDirect, AccessStep, ProposeStep, VoteStep,
     PolicyStep, assetsVars, assetVars, chainVars

OwnerVote(p, t) ==
  /\ VotedAndExecuted(p)
  /\ proposals[p].tier = ClassificationOf(t)
  /\ \/ /\ proposals[p].kind = "MINT_AND_ALLOCATE"
        /\ proposals[p].call.hash = assets[t].mintedHash
     \/ /\ proposals[p].kind = "TRANSFER"
        /\ proposals[p].call.token = t
  /\ proposals[p].call.to = assets[t].owner

LEMMA OwnersStep ==
  ASSUME ClassifiedInv, ClassifiedOwnerWasVoted, [ChainNext]_chainVars
  PROVE  ClassifiedOwnerWasVoted'
<1> USE DEF ClassifiedInv
<1> SUFFICES ASSUME PoliciesStand, NEW t \in Token, Exists(t)',
                    ClassificationOf(t)' >= CONFIDENTIAL
             PROVE  \/ SeededAsset(t) /\ assets'[t].owner = SeededAssets[t].to
                    \/ \E p \in Pid : OwnerVote(p, t)'
  BY DEF ClassifiedOwnerWasVoted, OwnerVote, PoliciesStand, SeededAsset
<1>1. Exists(t) => /\ ClassificationOf(t)' = ClassificationOf(t)
                   /\ assets'[t].mintedHash = assets[t].mintedHash
  BY ChainStepBelow, AssetsStay DEF ChainInv
<1>2. CASE Exists(t) /\ assets'[t].owner = assets[t].owner
  <2>1. \/ SeededAsset(t) /\ assets[t].owner = SeededAssets[t].to
        \/ \E p \in Pid : OwnerVote(p, t)
    BY <1>1, <1>2 DEF ClassifiedOwnerWasVoted, OwnerVote
  <2>2. ASSUME NEW p \in Pid, OwnerVote(p, t) PROVE OwnerVote(p, t)'
    <3>1. proposals'[p] = proposals[p] /\ VotedAndExecuted(p)'
      BY <2>2, VotedStays DEF OwnerVote
    <3> QED BY <1>1, <1>2, <2>2, <3>1 DEF OwnerVote
  <2> QED BY <1>2, <2>1, <2>2
<1>3. ~(ClassificationOf(t)' < CONFIDENTIAL)
  <2>1. AssetTypeOK'
    BY ChainInvStep DEF ChainInv, AssetsInv
  <2> QED BY <2>1 DEF CONFIDENTIAL, ClassificationOf, AssetTypeOK, AccessTypeOK, Asset, Tier,
             PUBLIC, TOP_SECRET
<1>4. ASSUME NEW p \in Pid, Execute(p), Allocated(p, t) PROVE OwnerVote(p, t)'
  <2>1. /\ VotedAndExecuted(p)'
        /\ proposals'[p].kind = proposals[p].kind /\ proposals'[p].call = proposals[p].call
        /\ proposals'[p].tier = proposals[p].tier
    BY <1>4, ExecutedIsVoted
  <2>2. AtTier(p)
    BY <1>4, ExecuteAmends DEF TiersMatch, Live
  <2> QED BY <1>1, <1>4, <2>1, <2>2 DEF OwnerVote, Allocated, AtTier
<1>5. OwnerCause(t)
  BY OwnerCauses
<1> QED BY <1>2, <1>3, <1>4, <1>5 DEF OwnerCause

\* INV-5 for every deployment whose policies tighten the table: above the
\* threshold nobody owns an asset but by a vote of its tier, at its minting or
\* at a transfer, or from the start.
THEOREM ClassifiedOwnerWasVotedHolds == ChainSpec => []ClassifiedOwnerWasVoted
<1> DEFINE Inv == ClassifiedInv /\ ClassifiedOwnerWasVoted
<1>1. ChainInit => Inv
  <2>1. ASSUME ChainInit, NEW t \in Token, Exists(t)
        PROVE  SeededAsset(t) /\ assets[t].owner = SeededAssets[t].to
    BY <2>1 DEF ChainInit, AssetsInit, Exists, MintedAsset
  <2> QED BY <2>1, ClassifiedInit DEF ClassifiedOwnerWasVoted
<1>2. Inv /\ [ChainNext]_chainVars => Inv'
  BY ClassifiedStep, OwnersStep
<1>3. Inv => ClassifiedOwnerWasVoted
  OBVIOUS
<1> QED BY <1>1, <1>2, <1>3, PTL DEF ChainSpec
-----------------------------------------------------------------------------
(***************************************************************************)
(* Clearances, once the founding door is closed.                           *)
(***************************************************************************)
Uplifts(p, i) ==
  /\ Execute(p)
  /\ proposals[p].kind = "CLEARANCE_UPLIFT"
  /\ proposals[p].call.target = i
  /\ proposals[p].tier = ClearanceOf(i)'

ClearanceCause(i) ==
  \/ ClearanceOf(i)' = ClearanceOf(i)
  \/ ClearanceOf(i)' \in {PUBLIC, RESTRICTED}
  \/ \E p \in Pid : Uplifts(p, i)

LEMMA DirectClearances ==
  ASSUME IdentityInv, identityAdmins = {}, IdentityDirect
  PROVE  /\ identityAdmins' = {}
         /\ \A i \in Id : \/ ClearanceOf(i)' = ClearanceOf(i)
                          \/ ClearanceOf(i)' \in {PUBLIC, RESTRICTED}
<1>t. identities \in [AnyId -> Identity] /\ Id \subseteq AnyId
  BY MaxIdAssumption DEF IdentityInv, IdentityTypeOK, Id, AnyId
<1>1. CASE UNCHANGED <<identities, identityAdmins>>
  BY <1>1 DEF ClearanceOf
<1>2. CASE RegistryStep
  <2>1. PICK sender \in Address :
          \/ \E c \in IdentityCalls.register : RegisterIdentity(sender, c)
          \/ \E i \in Id, s \in Status : SetStatus(i, s)
          \/ UNCHANGED <<identities, identityAdmins>>
    BY <1>2
       DEF RegistryStep, Suspend, Revoke, Reinstate, BootstrapClearance, Status,
           Pause, Unpause, RenounceIdentityAdmin
  <2>2. CASE \E c \in IdentityCalls.register : RegisterIdentity(sender, c)
    <3>1. PICK c \in IdentityCalls.register : RegisterIdentity(sender, c)
      BY <2>2
    <3>2. c.clearance \in Nat /\ c.clearance <= RESTRICTED /\ nextId \in Id
      BY <3>1, IdentityCallsAssumption DEF RegisterIdentity, DIRECT_REGISTER_CEILING
    <3>3. \A i \in Id : \/ i # nextId /\ identities'[i] = identities[i]
                       \/ identities'[i].clearance = c.clearance
      BY <1>t, <3>1 DEF RegisterIdentity
    <3>4. c.clearance \in {PUBLIC, RESTRICTED}
      BY <3>2 DEF PUBLIC, RESTRICTED
    <3> QED BY <3>1, <3>3, <3>4 DEF ClearanceOf, RegisterIdentity
  <2>3. CASE \E i \in Id, s \in Status : SetStatus(i, s)
    <3>1. PICK k \in Id, s \in Status : SetStatus(k, s)
      BY <2>3
    <3>2. \A i \in Id : identities'[i].clearance = identities[i].clearance
      BY <1>t, <3>1 DEF SetStatus, Identity
    <3> QED BY <3>1, <3>2 DEF SetStatus, ClearanceOf
  <2> QED BY <1>1, <2>1, <2>2, <2>3
<1>3. CASE SyncStep
  <2>1. PICK k \in Id : SyncController(k)
    BY <1>3 DEF SyncStep
  <2>2. \A i \in Id : identities'[i].clearance = identities[i].clearance
    BY <1>t, <2>1 DEF SyncController, Identity
  <2> QED BY <2>1, <2>2 DEF SyncController, ClearanceOf
<1> QED
  BY <1>1, <1>2, <1>3 DEF IdentityDirect, TimeStep, DidStep, RoleStep, registryVars

LEMMA ClearanceCauses ==
  ASSUME ChainInv, identityAdmins = {}, [ChainNext]_chainVars
  PROVE  identityAdmins' = {} /\ \A i \in Id : ClearanceCause(i)
<1>1. CASE UNCHANGED <<identities, identityAdmins>>
  BY <1>1 DEF ClearanceCause, ClearanceOf
<1>2. CASE IdentityDirect
  BY <1>2, DirectClearances DEF ChainInv, AssetsInv, ClearanceCause
<1>3. CASE ExecuteStep
  <2>1. PICK p \in Pid : Execute(p)
    BY <1>3 DEF ExecuteStep
  <2>2. Dispatch(proposals[p])
    BY <2>1, ExecuteAmends
  <2>3. CASE /\ proposals[p].kind = "CLEARANCE_UPLIFT"
             /\ SetClearance(proposals[p].call.target, proposals[p].tier)
    <3>1. identities \in [AnyId -> Identity] /\ Id \subseteq AnyId
      BY MaxIdAssumption DEF ChainInv, AssetsInv, IdentityInv, IdentityTypeOK, Id, AnyId
    <3>2. \A i \in Id :
            identities'[i].clearance = IF i = proposals[p].call.target THEN proposals[p].tier
                                       ELSE identities[i].clearance
      BY <2>3, <3>1 DEF SetClearance, Identity
    <3> QED BY <2>1, <2>3, <3>2 DEF SetClearance, ClearanceCause, ClearanceOf, Uplifts
  <2>4. CASE UNCHANGED <<identities, identityAdmins>>
    BY <1>1, <2>4
  <2> QED BY <2>2, <2>3, <2>4 DEF Dispatch, identityVars, registryVars
<1> QED
  BY <1>1, <1>2, <1>3
     DEF ChainNext, AssetsDirect, AccessStep, AssetStep, ProposeStep, VoteStep, PolicyStep,
         chainVars, assetsVars, identityVars, registryVars

\* Past the founding no clearance rises above RESTRICTED but by a vote of others
\* for this identity and this tier.
THEOREM ClearanceNeedsVoteHolds == ChainSpec => ClearanceNeedsVote
<1>1. ASSUME ClassifiedInv, [ChainNext]_chainVars, identityAdmins = {}, PoliciesStand,
             NEW i \in Id, ClearanceOf(i)' > ClearanceOf(i), ClearanceOf(i)' > RESTRICTED
      PROVE  \E p \in Pid :
               /\ ~proposals[p].executed
               /\ VotedAndExecuted(p)'
               /\ proposals[p].kind = "CLEARANCE_UPLIFT"
               /\ proposals[p].call.target = i
               /\ proposals[p].tier = ClearanceOf(i)'
  <2>1. ClearanceOf(i) \in Nat
    <3>1. identities[i] \in Identity
      BY <1>1, MaxIdAssumption
         DEF ClassifiedInv, ChainInv, AssetsInv, IdentityInv, IdentityTypeOK, Id, AnyId
    <3> QED BY <3>1 DEF Identity, ClearanceOf, Tier, PUBLIC, TOP_SECRET
  <2>2. PICK p \in Pid : Uplifts(p, i)
    BY <1>1, <2>1, ClearanceCauses DEF ClassifiedInv, ClearanceCause, PUBLIC, RESTRICTED
  <2>3. VotedAndExecuted(p)'
    BY <1>1, <2>2, ExecutedIsVoted DEF ClassifiedInv, Uplifts
  <2> QED BY <2>2, <2>3 DEF Uplifts, Execute, Live
<1>2. ClassifiedInv /\ [ChainNext]_chainVars =>
        [(identityAdmins = {} /\ PoliciesStand) =>
           \A i \in Id :
             (ClearanceOf(i)' > ClearanceOf(i) /\ ClearanceOf(i)' > RESTRICTED) =>
               \E p \in Pid :
                 /\ ~proposals[p].executed
                 /\ VotedAndExecuted(p)'
                 /\ proposals[p].kind = "CLEARANCE_UPLIFT"
                 /\ proposals[p].call.target = i
                 /\ proposals[p].tier = ClearanceOf(i)']_chainVars
  BY <1>1
<1> QED BY <1>2, ClassifiedInit, ClassifiedStep, PTL DEF ChainSpec, ClearanceNeedsVote

-----------------------------------------------------------------------------
(***************************************************************************)
(* One identity with a SECRET clearance stays the only one: two votes are  *)
(* needed for another, and whoever could vote has voted or is that one.    *)
(***************************************************************************)
LEMMA VotersAreFew ==
  ASSUME ChainInv, [ChainNext]_chainVars, NEW p \in Pid, Live(p)',
         proposals'[p].tier >= SECRET
  PROVE  \/ ApproversOf(p)' = {}
         \/ /\ Live(p) /\ proposals[p].tier = proposals'[p].tier
            /\ ApproversOf(p)' \subseteq ApproversOf(p) \cup High
<1>1. CASE proposals'[p] = proposals[p]
  BY <1>1 DEF Live, Made, ApproversOf
<1>2. CASE ProposeStep
  <2>1. proposals'[p] = proposals[p] \/ proposals'[p].approvers = <<>>
    BY <1>2, ProposeStepIsPropose, ProposeType
  <2>2. CASE proposals'[p].approvers = <<>>
    <3>1. ApproversOf(p)' = {}
      BY <2>2 DEF ApproversOf
    <3> QED BY <3>1
  <2> QED BY <1>1, <2>1, <2>2
<1>3. ASSUME NEW row, Live(p), Amended(p, row), row.approvers = proposals[p].approvers
      PROVE  /\ Live(p) /\ proposals[p].tier = proposals'[p].tier
             /\ ApproversOf(p)' \subseteq ApproversOf(p) \cup High
  BY <1>3 DEF Amended, ChainInv, WorkflowTypeOK, ApproversOf
<1>4. CASE VoteStep
  <2>1. PICK sender \in Address, i \in Id, q \in Pid :
          Approve(i, q) \/ Reject(q) \/ BreakGlass(i, q)
    BY <1>4 DEF VoteStep
  <2>2. CASE q # p
    <3>1. \E row : Amended(q, row)
      BY <2>1, ApproveAmends, RejectAmends, BreakGlassAmends
    <3>2. proposals'[p] = proposals[p]
      BY <2>2, <3>1 DEF Amended, ChainInv, WorkflowTypeOK
    <3> QED BY <1>1, <3>2
  <2>3. CASE q = p /\ (Reject(q) \/ BreakGlass(i, q))
    BY <1>3, <2>3, RejectAmends, BreakGlassAmends
  <2>4. CASE q = p /\ Approve(i, q)
    <3>1. PICK row : Amended(p, row) /\ row.approvers = Append(proposals[p].approvers, i)
      BY <2>4, ApproveAmends
    <3>2. proposals[p] \in Proposal /\ proposals'[p] = row
      BY <3>1 DEF Amended, ChainInv, WorkflowTypeOK
    <3>3. ApproversOf(p)' = ApproversOf(p) \cup {i}
      <4>1. proposals'[p].approvers = Append(proposals[p].approvers, i)
        BY <3>1, <3>2
      <4> QED BY <4>1, OneMoreApprover
    <3>4. /\ proposals'[p].tier = proposals[p].tier /\ proposals[p].tier \in Tier
          /\ ClearanceOf(i) >= proposals[p].tier
      BY <2>4, <3>1, <3>2 DEF Amended, Approve, Proposal
    <3>5. ClearanceOf(i) \in Tier
      BY MaxIdAssumption
         DEF ChainInv, AssetsInv, IdentityInv, IdentityTypeOK, Identity, Id, AnyId, ClearanceOf
    <3>6. i \in High
      BY <3>4, <3>5 DEF High, SECRET, Tier, PUBLIC, TOP_SECRET
    <3> QED BY <2>4, <3>3, <3>4, <3>6 DEF Approve
  <2> QED BY <2>1, <2>2, <2>3, <2>4
<1>5. CASE ExecuteStep
  <2>1. PICK q \in Pid : Execute(q)
    BY <1>5 DEF ExecuteStep
  <2>2. PICK row : Live(q) /\ Amended(q, row) /\ row.approvers = proposals[q].approvers
    BY <2>1, ExecuteAmends
  <2>3. CASE q # p
    BY <1>1, <2>2, <2>3 DEF Amended, ChainInv, WorkflowTypeOK
  <2> QED BY <1>3, <2>2, <2>3
<1> QED
  BY <1>1, <1>2, <1>4, <1>5 DEF ChainNext, PolicyStep, SetPolicy, workflowVars, chainVars

LEMMA HighIsFinite == IsFiniteSet(High) /\ IsFiniteSet(High')
<1>1. IsFiniteSet(Id)
  BY MaxIdAssumption, FS_Interval DEF Id
<1> QED BY <1>1, FS_Subset DEF High

LEMMA LockedStays ==
  ASSUME ClassifiedInv, [ChainNext]_chainVars, PoliciesStand, Locked
  PROVE  Locked'
<1> USE DEF ClassifiedInv
<1>1. High' \subseteq High
  <2> SUFFICES ASSUME NEW i \in Id, ClearanceOf(i)' >= SECRET, i \notin High PROVE FALSE
    BY DEF High
  <2>1. PICK p \in Pid : Uplifts(p, i)
    BY ClearanceCauses DEF Locked, ClearanceCause, PUBLIC, RESTRICTED, SECRET, High
  <2>2. Live(p) /\ proposals[p].tier >= SECRET /\ proposals[p].tier \in Tier
    BY <2>1, ExecuteAmends DEF Uplifts, ChainInv, WorkflowTypeOK, Proposal
  <2>3. Cardinality(ApproversOf(p)) >= 2
    <3>1. InitialPolicy[proposals[p].tier].approvals = 2
      BY <2>2 DEF InitialPolicy
    <3> QED BY <2>1, <3>1, ExecutedHasVotes DEF Uplifts
  <2>4. Cardinality(High \cup ApproversOf(p)) <= 1
    BY <2>2 DEF Locked
  <2>5. IsFiniteSet(ApproversOf(p)) /\ IsFiniteSet(High \cup ApproversOf(p))
    BY HighIsFinite, FS_Union DEF EyesInv, Eyes
  <2>6. Cardinality(ApproversOf(p)) <= Cardinality(High \cup ApproversOf(p))
    BY <2>5, FS_Subset
  <2> QED BY <2>3, <2>4, <2>5, <2>6, FS_CardinalityType
<1>2. Cardinality(High') <= 1
  BY <1>1, HighIsFinite, FS_Subset, FS_CardinalityType DEF Locked
<1>3. ASSUME NEW p \in Pid, Live(p)', proposals'[p].tier >= SECRET
      PROVE  Cardinality(High' \cup ApproversOf(p)') <= 1
  <2>1. CASE ApproversOf(p)' = {}
    <3>1. High' \cup ApproversOf(p)' = High'
      BY <2>1
    <3> QED BY <1>2, <3>1
  <2>2. CASE /\ Live(p) /\ proposals[p].tier = proposals'[p].tier
             /\ ApproversOf(p)' \subseteq ApproversOf(p) \cup High
    <3>1. Cardinality(High \cup ApproversOf(p)) <= 1
      BY <1>3, <2>2 DEF Locked
    <3>2. IsFiniteSet(High \cup ApproversOf(p))
      BY HighIsFinite, FS_Union DEF EyesInv, Eyes
    <3>3. /\ IsFiniteSet(High' \cup ApproversOf(p)')
          /\ Cardinality(High' \cup ApproversOf(p)') <= Cardinality(High \cup ApproversOf(p))
      BY <1>1, <2>2, <3>2, FS_Subset
    <3> QED BY <3>1, <3>2, <3>3, FS_CardinalityType
  <2> QED BY <1>3, <2>1, <2>2, VotersAreFew
<1>4. identityAdmins' = {}
  BY ClearanceCauses DEF Locked
<1> QED BY <1>2, <1>3, <1>4 DEF Locked

\* The governance can be locked from its first day: where the founding door was
\* closed behind one SECRET clearance, no sequence of proposals, votes, transfers
\* of roles and policies ever makes a second one.
THEOREM LoneOfficerStaysAloneHolds == ChainSpec => LoneOfficerStaysAlone
<1>1. ClassifiedInv /\ [ChainNext]_chainVars =>
        [PoliciesStand /\ Locked => Locked']_chainVars
  BY LockedStays
<1> QED BY <1>1, ClassifiedInit, ClassifiedStep, PTL DEF ChainSpec, LoneOfficerStaysAlone
=============================================================================
