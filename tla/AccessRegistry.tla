----------------------------- MODULE AccessRegistry -----------------------------
(***************************************************************************)
(* contracts/AccessRegistry.sol: the access control entries (ACEs) of each *)
(* asset, who may write them, and the resolution of an identity's          *)
(* effective permissions.  It reads AssetNFT's table for existence and     *)
(* classification; AssetNFT calls it back to seed and revoke the owner's   *)
(* entry.                                                                  *)
(*                                                                         *)
(* A justification hash of zero makes every direct write revert, so only   *)
(* justified calls are modelled here; GrantWorkflow stores unjustified     *)
(* proposals and its model keeps the flag.                                 *)
(***************************************************************************)
EXTENDS ArgusIdentity

CONSTANTS
  MaxToken,      \* bound: assets that may be minted
  Hash, NoHash,  \* content hashes, and bytes32(0)
  AclWriters,    \* holders of ACL_WRITER_ROLE: the deployer and the relayers
  SYSTEM,        \* type(uint256).max as grantedBy: seeded, not proposed
  AccessCalls    \* the arguments explored, per function of both contracts

ASSUME MaxTokenAssumption  == MaxToken \in Nat \ {0}
ASSUME HashAssumption      == NoHash \notin Hash
ASSUME WritersAssumption   == AclWriters \subseteq Address
ASSUME SystemAssumption    == SYSTEM \notin Nat

VARIABLES
  assets,      \* AssetNFT.assets
  aces,        \* aces[token][principal]
  principalsAt \* the principals listed for each asset

Token     == 1 .. MaxToken
Principal == {IdentityPrincipal(i) : i \in Id} \cup {RolePrincipal(r) : r \in Role}

Asset ==
  [minted : BOOLEAN, contentHash : Hash \cup {NoHash}, classification : Tier,
   owner : AnyId, mintedHash : Hash \cup {NoHash}]

\* written stands for grantedAt # 0.
Ace ==
  [allow : SUBSET Permission, deny : SUBSET Permission, notBefore : Nat,
   expiresAt : Nat, depth : Nat, grantedBy : AnyId \cup {SYSTEM},
   written : BOOLEAN]

NoAce ==
  [allow |-> {}, deny |-> {}, notBefore |-> 0, expiresAt |-> 0, depth |-> 0,
   grantedBy |-> 0, written |-> FALSE]

AccessTypeOK ==
  /\ assets \in [Token -> Asset]
  /\ aces \in [Token -> [Principal -> Ace]]
  /\ principalsAt \in [Token -> SUBSET Principal]

ASSUME AccessCallsAssumption ==
  /\ AccessCalls.setAce \subseteq
       [token : Token, principal : Principal, allow : SUBSET Permission,
        deny : SUBSET Permission, notBefore : Nat, expiresAt : Nat,
        depth : Nat, grantedBy : AnyId \cup {SYSTEM}]
  /\ AccessCalls.delegate \subseteq
       [token : Token, to : Principal, allow : SUBSET Permission, expiresAt : Nat]
  /\ AccessCalls.revokeAce \subseteq [token : Token, principal : Principal]

Exists(t)           == assets[t].minted
ClassificationOf(t) == assets[t].classification

-----------------------------------------------------------------------------
(***************************************************************************)
(* Resolution: identity and role entries in force, deny over allow, then   *)
(* the clearance gate, then the role rules, which run last and win.        *)
(***************************************************************************)
PrincipalsOf(i) ==
  {IdentityPrincipal(i)} \cup
  {RolePrincipal(r) : r \in {r \in Role : HasRoleToken(ControllerOf(i), r)}}

InForce(ace) ==
  /\ now >= ace.notBefore
  /\ ace.expiresAt = 0 \/ now < ace.expiresAt

EntriesFor(t, i) == {ace \in {aces[t][p] : p \in PrincipalsOf(i)} : InForce(ace)}

Discretionary(t, i) ==
  UNION {ace.allow : ace \in EntriesFor(t, i)}
    \ UNION {ace.deny : ace \in EntriesFor(t, i)}

\* Variant of the clearance gate that lets one missing level pass.
MandatoryOffByOne(eff, i, t) ==
  IF ClearanceOf(i) + 1 >= ClassificationOf(t) THEN eff
  ELSE IF ClassificationOf(t) = ClearanceOf(i) + 1 THEN {P_LIST} ELSE {}

\* One level short is a greyed entry in the listing; further is invisible.
ApplyMandatoryAccessControl(eff, i, t) ==
  IF ClearanceOf(i) >= ClassificationOf(t) THEN eff
  ELSE IF ClassificationOf(t) = ClearanceOf(i) + 1 THEN {P_LIST} ELSE {}

ApplyRoleRules(eff, i) ==
  LET holds(r) == HasRoleToken(ControllerOf(i), r)
  IN (eff \cup (IF holds(AUDITOR) THEN {P_LIST, P_READ_META, P_AUDIT} ELSE {})
          \cup (IF holds(ADMIN) THEN ADMIN_BITS ELSE {}))
       \ (IF holds(AUDITOR) \/ holds(SECURITY_OFFICER) THEN CONTENT_BITS ELSE {})

\* Variant of the resolution that runs the role rules before the clearance gate.
EffectiveRolesFirst(t, i) ==
  IF IsActive(i) /\ Exists(t)
  THEN ApplyMandatoryAccessControl(ApplyRoleRules(Discretionary(t, i), i), i, t)
  ELSE {}

EffectiveForIdentity(t, i) ==
  IF IsActive(i) /\ Exists(t)
  THEN ApplyRoleRules(ApplyMandatoryAccessControl(Discretionary(t, i), i, t), i)
  ELSE {}

\* The address-keyed form goes through the cached index of ArgusIdentity.
Effective(t, account) == EffectiveForIdentity(t, byController[account])

-----------------------------------------------------------------------------
(***************************************************************************)
(* Writes.  An entry replaces whatever its principal had on the asset, and *)
(* a principal with no entry is appended to the asset's listing; that a    *)
(* revoked one can be listed twice is left out, the listing being a set.   *)
(***************************************************************************)
Written(allow, deny, notBefore, expiresAt, depth, grantedBy) ==
  [allow |-> allow, deny |-> deny, notBefore |-> notBefore,
   expiresAt |-> expiresAt, depth |-> depth, grantedBy |-> grantedBy,
   written |-> TRUE]

List(lists, t, p) == [lists EXCEPT ![t] = @ \cup {p}]

\* Variant of WriteAce that takes an entry without allowed bits for a listed one.
WriteAceListingByAllow(t, p, ace) ==
  /\ aces' = [aces EXCEPT ![t][p] = ace]
  /\ principalsAt' = IF ace.allow = {} THEN principalsAt ELSE List(principalsAt, t, p)

WriteAce(t, p, ace) ==
  /\ aces' = [aces EXCEPT ![t][p] = ace]
  /\ principalsAt' = IF aces[t][p].written THEN principalsAt ELSE List(principalsAt, t, p)

\* The entry a writer asks for.
AceOf(c) ==
  Written(c.allow, c.deny, c.notBefore, c.expiresAt, c.depth, c.grantedBy)

\* grantedBy is whatever number the writer says, the system's own included.
SetAce(sender, c) ==
  /\ sender \in AclWriters
  /\ c.principal # IdentityPrincipal(c.grantedBy)
  /\ Exists(c.token)
  /\ ClassificationOf(c.token) < CONFIDENTIAL
  /\ WriteAce(c.token, c.principal, AceOf(c))

\* onlyRole(GRANT_EXECUTOR_ROLE): GrantWorkflow is the only caller.
ExecuteGrant(t, p, allow, deny, expiresAt, depth, proposer) ==
  WriteAce(t, p, Written(allow, deny, now, expiresAt, depth, proposer))

\* What seedAce writes, on behalf of AssetNFT.
SeededAce(allow) == Written(allow, {}, 0, 0, 2, SYSTEM)

DelegationDepthOf(t, p) == IF aces[t][p].allow # {} THEN aces[t][p].depth ELSE 0

\* Variant of Delegate that hands on its own depth.
DelegateKeepingDepth(sender, c) ==
  LET me == byController[sender]
  IN /\ IsActive(me)
     /\ c.to # IdentityPrincipal(me)
     /\ P_SHARE \in EffectiveForIdentity(c.token, me)
     /\ c.allow \subseteq EffectiveForIdentity(c.token, me)
     /\ DelegationDepthOf(c.token, IdentityPrincipal(me)) > 0
     /\ WriteAce(c.token, c.to,
          Written(c.allow, {}, now, c.expiresAt,
                  DelegationDepthOf(c.token, IdentityPrincipal(me)), me))

\* The depth comes from the delegator's own entry even when that entry is not
\* in force, the bits from everything the delegator holds, roles included.
Delegate(sender, c) ==
  LET me   == byController[sender]
      mine == EffectiveForIdentity(c.token, me)
  IN /\ IsActive(me)
     /\ c.to # IdentityPrincipal(me)
     /\ P_SHARE \in mine
     /\ c.allow \subseteq mine
     /\ DelegationDepthOf(c.token, IdentityPrincipal(me)) > 0
     /\ WriteAce(c.token, c.to,
          Written(c.allow, {}, now, c.expiresAt,
                  DelegationDepthOf(c.token, IdentityPrincipal(me)) - 1, me))

\* Deletes the entry; its principal stays in the listing.
RevokeAce(sender, c) ==
  /\ sender \in AclWriters
  /\ aces' = [aces EXCEPT ![c.token][c.principal] = NoAce]
  /\ UNCHANGED principalsAt
=============================================================================
