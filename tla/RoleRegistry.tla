----------------------------- MODULE RoleRegistry -----------------------------
(***************************************************************************)
(* contracts/RoleRegistry.sol: platform roles as soulbound ERC-1155        *)
(* balances, keyed by address and not by identity.                         *)
(***************************************************************************)
EXTENDS BlockContext, Permissions

VARIABLES
  balance,       \* balance[a][r]: balanceOf(a, r)
  bootstrapped,  \* has the one-time seed of the first Admin been used?
  roleAdmins     \* DEFAULT_ADMIN_ROLE of this contract: the deployer

roleVars == <<balance, bootstrapped, roleAdmins>>

RoleTypeOK ==
  /\ balance \in [AnyAddress -> [Role -> Nat]]
  /\ bootstrapped \in BOOLEAN
  /\ roleAdmins \subseteq Address

HasRoleToken(who, r) == balance[who][r] > 0

\* Every mint but the first is guarded by balanceOf(to, r) == 0, and ERC-1155
\* refuses to mint to address(0).
MintOnce(to, r) ==
  IF balance[to][r] = 0
  THEN /\ to # NoAddress
       /\ balance' = [balance EXCEPT ![to][r] = @ + 1]
  ELSE UNCHANGED balance

\* Variant of Bootstrap that does not ask whether it was used before.
BootstrapAgain(sender, founder) ==
  /\ sender \in roleAdmins
  /\ founder # NoAddress
  /\ bootstrapped' = TRUE
  /\ balance' = [balance EXCEPT ![founder][ADMIN] = @ + 1]
  /\ UNCHANGED roleAdmins

Bootstrap(sender, founder) ==
  /\ sender \in roleAdmins
  /\ ~bootstrapped
  /\ founder # NoAddress
  /\ bootstrapped' = TRUE
  /\ balance' = [balance EXCEPT ![founder][ADMIN] = @ + 1]
  /\ UNCHANGED roleAdmins

RenounceRoleAdmin(sender) ==
  /\ sender \in roleAdmins
  /\ roleAdmins' = roleAdmins \ {sender}
  /\ UNCHANGED <<balance, bootstrapped>>

\* A direct grant never mints ADMIN: that takes an ADMIN_ROLE_MINT proposal.
GrantRoleToken(sender, to, r) ==
  /\ HasRoleToken(sender, ADMIN)
  /\ r # ADMIN
  /\ MintOnce(to, r)
  /\ UNCHANGED <<bootstrapped, roleAdmins>>

\* Burns one token, whoever holds it: an Admin may revoke itself.
RevokeRoleToken(sender, from, r) ==
  /\ HasRoleToken(sender, ADMIN)
  /\ balance' = IF balance[from][r] > 0
                THEN [balance EXCEPT ![from][r] = @ - 1]
                ELSE balance
  /\ UNCHANGED <<bootstrapped, roleAdmins>>

\* onlyRole(GRANT_EXECUTOR_ROLE): GrantWorkflow is the only caller.
ExecuteAdminGrant(to) ==
  /\ MintOnce(to, ADMIN)
  /\ UNCHANGED <<bootstrapped, roleAdmins>>
=============================================================================
