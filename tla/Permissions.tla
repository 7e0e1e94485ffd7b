----------------------------- MODULE Permissions -----------------------------
(***************************************************************************)
(* The vocabulary of the contracts: permission bits, the five tiers that   *)
(* grade both clearances and classifications, the five roles, and the      *)
(* principals an access control entry can name.  A uint32 mask is the set  *)
(* of its bits, so a | b is a \cup b and a & ~b is a \ b.                  *)
(***************************************************************************)
EXTENDS Naturals

P_LIST      == "LIST"
P_READ_META == "READ_META"
P_READ      == "READ"
P_DOWNLOAD  == "DOWNLOAD"
P_WRITE     == "WRITE"
P_SHARE     == "SHARE"
P_ADMIN     == "ADMIN"
P_AUDIT     == "AUDIT"

Permission ==
  {P_LIST, P_READ_META, P_READ, P_DOWNLOAD, P_WRITE, P_SHARE, P_ADMIN, P_AUDIT}

CONTENT_BITS == {P_READ, P_DOWNLOAD, P_WRITE}

\* What an owner receives at mint and at transfer.
OWNER_BITS == {P_LIST, P_READ_META, P_READ, P_DOWNLOAD, P_WRITE, P_SHARE}

\* What the ADMIN role receives on every asset at mint.
ADMIN_BITS == {P_LIST, P_ADMIN}

-----------------------------------------------------------------------------
PUBLIC       == 0
RESTRICTED   == 1
CONFIDENTIAL == 2
SECRET       == 3
TOP_SECRET   == 4

Tier == PUBLIC .. TOP_SECRET

ADMIN            == 1
MANAGER          == 2
AUDITOR          == 3
USER             == 4
SECURITY_OFFICER == 5

Role == ADMIN .. SECURITY_OFFICER

-----------------------------------------------------------------------------
\* keccak256(type, id) is injective for all purposes of the code, so a
\* principal is the pair it hashes.
IdentityPrincipal(i) == [kind |-> "IDENTITY", id |-> i]
RolePrincipal(r)     == [kind |-> "ROLE", id |-> r]
=============================================================================
