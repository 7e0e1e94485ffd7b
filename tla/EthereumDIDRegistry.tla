------------------------- MODULE EthereumDIDRegistry -------------------------
(***************************************************************************)
(* contracts/identity/EthereumDIDRegistry.sol: which key controls a DID.   *)
(* A DID is an address and owns itself until its owner hands it over.  The *)
(* delegate table of ERC-1056 is read by no other contract and left out.   *)
(***************************************************************************)
EXTENDS BlockContext

VARIABLE owners    \* owners[did]: the key set by changeOwner, or NoAddress

DidTypeOK == owners \in [AnyAddress -> AnyAddress]

DidInit == owners = [a \in AnyAddress |-> NoAddress]

IdentityOwner(did) == IF owners[did] = NoAddress THEN did ELSE owners[did]

\* newOwner = NoAddress gives the DID back to itself.
ChangeOwner(sender, did, newOwner) ==
  /\ sender = IdentityOwner(did)
  /\ owners' = [owners EXCEPT ![did] = newOwner]
=============================================================================
