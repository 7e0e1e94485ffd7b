------------------------------ MODULE MCIdentity ------------------------------
(***************************************************************************)
(* Small instances of ArgusIdentity: an Admin who registers employees, and *)
(* the keys their DIDs may be handed to.                                   *)
(***************************************************************************)
EXTENDS ArgusIdentity, TLC

CONSTANTS admin, alice, bob, key1, e0, e1, e2

NoFounders == <<>>

RegisterCall(did, signer, emp) ==
  [did |-> did, signer |-> signer, emp |-> emp, clearance |-> RESTRICTED,
   validUntil |-> 2, deadline |-> 1]

Calls(handovers, registrations) ==
  [changeOwner |-> handovers, bootstrap |-> {}, roleToken |-> {},
   register |-> registrations, status |-> {}, bootstrapClearance |-> {},
   admin |-> {}, clearance |-> {}, adminGrant |-> {}]

-----------------------------------------------------------------------------
\* A bare deployment and everything that can be called on it. A DID is handed
\* only to keys of its own. Registrations by the right key, by a key the DID
\* was handed to before, and of a DID that is bound already.
LifeCalls ==
  [Calls([did : {alice}, newOwner : {key1, NoAddress}],
         {RegisterCall(admin, admin, e0), RegisterCall(alice, alice, e1),
          RegisterCall(alice, key1, e1), RegisterCall(alice, alice, e0)})
    EXCEPT !.bootstrap = {admin},
           !.roleToken = {[who |-> admin, role |-> r] : r \in {ADMIN, SECURITY_OFFICER}},
           !.status = {"ACTIVE", "SUSPENDED", "REVOKED"},
           !.bootstrapClearance = {TOP_SECRET},
           !.admin = {"pause", "renounce", "renounceRoles"},
           !.clearance = {CONFIDENTIAL},
           !.adminGrant = {alice}]

\* What SettledIndexIsExact is proved under is so here.
ASSUME LifeKeysAreOwn == KeysAreOwn
=============================================================================
