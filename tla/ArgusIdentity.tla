----------------------------- MODULE ArgusIdentity -----------------------------
(***************************************************************************)
(* contracts/ArgusIdentity.sol over the DID registry and the role tokens.  *)
(* An identity is a DID with a clearance, a status and a tenure.  The key  *)
(* that controls the DID is read live by controllerOf, while byController  *)
(* caches the reverse direction and is repaired by syncController.         *)
(*                                                                         *)
(* An identity id that was never issued has the default value of its       *)
(* mapping.  byDid and byEmpCommitment are written once, at registration,  *)
(* so they are functions of the identities and not variables.              *)
(***************************************************************************)
EXTENDS EthereumDIDRegistry, RoleRegistry, Sequences, FiniteSets

CONSTANTS
  Employee,       \* commitments of employee numbers
  NoEmployee,     \* bytes32(0)
  MaxId,          \* bound: identities that may be issued
  Deployer,       \* holder of DEFAULT_ADMIN_ROLE on every contract
  Founding,       \* the identities of a seeded deployment, <<>> for a bare one
  IdentityCalls   \* the arguments explored, per function

ASSUME EmployeeAssumption == NoEmployee \notin Employee
ASSUME MaxIdAssumption    == MaxId \in Nat
ASSUME DeployerAssumption == Deployer \in Address

VARIABLES identities, nextId, byController, paused, identityAdmins

registryVars == <<identities, nextId, byController, paused, identityAdmins>>
identityVars == <<now, owners, roleVars, registryVars>>

Id     == 1 .. MaxId
AnyId  == 0 .. MaxId      \* 0: "no identity"
Status == {"NONE", "ACTIVE", "SUSPENDED", "REVOKED"}

DIRECT_REGISTER_CEILING == RESTRICTED

NoIdentity ==
  [did |-> NoAddress, emp |-> NoEmployee, clearance |-> PUBLIC,
   status |-> "NONE", validUntil |-> 0, lastKnownController |-> NoAddress]

Identity ==
  [did : AnyAddress, emp : Employee \cup {NoEmployee}, clearance : Tier,
   status : Status, validUntil : Nat, lastKnownController : AnyAddress]

\* A founder: registered by the deployer, given its role tokens, and raised to
\* its clearance by bootstrapClearance, as the seed script does.
Founder ==
  [did : Address, emp : Employee, clearance : Tier, validUntil : Nat,
   roles : SUBSET Role]

ASSUME FoundingAssumption ==
  /\ Founding \in Seq(Founder)
  /\ Len(Founding) <= MaxId
  /\ \A i, j \in 1 .. Len(Founding) :
       i # j => /\ Founding[i].did # Founding[j].did
                /\ Founding[i].emp # Founding[j].emp

ASSUME IdentityCallsAssumption ==
  /\ IdentityCalls.changeOwner \subseteq [did : Address, newOwner : AnyAddress]
  /\ IdentityCalls.bootstrap \subseteq Address
  /\ IdentityCalls.roleToken \subseteq [who : Address, role : Role]
  /\ IdentityCalls.register \subseteq
       [did : Address, signer : Address, emp : Employee, clearance : Nat,
        validUntil : Nat, deadline : Nat]
  /\ IdentityCalls.status \subseteq {"ACTIVE", "SUSPENDED", "REVOKED"}
  /\ IdentityCalls.bootstrapClearance \subseteq Tier
  /\ IdentityCalls.admin \subseteq {"pause", "renounce", "renounceRoles"}
  /\ IdentityCalls.clearance \subseteq Tier
  /\ IdentityCalls.adminGrant \subseteq AnyAddress

-----------------------------------------------------------------------------
Registered == {i \in Id : identities[i].status # "NONE"}

IsActive(i) ==
  /\ identities[i].status = "ACTIVE"
  /\ \/ identities[i].validUntil = 0
     \/ identities[i].validUntil > now

ControllerOf(i) == IdentityOwner(identities[i].did)

ClearanceOf(i) == identities[i].clearance

-----------------------------------------------------------------------------
(***************************************************************************)
(* Registration and key rotation.                                          *)
(***************************************************************************)

\* signer is what ECDSA.recover returns for this very message.  nonces[did] is
\* left out: it moves only here, and a DID that moved it is bound for ever.
RegisterIdentity(sender, c) ==
  /\ ~paused
  /\ HasRoleToken(sender, ADMIN)
  /\ c.clearance <= DIRECT_REGISTER_CEILING
  /\ now <= c.deadline
  /\ \A i \in Registered : identities[i].emp # c.emp /\ identities[i].did # c.did
  /\ c.signer = IdentityOwner(c.did)
  /\ nextId \in Id                           \* bound
  /\ nextId' = nextId + 1
  /\ identities' = [identities EXCEPT ![nextId] =
       [did |-> c.did, emp |-> c.emp, clearance |-> c.clearance,
        status |-> "ACTIVE", validUntil |-> c.validUntil,
        lastKnownController |-> c.did]]
  /\ byController' = [byController EXCEPT ![c.did] = nextId]
  /\ UNCHANGED <<paused, identityAdmins>>

\* Variant of SyncController that forgets to delete the old entry.
SyncControllerKeepingOldKey(i) ==
  LET current == ControllerOf(i)
  IN /\ i \in Registered
     /\ byController' = [byController EXCEPT ![current] = i]
     /\ identities' = [identities EXCEPT ![i].lastKnownController = current]
     /\ UNCHANGED <<nextId, paused, identityAdmins>>

\* Variant of SyncController that does not enter the new key.
SyncControllerForgettingNewKey(i) ==
  LET current == ControllerOf(i)
      cached  == identities[i].lastKnownController
  IN /\ i \in Registered
     /\ current # cached
     /\ byController' = [byController EXCEPT ![cached] = 0]
     /\ identities' = [identities EXCEPT ![i].lastKnownController = current]
     /\ UNCHANGED <<nextId, paused, identityAdmins>>

\* Permissionless.  The code's delete comes before its assignment, and it
\* neither asks whose entry it deletes nor whose it overwrites.
SyncController(i) ==
  LET current == ControllerOf(i)
      cached  == identities[i].lastKnownController
  IN /\ i \in Registered
     /\ IF current # cached
        THEN /\ byController' =
                  [byController EXCEPT ![cached] = 0, ![current] = i]
             /\ identities' =
                  [identities EXCEPT ![i].lastKnownController = current]
        ELSE UNCHANGED <<byController, identities>>
     /\ UNCHANGED <<nextId, paused, identityAdmins>>

-----------------------------------------------------------------------------
(***************************************************************************)
(* Status and clearance.                                                   *)
(***************************************************************************)

SetStatus(i, s) ==
  /\ i \in Registered
  /\ identities' = [identities EXCEPT ![i].status = s]
  /\ UNCHANGED <<nextId, byController, paused, identityAdmins>>

\* Variant of Reinstate guarded like suspend and revoke.
ReinstateByOfficer(sender, i) ==
  HasRoleToken(sender, SECURITY_OFFICER) /\ SetStatus(i, "ACTIVE")

Suspend(sender, i)   == HasRoleToken(sender, SECURITY_OFFICER) /\ SetStatus(i, "SUSPENDED")
Revoke(sender, i)    == HasRoleToken(sender, SECURITY_OFFICER) /\ SetStatus(i, "REVOKED")
Reinstate(sender, i) == HasRoleToken(sender, ADMIN) /\ SetStatus(i, "ACTIVE")

\* onlyRole(GRANT_EXECUTOR_ROLE): GrantWorkflow is the only caller.
SetClearance(i, tier) ==
  /\ i \in Registered
  /\ tier \in Tier
  /\ identities' = [identities EXCEPT ![i].clearance = tier]
  /\ UNCHANGED <<nextId, byController, paused, identityAdmins>>

\* The founding-committee door, open until the last admin renounces.
BootstrapClearance(sender, i, tier) ==
  /\ sender \in identityAdmins
  /\ SetClearance(i, tier)

Pause(sender) ==
  /\ sender \in identityAdmins
  /\ ~paused
  /\ paused' = TRUE
  /\ UNCHANGED <<identities, nextId, byController, identityAdmins>>

Unpause(sender) ==
  /\ sender \in identityAdmins
  /\ paused
  /\ paused' = FALSE
  /\ UNCHANGED <<identities, nextId, byController, identityAdmins>>

RenounceIdentityAdmin(sender) ==
  /\ sender \in identityAdmins
  /\ identityAdmins' = identityAdmins \ {sender}
  /\ UNCHANGED <<identities, nextId, byController, paused>>

-----------------------------------------------------------------------------
IdentityTypeOK ==
  /\ now \in 1 .. MaxTime
  /\ DidTypeOK
  /\ RoleTypeOK
  /\ identities \in [AnyId -> Identity]
  /\ nextId \in 1 .. MaxId + 1
  /\ byController \in [Address -> AnyId]
  /\ paused \in BOOLEAN
  /\ identityAdmins \subseteq Address

\* The deployed system: bare, or with its founders registered and the first
\* Admin bootstrapped.
FounderOf(a) == {k \in 1 .. Len(Founding) : Founding[k].did = a}

IdentityInit ==
  /\ now = 1
  /\ DidInit
  /\ balance = [a \in AnyAddress |-> [r \in Role |->
                  IF \E k \in FounderOf(a) : r \in Founding[k].roles THEN 1 ELSE 0]]
  /\ bootstrapped = (Founding # <<>>)
  /\ roleAdmins = {Deployer}
  /\ identities = [i \in AnyId |->
       IF i \in 1 .. Len(Founding)
       THEN [did |-> Founding[i].did, emp |-> Founding[i].emp,
             clearance |-> Founding[i].clearance, status |-> "ACTIVE",
             validUntil |-> Founding[i].validUntil,
             lastKnownController |-> Founding[i].did]
       ELSE NoIdentity]
  /\ nextId = Len(Founding) + 1
  /\ byController = [a \in Address |->
       IF FounderOf(a) = {} THEN 0 ELSE CHOOSE k \in FounderOf(a) : TRUE]
  /\ paused = FALSE
  /\ identityAdmins = {Deployer}

TimeStep == Tick /\ UNCHANGED <<owners, roleVars, registryVars>>

DidStep ==
  /\ \E sender \in Address, c \in IdentityCalls.changeOwner :
       ChangeOwner(sender, c.did, c.newOwner)
  /\ UNCHANGED <<now, roleVars, registryVars>>

RoleStep ==
  /\ \E sender \in Address :
       \/ \E founder \in IdentityCalls.bootstrap : Bootstrap(sender, founder)
       \/ \E c \in IdentityCalls.roleToken :
            \/ GrantRoleToken(sender, c.who, c.role)
            \/ RevokeRoleToken(sender, c.who, c.role)
       \/ "renounceRoles" \in IdentityCalls.admin /\ RenounceRoleAdmin(sender)
  /\ UNCHANGED <<now, owners, registryVars>>

RegistryStep ==
  /\ \E sender \in Address :
       \/ \E c \in IdentityCalls.register : RegisterIdentity(sender, c)
       \/ \E i \in Id :
            \/ "SUSPENDED" \in IdentityCalls.status /\ Suspend(sender, i)
            \/ "REVOKED" \in IdentityCalls.status /\ Revoke(sender, i)
            \/ "ACTIVE" \in IdentityCalls.status /\ Reinstate(sender, i)
            \/ \E tier \in IdentityCalls.bootstrapClearance :
                 BootstrapClearance(sender, i, tier)
       \/ /\ "pause" \in IdentityCalls.admin
          /\ Pause(sender) \/ Unpause(sender)
       \/ "renounce" \in IdentityCalls.admin /\ RenounceIdentityAdmin(sender)
  /\ UNCHANGED <<now, owners, roleVars>>

SyncStep == (\E i \in Id : SyncController(i)) /\ UNCHANGED <<now, owners, roleVars>>

\* What accounts can do to this layer by calling it directly ...
IdentityDirect == TimeStep \/ DidStep \/ RoleStep \/ RegistryStep \/ SyncStep

\* ... and what its executor may do, whoever the executor is.
ExecutorStep ==
  \/ /\ \E i \in Id, tier \in IdentityCalls.clearance : SetClearance(i, tier)
     /\ UNCHANGED <<now, owners, roleVars>>
  \/ /\ \E to \in IdentityCalls.adminGrant : ExecuteAdminGrant(to)
     /\ UNCHANGED <<now, owners, registryVars>>

IdentityNext == IdentityDirect \/ ExecutorStep

IdentitySpec == IdentityInit /\ [][IdentityNext]_identityVars

-----------------------------------------------------------------------------
\* No two keys ever act for the same identity in the address-keyed lookups:
\* once a rotation is synced, the old key has lost its entry.
OneKeyPerIdentity ==
  \A a, b \in Address :
    (a # b /\ byController[a] = byController[b]) => byController[a] = 0

\* The strengthening that makes it inductive: an entry of the index belongs to
\* the identity that remembers that key, and such an identity was issued.
IndexPointsBack ==
  \A a \in Address :
    byController[a] # 0 =>
      /\ byController[a] < nextId
      /\ identities[byController[a]].lastKnownController = a

\* An identity whose cached controller is its real one is found under that
\* key: syncController "keep[s] byController in sync so address-keyed lookups
\* resolve correctly after a rotation" (ArgusIdentity.sol:144-147).
SettledIndexIsExact ==
  \A i \in Registered :
    identities[i].lastKnownController = ControllerOf(i) =>
      byController[ControllerOf(i)] = i

\* What the exact index needs of the employees, for the registry does not ask
\* for it: the keys that a bound DID is handed to are its own, so that no two
\* identities ever meet at one key.
BoundDid == {c.did : c \in IdentityCalls.register} \cup
            {Founding[k].did : k \in 1 .. Len(Founding)}
Handovers(did) == {c \in IdentityCalls.changeOwner : c.did = did /\ c.newOwner # NoAddress}
KeysOf(did)    == {did} \cup {c.newOwner : c \in Handovers(did)}
KeysAreOwn == \A d, e \in BoundDid : d # e => KeysOf(d) \cap KeysOf(e) = {}

\* While nobody holds ADMIN, no identity comes to life: "un-suspending needs
\* the Admin path" (ArgusIdentity.sol:164-165), registering does too, and a
\* lapsed tenure does not come back with time.
NoAdminNoRevival ==
  [][(\A a \in Address : ~HasRoleToken(a, ADMIN)) =>
       \A i \in Id : ~IsActive(i) => ~IsActive(i)']_identityVars
=============================================================================
