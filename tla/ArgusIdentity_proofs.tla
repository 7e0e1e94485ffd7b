------------------------- MODULE ArgusIdentity_proofs -------------------------
(***************************************************************************)
(* Theorems about the identity layer, for every set of accounts, every     *)
(* founding and every bound.                                               *)
(***************************************************************************)
EXTENDS ArgusIdentity, TLAPS

\* The layer's steps with an executor that may do anything, which is what the
\* layers above need.
AnyExecutorStep ==
  \/ /\ \E i \in Id, tier \in Tier : SetClearance(i, tier)
     /\ UNCHANGED <<now, owners, roleVars>>
  \/ /\ \E to \in AnyAddress : ExecuteAdminGrant(to)
     /\ UNCHANGED <<now, owners, registryVars>>

AnyIdentityStep == IdentityDirect \/ AnyExecutorStep

\* The executor of this layer's own specification is one such executor.
LEMMA IdentityNextIsAnyStep == IdentityNext => AnyIdentityStep
  BY IdentityCallsAssumption DEF IdentityNext, AnyIdentityStep, ExecutorStep, AnyExecutorStep

\* Controllers are accounts: the owner table and the DIDs are typed.
LEMMA IdentityOwnerType ==
  ASSUME DidTypeOK, NEW did \in Address
  PROVE  IdentityOwner(did) \in Address
  BY DEF DidTypeOK, IdentityOwner, AnyAddress

-----------------------------------------------------------------------------
\* Every issued identity has a DID and a cached controller; ids at or above
\* nextId were never issued.  The type invariant needs this much to know that
\* syncController indexes real accounts.
IssuedShape ==
  \A i \in AnyId :
    IF i \in Id /\ i < nextId
    THEN /\ identities[i].status # "NONE"
         /\ identities[i].did \in Address
         /\ identities[i].lastKnownController \in Address
    ELSE identities[i] = NoIdentity

IdentityInv == IdentityTypeOK /\ IssuedShape

LEMMA TypeInit == IdentityInit => IdentityInv
<1> SUFFICES ASSUME IdentityInit PROVE IdentityInv
  OBVIOUS
<1> USE DEF IdentityInit
<1>f. /\ Len(Founding) \in Nat
      /\ Len(Founding) <= MaxId
      /\ \A i \in 1 .. Len(Founding) : Founding[i] \in Founder
  BY FoundingAssumption
<1>1. now \in 1 .. MaxTime
  BY MaxTimeAssumption
<1>2. DidTypeOK
  BY DEF DidTypeOK, DidInit, AnyAddress
<1>3. RoleTypeOK
  BY DeployerAssumption DEF RoleTypeOK
<1>4. identities \in [AnyId -> Identity]
  <2> SUFFICES ASSUME NEW i \in AnyId
               PROVE (IF i \in 1 .. Len(Founding)
                      THEN [did |-> Founding[i].did, emp |-> Founding[i].emp,
                            clearance |-> Founding[i].clearance, status |-> "ACTIVE",
                            validUntil |-> Founding[i].validUntil,
                            lastKnownController |-> Founding[i].did]
                      ELSE NoIdentity) \in Identity
    OBVIOUS
  <2>1. NoIdentity \in Identity
    BY DEF NoIdentity, Identity, Status, AnyAddress, Tier, PUBLIC, TOP_SECRET
  <2>2. CASE i \in 1 .. Len(Founding)
    <3>1. Founding[i] \in Founder
      BY <1>f, <2>2
    <3> QED BY <2>2, <3>1 DEF Founder, Identity, Status, AnyAddress
  <2> QED BY <2>1, <2>2
<1>5. nextId \in 1 .. MaxId + 1
  BY <1>f, MaxIdAssumption
<1>6. byController \in [Address -> AnyId]
  <2> SUFFICES ASSUME NEW a \in Address, FounderOf(a) # {}
               PROVE (CHOOSE k \in FounderOf(a) : TRUE) \in AnyId
    BY MaxIdAssumption DEF AnyId
  <2>1. (CHOOSE k \in FounderOf(a) : TRUE) \in FounderOf(a)
    OBVIOUS
  <2> QED BY <2>1, <1>f, MaxIdAssumption DEF FounderOf, AnyId
<1>7. paused \in BOOLEAN /\ identityAdmins \subseteq Address
  BY DeployerAssumption
<1>8. IssuedShape
  <2> SUFFICES ASSUME NEW i \in AnyId
               PROVE IF i \in Id /\ i < nextId
                     THEN /\ identities[i].status # "NONE"
                          /\ identities[i].did \in Address
                          /\ identities[i].lastKnownController \in Address
                     ELSE identities[i] = NoIdentity
    BY DEF IssuedShape
  <2>1. (i \in Id /\ i < nextId) <=> i \in 1 .. Len(Founding)
    BY <1>f, MaxIdAssumption DEF AnyId, Id
  <2>2. CASE i \in 1 .. Len(Founding)
    <3>1. Founding[i] \in Founder
      BY <1>f, <2>2
    <3> QED BY <2>1, <2>2, <3>1 DEF Founder
  <2>3. CASE i \notin 1 .. Len(Founding)
    BY <2>1, <2>3
  <2> QED BY <2>2, <2>3
<1> QED
  BY <1>1, <1>2, <1>3, <1>4, <1>5, <1>6, <1>7, <1>8 DEF IdentityInv, IdentityTypeOK

\* What the operations on role tokens preserve.
LEMMA MintOnceType ==
  ASSUME RoleTypeOK, NEW to \in AnyAddress, NEW r \in Role, MintOnce(to, r)
  PROVE  balance' \in [AnyAddress -> [Role -> Nat]]
  BY DEF RoleTypeOK, MintOnce

LEMMA RoleStepType ==
  ASSUME IdentityTypeOK, RoleStep
  PROVE  RoleTypeOK'
<1> USE DEF IdentityTypeOK, RoleTypeOK
<1>a. ADMIN \in Role /\ Address \subseteq AnyAddress
  BY DEF ADMIN, Role, SECURITY_OFFICER, AnyAddress
<1>1. PICK sender \in Address :
        \/ \E founder \in IdentityCalls.bootstrap : Bootstrap(sender, founder)
        \/ \E c \in IdentityCalls.roleToken :
             \/ GrantRoleToken(sender, c.who, c.role)
             \/ RevokeRoleToken(sender, c.who, c.role)
        \/ RenounceRoleAdmin(sender)
  BY DEF RoleStep
<1>2. CASE \E founder \in IdentityCalls.bootstrap : Bootstrap(sender, founder)
  <2>1. PICK founder \in Address : Bootstrap(sender, founder)
    BY <1>2, IdentityCallsAssumption
  <2>2. balance' \in [AnyAddress -> [Role -> Nat]]
    BY <2>1, <1>a DEF Bootstrap
  <2> QED BY <2>1, <2>2 DEF Bootstrap
<1>3. CASE \E c \in IdentityCalls.roleToken :
             \/ GrantRoleToken(sender, c.who, c.role)
             \/ RevokeRoleToken(sender, c.who, c.role)
  <2>1. PICK who \in AnyAddress, r \in Role :
          GrantRoleToken(sender, who, r) \/ RevokeRoleToken(sender, who, r)
    BY <1>3, <1>a, IdentityCallsAssumption
  <2>2. CASE GrantRoleToken(sender, who, r)
    BY <2>2, MintOnceType DEF GrantRoleToken
  <2>3. CASE RevokeRoleToken(sender, who, r)
    <3>1. balance' \in [AnyAddress -> [Role -> Nat]]
      BY <2>3 DEF RevokeRoleToken
    <3> QED BY <2>3, <3>1 DEF RevokeRoleToken
  <2> QED BY <2>1, <2>2, <2>3
<1>4. CASE RenounceRoleAdmin(sender)
  BY <1>4 DEF RenounceRoleAdmin
<1> QED BY <1>1, <1>2, <1>3, <1>4

-----------------------------------------------------------------------------
\* What the operations on the table of identities preserve: its type, its
\* shape, and the type of the two indexes.
TableInv ==
  /\ identities \in [AnyId -> Identity]
  /\ nextId \in 1 .. MaxId + 1
  /\ byController \in [Address -> AnyId]
  /\ paused \in BOOLEAN
  /\ identityAdmins \subseteq Address
  /\ IssuedShape

LEMMA RegisterTable ==
  ASSUME TableInv, NEW sender \in Address, NEW c \in IdentityCalls.register,
         RegisterIdentity(sender, c)
  PROVE  TableInv'
<1> USE DEF TableInv, RegisterIdentity
<1>1. /\ c.did \in Address /\ c.emp \in Employee /\ c.validUntil \in Nat
      /\ c.clearance \in Tier
  BY IdentityCallsAssumption
     DEF Tier, PUBLIC, TOP_SECRET, DIRECT_REGISTER_CEILING, RESTRICTED
<1>2. nextId \in AnyId /\ nextId \in Id /\ nextId + 1 \in 1 .. MaxId + 1
  BY MaxIdAssumption DEF AnyId, Id
<1> DEFINE row == [did |-> c.did, emp |-> c.emp, clearance |-> c.clearance,
                   status |-> "ACTIVE", validUntil |-> c.validUntil,
                   lastKnownController |-> c.did]
<1>3. row \in Identity
  BY <1>1 DEF Identity, Status, AnyAddress
<1>4. identities' = [identities EXCEPT ![nextId] = row]
  OBVIOUS
<1> HIDE DEF row
<1>5. identities' \in [AnyId -> Identity]
  BY <1>2, <1>3, <1>4
<1>6. IssuedShape'
  <2>1. /\ row.status # "NONE" /\ row.did \in Address
        /\ row.lastKnownController \in Address
    BY <1>1 DEF row
  <2> QED BY <2>1, <1>2, <1>4 DEF IssuedShape, AnyId, Id
<1> QED BY <1>1, <1>2, <1>5, <1>6

\* One field of an issued identity changes to a value of its type.
LEMMA UpdateTable ==
  ASSUME TableInv, NEW i \in Registered, NEW row \in Identity,
         row.status # "NONE", row.did \in Address,
         row.lastKnownController \in Address,
         identities' = [identities EXCEPT ![i] = row],
         UNCHANGED nextId
  PROVE  /\ identities' \in [AnyId -> Identity]
         /\ IssuedShape'
<1>1. i \in AnyId /\ i \in Id /\ i < nextId
  BY DEF TableInv, IssuedShape, Registered, NoIdentity, AnyId, Id
<1> QED BY <1>1 DEF TableInv, IssuedShape

LEMMA RegisteredShape ==
  ASSUME TableInv, NEW i \in Registered
  PROVE  /\ i \in Id /\ i \in AnyId /\ i < nextId
         /\ identities[i] \in Identity
         /\ identities[i].status # "NONE"
         /\ identities[i].did \in Address
         /\ identities[i].lastKnownController \in Address
  BY DEF TableInv, IssuedShape, Registered, NoIdentity, AnyId, Id

LEMMA SetStatusTable ==
  ASSUME TableInv, NEW i \in Id, NEW s \in Status, s # "NONE", SetStatus(i, s)
  PROVE  TableInv'
<1>1. i \in Registered
  BY DEF SetStatus
<1> DEFINE row == [identities[i] EXCEPT !.status = s]
<1>2. /\ row \in Identity /\ row.status # "NONE" /\ row.did \in Address
      /\ row.lastKnownController \in Address
  BY <1>1, RegisteredShape DEF Identity
<1>3. identities' = [identities EXCEPT ![i] = row]
  BY <1>1 DEF SetStatus
<1> HIDE DEF row
<1> QED BY <1>1, <1>2, <1>3, UpdateTable DEF SetStatus, TableInv

LEMMA SetClearanceTable ==
  ASSUME TableInv, NEW i \in Id, NEW tier \in Tier, SetClearance(i, tier)
  PROVE  TableInv'
<1>1. i \in Registered
  BY DEF SetClearance
<1> DEFINE row == [identities[i] EXCEPT !.clearance = tier]
<1>2. /\ row \in Identity /\ row.status # "NONE" /\ row.did \in Address
      /\ row.lastKnownController \in Address
  BY <1>1, RegisteredShape DEF Identity
<1>3. identities' = [identities EXCEPT ![i] = row]
  BY <1>1 DEF SetClearance
<1> HIDE DEF row
<1> QED BY <1>1, <1>2, <1>3, UpdateTable DEF SetClearance, TableInv

LEMMA SyncTable ==
  ASSUME TableInv, DidTypeOK, NEW i \in Id, SyncController(i)
  PROVE  TableInv'
<1>1. i \in Registered
  BY DEF SyncController
<1> DEFINE current == ControllerOf(i)
           row == [identities[i] EXCEPT !.lastKnownController = current]
<1>2. current \in Address
  BY <1>1, RegisteredShape, IdentityOwnerType DEF ControllerOf
<1>3. CASE current = identities[i].lastKnownController
  BY <1>3 DEF SyncController, TableInv, IssuedShape
<1>4. CASE current # identities[i].lastKnownController
  <2>1. /\ row \in Identity /\ row.status # "NONE" /\ row.did \in Address
        /\ row.lastKnownController \in Address
    BY <1>1, <1>2, RegisteredShape DEF Identity, AnyAddress
  <2>2. identities' = [identities EXCEPT ![i] = row] /\ UNCHANGED nextId
    BY <1>1, <1>4 DEF SyncController
  <2>3. byController' \in [Address -> AnyId]
    <3>1. 0 \in AnyId /\ i \in AnyId
      BY MaxIdAssumption DEF AnyId, Id
    <3>2. byController' = [byController EXCEPT
                             ![identities[i].lastKnownController] = 0,
                             ![current] = i]
      BY <1>4 DEF SyncController
    <3> HIDE DEF current
    <3> QED BY <3>1, <3>2 DEF TableInv
  <2> HIDE DEF row
  <2> QED BY <1>1, <2>1, <2>2, <2>3, UpdateTable DEF SyncController, TableInv
<1> QED BY <1>3, <1>4

-----------------------------------------------------------------------------
\* Every step of the layer preserves its typed shape.
LEMMA IdentityInvStep ==
  ASSUME IdentityInv, AnyIdentityStep \/ UNCHANGED identityVars
  PROVE  IdentityInv'
<1> USE DEF IdentityInv
<1>t. TableInv /\ DidTypeOK /\ RoleTypeOK
  BY DEF IdentityTypeOK, TableInv
<1>1. CASE TimeStep
  <2>1. now' \in 1 .. MaxTime
    BY <1>1, MaxTimeAssumption DEF TimeStep, Tick, IdentityTypeOK
  <2> QED BY <1>1, <2>1 DEF TimeStep, registryVars, roleVars, IdentityTypeOK,
             DidTypeOK, RoleTypeOK, IssuedShape
<1>2. CASE DidStep
  <2>1. PICK sender \in Address, c \in IdentityCalls.changeOwner :
          ChangeOwner(sender, c.did, c.newOwner)
    BY <1>2 DEF DidStep
  <2>2. DidTypeOK'
    BY <2>1, IdentityCallsAssumption DEF ChangeOwner, DidTypeOK, IdentityTypeOK
  <2> QED BY <1>2, <2>2 DEF DidStep, registryVars, roleVars, IdentityTypeOK,
             RoleTypeOK, IssuedShape
<1>3. CASE RoleStep
  BY <1>3, RoleStepType DEF RoleStep, registryVars, IdentityTypeOK, DidTypeOK, IssuedShape
<1>4. CASE RegistryStep
  <2>1. TableInv'
    <3>1. PICK sender \in Address :
            \/ \E c \in IdentityCalls.register : RegisterIdentity(sender, c)
            \/ \E i \in Id, s \in Status : s # "NONE" /\ SetStatus(i, s)
            \/ \E i \in Id, tier \in Tier : SetClearance(i, tier)
            \/ Pause(sender)
            \/ Unpause(sender)
            \/ RenounceIdentityAdmin(sender)
      BY <1>4, IdentityCallsAssumption
         DEF RegistryStep, Suspend, Revoke, Reinstate, BootstrapClearance, Status
    <3>2. CASE \E c \in IdentityCalls.register : RegisterIdentity(sender, c)
      BY <3>2, <1>t, RegisterTable
    <3>3. CASE \E i \in Id, s \in Status : s # "NONE" /\ SetStatus(i, s)
      BY <3>3, <1>t, SetStatusTable
    <3>4. CASE \E i \in Id, tier \in Tier : SetClearance(i, tier)
      BY <3>4, <1>t, SetClearanceTable
    <3>5. CASE Pause(sender) \/ Unpause(sender) \/ RenounceIdentityAdmin(sender)
      BY <3>5, <1>t DEF Pause, Unpause, RenounceIdentityAdmin, TableInv, IssuedShape
    <3> QED BY <3>1, <3>2, <3>3, <3>4, <3>5
  <2> QED BY <1>4, <2>1 DEF RegistryStep, roleVars, TableInv, IdentityTypeOK,
             DidTypeOK, RoleTypeOK
<1>5. CASE SyncStep
  <2>1. TableInv'
    BY <1>5, <1>t, SyncTable DEF SyncStep
  <2> QED BY <1>5, <2>1 DEF SyncStep, roleVars, TableInv, IdentityTypeOK,
             DidTypeOK, RoleTypeOK
<1>6. CASE \E i \in Id, tier \in Tier :
             SetClearance(i, tier) /\ UNCHANGED <<now, owners, roleVars>>
  <2>1. TableInv'
    BY <1>6, <1>t, SetClearanceTable
  <2> QED BY <1>6, <2>1 DEF roleVars, TableInv, IdentityTypeOK, DidTypeOK, RoleTypeOK
<1>7. CASE \E to \in AnyAddress :
             ExecuteAdminGrant(to) /\ UNCHANGED <<now, owners, registryVars>>
  <2>1. RoleTypeOK'
    <3>1. ADMIN \in Role
      BY DEF ADMIN, Role, SECURITY_OFFICER
    <3> QED BY <1>7, <1>t, <3>1, MintOnceType DEF ExecuteAdminGrant, RoleTypeOK
  <2> QED BY <1>7, <2>1 DEF registryVars, IdentityTypeOK, DidTypeOK, IssuedShape
<1>8. CASE UNCHANGED identityVars
  BY <1>8 DEF identityVars, registryVars, roleVars, IdentityTypeOK, DidTypeOK,
     RoleTypeOK, IssuedShape
<1> QED
  BY <1>1, <1>2, <1>3, <1>4, <1>5, <1>6, <1>7, <1>8
     DEF AnyIdentityStep, IdentityDirect, AnyExecutorStep

\* The state of the identity layer is always well typed: no sequence of calls
\* indexes an unissued identity, names address(0) as a controller or issues an
\* id twice.
THEOREM IdentityTypeCorrect == IdentitySpec => []IdentityTypeOK
<1>1. IdentityInit => IdentityInv
  BY TypeInit
<1>2. IdentityInv /\ [IdentityNext]_identityVars => IdentityInv'
  BY IdentityInvStep, IdentityNextIsAnyStep
<1>3. IdentityInv => IdentityTypeOK
  BY DEF IdentityInv
<1> QED BY <1>1, <1>2, <1>3, PTL DEF IdentitySpec

-----------------------------------------------------------------------------
(***************************************************************************)
(* At most one key per identity.  Two entries of byController for the same *)
(* identity would both be the key it remembers, so what must be shown is   *)
(* that syncController deletes exactly the remembered key, and that        *)
(* registration uses an id no entry points to.                             *)
(***************************************************************************)
LEMMA PointsBackImpliesOneKey == IndexPointsBack => OneKeyPerIdentity
  BY DEF IndexPointsBack, OneKeyPerIdentity

LEMMA PointsBackInit == IdentityInit => IndexPointsBack
<1> SUFFICES ASSUME IdentityInit, NEW a \in Address, byController[a] # 0
             PROVE  /\ byController[a] < nextId
                    /\ identities[byController[a]].lastKnownController = a
  BY DEF IndexPointsBack
<1>1. /\ Len(Founding) \in Nat /\ Len(Founding) <= MaxId
  BY FoundingAssumption
<1>2. FounderOf(a) # {} /\ byController[a] = CHOOSE k \in FounderOf(a) : TRUE
  BY DEF IdentityInit
<1>3. byController[a] \in FounderOf(a)
  BY <1>2
<1>4. byController[a] \in 1 .. Len(Founding) /\ Founding[byController[a]].did = a
  BY <1>3 DEF FounderOf
<1> QED BY <1>1, <1>4, MaxIdAssumption DEF IdentityInit, AnyId

LEMMA RegisterPointsBack ==
  ASSUME TableInv, IndexPointsBack, NEW sender \in Address,
         NEW c \in IdentityCalls.register, RegisterIdentity(sender, c)
  PROVE  IndexPointsBack'
<1>1. c.did \in Address /\ nextId \in AnyId
  BY IdentityCallsAssumption DEF RegisterIdentity, AnyId, Id
<1> SUFFICES ASSUME NEW a \in Address, byController'[a] # 0
             PROVE  /\ byController'[a] < nextId'
                    /\ identities'[byController'[a]].lastKnownController = a
  BY DEF IndexPointsBack
<1>2. CASE a = c.did
  BY <1>1, <1>2 DEF RegisterIdentity, TableInv
<1>3. CASE a # c.did
  <2>1. byController'[a] = byController[a]
    BY <1>1, <1>3 DEF RegisterIdentity, TableInv
  <2>2. /\ byController[a] < nextId
        /\ identities[byController[a]].lastKnownController = a
    BY <2>1 DEF IndexPointsBack
  <2>3. byController[a] \in AnyId
    BY DEF TableInv
  <2>4. /\ byController[a] \in Nat /\ nextId \in Nat
    BY <2>3, MaxIdAssumption DEF TableInv, AnyId
  <2>5. identities'[byController[a]] = identities[byController[a]]
    BY <2>2, <2>3, <2>4, <1>1 DEF RegisterIdentity, TableInv
  <2> QED BY <2>1, <2>2, <2>4, <2>5 DEF RegisterIdentity
<1> QED BY <1>2, <1>3

\* Changing another field of an identity leaves the index pointing back.
LEMMA UpdatePointsBack ==
  ASSUME TableInv, IndexPointsBack, NEW i \in Id,
         \/ \E s \in Status : SetStatus(i, s)
         \/ \E tier \in Tier : SetClearance(i, tier)
  PROVE  IndexPointsBack'
<1>1. /\ \A j \in AnyId : identities'[j].lastKnownController = identities[j].lastKnownController
      /\ UNCHANGED <<nextId, byController>>
  BY DEF SetStatus, SetClearance, TableInv, Identity
<1> QED BY <1>1 DEF IndexPointsBack, TableInv

LEMMA SyncPointsBack ==
  ASSUME TableInv, DidTypeOK, IndexPointsBack, NEW i \in Id, SyncController(i)
  PROVE  IndexPointsBack'
<1>1. i \in Registered
  BY DEF SyncController
<1> DEFINE current == ControllerOf(i)
           cached  == identities[i].lastKnownController
<1>2. CASE current = cached
  BY <1>2 DEF SyncController, IndexPointsBack
<1>3. CASE current # cached
  <2>1. /\ i \in AnyId /\ i < nextId /\ current \in Address /\ cached \in Address
    BY <1>1, RegisteredShape, IdentityOwnerType DEF ControllerOf
  <2>2. /\ byController' = [byController EXCEPT ![cached] = 0, ![current] = i]
        /\ identities' = [identities EXCEPT ![i].lastKnownController = current]
        /\ nextId' = nextId
    BY <1>3 DEF SyncController
  <2> HIDE DEF current
  <2> SUFFICES ASSUME NEW a \in Address, byController'[a] # 0
               PROVE  /\ byController'[a] < nextId'
                      /\ identities'[byController'[a]].lastKnownController = a
    BY DEF IndexPointsBack
  <2>3. CASE a = current
    BY <2>1, <2>2, <2>3, <1>1, RegisteredShape DEF TableInv, Identity
  <2>4. CASE a # current
    <3>1. a # cached /\ byController'[a] = byController[a]
      BY <2>1, <2>2, <2>4 DEF TableInv
    <3>2. /\ byController[a] < nextId
          /\ identities[byController[a]].lastKnownController = a
      BY <3>1 DEF IndexPointsBack
    <3>3. byController[a] # i /\ byController[a] \in AnyId
      BY <3>1, <3>2 DEF TableInv
    <3>4. identities'[byController[a]] = identities[byController[a]]
      BY <3>3, <2>2 DEF TableInv
    <3> QED BY <3>1, <3>2, <3>4, <2>2
  <2> QED BY <2>3, <2>4
<1> QED BY <1>2, <1>3

LEMMA PointsBackStep ==
  ASSUME IdentityInv, IndexPointsBack, AnyIdentityStep \/ UNCHANGED identityVars
  PROVE  IndexPointsBack'
<1>t. TableInv /\ DidTypeOK
  BY DEF IdentityInv, IdentityTypeOK, TableInv
<1>1. CASE UNCHANGED <<identities, nextId, byController>>
  BY <1>1 DEF IndexPointsBack
<1>2. CASE RegistryStep
  <2>1. PICK sender \in Address :
          \/ \E c \in IdentityCalls.register : RegisterIdentity(sender, c)
          \/ \E i \in Id, s \in Status : SetStatus(i, s)
          \/ \E i \in Id, tier \in Tier : SetClearance(i, tier)
          \/ UNCHANGED <<identities, nextId, byController>>
    BY <1>2, IdentityCallsAssumption
       DEF RegistryStep, Suspend, Revoke, Reinstate, BootstrapClearance, Status,
           Pause, Unpause, RenounceIdentityAdmin
  <2>2. CASE \E c \in IdentityCalls.register : RegisterIdentity(sender, c)
    BY <2>2, <1>t, RegisterPointsBack
  <2> QED BY <2>1, <2>2, <1>1, <1>t, UpdatePointsBack
<1>3. CASE SyncStep
  BY <1>3, <1>t, SyncPointsBack DEF SyncStep
<1>4. CASE \E i \in Id, tier \in Tier : SetClearance(i, tier)
  BY <1>4, <1>t, UpdatePointsBack
<1> QED
  BY <1>1, <1>2, <1>3, <1>4
     DEF AnyIdentityStep, IdentityDirect, AnyExecutorStep, TimeStep, DidStep, RoleStep,
         registryVars, identityVars

\* Once synced, a rotated identity answers to its new key alone: no two keys
\* ever act for one identity, whatever is rotated, shared or registered when.
THEOREM OneKeyPerIdentityHolds == IdentitySpec => []OneKeyPerIdentity
<1> DEFINE Inv == IdentityInv /\ IndexPointsBack
<1>1. IdentityInit => Inv
  BY TypeInit, PointsBackInit
<1>2. Inv /\ [IdentityNext]_identityVars => Inv'
  BY IdentityInvStep, PointsBackStep, IdentityNextIsAnyStep
<1>3. Inv => OneKeyPerIdentity
  BY PointsBackImpliesOneKey
<1> QED BY <1>1, <1>2, <1>3, PTL DEF IdentitySpec
-----------------------------------------------------------------------------
(***************************************************************************)
(* Without an Admin nobody comes back.  Registering and reinstating ask    *)
(* for one; every other step leaves a status and a tenure as they are or   *)
(* ends them, and time only ends tenures.                                  *)
(***************************************************************************)

\* A record that keeps its status and its tenure is not revived by a later clock.
LEMMA SameTenure ==
  ASSUME IdentityInv, now' >= now, now' \in Nat,
         \A i \in Id : /\ identities'[i].status = identities[i].status
                      /\ identities'[i].validUntil = identities[i].validUntil
  PROVE  \A i \in Id : ~IsActive(i) => ~IsActive(i)'
<1> SUFFICES ASSUME NEW i \in Id, ~IsActive(i), IsActive(i)' PROVE FALSE
  OBVIOUS
<1>1. identities[i].validUntil \in Nat /\ now \in Nat
  BY MaxTimeAssumption, MaxIdAssumption
     DEF IdentityInv, IdentityTypeOK, Identity, Id, AnyId
<1> QED BY <1>1 DEF IsActive

LEMMA NoRevivalStep ==
  ASSUME IdentityInv, AnyIdentityStep \/ UNCHANGED identityVars,
         \A a \in Address : ~HasRoleToken(a, ADMIN)
  PROVE  \A i \in Id : ~IsActive(i) => ~IsActive(i)'
<1>t. /\ identities \in [AnyId -> Identity] /\ Id \subseteq AnyId
      /\ now \in Nat
  BY MaxTimeAssumption, MaxIdAssumption DEF IdentityInv, IdentityTypeOK, Id, AnyId
<1>1. CASE UNCHANGED <<identities, now>>
  BY <1>1, <1>t, SameTenure
<1>2. CASE TimeStep
  BY <1>2, <1>t, SameTenure DEF TimeStep, Tick, registryVars
<1>3. CASE RegistryStep
  <2>1. PICK sender \in Address :
          \/ \E c \in IdentityCalls.register : RegisterIdentity(sender, c)
          \/ \E i \in Id : Suspend(sender, i) \/ Revoke(sender, i) \/ Reinstate(sender, i)
          \/ \E i \in Id, tier \in Tier : SetClearance(i, tier)
          \/ UNCHANGED identities
    BY <1>3, IdentityCallsAssumption
       DEF RegistryStep, BootstrapClearance, Pause, Unpause, RenounceIdentityAdmin
  <2>2. UNCHANGED now
    BY <1>3 DEF RegistryStep
  <2>3. CASE \E c \in IdentityCalls.register : RegisterIdentity(sender, c)
    BY <2>3 DEF RegisterIdentity
  <2>4. CASE \E i \in Id : Suspend(sender, i) \/ Revoke(sender, i) \/ Reinstate(sender, i)
    <3>1. PICK k \in Id, s \in {"SUSPENDED", "REVOKED"} : SetStatus(k, s)
      BY <2>4 DEF Suspend, Revoke, Reinstate
    <3>2. identities' = [identities EXCEPT ![k].status = s] /\ s # "ACTIVE"
      BY <3>1 DEF SetStatus
    <3>3. \A i \in Id : IF i = k THEN identities'[i].status # "ACTIVE"
                       ELSE identities'[i] = identities[i]
      BY <1>t, <3>2 DEF Identity
    <3> QED BY <2>2, <3>3 DEF IsActive
  <2>5. CASE \E i \in Id, tier \in Tier : SetClearance(i, tier)
    BY <1>t, <2>2, <2>5, SameTenure DEF SetClearance, Identity
  <2> QED BY <1>1, <2>1, <2>2, <2>3, <2>4, <2>5
<1>4. CASE SyncStep
  <2>1. PICK k \in Id : SyncController(k)
    BY <1>4 DEF SyncStep
  <2>2. \A i \in Id : /\ identities'[i].status = identities[i].status
                     /\ identities'[i].validUntil = identities[i].validUntil
    BY <1>t, <2>1 DEF SyncController, Identity
  <2> QED BY <1>4, <1>t, <2>2, SameTenure DEF SyncStep
<1>5. CASE \E i \in Id, tier \in Tier : SetClearance(i, tier) /\ UNCHANGED now
  BY <1>5, <1>t, SameTenure DEF SetClearance, Identity
<1> QED
  BY <1>1, <1>2, <1>3, <1>4, <1>5
     DEF AnyIdentityStep, IdentityDirect, AnyExecutorStep, DidStep, RoleStep,
         registryVars, identityVars

\* While nobody is Admin, no sequence of calls and no passing of time brings an
\* identity into office.
THEOREM NoAdminNoRevivalHolds == IdentitySpec => NoAdminNoRevival
<1>1. IdentityInit => IdentityInv
  BY TypeInit
<1>2. IdentityInv /\ [IdentityNext]_identityVars => IdentityInv'
  BY IdentityInvStep, IdentityNextIsAnyStep
<1>3. IdentityInv /\ [IdentityNext]_identityVars =>
        [(\A a \in Address : ~HasRoleToken(a, ADMIN)) =>
           \A i \in Id : ~IsActive(i) => ~IsActive(i)']_identityVars
  BY NoRevivalStep, IdentityNextIsAnyStep
<1> QED BY <1>1, <1>2, <1>3, PTL DEF IdentitySpec, NoAdminNoRevival
-----------------------------------------------------------------------------
(***************************************************************************)
(* The index is exact where identities do not share keys.  Registration    *)
(* and syncController overwrite and delete entries without asking whose    *)
(* they are: what saves the others' entries is that the key entered and    *)
(* the key deleted are keys of the identity's own DID.                     *)
(***************************************************************************)
IndexInv ==
  /\ \A d \in BoundDid : IdentityOwner(d) \in KeysOf(d)
  /\ \A i \in Registered :
       /\ identities[i].did \in BoundDid
       /\ identities[i].lastKnownController \in KeysOf(identities[i].did)
       /\ byController[identities[i].lastKnownController] = i
       /\ \A j \in Registered : identities[i].did = identities[j].did => i = j

LEMMA BoundDidType == BoundDid \subseteq Address
<1>1. \A k \in 1 .. Len(Founding) : Founding[k] \in Founder
  BY FoundingAssumption
<1>2. \A k \in 1 .. Len(Founding) : Founding[k].did \in Address
  BY <1>1 DEF Founder
<1> QED BY <1>2, IdentityCallsAssumption DEF BoundDid

LEMMA IndexInit ==
  ASSUME IdentityInit
  PROVE  IndexInv
<1>1. /\ Len(Founding) \in Nat /\ Len(Founding) <= MaxId
      /\ \A k, m \in 1 .. Len(Founding) : Founding[k].did = Founding[m].did => k = m
  BY FoundingAssumption
<1>2. ASSUME NEW d \in BoundDid PROVE IdentityOwner(d) \in KeysOf(d)
  BY <1>2, BoundDidType DEF IdentityInit, DidInit, IdentityOwner, KeysOf, AnyAddress
<1>3. ASSUME NEW i \in Registered
      PROVE  /\ i \in 1 .. Len(Founding)
             /\ identities[i].did = Founding[i].did
             /\ identities[i].lastKnownController = Founding[i].did
  BY <1>1, <1>3, MaxIdAssumption DEF IdentityInit, Registered, Id, AnyId, NoIdentity
<1>4. ASSUME NEW k \in 1 .. Len(Founding) PROVE byController[Founding[k].did] = k
  <2>1. FounderOf(Founding[k].did) = {k}
    BY <1>1 DEF FounderOf
  <2>2. Founding[k].did \in Address
    BY BoundDidType DEF BoundDid
  <2>3. (CHOOSE m \in {k} : TRUE) = k
    OBVIOUS
  <2> QED BY <2>1, <2>2, <2>3 DEF IdentityInit
<1>5. \A k \in 1 .. Len(Founding) : Founding[k].did \in BoundDid
  BY DEF BoundDid
<1> QED BY <1>1, <1>2, <1>3, <1>4, <1>5 DEF IndexInv, KeysOf

\* Other steps leave what the index is about as it is.
LEMMA IndexUnchanged ==
  ASSUME TableInv, IndexInv, UNCHANGED <<owners, byController, nextId>>,
         \A i \in Id : /\ identities'[i].status # "NONE" <=> identities[i].status # "NONE"
                       /\ identities'[i].did = identities[i].did
                       /\ identities'[i].lastKnownController = identities[i].lastKnownController
  PROVE  IndexInv'
<1>1. Registered' = Registered /\ Registered \subseteq Id
  BY DEF Registered
<1>2. \A d : IdentityOwner(d)' = IdentityOwner(d)
  BY DEF IdentityOwner
<1>3. \A d \in BoundDid : IdentityOwner(d)' \in KeysOf(d)
  BY <1>2 DEF IndexInv
<1> QED BY <1>1, <1>3 DEF IndexInv

LEMMA HandoverKeepsIndex ==
  ASSUME IdentityInv, IndexInv, DidStep
  PROVE  IndexInv'
<1>1. PICK c \in IdentityCalls.changeOwner : owners' = [owners EXCEPT ![c.did] = c.newOwner]
  BY DEF DidStep, ChangeOwner
<1>2. ASSUME NEW d \in BoundDid PROVE IdentityOwner(d)' \in KeysOf(d)
  <2>1. d \in AnyAddress /\ owners \in [AnyAddress -> AnyAddress]
    BY BoundDidType DEF AnyAddress, IdentityInv, IdentityTypeOK, DidTypeOK
  <2>2. CASE d = c.did /\ c.newOwner # NoAddress
    BY <1>1, <2>1, <2>2 DEF IdentityOwner, KeysOf, Handovers
  <2>3. CASE d = c.did /\ c.newOwner = NoAddress
    BY <1>1, <2>1, <2>3 DEF IdentityOwner, KeysOf
  <2>4. CASE d # c.did
    BY <1>1, <2>1, <2>4 DEF IdentityOwner, IndexInv
  <2> QED BY <2>2, <2>3, <2>4
<1>3. UNCHANGED <<identities, byController, nextId>>
  BY DEF DidStep, registryVars
<1>4. Registered' = Registered
  BY <1>3 DEF Registered
<1> QED BY <1>2, <1>3, <1>4 DEF IndexInv

LEMMA RegisterKeepsIndex ==
  ASSUME KeysAreOwn, TableInv, IndexInv, UNCHANGED owners,
         NEW sender \in Address, NEW c \in IdentityCalls.register, RegisterIdentity(sender, c)
  PROVE  IndexInv'
<1>1. c.did \in Address /\ c.did \in BoundDid /\ c.did \in KeysOf(c.did)
  BY IdentityCallsAssumption DEF BoundDid, KeysOf
<1>2. nextId \in Id /\ nextId \in AnyId /\ nextId \notin Registered
  <2>1. nextId \in Id /\ nextId \in AnyId
    BY DEF RegisterIdentity, Id, AnyId
  <2>2. ~(nextId < nextId)
    BY <2>1, MaxIdAssumption DEF Id
  <2> QED BY <2>1, <2>2 DEF TableInv, IssuedShape, Registered, NoIdentity
<1>3. /\ identities'[nextId].status = "ACTIVE" /\ identities'[nextId].did = c.did
      /\ identities'[nextId].lastKnownController = c.did
      /\ \A i \in AnyId \ {nextId} : identities'[i] = identities[i]
      /\ byController'[c.did] = nextId
      /\ \A a \in Address \ {c.did} : byController'[a] = byController[a]
  BY <1>1, <1>2 DEF RegisterIdentity, TableInv
<1>4. Registered' = Registered \cup {nextId}
  BY <1>2, <1>3 DEF Registered, Id, AnyId
<1>5. ASSUME NEW i \in Registered
      PROVE  /\ identities[i].did # c.did
             /\ identities[i].lastKnownController \in Address \ {c.did}
             /\ i \in AnyId \ {nextId}
  <2>1. identities[i].did # c.did
    BY DEF RegisterIdentity
  <2>2. identities[i].lastKnownController # c.did
    BY <1>1, <2>1 DEF IndexInv, KeysAreOwn
  <2> QED BY <1>2, <2>1, <2>2, RegisteredShape
<1>6. \A d \in BoundDid : IdentityOwner(d)' \in KeysOf(d)
  BY DEF IndexInv, IdentityOwner
<1> QED BY <1>1, <1>3, <1>4, <1>5, <1>6 DEF IndexInv

LEMMA SyncKeepsIndex ==
  ASSUME KeysAreOwn, TableInv, DidTypeOK, IndexInv, UNCHANGED owners,
         NEW k \in Id, SyncController(k)
  PROVE  IndexInv'
<1> DEFINE current == ControllerOf(k)
           cached  == identities[k].lastKnownController
           own     == KeysOf(identities[k].did)
<1>1. k \in Registered
  BY DEF SyncController
<1>2. current \in Address /\ cached \in Address /\ k \in AnyId
  BY <1>1, RegisteredShape, IdentityOwnerType DEF ControllerOf
<1>3. current \in own /\ cached \in own
  BY <1>1 DEF IndexInv, ControllerOf
<1>4. CASE current = cached
  BY <1>4, IndexUnchanged DEF SyncController
<1>5. CASE current # cached
  <2>1. /\ byController' = [byController EXCEPT ![cached] = 0, ![current] = k]
        /\ identities' = [identities EXCEPT ![k].lastKnownController = current]
    BY <1>5 DEF SyncController
  <2>2. /\ \A i \in AnyId : /\ identities'[i].did = identities[i].did
                            /\ identities'[i].status = identities[i].status
        /\ identities'[k].lastKnownController = current
        /\ \A i \in AnyId \ {k} : identities'[i].lastKnownController = identities[i].lastKnownController
    <3> HIDE DEF current
    <3> QED BY <1>2, <2>1 DEF TableInv, Identity
  <2>3. /\ byController'[current] = k
        /\ \A a \in Address \ {cached, current} : byController'[a] = byController[a]
    <3> HIDE DEF current, cached
    <3> QED BY <1>2, <2>1 DEF TableInv
  <2>4. Registered' = Registered /\ Registered \subseteq AnyId
    BY <2>2 DEF Registered, Id, AnyId
  <2>5. ASSUME NEW i \in Registered, i # k
        PROVE  identities[i].lastKnownController \in Address \ {cached, current}
    <3>1. identities[i].did # identities[k].did
      BY <1>1, <2>5 DEF IndexInv
    <3>2. KeysOf(identities[i].did) \cap own = {}
      BY <1>1, <3>1 DEF IndexInv, KeysAreOwn
    <3> HIDE DEF current, cached, own
    <3> QED BY <1>3, <3>2, RegisteredShape DEF IndexInv
  <2>6. \A d \in BoundDid : IdentityOwner(d)' \in KeysOf(d)
    BY DEF IndexInv, IdentityOwner
  <2>7. ASSUME NEW i \in Registered
        PROVE  /\ identities'[i].did = identities[i].did
               /\ identities'[i].lastKnownController \in KeysOf(identities[i].did)
               /\ byController'[identities'[i].lastKnownController] = i
    <3>1. CASE i = k
      <4> HIDE DEF current
      <4> QED BY <1>2, <1>3, <2>2, <2>3, <3>1
    <3>2. CASE i # k
      BY <2>2, <2>3, <2>4, <2>5, <3>2 DEF IndexInv
    <3> QED BY <3>1, <3>2
  <2> QED BY <2>4, <2>6, <2>7 DEF IndexInv
<1> QED BY <1>4, <1>5

LEMMA IndexStep ==
  ASSUME KeysAreOwn, IdentityInv, IndexInv, AnyIdentityStep \/ UNCHANGED identityVars
  PROVE  IndexInv'
<1>1. TableInv /\ DidTypeOK
  BY DEF IdentityInv, IdentityTypeOK, TableInv
<1>2. CASE UNCHANGED <<owners, identities, nextId, byController>>
  BY <1>1, <1>2, IndexUnchanged
<1>3. CASE RegistryStep
  <2>1. PICK sender \in Address :
          \/ \E c \in IdentityCalls.register : RegisterIdentity(sender, c)
          \/ \E i \in Id, s \in Status : s # "NONE" /\ SetStatus(i, s)
          \/ \E i \in Id, tier \in Tier : SetClearance(i, tier)
          \/ UNCHANGED <<identities, nextId, byController>>
    BY <1>3, IdentityCallsAssumption
       DEF RegistryStep, Suspend, Revoke, Reinstate, BootstrapClearance, Status,
           Pause, Unpause, RenounceIdentityAdmin
  <2>2. UNCHANGED owners
    BY <1>3 DEF RegistryStep
  <2>3. CASE \E c \in IdentityCalls.register : RegisterIdentity(sender, c)
    BY <1>1, <2>2, <2>3, RegisterKeepsIndex
  <2>4. CASE \E i \in Id, s \in Status : s # "NONE" /\ SetStatus(i, s)
    <3>1. PICK k \in Registered, s \in Status :
            /\ s # "NONE" /\ identities' = [identities EXCEPT ![k].status = s]
            /\ UNCHANGED <<nextId, byController>>
      BY <2>4 DEF SetStatus
    <3>2. \A i \in Id : /\ identities'[i].status # "NONE" <=> identities[i].status # "NONE"
                        /\ identities'[i].did = identities[i].did
                        /\ identities'[i].lastKnownController = identities[i].lastKnownController
      BY <1>1, <3>1 DEF TableInv, Identity, Registered, Id, AnyId
    <3> QED BY <1>1, <2>2, <3>1, <3>2, IndexUnchanged
  <2>5. CASE \E i \in Id, tier \in Tier : SetClearance(i, tier)
    <3>1. /\ \A i \in Id : /\ identities'[i].status = identities[i].status
                           /\ identities'[i].did = identities[i].did
                           /\ identities'[i].lastKnownController = identities[i].lastKnownController
          /\ UNCHANGED <<nextId, byController>>
      BY <1>1, <2>5 DEF SetClearance, TableInv, Identity, Id, AnyId
    <3> QED BY <1>1, <2>2, <3>1, IndexUnchanged
  <2> QED BY <1>2, <2>1, <2>2, <2>3, <2>4, <2>5
<1>4. CASE SyncStep
  BY <1>1, <1>4, SyncKeepsIndex DEF SyncStep
<1>5. CASE \E i \in Id, tier \in Tier : SetClearance(i, tier) /\ UNCHANGED owners
  <2>1. /\ \A i \in Id : /\ identities'[i].status = identities[i].status
                         /\ identities'[i].did = identities[i].did
                         /\ identities'[i].lastKnownController = identities[i].lastKnownController
        /\ UNCHANGED <<nextId, byController, owners>>
    BY <1>1, <1>5 DEF SetClearance, TableInv, Identity, Id, AnyId
  <2> QED BY <1>1, <2>1, IndexUnchanged
<1>6. CASE DidStep
  BY <1>6, HandoverKeepsIndex
<1> QED
  BY <1>2, <1>3, <1>4, <1>5, <1>6
     DEF AnyIdentityStep, IdentityDirect, AnyExecutorStep, TimeStep, RoleStep,
         registryVars, identityVars

\* Where no two identities share a key, an identity whose cached controller is its
\* real one is found under that key, whoever is registered, rotated and synced in
\* whatever order: no sync and no registration disturbs another's entry.
THEOREM SettledIndexIsExactHolds ==
  ASSUME KeysAreOwn
  PROVE  IdentitySpec => []SettledIndexIsExact
<1> DEFINE Inv == IdentityInv /\ IndexInv
<1>1. IdentityInit => Inv
  BY TypeInit, IndexInit
<1>2. Inv /\ [IdentityNext]_identityVars => Inv'
  BY KeysAreOwn, IdentityInvStep, IndexStep, IdentityNextIsAnyStep
<1>3. Inv => SettledIndexIsExact
  BY DEF IndexInv, SettledIndexIsExact
<1> QED BY <1>1, <1>2, <1>3, PTL DEF IdentitySpec
=============================================================================
