------------------------ MODULE PolicyRegistryProofs ------------------------
(***************************************************************************)
(* TLAPS proofs about PolicyRegistry, for every set of accounts, counter   *)
(* width and limit on children.                                            *)
(***************************************************************************)
EXTENDS PolicyRegistry, TLAPS

(* A policy without an admin has no nominee: what RenouncedIsFrozen needs  *)
(* beyond the properties the runs check.                                   *)
NoHeirToRenounced == \A id \in Renounced : pendingAdmins[id] = ZeroAddress

(* Only composites have children: what the refinement needs to know of the *)
(* policies that Sealed asks about.                                        *)
SimplesHaveNoChildren ==
  \A id \in Created : ~IsComposite(id) => children[id] = <<>>

IInv ==
  /\ TypeOK
  /\ RecordsBelongToCreated
  /\ ChildrenAreCreatedSimple
  /\ NoHeirToRenounced
  /\ SimplesHaveNoChildren

-----------------------------------------------------------------------------
(* Lemmas on ids and inputs.                                               *)

(* The built-ins are well-formed simple ids, and two different ones. *)
LEMMA BuiltinFacts ==
  /\ ALWAYS_ALLOW_ID \in PolicyId /\ ALWAYS_BLOCK_ID \in PolicyId
  /\ IsWellFormed(ALWAYS_ALLOW_ID) /\ IsWellFormed(ALWAYS_BLOCK_ID)
  /\ ~IsComposite(ALWAYS_ALLOW_ID) /\ ~IsComposite(ALWAYS_BLOCK_ID)
  /\ ALWAYS_ALLOW_ID.counter = 0 /\ ALWAYS_BLOCK_ID.counter = 1
  BY ConstantsAssumption
  DEF PolicyId, ALWAYS_ALLOW_ID, ALWAYS_BLOCK_ID, MakeId, IsWellFormed, IsComposite,
      PolicyTypes, SimpleTypes, CompositeTypes, BUILTIN_POLICY_COUNT

(* Stripping the invert flag gives an id, a well-formed one its own. *)
LEMMA BaseFacts ==
  ASSUME NEW id \in PolicyId
  PROVE  /\ BasePolicyId(id) \in PolicyId
         /\ BasePolicyId(id).type = id.type
  BY DEF PolicyId, BasePolicyId

(* The id a creation gives out is well formed, custom and was never used.  *)
LEMMA NewIdIsFresh ==
  ASSUME TypeOK, RecordsBelongToCreated, NewCounter < MaxCounter,
         NEW type \in PolicyTypes
  PROVE  /\ NewId(type) \in PolicyId /\ IsWellFormed(NewId(type))
         /\ NewId(type).type = type /\ NewId(type).counter = NewCounter
         /\ ~policies[NewId(type)].exists
         /\ ~IsBuiltin(NewId(type))
         /\ NewCounter \in Nat /\ NewCounter >= 2 /\ NewCounter >= nextCounter
  <1>1. /\ NewCounter \in Nat /\ NewCounter >= 2 /\ NewCounter >= nextCounter
        /\ NewCounter <= MaxCounter
    BY ConstantsAssumption DEF TypeOK, NewCounter, FirstUse, BUILTIN_POLICY_COUNT
  <1>2. /\ NewId(type) \in PolicyId /\ IsWellFormed(NewId(type))
        /\ NewId(type).type = type /\ NewId(type).counter = NewCounter
    BY <1>1, ConstantsAssumption
    DEF NewId, MakeId, PolicyId, IsWellFormed, PolicyTypes
  <1>3. ~IsBuiltin(NewId(type))
    BY <1>1, <1>2
    DEF IsBuiltin, ALWAYS_ALLOW_ID, ALWAYS_BLOCK_ID, MakeId
  <1>4. ~policies[NewId(type)].exists
    <2> SUFFICES ASSUME policies[NewId(type)].exists PROVE FALSE
      OBVIOUS
    <2>1. NewId(type) \in Created
      BY <1>2 DEF Created
    <2>2. NewCounter < nextCounter
      BY <1>2, <2>1 DEF RecordsBelongToCreated
    <2> QED
      BY <1>1, <2>2, ConstantsAssumption DEF TypeOK, BUILTIN_POLICY_COUNT
  <1> QED
    BY <1>1, <1>2, <1>3, <1>4

-----------------------------------------------------------------------------
(* Initialization and the steps of the inductive invariant.                *)

(* The invariant holds in the empty storage. *)
LEMMA InitIInv == Init => IInv
  <1> SUFFICES ASSUME Init PROVE IInv
    OBVIOUS
  <1>1. TypeOK
    BY DEF Init, TypeOK, Word, EmptyWord, Admins
  <1>2. Created = {}
    BY DEF Init, Created, EmptyWord
  <1>3. QED
    BY <1>1, <1>2
    DEF IInv, Init, RecordsBelongToCreated, ChildrenAreCreatedSimple,
        NoHeirToRenounced, Renounced, SimplesHaveNoChildren

(* What a creation writes, and that nothing was created before the first.  *)
LEMMA CreateEffect ==
  ASSUME IInv,
         NEW admin \in Admins, NEW type \in PolicyTypes,
         NEW accounts \in SUBSET Accounts, NEW childIds \in Seq(PolicyId),
         Create(admin, type, accounts, childIds)
  PROVE  LET new == NewId(type)
         IN  /\ new \in PolicyId /\ IsWellFormed(new) /\ new.type = type
             /\ new.counter = NewCounter /\ new \notin Created /\ ~IsBuiltin(new)
             /\ NewCounter \in Nat /\ NewCounter >= 2 /\ NewCounter >= nextCounter
             /\ NewCounter < MaxCounter /\ nextCounter' = NewCounter + 1
             /\ admin # ZeroAddress
             /\ policies'[new] = Encode(admin)
             /\ members'[new] = members[new] \union accounts
             /\ children'[new] = IF type \in CompositeTypes THEN childIds
                                 ELSE children[new]
             /\ pendingAdmins' = pendingAdmins
             /\ \A id \in PolicyId \ {new} :
                  /\ policies'[id] = IF FirstUse /\ IsBuiltin(id) THEN Encode(ZeroAddress)
                                     ELSE policies[id]
                  /\ members'[id] = members[id] /\ children'[id] = children[id]
             /\ Created' = Created \union {new}
                            \union (IF FirstUse THEN {ALWAYS_ALLOW_ID, ALWAYS_BLOCK_ID}
                                    ELSE {})
             /\ FirstUse => Created = {}
  <1> DEFINE new == NewId(type)
  <1>1. /\ new \in PolicyId /\ IsWellFormed(new) /\ new.type = type
        /\ new.counter = NewCounter /\ new \notin Created /\ ~IsBuiltin(new)
        /\ NewCounter \in Nat /\ NewCounter >= 2 /\ NewCounter >= nextCounter
    BY NewIdIsFresh DEF IInv, Create, Created
  <1>2. /\ NewCounter < MaxCounter /\ nextCounter' = NewCounter + 1
        /\ admin # ZeroAddress
    BY DEF Create
  <1>3. /\ policies'[new] = Encode(admin)
        /\ members'[new] = members[new] \union accounts
        /\ children'[new] = IF type \in CompositeTypes THEN childIds ELSE children[new]
        /\ pendingAdmins' = pendingAdmins
    BY <1>1 DEF Create, IInv, TypeOK
  <1>4. \A id \in PolicyId \ {new} :
          /\ policies'[id] = IF FirstUse /\ IsBuiltin(id) THEN Encode(ZeroAddress)
                             ELSE policies[id]
          /\ members'[id] = members[id] /\ children'[id] = children[id]
    BY <1>1 DEF Create, IInv, TypeOK
  <1>5. Created' = Created \union {new}
                    \union (IF FirstUse THEN {ALWAYS_ALLOW_ID, ALWAYS_BLOCK_ID} ELSE {})
    BY <1>1, <1>3, <1>4, BuiltinFacts DEF Created, Encode, IsBuiltin
  <1>6. FirstUse => Created = {}
    BY ConstantsAssumption
    DEF FirstUse, BUILTIN_POLICY_COUNT, IInv, TypeOK, RecordsBelongToCreated,
        PolicyId, Created
  <1> QED
    BY <1>1, <1>2, <1>3, <1>4, <1>5, <1>6

(* Every kind of creation keeps the invariant. *)
LEMMA CreateStep ==
  ASSUME IInv,
         NEW admin \in Admins, NEW type \in PolicyTypes,
         NEW accounts \in SUBSET Accounts, NEW childIds \in Seq(PolicyId),
         Create(admin, type, accounts, childIds),
         type \in CompositeTypes => /\ ChildrenInRange(childIds)
                                    /\ RequireCreatedSimplePolicies(childIds)
  PROVE  IInv'
  <1> DEFINE new == NewId(type)
  <1>1. /\ new \in PolicyId /\ IsWellFormed(new) /\ new.type = type
        /\ new.counter = NewCounter /\ new \notin Created /\ ~IsBuiltin(new)
        /\ NewCounter \in Nat /\ NewCounter >= 2 /\ NewCounter >= nextCounter
    BY CreateEffect
  <1>2. /\ NewCounter < MaxCounter /\ nextCounter' = NewCounter + 1
        /\ admin # ZeroAddress
    BY CreateEffect
  <1>3. /\ policies'[new] = Encode(admin)
        /\ members'[new] = members[new] \union accounts
        /\ children'[new] = IF type \in CompositeTypes THEN childIds ELSE children[new]
        /\ pendingAdmins' = pendingAdmins
    BY <1>1 DEF Create, IInv, TypeOK
  <1>4. \A id \in PolicyId \ {new} :
          /\ policies'[id] = IF FirstUse /\ IsBuiltin(id) THEN Encode(ZeroAddress)
                             ELSE policies[id]
          /\ members'[id] = members[id] /\ children'[id] = children[id]
    BY CreateEffect
  <1>5. TypeOK'
    <2>1. policies' \in [PolicyId -> Word]
      BY <1>1 DEF Create, IInv, TypeOK, Word, Encode, Admins
    <2>2. members' \in [PolicyId -> SUBSET Accounts]
      BY <1>1 DEF Create, IInv, TypeOK
    <2>3. children' \in [PolicyId -> Seq(PolicyId)]
      BY <1>1 DEF Create, IInv, TypeOK
    <2>4. nextCounter' \in {0} \union (BUILTIN_POLICY_COUNT..MaxCounter)
      BY <1>1, <1>2, ConstantsAssumption DEF BUILTIN_POLICY_COUNT
    <2> QED
      BY <2>1, <2>2, <2>3, <2>4 DEF Create, IInv, TypeOK
  <1>6. Created' = Created \union {new}
                    \union (IF FirstUse THEN {ALWAYS_ALLOW_ID, ALWAYS_BLOCK_ID} ELSE {})
    BY CreateEffect
  <1>7. FirstUse => Created = {}
    BY CreateEffect
  <1>8. RecordsBelongToCreated'
    <2>1. \A id \in PolicyId \ Created' :
            pendingAdmins'[id] = ZeroAddress /\ members'[id] = {} /\ children'[id] = <<>>
      BY <1>3, <1>4, <1>6 DEF IInv, RecordsBelongToCreated
    <2>2. \A id \in Created' : IsWellFormed(id) /\ id.counter < nextCounter'
      <3>1. ASSUME NEW id \in Created
            PROVE  IsWellFormed(id) /\ id.counter < nextCounter'
        <4>1. IsWellFormed(id) /\ id.counter < nextCounter /\ id.counter \in Int
          BY ConstantsAssumption DEF IInv, RecordsBelongToCreated, Created, PolicyId
        <4>2. nextCounter \in Int
          BY ConstantsAssumption DEF IInv, TypeOK, BUILTIN_POLICY_COUNT
        <4> QED
          BY <1>1, <1>2, <4>1, <4>2
      <3>2. IsWellFormed(new) /\ new.counter < nextCounter'
        BY <1>1, <1>2
      <3>3. 0 < nextCounter' /\ 1 < nextCounter'
        BY <1>1, <1>2
      <3> QED
        BY <1>6, <3>1, <3>2, <3>3, BuiltinFacts
    <2>3. \A id1, id2 \in Created' : id1.counter = id2.counter => id1 = id2
      <3>1. \A id \in Created : id.counter # new.counter
        BY <1>1, ConstantsAssumption
        DEF IInv, RecordsBelongToCreated, Created, PolicyId, TypeOK, BUILTIN_POLICY_COUNT
      <3> QED
        BY <1>1, <1>6, <1>7, <3>1, BuiltinFacts DEF IInv, RecordsBelongToCreated
    <2> QED
      BY <2>1, <2>2, <2>3 DEF RecordsBelongToCreated
  <1>9. ChildrenAreCreatedSimple'
    <2> SUFFICES ASSUME NEW id \in Created', IsComposite(id)
                 PROVE  /\ Len(children'[id]) \in MinChildren..MaxChildren
                        /\ \A i \in DOMAIN children'[id] :
                             LET base == BasePolicyId(children'[id][i])
                             IN  /\ base \in Created' /\ ~IsBuiltin(base)
                                 /\ base.type \in SimpleTypes
      BY DEF ChildrenAreCreatedSimple
    <2>1. CASE id = new
      <3>1. type \in CompositeTypes /\ children'[id] = childIds
        BY <1>1, <1>3, <2>1 DEF IsComposite
      <3>2. ASSUME NEW i \in DOMAIN childIds
            PROVE  LET base == BasePolicyId(childIds[i])
                   IN  base \in Created /\ ~IsBuiltin(base) /\ base.type \in SimpleTypes
        <4>1. childIds[i] \in PolicyId
          BY <3>2
        <4>2. BasePolicyId(childIds[i]) \in Created
          BY <3>1, <3>2, <4>1, BaseFacts DEF RequireCreatedSimplePolicies, Created
        <4>3. IsWellFormed(BasePolicyId(childIds[i]))
          BY <4>2 DEF IInv, RecordsBelongToCreated
        <4> QED
          BY <3>1, <3>2, <4>2, <4>3
          DEF RequireCreatedSimplePolicies, IsWellFormed, IsComposite, PolicyTypes
      <3> QED
        BY <1>6, <3>1, <3>2 DEF ChildrenInRange
    <2>2. CASE id # new
      <3>1. id \in Created /\ children'[id] = children[id]
        BY <1>4, <1>6, <2>2, BuiltinFacts DEF Created
      <3> QED
        BY <1>6, <3>1 DEF IInv, ChildrenAreCreatedSimple
    <2> QED
      BY <2>1, <2>2
  <1>10. NoHeirToRenounced'
    <2> SUFFICES ASSUME NEW id \in Created', policies'[id].admin = ZeroAddress
                 PROVE  pendingAdmins'[id] = ZeroAddress
      BY DEF NoHeirToRenounced, Renounced
    <2>1. id # new
      BY <1>2, <1>3 DEF Encode
    <2>2. CASE id \in Created
      <3>1. policies'[id] = policies[id] \/ (FirstUse /\ IsBuiltin(id))
        BY <1>4, <2>1, <2>2 DEF Created
      <3> QED
        BY <1>3, <1>7, <2>2, <3>1 DEF IInv, NoHeirToRenounced, Renounced
    <2>3. CASE id \notin Created
      BY <1>3, <2>3 DEF IInv, RecordsBelongToCreated, Created
    <2> QED
      BY <2>2, <2>3
  <1>11. SimplesHaveNoChildren'
    <2> SUFFICES ASSUME NEW id \in Created', ~IsComposite(id)
                 PROVE  children'[id] = <<>>
      BY DEF SimplesHaveNoChildren
    <2>1. children[id] = <<>>
      BY <1>1 DEF Created, IInv, RecordsBelongToCreated, SimplesHaveNoChildren
    <2>2. children'[id] = children[id]
      BY <1>1, <1>3, <1>4 DEF Created, IsComposite
    <2> QED
      BY <2>1, <2>2
  <1> QED
    BY <1>5, <1>8, <1>9, <1>10, <1>11 DEF IInv

(* The steps that touch one existing policy: what they leave alone.        *)
LEMMA AdminStep ==
  ASSUME IInv, NEW sender \in Accounts, NEW id \in PolicyId,
         \/ \E newAdmin \in Admins : StageUpdateAdmin(sender, id, newAdmin)
         \/ FinalizeUpdateAdmin(sender, id)
         \/ RenounceAdmin(sender, id)
  PROVE  IInv'
  <1>1. /\ TypeOK' /\ Created' = Created
        /\ UNCHANGED <<members, nextCounter, children>>
    <2>1. CASE \E newAdmin \in Admins : StageUpdateAdmin(sender, id, newAdmin)
      BY <2>1 DEF StageUpdateAdmin, IInv, TypeOK, Created
    <2>2. CASE FinalizeUpdateAdmin(sender, id)
      BY <2>2 DEF FinalizeUpdateAdmin, IInv, TypeOK, Created, Encode, Word, Admins
    <2>3. CASE RenounceAdmin(sender, id)
      BY <2>3 DEF RenounceAdmin, IsAdmin, IInv, TypeOK, Created, Encode, Word, Admins
    <2> QED
      BY <2>1, <2>2, <2>3
  <1>2. id \in Created
    BY DEF StageUpdateAdmin, FinalizeUpdateAdmin, RenounceAdmin, IsAdmin, Created
  <1>3. \A i \in PolicyId \ {id} :
          policies'[i] = policies[i] /\ pendingAdmins'[i] = pendingAdmins[i]
    BY DEF StageUpdateAdmin, FinalizeUpdateAdmin, RenounceAdmin, IInv, TypeOK
  <1>4. policies'[id].admin = ZeroAddress => pendingAdmins'[id] = ZeroAddress
    <2>1. CASE \E newAdmin \in Admins : StageUpdateAdmin(sender, id, newAdmin)
      BY <2>1, ConstantsAssumption DEF StageUpdateAdmin, IsAdmin
    <2>2. CASE FinalizeUpdateAdmin(sender, id)
      BY <2>2 DEF FinalizeUpdateAdmin, IInv, TypeOK
    <2>3. CASE RenounceAdmin(sender, id)
      BY <2>3 DEF RenounceAdmin, IInv, TypeOK
    <2> QED
      BY <2>1, <2>2, <2>3
  <1>5. RecordsBelongToCreated'
    BY <1>1, <1>2, <1>3 DEF IInv, RecordsBelongToCreated
  <1>6. ChildrenAreCreatedSimple'
    BY <1>1 DEF IInv, ChildrenAreCreatedSimple
  <1>7. NoHeirToRenounced'
    BY <1>1, <1>2, <1>3, <1>4 DEF IInv, NoHeirToRenounced, Renounced, Created
  <1>8. SimplesHaveNoChildren'
    BY <1>1 DEF IInv, SimplesHaveNoChildren
  <1> QED
    BY <1>1, <1>5, <1>6, <1>7, <1>8 DEF IInv

(* List updates keep the invariant. *)
LEMMA MembersStep ==
  ASSUME IInv, NEW sender \in Accounts, NEW id \in PolicyId, NEW value \in BOOLEAN,
         NEW accounts \in SUBSET Accounts,
         \/ UpdateAllowlist(sender, id, value, accounts)
         \/ UpdateBlocklist(sender, id, value, accounts)
  PROVE  IInv'
  <1>1. /\ IsAdmin(sender, id) /\ BatchSetMembers(id, value, accounts)
        /\ UNCHANGED <<policies, pendingAdmins, nextCounter, children>>
    BY DEF UpdateAllowlist, UpdateBlocklist, BatchSetMembers
  <1>2. id \in Created /\ Created' = Created
    BY <1>1 DEF IsAdmin, Created
  <1>3. TypeOK'
    BY <1>1 DEF BatchSetMembers, IInv, TypeOK
  <1>4. \A i \in PolicyId \ {id} : members'[i] = members[i]
    BY <1>1 DEF BatchSetMembers, IInv, TypeOK
  <1>5. RecordsBelongToCreated'
    BY <1>1, <1>2, <1>4 DEF IInv, RecordsBelongToCreated
  <1>6. ChildrenAreCreatedSimple'
    BY <1>1, <1>2 DEF IInv, ChildrenAreCreatedSimple
  <1>7. NoHeirToRenounced'
    BY <1>1, <1>2 DEF IInv, NoHeirToRenounced, Renounced
  <1>8. SimplesHaveNoChildren'
    BY <1>1, <1>2 DEF IInv, SimplesHaveNoChildren
  <1> QED
    BY <1>3, <1>5, <1>6, <1>7, <1>8 DEF IInv

(* Replacing the children of a composite keeps the invariant. *)
LEMMA UpdateCompositeStep ==
  ASSUME IInv, NEW sender \in Accounts, NEW id \in PolicyId, UpdateComposite(sender, id)
  PROVE  IInv'
  <1>1. PICK childIds \in ChildLists :
          /\ ChildrenInRange(childIds) /\ RequireCreatedSimplePolicies(childIds)
          /\ children' = [children EXCEPT ![id] = childIds]
    BY DEF UpdateComposite
  <1>2. childIds \in Seq(PolicyId)
    BY ConstantsAssumption
  <1>3. /\ UNCHANGED <<policies, members, pendingAdmins, nextCounter>>
        /\ id \in Created /\ Created' = Created
    BY DEF UpdateComposite, IsAdmin, Created
  <1>4. TypeOK'
    BY <1>1, <1>2, <1>3 DEF IInv, TypeOK
  <1>5. RecordsBelongToCreated'
    BY <1>1, <1>3 DEF IInv, RecordsBelongToCreated
  <1>6. ChildrenAreCreatedSimple'
    <2>1. ASSUME NEW i \in DOMAIN childIds
          PROVE  LET base == BasePolicyId(childIds[i])
                 IN  base \in Created /\ ~IsBuiltin(base) /\ base.type \in SimpleTypes
      <3>1. BasePolicyId(childIds[i]) \in Created
        BY <1>1, <1>2, <2>1, BaseFacts DEF RequireCreatedSimplePolicies, Created
      <3>2. IsWellFormed(BasePolicyId(childIds[i]))
        BY <3>1 DEF IInv, RecordsBelongToCreated
      <3> QED
        BY <1>1, <2>1, <3>1, <3>2
        DEF RequireCreatedSimplePolicies, IsWellFormed, IsComposite, PolicyTypes
    <2>2. /\ children'[id] = childIds
          /\ \A i \in PolicyId \ {id} : children'[i] = children[i]
      BY <1>1 DEF IInv, TypeOK
    <2> QED
      BY <1>1, <1>3, <2>1, <2>2
      DEF IInv, ChildrenAreCreatedSimple, ChildrenInRange, Created
  <1>7. NoHeirToRenounced'
    BY <1>3 DEF IInv, NoHeirToRenounced, Renounced
  <1>8. SimplesHaveNoChildren'
    <2>1. IsComposite(id) /\ \A i \in PolicyId \ {id} : children'[i] = children[i]
      BY <1>1 DEF UpdateComposite, IInv, TypeOK
    <2> QED
      BY <1>3, <2>1 DEF IInv, SimplesHaveNoChildren, Created
  <1> QED
    BY <1>4, <1>5, <1>6, <1>7, <1>8 DEF IInv

(* The invariant is inductive. *)
LEMMA NextIInv == IInv /\ [Next]_vars => IInv'
  <1> SUFFICES ASSUME IInv, [Next]_vars PROVE IInv'
    OBVIOUS
  <1>1. ASSUME NEW admin \in Admins, NEW type \in PolicyTypes, CreatePolicy(admin, type)
        PROVE  IInv'
    <2>1. type \notin CompositeTypes /\ <<>> \in Seq(PolicyId)
      BY <1>1 DEF CreatePolicy, SimpleTypes, CompositeTypes
    <2> QED
      BY <1>1, <2>1, CreateStep DEF CreatePolicy
  <1>2. ASSUME NEW admin \in Admins, NEW type \in PolicyTypes,
               NEW accounts \in SUBSET Accounts,
               CreatePolicyWithAccounts(admin, type, accounts)
        PROVE  IInv'
    <2>1. type \notin CompositeTypes /\ <<>> \in Seq(PolicyId)
      BY <1>2 DEF CreatePolicyWithAccounts, SimpleTypes, CompositeTypes
    <2> QED
      BY <1>2, <2>1, CreateStep DEF CreatePolicyWithAccounts
  <1>3. ASSUME NEW admin \in Admins, NEW type \in PolicyTypes,
               CreateCompositePolicy(admin, type)
        PROVE  IInv'
    BY <1>3, CreateStep, ConstantsAssumption DEF CreateCompositePolicy
  <1>4. CASE UNCHANGED vars
    BY <1>4
    DEF vars, IInv, TypeOK, RecordsBelongToCreated, ChildrenAreCreatedSimple,
        NoHeirToRenounced, Renounced, Created, SimplesHaveNoChildren
  <1> QED
    BY <1>1, <1>2, <1>3, <1>4, AdminStep, MembersStep, UpdateCompositeStep DEF Next

-----------------------------------------------------------------------------
(* Theorems.                                                               *)

(* The inductive invariant holds in every reachable state of the registry. *)
THEOREM InductiveInvariant == Spec => []IInv
  BY InitIInv, NextIInv, PTL DEF Spec

(* Every variable of the registry stays of its type: in particular the     *)
(* policy counter never leaves 0, 2..MaxCounter.                           *)
THEOREM TypeCorrect == Spec => []TypeOK
  BY InductiveInvariant, PTL DEF IInv

(* Ids are fresh when given out, and given out once: storage holds nothing *)
(* under an id that was not created.                                       *)
THEOREM RecordsCorrect == Spec => []RecordsBelongToCreated
  BY InductiveInvariant, PTL DEF IInv

(* Composites only ever reference created, custom, simple policies, so the *)
(* recursion of _isAuthorized ends one level down.                         *)
THEOREM ChildrenCorrect == Spec => []ChildrenAreCreatedSimple
  BY InductiveInvariant, PTL DEF IInv

(* What each kind of step does to a policy that already exists.            *)
LEMMA CreateLeavesCreated ==
  ASSUME IInv, NEW id \in Created,
         NEW admin \in Admins, NEW type \in PolicyTypes,
         \/ CreatePolicy(admin, type)
         \/ \E accounts \in SUBSET Accounts : CreatePolicyWithAccounts(admin, type, accounts)
         \/ CreateCompositePolicy(admin, type)
  PROVE  /\ policies'[id] = policies[id] /\ members'[id] = members[id]
         /\ children'[id] = children[id] /\ pendingAdmins' = pendingAdmins
  <1>1. PICK accounts, childIds : Create(admin, type, accounts, childIds)
    BY DEF CreatePolicy, CreatePolicyWithAccounts, CreateCompositePolicy
  <1>2. id # NewId(type) /\ id \in PolicyId
    BY <1>1, NewIdIsFresh DEF Create, IInv, Created
  <1>3. ~FirstUse
    BY ConstantsAssumption
    DEF FirstUse, BUILTIN_POLICY_COUNT, IInv, TypeOK, RecordsBelongToCreated,
        PolicyId, Created
  <1> QED
    BY <1>1, <1>2, <1>3 DEF Create, IInv, TypeOK

(* No step changes a policy that has no admin. *)
LEMMA RenouncedStep ==
  ASSUME IInv, [Next]_vars, NEW id \in Renounced
  PROVE  /\ policies'[id] = policies[id] /\ members'[id] = members[id]
         /\ children'[id] = children[id] /\ pendingAdmins'[id] = ZeroAddress
  <1>1. /\ id \in Created /\ id \in PolicyId /\ policies[id].admin = ZeroAddress
        /\ pendingAdmins[id] = ZeroAddress
    BY DEF Renounced, Created, IInv, NoHeirToRenounced
  <1>2. ASSUME NEW admin \in Admins, NEW type \in PolicyTypes,
               \/ CreatePolicy(admin, type)
               \/ \E accounts \in SUBSET Accounts :
                    CreatePolicyWithAccounts(admin, type, accounts)
               \/ CreateCompositePolicy(admin, type)
        PROVE  /\ policies'[id] = policies[id] /\ members'[id] = members[id]
               /\ children'[id] = children[id] /\ pendingAdmins' = pendingAdmins
    BY <1>1, <1>2, CreateLeavesCreated
  <1>3. ASSUME NEW sender \in Accounts, NEW other \in PolicyId,
               IsAdmin(sender, other) \/ FinalizeUpdateAdmin(sender, other)
        PROVE  other # id
    BY <1>1, <1>3, ConstantsAssumption DEF IsAdmin, FinalizeUpdateAdmin
  <1>4. ASSUME NEW sender \in Accounts, NEW other \in PolicyId,
               \/ \E newAdmin \in Admins : StageUpdateAdmin(sender, other, newAdmin)
               \/ FinalizeUpdateAdmin(sender, other)
               \/ RenounceAdmin(sender, other)
               \/ \E value \in BOOLEAN, accounts \in SUBSET Accounts :
                    \/ UpdateAllowlist(sender, other, value, accounts)
                    \/ UpdateBlocklist(sender, other, value, accounts)
               \/ UpdateComposite(sender, other)
        PROVE  /\ policies'[id] = policies[id] /\ members'[id] = members[id]
               /\ children'[id] = children[id] /\ pendingAdmins'[id] = pendingAdmins[id]
    <2>1. other # id
      BY <1>3, <1>4
      DEF StageUpdateAdmin, RenounceAdmin, UpdateAllowlist, UpdateBlocklist,
          UpdateComposite
    <2> QED
      BY <1>1, <1>4, <2>1
      DEF StageUpdateAdmin, FinalizeUpdateAdmin, RenounceAdmin, UpdateAllowlist,
          UpdateBlocklist, BatchSetMembers, UpdateComposite, IInv, TypeOK
  <1>5. CASE UNCHANGED vars
    BY <1>1, <1>5 DEF vars
  <1> QED
    BY <1>1, <1>2, <1>4, <1>5 DEF Next

(* A renounced policy is frozen for ever, whatever handover was in flight  *)
(* when its admin renounced.                                               *)
THEOREM RenouncedFrozen == Spec => RenouncedIsFrozen
  <1> DEFINE Frozen == \A id \in Renounced :
                         /\ policies'[id] = policies[id]
                         /\ members'[id] = members[id]
                         /\ children'[id] = children[id]
                         /\ pendingAdmins'[id] = ZeroAddress
  <1>1. IInv /\ [Next]_vars => Frozen
    BY RenouncedStep
  <1> QED
    BY <1>1, InductiveInvariant, PTL DEF Spec, RenouncedIsFrozen

(* A step that changes an admin is a renunciation or the nominee's acceptance. *)
LEMMA HandoverStep ==
  ASSUME IInv, [Next]_vars, NEW id \in Created, policies'[id].admin # policies[id].admin
  PROVE  /\ policies'[id].admin \in {ZeroAddress, pendingAdmins[id]}
         /\ pendingAdmins'[id] = ZeroAddress
  <1>1. id \in PolicyId
    BY DEF Created
  <1>2. ASSUME NEW admin \in Admins, NEW type \in PolicyTypes,
               \/ CreatePolicy(admin, type)
               \/ \E accounts \in SUBSET Accounts :
                    CreatePolicyWithAccounts(admin, type, accounts)
               \/ CreateCompositePolicy(admin, type)
        PROVE  FALSE
    BY <1>2, CreateLeavesCreated
  <1>3. ASSUME NEW sender \in Accounts, NEW other \in PolicyId,
               FinalizeUpdateAdmin(sender, other) \/ RenounceAdmin(sender, other)
        PROVE  /\ policies'[id].admin \in {ZeroAddress, pendingAdmins[id]}
               /\ pendingAdmins'[id] = ZeroAddress
    <2>1. id = other
      BY <1>1, <1>3 DEF FinalizeUpdateAdmin, RenounceAdmin, IInv, TypeOK
    <2> QED
      BY <1>1, <1>3, <2>1 DEF FinalizeUpdateAdmin, RenounceAdmin, Encode, IInv, TypeOK
  <1>4. ASSUME NEW sender \in Accounts, NEW other \in PolicyId,
               \/ \E newAdmin \in Admins : StageUpdateAdmin(sender, other, newAdmin)
               \/ \E value \in BOOLEAN, accounts \in SUBSET Accounts :
                    \/ UpdateAllowlist(sender, other, value, accounts)
                    \/ UpdateBlocklist(sender, other, value, accounts)
               \/ UpdateComposite(sender, other)
        PROVE  FALSE
    BY <1>4
    DEF StageUpdateAdmin, UpdateAllowlist, UpdateBlocklist, BatchSetMembers,
        UpdateComposite
  <1>5. CASE UNCHANGED vars
    BY <1>5 DEF vars
  <1> QED
    BY <1>2, <1>3, <1>4, <1>5 DEF Next

(* An admin changes only by renunciation or in favour of the nominee, and  *)
(* the nomination is used up.                                              *)
THEOREM HandoverCorrect == Spec => AdminHandover
  <1> DEFINE Handover == \A id \in Created :
                           policies'[id].admin # policies[id].admin =>
                             /\ policies'[id].admin \in {ZeroAddress, pendingAdmins[id]}
                             /\ pendingAdmins'[id] = ZeroAddress
  <1>1. IInv /\ [Next]_vars => Handover
    BY HandoverStep
  <1> QED
    BY <1>1, InductiveInvariant, PTL DEF Spec, AdminHandover

-----------------------------------------------------------------------------
(* What an id answers.                                                     *)

(* Toggling the invert flag twice, and what it leaves alone. *)
LEMMA InvertFacts ==
  ASSUME NEW id \in PolicyId
  PROVE  /\ InvertedPolicyId(id) \in PolicyId /\ InvertedPolicyId(id) # id
         /\ InvertedPolicyId(InvertedPolicyId(id)) = id
         /\ BasePolicyId(InvertedPolicyId(id)) = BasePolicyId(id)
         /\ InvertedPolicyId(id).inverted = ~id.inverted
         /\ InvertedPolicyId(id).type = id.type
         /\ id.inverted \in BOOLEAN
         /\ ~id.inverted => BasePolicyId(id) = id
         /\ id.inverted => InvertedPolicyId(id) = BasePolicyId(id)
         /\ ~BasePolicyId(id).inverted
  BY DEF PolicyId, InvertedPolicyId, BasePolicyId

(* An id exists with its inverse: both are asked of their base. *)
LEMMA KnownFacts ==
  ASSUME NEW id \in PolicyId, IInv
  PROVE  /\ PolicyExists(InvertedPolicyId(id)) = PolicyExists(id)
         /\ PolicyExists(id) <=> \/ IsBuiltin(BasePolicyId(id))
                                 \/ BasePolicyId(id) \in Created
  <1>1. BasePolicyId(InvertedPolicyId(id)) = BasePolicyId(id)
    BY InvertFacts
  <1>2. BasePolicyId(id) \in Created => IsWellFormed(BasePolicyId(id))
    BY DEF IInv, RecordsBelongToCreated
  <1> QED
    BY <1>1, <1>2, BaseFacts DEF PolicyExists, Created

(* The answers are yes or no, and an id that exists is answered the         *)
(* opposite of its inverse, for a child as for any other.                   *)
LEMMA OppositeAnswers ==
  ASSUME NEW id \in PolicyId, NEW account, IInv, PolicyExists(id)
  PROVE  /\ IsAuthorized(InvertedPolicyId(id), account) = ~IsAuthorized(id, account)
         /\ ChildAuthorized(InvertedPolicyId(id), account) = ~ChildAuthorized(id, account)
  <1> DEFINE base == BasePolicyId(id)
             other == InvertedPolicyId(id)
  <1>1. PolicyExists(other)
    BY KnownFacts
  <1>2. /\ BaseAuthorized(base, account) \in BOOLEAN
        /\ SimpleAuthorized(base, account) \in BOOLEAN
    BY DEF BaseAuthorized, SimpleAuthorized
  <1>3. CASE id.inverted
    <2>1. other = base /\ ~other.inverted
      BY <1>3, InvertFacts
    <2> QED
      BY <1>2, <1>3, <2>1 DEF IsAuthorized, ChildAuthorized
  <1>4. CASE ~id.inverted
    <2>1. base = id /\ other.inverted /\ BasePolicyId(other) = id
      BY <1>4, InvertFacts
    <2> QED
      BY <1>1, <1>2, <1>4, <2>1 DEF IsAuthorized, ChildAuthorized
  <1> QED
    BY <1>3, <1>4, InvertFacts

(* An INTERSECT and the UNION of its inverted children are complements, in  *)
(* every state of the registry: the children exist, so each one and its     *)
(* inverse are answered the opposite.                                       *)
LEMMA DeMorganStep == IInv => InvertedChildrenDeMorgan
  <1> SUFFICES ASSUME IInv, NEW u \in Created, NEW v \in Created,
                      u.type = "UNION", v.type = "INTERSECT",
                      Len(children[u]) = Len(children[v]),
                      \A i \in DOMAIN children[u] :
                        children[u][i] = InvertedPolicyId(children[v][i]),
                      NEW account \in Accounts
               PROVE  IsAuthorized(u, account) = ~IsAuthorized(v, account)
    BY DEF InvertedChildrenDeMorgan
  <1>1. /\ u \in PolicyId /\ v \in PolicyId /\ ~u.inverted /\ ~v.inverted
        /\ u # ALWAYS_ALLOW_ID /\ v # ALWAYS_ALLOW_ID
        /\ IsComposite(u) /\ IsComposite(v)
    BY DEF Created, IInv, RecordsBelongToCreated, IsWellFormed, ALWAYS_ALLOW_ID, MakeId,
           IsComposite, CompositeTypes
  <1>2. /\ children[u] \in Seq(PolicyId) /\ children[v] \in Seq(PolicyId)
        /\ DOMAIN children[u] = DOMAIN children[v]
    BY <1>1 DEF IInv, TypeOK
  <1>3. ASSUME NEW i \in DOMAIN children[v]
        PROVE  ChildAuthorized(children[u][i], account)
                 = ~ChildAuthorized(children[v][i], account)
    <2>1. children[v][i] \in PolicyId /\ BasePolicyId(children[v][i]) \in Created
      BY <1>1, <1>2, <1>3 DEF IInv, ChildrenAreCreatedSimple
    <2>2. PolicyExists(children[v][i])
      BY <2>1, KnownFacts
    <2> QED
      BY <1>2, <1>3, <2>1, <2>2, OppositeAnswers
  <1>4. IsAuthorized(u, account) = \E i \in DOMAIN children[u] :
                                     ChildAuthorized(children[u][i], account)
    BY <1>1 DEF IsAuthorized, BaseAuthorized, SimpleTypes
  <1>5. IsAuthorized(v, account) = \A i \in DOMAIN children[v] :
                                     ChildAuthorized(children[v][i], account)
    BY <1>1 DEF IsAuthorized, BaseAuthorized, SimpleTypes
  <1>6. ASSUME NEW i \in DOMAIN children[v]
        PROVE  ChildAuthorized(children[v][i], account) \in BOOLEAN
    BY DEF ChildAuthorized, SimpleAuthorized
  <1> QED
    BY <1>2, <1>3, <1>4, <1>5, <1>6

(* De Morgan holds in every reachable state. *)
THEOREM DeMorganCorrect == Spec => []InvertedChildrenDeMorgan
  BY DeMorganStep, InductiveInvariant, PTL
-----------------------------------------------------------------------------
(* The refinement of PolicyOracle.                                         *)

(* The instance is legitimate: ids, inverses and built-ins are as the       *)
(* oracle assumes.                                                          *)
LEMMA OracleConstants ==
  /\ \A id \in PolicyId : /\ InvertedPolicyId(id) \in PolicyId \ {id}
                          /\ InvertedPolicyId(InvertedPolicyId(id)) = id
  /\ ALWAYS_ALLOW_ID \in PolicyId
  /\ ALWAYS_BLOCK_ID \in PolicyId \ {ALWAYS_ALLOW_ID, InvertedPolicyId(ALWAYS_ALLOW_ID)}
  <1>1. ALWAYS_BLOCK_ID.type # ALWAYS_ALLOW_ID.type
    BY DEF ALWAYS_BLOCK_ID, ALWAYS_ALLOW_ID, MakeId
  <1> QED
    BY <1>1, InvertFacts, BuiltinFacts

(* An id is built in when its base is. *)
LEMMA BuiltinIds ==
  ASSUME NEW id \in PolicyId
  PROVE  id \in Oracle!Builtins <=> IsBuiltin(BasePolicyId(id))
  <1>1. /\ BasePolicyId(ALWAYS_ALLOW_ID) = ALWAYS_ALLOW_ID
        /\ BasePolicyId(ALWAYS_BLOCK_ID) = ALWAYS_BLOCK_ID
    BY BuiltinFacts, InvertFacts DEF IsWellFormed
  <1>2. /\ BasePolicyId(InvertedPolicyId(ALWAYS_ALLOW_ID)) = ALWAYS_ALLOW_ID
        /\ BasePolicyId(InvertedPolicyId(ALWAYS_BLOCK_ID)) = ALWAYS_BLOCK_ID
    BY <1>1, BuiltinFacts, InvertFacts
  <1>3. id = BasePolicyId(id) \/ id = InvertedPolicyId(BasePolicyId(id))
    <2>1. CASE id.inverted
      BY <2>1, InvertFacts
    <2>2. CASE ~id.inverted
      BY <2>2, InvertFacts
    <2> QED
      BY <2>1, <2>2
  <1> QED
    BY <1>1, <1>2, <1>3 DEF Oracle!Builtins, IsBuiltin

(* The built-ins answer as the oracle's, written to storage or not. *)
LEMMA BuiltinVerdicts ==
  ASSUME IInv, NEW id \in Oracle!Builtins
  PROVE  /\ id \in Sealed
         /\ Verdict(id) = IF id \in {ALWAYS_ALLOW_ID, InvertedPolicyId(ALWAYS_BLOCK_ID)}
                          THEN Accounts ELSE {}
  <1>1. id \in PolicyId /\ IsBuiltin(BasePolicyId(id))
    BY BuiltinFacts, InvertFacts, BuiltinIds DEF Oracle!Builtins
  <1>2. PolicyExists(id) /\ id \in Sealed
    BY <1>1 DEF PolicyExists, Sealed, Known
  <1>3. ASSUME NEW account
        PROVE  /\ BaseAuthorized(ALWAYS_ALLOW_ID, account)
               /\ ~BaseAuthorized(ALWAYS_BLOCK_ID, account)
    BY DEF BaseAuthorized, IsBuiltin, ALWAYS_ALLOW_ID, ALWAYS_BLOCK_ID, MakeId
  <1>4. \A account : /\ IsAuthorized(ALWAYS_ALLOW_ID, account)
                     /\ ~IsAuthorized(ALWAYS_BLOCK_ID, account)
    BY <1>3, BuiltinFacts DEF IsAuthorized, IsWellFormed
  <1>5. PolicyExists(ALWAYS_ALLOW_ID) /\ PolicyExists(ALWAYS_BLOCK_ID)
    BY BuiltinFacts, InvertFacts DEF PolicyExists, IsWellFormed, IsBuiltin
  <1>6. \A account : /\ ~IsAuthorized(InvertedPolicyId(ALWAYS_ALLOW_ID), account)
                     /\ IsAuthorized(InvertedPolicyId(ALWAYS_BLOCK_ID), account)
    BY <1>4, <1>5, BuiltinFacts, OppositeAnswers
  <1>7. CASE id = ALWAYS_ALLOW_ID \/ id = InvertedPolicyId(ALWAYS_BLOCK_ID)
    BY <1>2, <1>4, <1>6, <1>7 DEF Verdict
  <1>8. CASE id = ALWAYS_BLOCK_ID \/ id = InvertedPolicyId(ALWAYS_ALLOW_ID)
    <2>1. id \notin {ALWAYS_ALLOW_ID, InvertedPolicyId(ALWAYS_BLOCK_ID)}
      BY <1>8, OracleConstants, BuiltinFacts
    <2> QED
      BY <1>2, <1>4, <1>6, <1>8, <2>1 DEF Verdict
  <1> QED
    BY <1>7, <1>8 DEF Oracle!Builtins

(* In every state the verdicts are of the oracle's type, complements of     *)
(* each other, and the built-ins' are fixed.                                *)
LEMMA ReachableStep == IInv => Oracle!OracleReachable
  <1> SUFFICES ASSUME IInv PROVE Oracle!OracleReachable
    OBVIOUS
  <1>1. Oracle!Builtins \subseteq Sealed /\ Sealed \subseteq Known /\ Known \subseteq PolicyId
    BY BuiltinVerdicts DEF Sealed, Known
  <1>2. \A id \in Known : InvertedPolicyId(id) \in Known
    BY KnownFacts, InvertFacts DEF Known
  <1>3. [id \in Known |-> Verdict(id)] \in [Known -> SUBSET Accounts]
    BY DEF Verdict
  <1>4. \A id \in Known : Verdict(InvertedPolicyId(id)) = Accounts \ Verdict(id)
    BY OppositeAnswers DEF Known, Verdict
  <1> QED
    BY <1>1, <1>2, <1>3, <1>4, BuiltinVerdicts
    DEF Oracle!OracleReachable, Oracle!OracleTypeOK, Oracle!Complementary

(* Nothing exists before the first creation but the built-ins. *)
LEMMA InitOracle == Init => Oracle!OracleInit
  <1> SUFFICES ASSUME Init PROVE Oracle!OracleInit
    OBVIOUS
  <1>1. IInv /\ Created = {}
    BY InitIInv DEF Init, Created, EmptyWord
  <1>2. Known = Oracle!Builtins
    <2>1. Oracle!Builtins \subseteq PolicyId
      BY BuiltinFacts, InvertFacts DEF Oracle!Builtins
    <2> QED
      BY <1>1, <2>1, KnownFacts, BuiltinIds DEF Known
  <1>3. Sealed = Oracle!Builtins
    BY <1>1, <1>2, BuiltinVerdicts DEF Sealed
  <1> QED
    BY <1>1, <1>2, <1>3, BuiltinVerdicts DEF Oracle!OracleInit

(* An answer depends on the record of the base and, for a composite, on the *)
(* lists of its children's bases, and on nothing else.                      *)
Untouched(id) == /\ id \in Created /\ policies'[id].exists /\ members'[id] = members[id]
                 /\ children'[id] = children[id]

LEMMA SameChild ==
  ASSUME NEW c \in PolicyId, NEW account, PolicyExists(c), PolicyExists(c)',
         members'[BasePolicyId(c)] = members[BasePolicyId(c)]
  PROVE  ChildAuthorized(c, account)' = ChildAuthorized(c, account)
  <1>1. ~c.inverted => BasePolicyId(c) = c
    BY InvertFacts
  <1> QED
    BY <1>1 DEF ChildAuthorized, SimpleAuthorized, BasePolicyId

(* The same of any id. *)
LEMMA SameAnswers ==
  ASSUME IInv, NEW id \in Known,
         LET base == BasePolicyId(id)
         IN  \/ IsBuiltin(base)
             \/ /\ Untouched(base)
                /\ \A i \in DOMAIN children[base] :
                     Untouched(BasePolicyId(children[base][i]))
  PROVE  id \in Known' /\ Verdict(id)' = Verdict(id)
  <1> DEFINE base == BasePolicyId(id)
  <1>1. id \in PolicyId /\ base \in PolicyId
    BY BaseFacts DEF Known
  <1>2. PolicyExists(id) /\ PolicyExists(id)'
    <2>1. CASE IsBuiltin(base)
      BY <2>1 DEF PolicyExists, Known
    <2>2. CASE ~IsBuiltin(base)
      BY <2>2 DEF PolicyExists, Known, Untouched, IInv, RecordsBelongToCreated
    <2> QED
      BY <2>1, <2>2
  <1>3. ASSUME NEW account \in Accounts
        PROVE  BaseAuthorized(base, account)' = BaseAuthorized(base, account)
    <2>1. CASE IsBuiltin(base)
      BY <2>1 DEF BaseAuthorized, IsBuiltin, ALWAYS_ALLOW_ID, ALWAYS_BLOCK_ID, MakeId,
                  SimpleTypes
    <2>2. CASE ~IsBuiltin(base)
      <3>1. /\ base \in Created /\ members'[base] = members[base]
            /\ children'[base] = children[base]
            /\ \A i \in DOMAIN children[base] :
                 Untouched(BasePolicyId(children[base][i]))
        BY <2>2 DEF Untouched
      <3>2. ASSUME NEW i \in DOMAIN children[base]
            PROVE  ChildAuthorized(children[base][i], account)'
                     = ChildAuthorized(children[base][i], account)
        <4>1. PICK c \in PolicyId : c = children[base][i] /\ c = children'[base][i]
          BY <1>1, <3>1, <3>2 DEF IInv, TypeOK
        <4>2. members'[BasePolicyId(c)] = members[BasePolicyId(c)]
          BY <3>1, <3>2, <4>1 DEF Untouched
        <4>3. PolicyExists(c) /\ PolicyExists(c)'
          BY <3>1, <3>2, <4>1
          DEF PolicyExists, Untouched, IInv, RecordsBelongToCreated, Created
        <4>4. ChildAuthorized(c, account)' = ChildAuthorized(c, account)
          BY <4>2, <4>3, SameChild
        <4> QED
          BY <4>1, <4>4 DEF ChildAuthorized, SimpleAuthorized, PolicyExists
      <3> QED
        BY <3>1, <3>2 DEF BaseAuthorized, SimpleAuthorized
    <2> QED
      BY <2>1, <2>2
  <1>4. \A account \in Accounts : IsAuthorized(id, account)' = IsAuthorized(id, account)
    <2>1. CASE id.inverted
      BY <1>2, <1>3, <2>1 DEF IsAuthorized
    <2>2. CASE ~id.inverted
      BY <1>1, <1>3, <2>2, InvertFacts DEF IsAuthorized
    <2> QED
      BY <2>1, <2>2
  <1> QED
    BY <1>1, <1>2, <1>4 DEF Known, Verdict

(* What exists, in terms of what was created. *)
KnownIsCreated ==
  Known = {id \in PolicyId : IsBuiltin(BasePolicyId(id)) \/ BasePolicyId(id) \in Created}

LEMMA KnownIds == IInv => KnownIsCreated
  BY KnownFacts DEF Known, KnownIsCreated

(* The ids a created policy refers to were created. *)
LEMMA ChildBases ==
  ASSUME IInv, NEW base \in Created, NEW i \in DOMAIN children[base]
  PROVE  BasePolicyId(children[base][i]) \in Created
  BY DEF IInv, ChildrenAreCreatedSimple, SimplesHaveNoChildren

(* A creation adds an id and its inverse, unsealed, and the answers and     *)
(* seals of all others stand: also those of the built-ins, should this be   *)
(* the creation that writes them.                                           *)
LEMMA CreateAddsPolicy ==
  ASSUME IInv, IInv',
         NEW admin \in Admins, NEW type \in PolicyTypes,
         NEW accounts \in SUBSET Accounts, NEW childIds \in Seq(PolicyId),
         Create(admin, type, accounts, childIds)
  PROVE  Oracle!OracleNext
  <1>1. PICK new \in PolicyId :
          /\ ~new.inverted /\ new \notin Created /\ ~IsBuiltin(new)
          /\ policies'[new] = Encode(admin) /\ admin # ZeroAddress
          /\ \A id \in PolicyId \ {new} :
               /\ policies'[id] = IF FirstUse /\ IsBuiltin(id) THEN Encode(ZeroAddress)
                                  ELSE policies[id]
               /\ members'[id] = members[id] /\ children'[id] = children[id]
          /\ Created' = Created \union {new}
                         \union (IF FirstUse THEN {ALWAYS_ALLOW_ID, ALWAYS_BLOCK_ID} ELSE {})
          /\ FirstUse => Created = {}
    BY CreateEffect DEF IsWellFormed
  <1>2. /\ BasePolicyId(new) = new /\ BasePolicyId(InvertedPolicyId(new)) = new
        /\ InvertedPolicyId(new) \in PolicyId \ {new}
        /\ \A id \in PolicyId : BasePolicyId(id) = new => id \in {new, InvertedPolicyId(new)}
    BY <1>1, InvertFacts
  <1>3. KnownIsCreated /\ KnownIsCreated'
    BY KnownIds, PTL
  <1>4. Known' = Known \union {new, InvertedPolicyId(new)}
    BY <1>1, <1>2, <1>3, BaseFacts DEF IsBuiltin, KnownIsCreated
  <1>5. new \notin Known /\ InvertedPolicyId(new) \notin Known
    BY <1>1, <1>2, <1>3 DEF KnownIsCreated
  <1>6. \A id \in Created : Untouched(id) /\ (id \in Renounced <=> id \in Renounced')
    BY <1>1 DEF Created, Untouched, Renounced
  <1>7. ASSUME NEW id \in Known
        PROVE  Verdict(id)' = Verdict(id) /\ (id \in Sealed <=> id \in Sealed')
    <2>1. \/ IsBuiltin(BasePolicyId(id))
          \/ /\ BasePolicyId(id) \in Created /\ Untouched(BasePolicyId(id))
             /\ \A i \in DOMAIN children[BasePolicyId(id)] :
                  /\ BasePolicyId(children[BasePolicyId(id)][i]) \in Created
                  /\ Untouched(BasePolicyId(children[BasePolicyId(id)][i]))
      BY <1>3, <1>6, ChildBases DEF KnownIsCreated
    <2>2. Verdict(id)' = Verdict(id)
      BY <2>1, SameAnswers
    <2>3. CASE IsBuiltin(BasePolicyId(id))
      BY <1>4, <2>2, <2>3 DEF Sealed
    <2>4. CASE ~IsBuiltin(BasePolicyId(id))
      BY <1>4, <1>6, <2>1, <2>2, <2>4 DEF Sealed, Untouched
    <2> QED
      BY <2>2, <2>3, <2>4
  <1>8. new \notin Renounced'
    BY <1>1 DEF Renounced, Encode
  <1>9. Sealed' = Sealed
    <2>1. new \notin Sealed' /\ InvertedPolicyId(new) \notin Sealed'
      BY <1>1, <1>2, <1>8 DEF Sealed
    <2> QED
      BY <1>4, <1>7, <2>1 DEF Sealed
  <1>10. Oracle!OracleReachable'
    BY ReachableStep, PTL
  <1>11. /\ Verdict(InvertedPolicyId(new))' = Accounts \ Verdict(new)'
         /\ Verdict(new)' \in SUBSET Accounts
    BY <1>4, <1>10
    DEF Oracle!OracleReachable, Oracle!OracleTypeOK, Oracle!Complementary, Verdict
  <1>12. Oracle!AddPolicy(new, Verdict(new)')
    BY <1>2, <1>4, <1>5, <1>7, <1>9, <1>11 DEF Oracle!AddPolicy
  <1> QED
    BY <1>5, <1>11, <1>12 DEF Oracle!OracleNext

(* An edit of one policy by its admin, whose policy is not renounced, leaves *)
(* the answers of sealed ids alone, those of sealed composites included.     *)
LEMMA EditChangesVerdicts ==
  ASSUME IInv, IInv', NEW sender \in Accounts, NEW edited \in PolicyId,
         IsAdmin(sender, edited), policies' = policies,
         \A id \in PolicyId \ {edited} :
           members'[id] = members[id] /\ children'[id] = children[id]
  PROVE  Oracle!OracleNext
  <1>1. edited \notin Renounced /\ Renounced' = Renounced /\ Created' = Created
    BY ConstantsAssumption DEF IsAdmin, Renounced, Created
  <1>2. \A id \in Created \ {edited} : Untouched(id)
    BY DEF Created, Untouched
  <1>3. Known' = Known
    BY <1>1 DEF Known, PolicyExists
  <1>4. Sealed' = Sealed
    <2>1. \A id \in Renounced : children'[id] = children[id]
      BY <1>1 DEF Renounced, Created
    <2> QED
      BY <1>1, <1>3, <2>1 DEF Sealed
  <1>5. ASSUME NEW id \in Sealed
        PROVE  Verdict(id)' = Verdict(id)
    <2>1. \/ IsBuiltin(BasePolicyId(id))
          \/ /\ BasePolicyId(id) \in Renounced
             /\ \A i \in DOMAIN children[BasePolicyId(id)] :
                  BasePolicyId(children[BasePolicyId(id)][i]) \in Renounced
      BY DEF Sealed
    <2>2. \A base \in Renounced : Untouched(base)
      BY <1>1, <1>2 DEF Renounced
    <2>3. id \in Known
      BY DEF Sealed
    <2> QED
      BY <2>1, <2>2, <2>3, SameAnswers
  <1>6. Oracle!OracleReachable'
    BY ReachableStep, PTL
  <1>7. Oracle!ChangeVerdicts
    BY <1>3, <1>4, <1>5, <1>6
    DEF Oracle!ChangeVerdicts, Oracle!AgreeOn, Oracle!OracleReachable,
        Oracle!OracleTypeOK, Sealed
  <1> QED
    BY <1>7 DEF Oracle!OracleNext

(* A handover changes no answer, for nominations and admins are not asked,  *)
(* and seals an id only if it leaves the policy without an admin.           *)
LEMMA HandoverSeals ==
  ASSUME IInv, IInv', NEW sender \in Accounts, NEW id \in PolicyId,
         \/ \E newAdmin \in Admins : StageUpdateAdmin(sender, id, newAdmin)
         \/ FinalizeUpdateAdmin(sender, id)
         \/ RenounceAdmin(sender, id)
  PROVE  Oracle!OracleNext
  <1>1. /\ Created' = Created /\ members' = members /\ children' = children
        /\ \A i \in PolicyId : policies'[i].exists = policies[i].exists
    <2>1. CASE \E newAdmin \in Admins : StageUpdateAdmin(sender, id, newAdmin)
      BY <2>1 DEF StageUpdateAdmin, Created
    <2>2. CASE FinalizeUpdateAdmin(sender, id) \/ RenounceAdmin(sender, id)
      <3>1. /\ policies[id].exists = TRUE /\ policies'[id].exists = TRUE
            /\ members' = members /\ children' = children
            /\ \A i \in PolicyId \ {id} : policies'[i] = policies[i]
        BY <2>2 DEF FinalizeUpdateAdmin, RenounceAdmin, IsAdmin, Encode, IInv, TypeOK, Word
      <3> QED
        BY <3>1 DEF Created
    <2> QED
      BY <2>1, <2>2
  <1>2. Renounced \subseteq Renounced'
    <2>1. id \notin Renounced
      BY ConstantsAssumption
      DEF StageUpdateAdmin, FinalizeUpdateAdmin, RenounceAdmin, IsAdmin, IInv,
          NoHeirToRenounced, Renounced
    <2>2. \A i \in PolicyId \ {id} : policies'[i] = policies[i]
      BY DEF StageUpdateAdmin, FinalizeUpdateAdmin, RenounceAdmin, IInv, TypeOK
    <2> QED
      BY <1>1, <2>1, <2>2 DEF Renounced, Created
  <1>3. KnownIsCreated /\ Known' = Known
    <2>1. KnownIsCreated /\ KnownIsCreated'
      BY KnownIds, PTL
    <2> QED
      BY <1>1, <2>1 DEF KnownIsCreated
  <1>4. Sealed \subseteq Sealed' /\ Sealed' \subseteq Known'
    BY <1>1, <1>2, <1>3 DEF Sealed
  <1>5. ASSUME NEW i \in Known
        PROVE  Verdict(i)' = Verdict(i)
    <2>1. \A base \in Created : Untouched(base)
      BY <1>1 DEF Created, Untouched
    <2> QED
      BY <1>3, <2>1, ChildBases, SameAnswers DEF KnownIsCreated
  <1>6. Oracle!Seal
    BY <1>3, <1>4, <1>5 DEF Oracle!Seal
  <1> QED
    BY <1>6 DEF Oracle!OracleNext

(* Every step of the registry is a step of the oracle, or invisible to it. *)
LEMMA StepOracle ==
  IInv /\ IInv' /\ [Next]_vars => [Oracle!OracleNext]_(Oracle!oracleVars)
  <1> SUFFICES ASSUME IInv, IInv', [Next]_vars
               PROVE  Oracle!OracleNext \/ UNCHANGED Oracle!oracleVars
    OBVIOUS
  <1>1. ASSUME NEW admin \in Admins, NEW type \in PolicyTypes,
               \/ CreatePolicy(admin, type)
               \/ \E accounts \in SUBSET Accounts :
                    CreatePolicyWithAccounts(admin, type, accounts)
               \/ CreateCompositePolicy(admin, type)
        PROVE  Oracle!OracleNext
    <2>1. CASE \E accounts \in SUBSET Accounts :
                 Create(admin, type, {}, <<>>) \/ Create(admin, type, accounts, <<>>)
      <3>1. <<>> \in Seq(PolicyId) /\ {} \in SUBSET Accounts
        OBVIOUS
      <3> QED
        BY <2>1, <3>1, CreateAddsPolicy
    <2>2. CASE \E childIds \in ChildLists : Create(admin, type, {}, childIds)
      BY <2>2, CreateAddsPolicy, ConstantsAssumption
    <2> QED
      BY <1>1, <2>1, <2>2
      DEF CreatePolicy, CreatePolicyWithAccounts, CreateCompositePolicy
  <1>2. ASSUME NEW sender \in Accounts, NEW id \in PolicyId,
               \/ \E value \in BOOLEAN, accounts \in SUBSET Accounts :
                    \/ UpdateAllowlist(sender, id, value, accounts)
                    \/ UpdateBlocklist(sender, id, value, accounts)
               \/ UpdateComposite(sender, id)
        PROVE  Oracle!OracleNext
    <2>1. /\ IsAdmin(sender, id) /\ policies' = policies
          /\ \A i \in PolicyId \ {id} :
               members'[i] = members[i] /\ children'[i] = children[i]
      BY <1>2 DEF UpdateAllowlist, UpdateBlocklist, BatchSetMembers, UpdateComposite,
                  IInv, TypeOK
    <2> QED
      BY <2>1, EditChangesVerdicts
  <1>3. CASE UNCHANGED vars
    <2>1. Known' = Known /\ Sealed' = Sealed /\ \A id \in Known : Verdict(id)' = Verdict(id)
      BY <1>3 DEF vars, Known, Sealed, Renounced, Created, Verdict, IsAuthorized,
                  BaseAuthorized, ChildAuthorized, SimpleAuthorized, PolicyExists
    <2> QED
      BY <2>1 DEF Oracle!oracleVars
  <1> QED
    BY <1>1, <1>2, <1>3, HandoverSeals DEF Next

(* What the tokens rely on: the registry is a PolicyOracle. *)
THEOREM RefinesOracle == Spec => ImplementsOracle
  <1>1. Init => Oracle!OracleInit
    BY InitOracle
  <1>2. IInv /\ IInv' /\ [Next]_vars => [Oracle!OracleNext]_(Oracle!oracleVars)
    BY StepOracle
  <1> QED
    BY <1>1, <1>2, InductiveInvariant, PTL DEF Spec, ImplementsOracle, Oracle!OracleSpec

(* And the states it shows them are those a token may start from.          *)
THEOREM ShowsReachable == Spec => []Oracle!OracleReachable
  BY ReachableStep, InductiveInvariant, PTL
=============================================================================
