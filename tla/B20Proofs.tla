------------------------------ MODULE B20Proofs ------------------------------
(***************************************************************************)
(* TLAPS proofs about B20 for any finite set of accounts, any roles, ids,  *)
(* amounts and widths of words.  The inductive invariant joins the types,  *)
(* the exact admin count of B20Roles, and the conservation of units, which *)
(* is what keeps the unchecked additions from wrapping.  Units are counted *)
(* as a set of pairs: a credit adds a block of pairs to one holder.        *)
(***************************************************************************)
EXTENDS B20, FiniteSetTheorems, TLAPS

-----------------------------------------------------------------------------
(* Access control by itself, for every set of roles.                       *)

RInv == RolesTypeOK /\ AdminCountExact

(* The holders of a role are finitely many, so their count is a number. *)
LEMMA HoldersFinite ==
  ASSUME RolesTypeOK, NEW r \in Roles
  PROVE  IsFiniteSet(roles[r]) /\ Cardinality(roles[r]) \in Nat
  <1>1. IsFiniteSet(Addresses)
    BY RolesAssumption, FS_AddElement DEF Addresses
  <1>2. roles[r] \subseteq Addresses
    BY DEF RolesTypeOK
  <1> QED
    BY <1>1, <1>2, FS_Subset, FS_CardinalityType

(* The invariant holds in a planted token. *)
LEMMA InitRInv == RolesInit => RInv
  <1> SUFFICES ASSUME RolesInit PROVE RInv
    OBVIOUS
  <1>1. RolesTypeOK
    BY RolesAssumption DEF RolesInit, RolesTypeOK, Addresses
  <1>2. AdminCountExact
    BY RolesAssumption, FS_EmptySet DEF RolesInit, AdminCountExact
  <1> QED
    BY <1>1, <1>2 DEF RInv

(* A grant counts a new default admin once and a present one not again. *)
LEMMA GrantKeepsCount ==
  ASSUME RInv, NEW sender \in Addresses, NEW role \in Roles, NEW account \in Addresses,
         GrantRole(sender, role, account)
  PROVE  adminCount' = Cardinality(roles'[DEFAULT_ADMIN_ROLE]) /\ adminCount' \in Nat
  <1> DEFINE H == roles[DEFAULT_ADMIN_ROLE]
  <1>1. /\ adminCount = Cardinality(H) /\ adminCount \in Nat /\ IsFiniteSet(H)
    BY RolesAssumption, HoldersFinite DEF RInv, AdminCountExact, RolesTypeOK
  <1>2. CASE role = DEFAULT_ADMIN_ROLE
    <2>1. roles'[DEFAULT_ADMIN_ROLE] = H \union {account}
      BY <1>2, RolesAssumption DEF GrantRole, RInv, RolesTypeOK
    <2>2. CASE account \in H
      BY <1>1, <1>2, <2>1, <2>2 DEF GrantRole, HasRole
    <2>3. CASE account \notin H
      <3>1. Cardinality(H \union {account}) = Cardinality(H) + 1
        BY <1>1, <2>3, FS_AddElement
      <3> QED
        BY <1>1, <1>2, <2>1, <2>3, <3>1 DEF GrantRole, HasRole
    <2> QED
      BY <2>2, <2>3
  <1>3. CASE role # DEFAULT_ADMIN_ROLE
    BY <1>1, <1>3, RolesAssumption DEF GrantRole, RInv, RolesTypeOK
  <1> QED
    BY <1>2, <1>3

(* A removal discounts a default admin and leaves a non-holder uncounted. *)
LEMMA RemoveKeepsCount ==
  ASSUME RInv, NEW role \in Roles, NEW account \in Addresses, RemoveRole(role, account)
  PROVE  adminCount' = Cardinality(roles'[DEFAULT_ADMIN_ROLE]) /\ adminCount' \in Nat
  <1> DEFINE H == roles[DEFAULT_ADMIN_ROLE]
  <1>1. /\ adminCount = Cardinality(H) /\ adminCount \in Nat /\ IsFiniteSet(H)
    BY RolesAssumption, HoldersFinite DEF RInv, AdminCountExact, RolesTypeOK
  <1>2. CASE role = DEFAULT_ADMIN_ROLE
    <2>1. roles'[DEFAULT_ADMIN_ROLE] = H \ {account}
      BY <1>2, RolesAssumption DEF RemoveRole, RInv, RolesTypeOK
    <2>2. CASE account \in H
      <3>1. /\ Cardinality(H \ {account}) = Cardinality(H) - 1
            /\ Cardinality(H \ {account}) \in Nat
        BY <1>1, <2>2, FS_RemoveElement, FS_CardinalityType
      <3> QED
        BY <1>1, <1>2, <2>1, <2>2, <3>1 DEF RemoveRole, HasRole
    <2>3. CASE account \notin H
      <3>1. H \ {account} = H
        BY <2>3
      <3> QED
        BY <1>1, <1>2, <2>1, <2>3, <3>1 DEF RemoveRole, HasRole
    <2> QED
      BY <2>2, <2>3
  <1>3. CASE role # DEFAULT_ADMIN_ROLE
    BY <1>1, <1>3, RolesAssumption DEF RemoveRole, RInv, RolesTypeOK
  <1> QED
    BY <1>2, <1>3

(* A sole admin is the only member of the role, not just the only counted. *)
LEMMA SoleAdminIsAlone ==
  ASSUME RInv, NEW account \in Addresses, IsSoleAdmin(DEFAULT_ADMIN_ROLE, account)
  PROVE  roles[DEFAULT_ADMIN_ROLE] = {account}
  <1> DEFINE H == roles[DEFAULT_ADMIN_ROLE]
  <1>1. IsFiniteSet(H) /\ Cardinality(H) = 1 /\ account \in H
    BY RolesAssumption, HoldersFinite DEF RInv, AdminCountExact, IsSoleAdmin, HasRole
  <1>2. PICK x : H = {x}
    BY <1>1, FS_Singleton
  <1> QED
    BY <1>1, <1>2

(* Every role operation keeps the invariant, one step per operation. *)
LEMMA StepRInv ==
  ASSUME RInv, NEW sender \in Addresses, RoleStep(sender), caller' = sender
  PROVE  RInv'
  <1>1. ASSUME NEW role \in Roles, NEW account \in Addresses,
               GrantRole(sender, role, account)
        PROVE  RInv'
    BY <1>1, GrantKeepsCount DEF GrantRole, RInv, RolesTypeOK, AdminCountExact
  <1>2. ASSUME NEW role \in Roles, NEW account \in Addresses, RemoveRole(role, account)
        PROVE  RInv'
    BY <1>2, RemoveKeepsCount DEF RemoveRole, RInv, RolesTypeOK, AdminCountExact
  <1>3. CASE RenounceLastAdmin(sender)
    <2>1. roles[DEFAULT_ADMIN_ROLE] = {sender}
      BY <1>3, SoleAdminIsAlone DEF RenounceLastAdmin
    <2>2. roles'[DEFAULT_ADMIN_ROLE] = {}
      BY <1>3, <2>1, RolesAssumption DEF RenounceLastAdmin, RInv, RolesTypeOK
    <2> QED
      BY <1>3, <2>2, FS_EmptySet DEF RenounceLastAdmin, RInv, RolesTypeOK, AdminCountExact
  <1>4. ASSUME NEW role \in Roles, NEW newAdminRole \in Roles,
               SetRoleAdmin(sender, role, newAdminRole)
        PROVE  RInv'
    BY <1>4 DEF SetRoleAdmin, RInv, RolesTypeOK, AdminCountExact
  <1>5. CASE CloseBootstrap(sender)
    BY <1>5 DEF CloseBootstrap, RInv, RolesTypeOK, AdminCountExact
  <1> QED
    BY <1>1, <1>2, <1>3, <1>4, <1>5 DEF RoleStep, RevokeRole, RenounceRole

(* The invariant is inductive. *)
LEMMA NextRInv == RInv /\ [RolesNext]_<<roleVars, caller>> => RInv'
  <1> SUFFICES ASSUME RInv, [RolesNext]_<<roleVars, caller>> PROVE RInv'
    OBVIOUS
  <1>1. CASE RolesNext
    BY <1>1, StepRInv DEF RolesNext, Callers, Addresses
  <1>2. CASE UNCHANGED <<roleVars, caller>>
    BY <1>2 DEF roleVars, RInv, RolesTypeOK, AdminCountExact
  <1> QED
    BY <1>1, <1>2

-----------------------------------------------------------------------------
(* Theorems.                                                               *)

(* The inductive invariant holds in every reachable state of access control. *)
THEOREM RolesInductive == RolesSpec => []RInv
  BY InitRInv, NextRInv, PTL DEF RolesSpec

(* The stored admin count is exact in every reachable state.               *)
THEOREM AdminCountCorrect == RolesSpec => []AdminCountExact
  BY RolesInductive, PTL DEF RInv

(* The step that leaves a token adminless is its sole admin's own. *)
LEMMA LastAdminStep ==
  ASSUME RInv, [RolesNext]_<<roleVars, caller>>, adminCount > 0, adminCount' = 0
  PROVE  /\ roles[DEFAULT_ADMIN_ROLE] = {caller'}
         /\ roles'[DEFAULT_ADMIN_ROLE] = {}
  <1>0. adminCount \in Nat
    BY DEF RInv, RolesTypeOK
  <1>1. PICK sender \in Addresses : RoleStep(sender) /\ caller' = sender
    BY <1>0 DEF RolesNext, Callers, Addresses, roleVars
  <1>2. ASSUME NEW role \in Roles, NEW account \in Addresses,
               GrantRole(sender, role, account)
        PROVE  FALSE
    BY <1>0, <1>2 DEF GrantRole
  <1>3. ASSUME NEW role \in Roles, NEW account \in Addresses, RemoveRole(role, account),
               ~IsSoleAdmin(role, account)
        PROVE  FALSE
    BY <1>0, <1>3 DEF RemoveRole, IsSoleAdmin, HasRole
  <1>4. RenounceLastAdmin(sender)
    BY <1>0, <1>1, <1>2, <1>3
    DEF RoleStep, RevokeRole, RenounceRole, SetRoleAdmin, CloseBootstrap
  <1>5. roles[DEFAULT_ADMIN_ROLE] = {sender}
    BY <1>4, SoleAdminIsAlone DEF RenounceLastAdmin
  <1> QED
    BY <1>1, <1>4, <1>5, RolesAssumption DEF RenounceLastAdmin, RInv, RolesTypeOK

(* Only the sole admin, for itself, can leave a token without an admin.    *)
THEOREM LastAdminCorrect == RolesSpec => LastAdminLeavesByItself
  <1>1. RInv /\ [RolesNext]_<<roleVars, caller>> =>
          ((adminCount > 0 /\ adminCount' = 0) =>
             /\ roles[DEFAULT_ADMIN_ROLE] = {caller'}
             /\ roles'[DEFAULT_ADMIN_ROLE] = {})
    BY LastAdminStep
  <1> QED
    BY <1>1, RolesInductive, PTL DEF RolesSpec, LastAdminLeavesByItself

(* After the creation nobody is privileged: a role guard means a role.     *)
LEMMA CallersHoldRoles ==
  ASSUME initialized, NEW sender \in Callers, NEW role \in Roles,
         RequireRoleAdmin(sender, role)
  PROVE  adminCount # 0 /\ HasRole(roleAdmins[role], sender)
  BY RolesAssumption DEF Callers, RequireRoleAdmin, IsPrivileged

(* Without an admin the only role operation left is a renunciation.        *)
LEMMA AdminlessStep ==
  ASSUME RInv, [RolesNext]_<<roleVars, caller>>, initialized, adminCount = 0
  PROVE  /\ adminCount' = 0
         /\ roleAdmins' = roleAdmins
         /\ \A r \in Roles : /\ roles'[r] \subseteq roles[r]
                             /\ roles[r] \ roles'[r] \subseteq {caller'}
  <1>1. roles[DEFAULT_ADMIN_ROLE] = {}
    BY RolesAssumption, HoldersFinite, FS_EmptySet DEF RInv, AdminCountExact
  <1>2. CASE UNCHANGED <<roleVars, caller>>
    BY <1>2 DEF roleVars
  <1>3. CASE RolesNext
    <2>1. PICK sender \in Callers : RoleStep(sender) /\ caller' = sender
      BY <1>3 DEF RolesNext
    <2>2. \A role \in Roles : ~RequireRoleAdmin(sender, role)
      BY CallersHoldRoles
    <2>3. ASSUME NEW role \in Roles, NEW account, NEW newAdminRole \in Roles
          PROVE  /\ ~GrantRole(sender, role, account)
                 /\ ~RevokeRole(sender, role, account)
                 /\ ~SetRoleAdmin(sender, role, newAdminRole)
      BY <2>2 DEF GrantRole, RevokeRole, SetRoleAdmin
    <2>4. ~RenounceLastAdmin(sender) /\ ~CloseBootstrap(sender)
      BY DEF RenounceLastAdmin, IsSoleAdmin, CloseBootstrap
    <2>5. \E role \in Roles : RenounceRole(sender, role)
      BY <2>1, <2>3, <2>4, RolesAssumption DEF RoleStep
    <2>6. PICK role \in Roles : RemoveRole(role, sender)
      BY <2>5 DEF RenounceRole
    <2> QED
      BY <1>1, <2>1, <2>6 DEF RemoveRole, HasRole, RInv, RolesTypeOK
  <1> QED
    BY <1>2, <1>3

(* A token without an admin stays so, and its roles only wear off.         *)
THEOREM AdminlessForever == RolesSpec => AdminlessIsForever
  <1>1. RInv /\ [RolesNext]_<<roleVars, caller>> =>
          ((initialized /\ adminCount = 0) =>
             /\ adminCount' = 0
             /\ roleAdmins' = roleAdmins
             /\ \A r \in Roles : /\ roles'[r] \subseteq roles[r]
                                 /\ roles[r] \ roles'[r] \subseteq {caller'})
    BY AdminlessStep
  <1> QED
    BY <1>1, RolesInductive, PTL DEF RolesSpec, AdminlessIsForever

(* Nobody can act as an admin of a retired role, its admins being retired. *)
LEMMA RetiredStep ==
  ASSUME RInv, [RolesNext]_<<roleVars, caller>>, NEW R \in SUBSET Roles,
         initialized, Retired(R)
  PROVE  Retired(R)'
  <1>1. CASE UNCHANGED <<roleVars, caller>>
    BY <1>1 DEF roleVars, Retired
  <1>2. CASE RolesNext
    <2>1. PICK sender \in Callers : RoleStep(sender)
      BY <1>2 DEF RolesNext
    <2>2. \A role \in R : ~RequireRoleAdmin(sender, role)
      BY CallersHoldRoles DEF Retired, HasRole
    <2>3. ASSUME NEW role \in Roles, NEW account, RemoveRole(role, account)
          PROVE  Retired(R)'
      BY <2>3 DEF RemoveRole, Retired, RInv, RolesTypeOK
    <2>4. ASSUME NEW role \in Roles, NEW account, GrantRole(sender, role, account)
          PROVE  Retired(R)'
      BY <2>2, <2>4 DEF GrantRole, Retired, RInv, RolesTypeOK
    <2>5. CASE RenounceLastAdmin(sender)
      BY <2>5 DEF RenounceLastAdmin, Retired, RInv, RolesTypeOK
    <2>6. ASSUME NEW role \in Roles, NEW newAdminRole \in Roles,
                 SetRoleAdmin(sender, role, newAdminRole)
          PROVE  Retired(R)'
      BY <2>2, <2>6 DEF SetRoleAdmin, Retired, RInv, RolesTypeOK
    <2> QED
      BY <2>1, <2>3, <2>4, <2>5, <2>6
      DEF RoleStep, RevokeRole, RenounceRole, CloseBootstrap
  <1> QED
    BY <1>1, <1>2

(* What is retired stays retired, for a set of roles of any size.          *)
THEOREM RetiredForever == RolesSpec => RetiredRolesStayRetired
  <1>1. RInv /\ [RolesNext]_<<roleVars, caller>> =>
          \A R \in SUBSET {r \in Roles : roles[r] = {}} :
            (initialized /\ Retired(R)) => Retired(R)'
    BY RetiredStep
  <1> QED
    BY <1>1, RolesInductive, PTL DEF RolesSpec, RetiredRolesStayRetired

-----------------------------------------------------------------------------
(* Counting units.                                                         *)

UnitsOf(bal) == UNION {{h} \X (1..bal[h]) : h \in Holders}

Supply(bal) == Cardinality(UnitsOf(bal))

Words == [Holders -> UInt]

(* The units m + 1 to m + n of one holder. *)
Block(h, m, n) == {h} \X (m + 1..m + n)

Credited(bal, h, n) == [bal EXCEPT ![h] = @ + n]
Debited(bal, h, n)  == [bal EXCEPT ![h] = @ - n]

(* A number that fits in a word does not wrap, and what wraps fits.        *)
LEMMA WrapFits ==
  ASSUME NEW n \in Int
  PROVE  Wrap(n) \in UInt /\ (n \in UInt => Wrap(n) = n)
  BY TokenAssumption DEF Wrap, UInt

(* There are finitely many units, so their number is a natural.            *)
LEMMA UnitsFinite ==
  ASSUME NEW bal \in Words
  PROVE  IsFiniteSet(UnitsOf(bal)) /\ Supply(bal) \in Nat
  <1>1. IsFiniteSet(Addresses)
    BY RolesAssumption, FS_AddElement DEF Addresses
  <1>2. IsFiniteSet({Token, ZeroAddress})
    <2>1. IsFiniteSet({Token}) /\ IsFiniteSet({ZeroAddress})
      BY FS_Singleton
    <2>2. IsFiniteSet({Token} \union {ZeroAddress})
      BY <2>1, FS_Union
    <2>3. {Token, ZeroAddress} = {Token} \union {ZeroAddress}
      OBVIOUS
    <2> QED
      BY <2>2, <2>3
  <1>3. IsFiniteSet(Holders)
    BY <1>1, <1>2, FS_Union DEF Holders
  <1>4. IsFiniteSet(Holders \X UInt)
    <2>1. IsFiniteSet(UInt)
      BY FS_Interval, TokenAssumption DEF UInt
    <2> QED
      BY <1>3, <2>1, FS_Product
  <1>5. ASSUME NEW h \in Holders PROVE {h} \X (1..bal[h]) \subseteq Holders \X UInt
    <2>1. bal[h] \in UInt
      BY DEF Words
    <2>2. 1..bal[h] \subseteq UInt
      BY <2>1, TokenAssumption DEF UInt
    <2> QED
      BY <2>2
  <1>6. UnitsOf(bal) \subseteq Holders \X UInt
    BY <1>5 DEF UnitsOf
  <1> QED
    BY <1>4, <1>6, FS_Subset, FS_CardinalityType DEF Supply

(* A block of units of one holder.                                         *)
LEMMA BlockSize ==
  ASSUME NEW h, NEW m \in Nat, NEW n \in Nat
  PROVE  IsFiniteSet(Block(h, m, n)) /\ Cardinality(Block(h, m, n)) = n
  <1>1. IsFiniteSet({h}) /\ Cardinality({h}) = 1
    BY FS_Singleton
  <1>2. IsFiniteSet(m + 1..m + n) /\ Cardinality(m + 1..m + n) = n
    BY FS_Interval
  <1> QED
    BY <1>1, <1>2, FS_Product DEF Block

(* A credit adds as many units as it says.                                 *)
LEMMA CreditAdds ==
  ASSUME NEW bal \in Words, NEW h \in Holders, NEW n \in Nat, Credited(bal, h, n) \in Words
  PROVE  Supply(Credited(bal, h, n)) = Supply(bal) + n
  <1> DEFINE new == Credited(bal, h, n)
  <1> DEFINE block == Block(h, bal[h], n)
  <1>1. bal[h] \in Nat /\ new[h] = bal[h] + n
    BY TokenAssumption DEF Credited, Words, UInt
  <1>2. IsFiniteSet(block) /\ Cardinality(block) = n
    BY <1>1, BlockSize
  <1>3. 1..new[h] = (1..bal[h]) \union (bal[h] + 1..bal[h] + n)
    BY <1>1
  <1>4. ASSUME NEW g \in Holders, g # h PROVE new[g] = bal[g]
    BY <1>4 DEF Credited, Words
  <1> HIDE DEF new
  <1>5. UnitsOf(new) = UnitsOf(bal) \union block
    <2>1. ASSUME NEW u \in UnitsOf(new) PROVE u \in UnitsOf(bal) \union block
      <3>1. PICK g \in Holders : u \in {g} \X (1..new[g])
        BY <2>1 DEF UnitsOf
      <3>2. u \in {g} \X (1..bal[g]) \/ u \in block
        BY <1>3, <1>4, <3>1 DEF Block
      <3> QED
        BY <3>2 DEF UnitsOf
    <2>2. ASSUME NEW g \in Holders PROVE {g} \X (1..bal[g]) \subseteq {g} \X (1..new[g])
      BY <1>3, <1>4
    <2>3. block \subseteq {h} \X (1..new[h])
      BY <1>3 DEF Block
    <2>4. UnitsOf(bal) \subseteq UnitsOf(new)
      BY <2>2 DEF UnitsOf
    <2>5. block \subseteq UnitsOf(new)
      BY <2>3 DEF UnitsOf
    <2> QED
      BY <2>1, <2>4, <2>5
  <1>6. UnitsOf(bal) \intersect block = {}
    <2> SUFFICES ASSUME NEW u, u \in UnitsOf(bal), u \in block PROVE FALSE
      OBVIOUS
    <2>1. PICK g \in Holders : u \in {g} \X (1..bal[g])
      BY DEF UnitsOf
    <2>2. g = h /\ u[2] \in 1..bal[h] /\ u[2] \in bal[h] + 1..bal[h] + n
      BY <2>1 DEF Block
    <2> QED
      BY <1>1, <2>2
  <1>7. Cardinality(UnitsOf(bal) \union block) = Supply(bal) + n - Cardinality({})
    BY <1>2, <1>6, UnitsFinite, FS_Union DEF Supply
  <1>8. Cardinality({}) = 0 /\ Supply(bal) \in Nat
    BY UnitsFinite, FS_EmptySet
  <1>9. Cardinality(UnitsOf(bal) \union block) = Supply(bal) + n
    BY <1>7, <1>8
  <1> QED
    BY <1>5, <1>9 DEF Supply, new

(* Nobody holds more than there is.                                        *)
LEMMA HoldsAtMost ==
  ASSUME NEW bal \in Words, NEW h \in Holders
  PROVE  bal[h] \in Nat /\ bal[h] <= Supply(bal)
  <1>1. bal[h] \in Nat
    BY TokenAssumption DEF Words, UInt
  <1>2. Cardinality({h} \X (1..bal[h])) = bal[h]
    <2>1. {h} \X (1..bal[h]) = Block(h, 0, bal[h])
      BY <1>1 DEF Block
    <2> QED
      BY <1>1, <2>1, BlockSize
  <1>3. {h} \X (1..bal[h]) \subseteq UnitsOf(bal)
    BY DEF UnitsOf
  <1> QED
    BY <1>1, <1>2, <1>3, UnitsFinite, FS_Subset DEF Supply

(* A debit takes away as many units as it says.                            *)
LEMMA DebitTakes ==
  ASSUME NEW bal \in Words, NEW h \in Holders, NEW n \in Nat, n <= bal[h]
  PROVE  /\ Debited(bal, h, n) \in Words
         /\ Supply(Debited(bal, h, n)) = Supply(bal) - n
  <1> DEFINE new == Debited(bal, h, n)
  <1>1. bal[h] \in UInt /\ bal[h] - n \in UInt
    BY TokenAssumption DEF Words, UInt
  <1>2. new \in Words
    BY <1>1 DEF Debited, Words
  <1>3. bal = Credited(new, h, n)
    <2>1. new[h] + n = bal[h]
      BY <1>1, TokenAssumption DEF Debited, Words, UInt
    <2> QED
      BY <2>1 DEF Debited, Credited, Words
  <1> HIDE DEF new
  <1>4. Supply(Credited(new, h, n)) = Supply(new) + n
    BY <1>2, <1>3, CreditAdds
  <1>5. Supply(new) = Supply(bal) - n
    BY <1>2, <1>3, <1>4, UnitsFinite
  <1> QED
    BY <1>2, <1>5 DEF new
-----------------------------------------------------------------------------
(* The invariant.                                                          *)

(* What is known of the units; the types are a conjunct of their own. *)
Money == balances \in Words /\ totalSupply = Supply(balances) /\ totalSupply <= MAX_SUPPLY_CAP

TInv == B20TypeOK /\ AdminCountExact /\ SupplyConserved /\ NothingStuck /\ LanesAreKnown

(* What a move comes to: one balance goes down, one goes up, none wraps.   *)
Moved(from, to, amount) ==
  IF from = to THEN balances' = balances
  ELSE /\ balances'[from] = balances[from] - amount
       /\ balances'[to] = balances[to] + amount
       /\ \A h \in Holders \ {from, to} : balances'[h] = balances[h]

(* Moving units conserves them, a self-transfer included.                  *)
LEMMA MoveConserves ==
  ASSUME Money, NEW from \in Holders, NEW to \in Holders, NEW amount \in UInt,
         MoveBalance(from, to, amount)
  PROVE  Money' /\ Moved(from, to, amount) /\ totalSupply' = totalSupply
  <1> DEFINE D == Debited(balances, from, amount)
  <1>1. amount \in Nat /\ amount <= balances[from] /\ totalSupply' = totalSupply
    BY TokenAssumption DEF MoveBalance, UInt
  <1>2. D \in Words /\ Supply(D) = Supply(balances) - amount
    BY <1>1, DebitTakes DEF Money
  <1>3. D[to] \in Nat /\ D[to] <= Supply(D) /\ Supply(balances) \in Nat
    BY <1>2, HoldsAtMost, UnitsFinite DEF Money
  <1>4. D[to] + amount \in UInt
    BY <1>1, <1>2, <1>3, TokenAssumption DEF Money, UInt
  <1>5. Wrap(D[to] + amount) = D[to] + amount
    BY <1>1, <1>3, <1>4, WrapFits
  <1>6. balances' = Credited(D, to, amount)
    BY <1>5 DEF MoveBalance, Debited, Credited, Money, Words
  <1>7. Credited(D, to, amount) \in Words
    BY <1>2, <1>4 DEF Credited, Words
  <1>8. Supply(balances') = Supply(balances)
    BY <1>1, <1>2, <1>3, <1>6, <1>7, CreditAdds
  <1>9. Moved(from, to, amount)
    BY <1>1, <1>6, TokenAssumption DEF Moved, Debited, Credited, Money, Words, UInt
  <1> QED
    BY <1>1, <1>6, <1>7, <1>8, <1>9 DEF Money

(* A mint adds what it says to the supply and to one balance.              *)
LEMMA MintConserves ==
  ASSUME Money, NEW sender, NEW to \in Holders, NEW amount \in UInt,
         supplyCap \in 0..MAX_SUPPLY_CAP, Mint(sender, to, amount)
  PROVE  /\ Money' /\ totalSupply' = totalSupply + amount /\ totalSupply' <= supplyCap
         /\ balances'[to] = balances[to] + amount
         /\ \A h \in Holders \ {to} : balances'[h] = balances[h]
  <1>1. /\ amount \in Nat /\ balances[to] \in Nat
        /\ balances[to] <= Supply(balances) /\ Supply(balances) \in Nat
    BY HoldsAtMost, UnitsFinite, TokenAssumption DEF Money, UInt
  <1>2. totalSupply' = totalSupply + amount /\ totalSupply' <= supplyCap
    BY DEF Mint
  <1>3. balances[to] + amount \in UInt
    BY <1>1, <1>2, TokenAssumption DEF Money, UInt
  <1>4. Wrap(balances[to] + amount) = balances[to] + amount
    BY <1>1, <1>3, WrapFits
  <1>5. balances' = Credited(balances, to, amount)
    BY <1>4 DEF Mint, Credited
  <1>6. balances' \in Words
    BY <1>3, <1>5 DEF Credited, Money, Words
  <1>7. Supply(balances') = Supply(balances) + amount
    BY <1>1, <1>5, <1>6, CreditAdds DEF Money
  <1>8. Money'
    BY <1>1, <1>2, <1>6, <1>7, TokenAssumption DEF Money
  <1>9. /\ balances'[to] = balances[to] + amount
        /\ \A h \in Holders \ {to} : balances'[h] = balances[h]
    BY <1>5 DEF Credited, Money, Words
  <1> QED
    BY <1>2, <1>8, <1>9

(* A burn takes what it says from the supply and from one balance.         *)
LEMMA BurnConserves ==
  ASSUME Money, NEW from \in Holders, NEW amount \in UInt, BurnRaw(from, amount)
  PROVE  /\ Money' /\ totalSupply' = totalSupply - amount
         /\ balances'[from] = balances[from] - amount
         /\ \A h \in Holders \ {from} : balances'[h] = balances[h]
  <1>1. /\ amount \in Nat /\ amount <= balances[from] /\ balances[from] \in Nat
        /\ balances[from] <= Supply(balances) /\ Supply(balances) \in Nat
    BY HoldsAtMost, UnitsFinite, TokenAssumption DEF Money, BurnRaw, UInt
  <1>2. totalSupply - amount \in UInt
    BY <1>1, TokenAssumption DEF Money, UInt
  <1>3. totalSupply' = totalSupply - amount
    BY <1>1, <1>2, WrapFits, TokenAssumption DEF BurnRaw, UInt
  <1>4. balances' = Debited(balances, from, amount)
    BY DEF BurnRaw, Debited
  <1>5. balances' \in Words /\ Supply(balances') = Supply(balances) - amount
    BY <1>1, <1>4, DebitTakes DEF Money
  <1>6. Money'
    BY <1>1, <1>3, <1>5, TokenAssumption DEF Money
  <1>7. /\ balances'[from] = balances[from] - amount
        /\ \A h \in Holders \ {from} : balances'[h] = balances[h]
    BY <1>4 DEF Debited, Money, Words
  <1> QED
    BY <1>3, <1>6, <1>7

(* What the invariant says of the units.                                   *)
LEMMA TInvMoney ==
  ASSUME TInv
  PROVE  Money /\ totalSupply <= supplyCap /\ supplyCap \in 0..MAX_SUPPLY_CAP
  <1>1. balances \in Words /\ totalSupply = Supply(balances) /\ totalSupply \in Nat
    BY UnitsFinite
    DEF TInv, B20TypeOK, Words, SupplyConserved, Supply, Units, UnitsOf
  <1>2. totalSupply <= supplyCap /\ supplyCap \in 0..MAX_SUPPLY_CAP
    BY DEF TInv, B20TypeOK, SupplyConserved
  <1> QED
    BY <1>1, <1>2, TokenAssumption DEF Money

(* Every balance is a number.                                              *)
LEMMA BalancesAreNumbers ==
  ASSUME TInv
  PROVE  \A h \in Holders : balances[h] \in Nat
  BY TInvMoney, HoldsAtMost DEF Money

(* The invariant of the units, from their conservation.                    *)
LEMMA UnitsKept ==
  ASSUME Money', (totalSupply <= supplyCap)', (supplyCap \in 0..MAX_SUPPLY_CAP)',
         NothingStuck', (allowances \in [Holders -> Words])'
  PROVE  /\ SupplyConserved' /\ NothingStuck'
         /\ totalSupply' \in UInt /\ balances' \in [Holders -> UInt]
         /\ allowances' \in [Holders -> [Holders -> UInt]]
  <1>1. totalSupply' \in Nat /\ totalSupply' <= MAX_SUPPLY_CAP
    BY UnitsFinite DEF Money
  <1>2. totalSupply' \in UInt
    BY <1>1, TokenAssumption DEF UInt
  <1>3. SupplyConserved'
    BY DEF Money, SupplyConserved, Supply, Units, UnitsOf
  <1> QED
    BY <1>2, <1>3 DEF Money, Words
-----------------------------------------------------------------------------
(* The steps.                                                              *)

(* What a step on balances and allowances has to keep.                     *)
MoneyKept ==
  /\ Money' /\ (totalSupply <= supplyCap)' /\ NothingStuck'
  /\ allowances' \in [Holders -> Words]
  /\ UNCHANGED ruleVars

(* A move to an ordinary account keeps everything.                         *)
LEMMA MoveKeeps ==
  ASSUME TInv, NEW from \in Holders, NEW to \in Holders, NEW amount \in UInt,
         MoveBalance(from, to, amount), ~IsContractAddressOrZero(to),
         allowances' \in [Holders -> Words], UNCHANGED ruleVars
  PROVE  MoneyKept
  <1>1. Money /\ totalSupply <= supplyCap
    BY TInvMoney
  <1>2. Money' /\ Moved(from, to, amount) /\ totalSupply' = totalSupply
    BY <1>1, MoveConserves
  <1>3. amount \in Nat /\ amount <= balances[from] /\ \A h \in Holders : balances[h] \in Nat
    BY BalancesAreNumbers, TokenAssumption DEF MoveBalance, UInt
  <1>4. ASSUME NEW h \in {Token, ZeroAddress} PROVE balances'[h] = 0
    <2>1. h \in Holders /\ h # to /\ balances[h] = 0
      BY DEF Holders, IsContractAddressOrZero, TInv, NothingStuck
    <2> QED
      BY <1>2, <1>3, <2>1 DEF Moved
  <1> QED
    BY <1>1, <1>2, <1>4 DEF MoneyKept, NothingStuck, ruleVars

(* An allowance that is consumed remains a word.                           *)
LEMMA AllowanceKept ==
  ASSUME TInv, NEW owner \in Holders, NEW spender \in Holders, NEW amount \in UInt,
         ConsumeAllowance(owner, spender, amount)
  PROVE  allowances' \in [Holders -> Words]
  <1>1. allowances \in [Holders -> Words] /\ allowances[owner][spender] \in UInt
    BY DEF TInv, B20TypeOK, Words
  <1>2. CASE UNCHANGED allowances
    BY <1>1, <1>2
  <1>3. CASE /\ amount <= allowances[owner][spender]
             /\ allowances' = [allowances EXCEPT ![owner][spender] = @ - amount]
    <2>1. allowances[owner][spender] - amount \in UInt
      BY <1>1, <1>3, TokenAssumption DEF UInt
    <2> QED
      BY <1>1, <1>3, <2>1 DEF Words
  <1> QED
    BY <1>2, <1>3 DEF ConsumeAllowance

(* A burn keeps everything, whoever's units it takes.                      *)
LEMMA BurnKeeps ==
  ASSUME TInv, NEW from \in Holders, NEW amount \in UInt, BurnRaw(from, amount),
         UNCHANGED ruleVars
  PROVE  MoneyKept
  <1>1. /\ Money /\ totalSupply <= supplyCap /\ supplyCap \in Nat
        /\ \A h \in Holders : balances[h] \in Nat
    BY TInvMoney, BalancesAreNumbers
  <1>2. /\ Money' /\ totalSupply' = totalSupply - amount
        /\ balances'[from] = balances[from] - amount
        /\ \A h \in Holders \ {from} : balances'[h] = balances[h]
    BY <1>1, BurnConserves
  <1>3. amount \in Nat /\ amount <= balances[from] /\ allowances' = allowances
    BY TokenAssumption DEF BurnRaw, UInt
  <1>4. ASSUME NEW h \in {Token, ZeroAddress} PROVE balances'[h] = 0
    <2>1. h \in Holders /\ balances[h] = 0
      BY DEF Holders, TInv, NothingStuck
    <2> QED
      BY <1>1, <1>2, <1>3, <2>1
  <1>5. totalSupply \in Nat
    BY <1>1, UnitsFinite DEF Money
  <1>6. supplyCap' = supplyCap
    BY DEF ruleVars
  <1>7. totalSupply' <= supplyCap'
    BY <1>1, <1>2, <1>3, <1>5, <1>6
  <1>8. NothingStuck'
    BY <1>4 DEF NothingStuck
  <1> QED
    BY <1>2, <1>3, <1>7, <1>8 DEF MoneyKept, TInv, B20TypeOK, Words

(* Every step on balances and allowances, one case per operation.          *)
LEMMA MoneyStepKeeps ==
  ASSUME TInv, NEW sender \in Addresses, MoneyStep(sender)
  PROVE  MoneyKept
  <1>1. PICK amount \in UInt :
          \/ \E to \in Holders : Transfer(sender, to, amount) \/ Mint(sender, to, amount)
          \/ \E from, to \in Holders : TransferFrom(sender, from, to, amount)
                                        \/ Seize(sender, from, to, amount)
          \/ \E spender \in Holders : Approve(sender, spender, amount)
          \/ \E from \in Holders : BurnBlocked(sender, from, amount)
          \/ Burn(sender, amount)
    BY TokenAssumption DEF MoneyStep, UInt
  <1>2. sender \in Holders /\ allowances \in [Holders -> Words]
    BY DEF Holders, TInv, B20TypeOK, Words
  <1>3. ASSUME NEW to \in Holders, Transfer(sender, to, amount) PROVE MoneyKept
    BY <1>2, <1>3, MoveKeeps DEF Transfer
  <1>4. ASSUME NEW from \in Holders, NEW to \in Holders, TransferFrom(sender, from, to, amount)
        PROVE  MoneyKept
    BY <1>2, <1>4, MoveKeeps, AllowanceKept DEF TransferFrom
  <1>5. ASSUME NEW from \in Holders, NEW to \in Holders, Seize(sender, from, to, amount)
        PROVE  MoneyKept
    BY <1>2, <1>5, MoveKeeps DEF Seize
  <1>6. ASSUME NEW from \in Holders, BurnBlocked(sender, from, amount) PROVE MoneyKept
    BY <1>6, BurnKeeps DEF BurnBlocked
  <1>7. CASE Burn(sender, amount)
    BY <1>2, <1>7, BurnKeeps DEF Burn
  <1>8. ASSUME NEW to \in Holders, Mint(sender, to, amount) PROVE MoneyKept
    <2>1. /\ Money' /\ totalSupply' <= supplyCap
          /\ \A h \in Holders \ {to} : balances'[h] = balances[h]
      BY <1>8, TInvMoney, MintConserves
    <2>2. to # Token /\ to # ZeroAddress /\ allowances' = allowances /\ UNCHANGED ruleVars
      BY <1>8 DEF Mint, IsContractAddressOrZero
    <2>3. NothingStuck'
      BY <2>1, <2>2 DEF TInv, NothingStuck, Holders
    <2> QED
      BY <1>2, <2>1, <2>2, <2>3 DEF MoneyKept, ruleVars
  <1>9. ASSUME NEW spender \in Holders, Approve(sender, spender, amount) PROVE MoneyKept
    <2>1. UNCHANGED <<totalSupply, balances>> /\ UNCHANGED ruleVars
      BY <1>9 DEF Approve
    <2>2. allowances' \in [Holders -> Words]
      BY <1>2, <1>9 DEF Approve, Words
    <2> QED
      BY <2>1, <2>2, TInvMoney DEF MoneyKept, Money, TInv, NothingStuck, ruleVars
  <1> QED
    BY <1>1, <1>3, <1>4, <1>5, <1>6, <1>7, <1>8, <1>9

(* What a step on the rules has to keep.                                   *)
RulesKept ==
  /\ policyIds' \in [Scopes -> PolicyIds]
  /\ \A scope \in Scopes : policyIds'[scope] \in known
  /\ paused' \subseteq Features
  /\ supplyCap' \in 0..MAX_SUPPLY_CAP /\ totalSupply <= supplyCap'

(* The rules as they are have the shape they keep.                         *)
LEMMA RulesOK ==
  ASSUME TInv
  PROVE  /\ policyIds \in [Scopes -> PolicyIds] /\ \A scope \in Scopes : policyIds[scope] \in known
         /\ paused \subseteq Features
         /\ supplyCap \in 0..MAX_SUPPLY_CAP /\ totalSupply <= supplyCap
  BY TInvMoney DEF TInv, B20TypeOK, LanesAreKnown

(* Every step on the rules, one case per operation.                        *)
LEMMA RuleStepKeeps ==
  ASSUME TInv, NEW sender \in Addresses, RuleStep(sender)
  PROVE  RulesKept /\ UNCHANGED moneyVars
  <1>1. ASSUME NEW features \in SUBSET Features,
               Pause(sender, features) \/ Unpause(sender, features)
        PROVE  RulesKept /\ UNCHANGED moneyVars
    BY <1>1, RulesOK DEF Pause, Unpause, RulesKept
  <1>2. ASSUME NEW scope \in Scopes, NEW id \in PolicyIds, UpdatePolicy(sender, scope, id)
        PROVE  RulesKept /\ UNCHANGED moneyVars
    BY <1>2, RulesOK DEF UpdatePolicy, RulesKept
  <1>3. ASSUME NEW cap \in Amounts, UpdateSupplyCap(sender, cap)
        PROVE  RulesKept /\ UNCHANGED moneyVars
    <2>1. cap \in Nat
      BY TokenAssumption
    <2>2. cap \in 0..MAX_SUPPLY_CAP
      BY <1>3, <2>1, TokenAssumption DEF UpdateSupplyCap
    <2> QED
      BY <1>3, <2>2, RulesOK DEF UpdateSupplyCap, RulesKept
  <1> QED
    BY <1>1, <1>2, <1>3 DEF RuleStep

(* A policy id and its inverse come into being together.                   *)
LEMMA OracleKeeps ==
  ASSUME OracleTypeOK, OracleNext
  PROVE  OracleTypeOK' /\ known \subseteq known'
  <1>1. CASE ChangeVerdicts
    BY <1>1 DEF ChangeVerdicts, OracleTypeOK
  <1>2. CASE Seal
    BY <1>2 DEF Seal, OracleTypeOK
  <1>3. ASSUME NEW id \in PolicyIds \ known, NEW authorized \in SUBSET Subjects,
               AddPolicy(id, authorized)
        PROVE  OracleTypeOK' /\ known \subseteq known'
    <2>1. /\ Inverted(id) \in PolicyIds \ {id} /\ Inverted(Inverted(id)) = id
          /\ known' = known \union {id, Inverted(id)} /\ sealed' = sealed
      BY <1>3, OracleAssumption DEF AddPolicy
    <2>2. Inverted(id) \notin known
      BY <2>1 DEF OracleTypeOK
    <2>3. /\ verdict'[id] = authorized
          /\ verdict'[Inverted(id)] = Subjects \ authorized
          /\ \A i \in known : verdict'[i] = verdict[i]
          /\ DOMAIN verdict' = known' /\ verdict' = [i \in known' |-> verdict'[i]]
      BY <1>3, <2>1, <2>2 DEF AddPolicy
    <2>4. verdict' \in [known' -> SUBSET Subjects]
      BY <2>1, <2>3 DEF OracleTypeOK
    <2>5. \A i \in known' : Inverted(i) \in known'
      BY <2>1 DEF OracleTypeOK
    <2>6. Complementary(verdict')
      <3> SUFFICES ASSUME NEW i \in known'
                   PROVE  verdict'[Inverted(i)] = Subjects \ verdict'[i]
        BY <2>3 DEF Complementary
      <3>1. CASE i \in known
        BY <2>3, <3>1 DEF OracleTypeOK, Complementary
      <3>2. CASE i = id
        BY <2>3, <3>2
      <3>3. CASE i = Inverted(id)
        BY <2>1, <2>3, <3>3
      <3> QED
        BY <2>1, <3>1, <3>2, <3>3
    <2> QED
      BY <2>1, <2>4, <2>5, <2>6 DEF OracleTypeOK
  <1> QED
    BY <1>1, <1>2, <1>3 DEF OracleNext

(* It holds of a planted token.                                            *)
LEMMA InitTInv == B20Init => TInv
  <1> SUFFICES ASSUME B20Init PROVE TInv
    OBVIOUS
  <1>1. RolesTypeOK /\ AdminCountExact
    BY InitRInv DEF B20Init, RInv
  <1>2. OracleTypeOK /\ AlwaysAllow \in known
    BY DEF B20Init, OracleReachable, OracleTypeOK, Builtins
  <1>3. B20TypeOK
    <2>1. 0 \in UInt /\ MAX_SUPPLY_CAP \in 0..MAX_SUPPLY_CAP
      BY TokenAssumption DEF UInt
    <2> QED
      BY <1>1, <1>2, <2>1, OracleAssumption DEF B20Init, TokenInit, B20TypeOK
  <1>4. LanesAreKnown
    BY <1>2 DEF B20Init, TokenInit, LanesAreKnown
  <1>5. NothingStuck
    BY DEF B20Init, TokenInit, NothingStuck, Holders
  <1>6. SupplyConserved
    <2>1. \A h \in Holders : balances[h] = 0
      BY DEF B20Init, TokenInit
    <2>2. Units = {}
      BY <2>1 DEF Units
    <2>3. totalSupply = 0 /\ supplyCap = MAX_SUPPLY_CAP
      BY DEF B20Init, TokenInit
    <2> QED
      BY <2>2, <2>3, FS_EmptySet, TokenAssumption DEF SupplyConserved
  <1> QED
    BY <1>1, <1>3, <1>4, <1>5, <1>6 DEF TInv

(* A call of the token keeps the invariant.                                *)
LEMMA CallTInv ==
  ASSUME TInv, NEW sender \in Addresses, TokenCall(sender)
  PROVE  TInv'
  <1>1. caller' = sender /\ UNCHANGED oracleVars
    BY DEF TokenCall
  <1>2. OracleTypeOK' /\ known' = known
    BY <1>1 DEF oracleVars, TInv, B20TypeOK, OracleTypeOK
  <1>3. RInv
    BY DEF TInv, B20TypeOK, RInv
  <1>4. ASSUME UNCHANGED roleVars PROVE RInv'
    BY <1>1, <1>3, <1>4 DEF RInv, RolesTypeOK, AdminCountExact, roleVars
  <1>5. ASSUME MoneyKept, UNCHANGED roleVars PROVE TInv'
    <2>1. /\ policyIds' = policyIds /\ paused' = paused /\ supplyCap' = supplyCap
      BY <1>5 DEF MoneyKept, ruleVars
    <2>2. /\ SupplyConserved' /\ NothingStuck'
          /\ totalSupply' \in UInt /\ balances' \in [Holders -> UInt]
          /\ allowances' \in [Holders -> [Holders -> UInt]]
      BY <1>5, <2>1, RulesOK, UnitsKept DEF MoneyKept
    <2> QED
      BY <1>2, <1>4, <1>5, <2>1, <2>2, RulesOK
      DEF TInv, RInv, B20TypeOK, LanesAreKnown
  <1>6. ASSUME RulesKept, UNCHANGED moneyVars, RInv' PROVE TInv'
    <2>1. totalSupply' = totalSupply /\ balances' = balances /\ allowances' = allowances
      BY <1>6 DEF moneyVars
    <2>2. Money' /\ NothingStuck' /\ allowances' \in [Holders -> Words]
      BY <2>1, TInvMoney DEF Money, TInv, B20TypeOK, NothingStuck, Words
    <2>3. /\ SupplyConserved' /\ NothingStuck'
          /\ totalSupply' \in UInt /\ balances' \in [Holders -> UInt]
          /\ allowances' \in [Holders -> [Holders -> UInt]]
      BY <1>6, <2>1, <2>2, UnitsKept DEF RulesKept
    <2> QED
      BY <1>2, <1>6, <2>3 DEF RulesKept, TInv, RInv, B20TypeOK, LanesAreKnown
  <1>7. CASE MoneyStep(sender) /\ UNCHANGED roleVars
    BY <1>5, <1>7, MoneyStepKeeps
  <1>8. CASE RuleStep(sender) /\ UNCHANGED roleVars
    BY <1>4, <1>6, <1>8, RuleStepKeeps
  <1>9. CASE RoleStep(sender) /\ UNCHANGED <<moneyVars, ruleVars>>
    <2>1. RInv'
      BY <1>1, <1>3, <1>9, StepRInv
    <2>2. RulesKept /\ UNCHANGED moneyVars
      BY <1>9, RulesOK DEF RulesKept, ruleVars
    <2> QED
      BY <1>6, <2>1, <2>2
  <1> QED
    BY <1>7, <1>8, <1>9 DEF TokenCall

(* A step of the registry keeps it, since known ids stay known.            *)
LEMMA RegistryTInv ==
  ASSUME TInv, RegistryStep
  PROVE  TInv'
  <1>1. OracleTypeOK' /\ known \subseteq known'
    BY OracleKeeps DEF RegistryStep, TInv, B20TypeOK
  <1>2. /\ UNCHANGED <<totalSupply, balances, allowances, policyIds, paused, supplyCap>>
        /\ UNCHANGED <<roles, roleAdmins, adminCount, initialized, caller>>
    BY DEF RegistryStep, moneyVars, ruleVars, roleVars
  <1>3. RolesTypeOK' /\ AdminCountExact'
    BY <1>2 DEF TInv, B20TypeOK, RolesTypeOK, AdminCountExact
  <1>4. SupplyConserved' /\ NothingStuck'
    BY <1>2 DEF TInv, SupplyConserved, Units, NothingStuck
  <1>5. LanesAreKnown'
    BY <1>1, <1>2 DEF TInv, LanesAreKnown
  <1>6. B20TypeOK'
    BY <1>1, <1>2, <1>3 DEF TInv, B20TypeOK
  <1> QED
    BY <1>3, <1>4, <1>5, <1>6 DEF TInv

(* The invariant is inductive.                                             *)
LEMMA NextTInv == TInv /\ [B20Next]_vars => TInv'
  <1> SUFFICES ASSUME TInv, [B20Next]_vars PROVE TInv'
    OBVIOUS
  <1>1. ASSUME NEW sender \in Callers, TokenCall(sender) PROVE TInv'
    BY <1>1, CallTInv DEF Callers, Addresses
  <1>2. CASE RegistryStep
    BY <1>2, RegistryTInv
  <1>3. CASE UNCHANGED vars
    <2>1. /\ UNCHANGED <<totalSupply, balances, allowances, policyIds, paused, supplyCap>>
          /\ UNCHANGED <<roles, roleAdmins, adminCount, initialized, caller>>
          /\ UNCHANGED <<known, sealed, verdict>>
      BY <1>3 DEF vars, moneyVars, ruleVars, roleVars, oracleVars
    <2>2. RolesTypeOK' /\ AdminCountExact' /\ OracleTypeOK'
      BY <2>1 DEF TInv, B20TypeOK, RolesTypeOK, AdminCountExact, OracleTypeOK
    <2> QED
      BY <2>1, <2>2
      DEF TInv, B20TypeOK, SupplyConserved, Units, NothingStuck, LanesAreKnown
  <1> QED
    BY <1>1, <1>2, <1>3 DEF B20Next

-----------------------------------------------------------------------------
(* Theorems: invariants.                                                   *)

(* The inductive invariant holds in every reachable state of the token.    *)
THEOREM TokenInductive == B20Spec => []TInv
  BY InitTInv, NextTInv, PTL DEF B20Spec

(***************************************************************************)
(* Type correctness of the token (MockB20) and of what it sees of the      *)
(* registry.                                                               *)
(***************************************************************************)
THEOREM TokenTypeCorrect == B20Spec => []B20TypeOK
  BY TokenInductive, PTL DEF TInv

(***************************************************************************)
(* The supply counts the units held, within the cap, for any number of     *)
(* holders and any width of words: no unchecked addition wraps.            *)
(***************************************************************************)
THEOREM SupplyCorrect == B20Spec => []SupplyConserved
  BY TokenInductive, PTL DEF TInv

(* No operation leaves a unit with the token itself or with address(0).    *)
THEOREM NothingEverStuck == B20Spec => []NothingStuck
  BY TokenInductive, PTL DEF TInv

(* The registry knows the ids in all six lanes at every moment.            *)
THEOREM LanesCorrect == B20Spec => []LanesAreKnown
  BY TokenInductive, PTL DEF TInv

-----------------------------------------------------------------------------
(* Who loses and who gains in a step.                                      *)

(* In a move only the debited account loses and only the credited gains.   *)
LEMMA MoveLoses ==
  ASSUME TInv, NEW from \in Holders, NEW to \in Holders, NEW amount \in UInt,
         MoveBalance(from, to, amount), NEW h \in Holders
  PROVE  /\ totalSupply' = totalSupply
         /\ Loss(h) > 0 => h = from /\ Loss(h) = amount
         /\ Loss(h) < 0 => h = to
  <1>1. Moved(from, to, amount) /\ totalSupply' = totalSupply
    BY TInvMoney, MoveConserves
  <1>2. amount \in Nat /\ \A g \in Holders : balances[g] \in Nat
    BY BalancesAreNumbers, TokenAssumption DEF UInt
  <1> QED
    BY <1>1, <1>2 DEF Moved, Loss

(* In a mint nobody loses and only the receiver gains.                     *)
LEMMA MintLoses ==
  ASSUME TInv, NEW sender, NEW to \in Holders, NEW amount \in UInt,
         Mint(sender, to, amount), NEW h \in Holders
  PROVE  /\ totalSupply' = totalSupply + amount /\ amount \in Nat
         /\ ~(Loss(h) > 0)
         /\ Loss(h) < 0 => h = to /\ amount > 0
  <1>1. /\ totalSupply' = totalSupply + amount
        /\ balances'[to] = balances[to] + amount
        /\ \A g \in Holders \ {to} : balances'[g] = balances[g]
    BY TInvMoney, MintConserves
  <1>2. amount \in Nat /\ \A g \in Holders : balances[g] \in Nat
    BY BalancesAreNumbers, TokenAssumption DEF UInt
  <1> QED
    BY <1>1, <1>2 DEF Loss

(* In a burn nobody gains and only the debited account loses.              *)
LEMMA BurnLoses ==
  ASSUME TInv, NEW from \in Holders, NEW amount \in UInt, BurnRaw(from, amount),
         NEW h \in Holders
  PROVE  /\ totalSupply' = totalSupply - amount /\ amount \in Nat
         /\ Loss(h) > 0 => h = from /\ Loss(h) = amount
         /\ ~(Loss(h) < 0)
  <1>1. /\ totalSupply' = totalSupply - amount
        /\ balances'[from] = balances[from] - amount
        /\ \A g \in Holders \ {from} : balances'[g] = balances[g]
    BY TInvMoney, BurnConserves
  <1>2. amount \in Nat /\ \A g \in Holders : balances[g] \in Nat
    BY BalancesAreNumbers, TokenAssumption DEF UInt
  <1> QED
    BY <1>1, <1>2 DEF Loss

(* Where no balance is written nobody loses or gains.                      *)
LEMMA NobodyLoses ==
  ASSUME TInv, UNCHANGED balances, NEW h \in Holders
  PROVE  Loss(h) = 0
  BY BalancesAreNumbers DEF Loss

(* Only a call on balances or allowances can change either or the supply.  *)
LEMMA StepKinds ==
  ASSUME [B20Next]_vars
  PROVE  \/ UNCHANGED moneyVars
         \/ \E sender \in Callers : MoneyStep(sender) /\ caller' = sender
  <1>1. ASSUME NEW sender \in Callers, TokenCall(sender), ~UNCHANGED moneyVars
        PROVE  MoneyStep(sender) /\ caller' = sender
    <2>1. RuleStep(sender) => UNCHANGED moneyVars
      BY DEF RuleStep, Pause, Unpause, UpdatePolicy, UpdateSupplyCap
    <2> QED
      BY <1>1, <2>1 DEF TokenCall
  <1>2. RegistryStep => UNCHANGED moneyVars
    BY DEF RegistryStep, moneyVars
  <1>3. UNCHANGED vars => UNCHANGED moneyVars
    BY DEF vars, moneyVars
  <1> QED
    BY <1>1, <1>2, <1>3 DEF B20Next

-----------------------------------------------------------------------------
(* Theorems: what a step may never do.                                     *)

(* Every loss has one of the four grounds.                                 *)
LEMMA LossByRight ==
  ASSUME TInv, [B20Next]_vars, NEW h \in Holders, Loss(h) > 0
  PROVE  caller' = h \/ SpentAllowance(h) \/ BurntAsBlocked(h) \/ SeizedFrom(h)
  <1>1. PICK sender \in Callers : MoneyStep(sender) /\ caller' = sender
    BY StepKinds, NobodyLoses DEF moneyVars
  <1>2. sender \in Holders
    BY DEF Callers, Addresses, Holders
  <1>3. PICK amount \in UInt :
          \/ \E to \in Holders : Transfer(sender, to, amount) \/ Mint(sender, to, amount)
          \/ \E from, to \in Holders : TransferFrom(sender, from, to, amount)
                                        \/ Seize(sender, from, to, amount)
          \/ \E spender \in Holders : Approve(sender, spender, amount)
          \/ \E from \in Holders : BurnBlocked(sender, from, amount)
          \/ Burn(sender, amount)
    BY <1>1, TokenAssumption DEF MoneyStep, UInt
  <1>4. ASSUME NEW to \in Holders, Transfer(sender, to, amount) PROVE caller' = h
    BY <1>1, <1>2, <1>4, MoveLoses DEF Transfer
  <1>5. ASSUME NEW from \in Holders, NEW to \in Holders, TransferFrom(sender, from, to, amount)
        PROVE  SpentAllowance(h)
    <2>1. h = from /\ Loss(h) = amount
      BY <1>5, MoveLoses DEF TransferFrom
    <2>2. allowances[h] \in [Holders -> UInt] /\ h \in DOMAIN allowances
      BY DEF TInv, B20TypeOK
    <2>3. CASE allowances[h][sender] = MaxUint
      BY <1>1, <2>3 DEF SpentAllowance
    <2>4. CASE allowances[h][sender] # MaxUint
      <3>1. allowances' = [allowances EXCEPT ![h][sender] = @ - amount]
        BY <1>5, <2>1, <2>4 DEF TransferFrom, ConsumeAllowance
      <3>2. allowances'[h][sender] = allowances[h][sender] - amount
        BY <1>2, <2>2, <3>1
      <3> QED
        BY <1>1, <2>1, <3>2 DEF SpentAllowance
    <2> QED
      BY <2>3, <2>4
  <1>6. ASSUME NEW from \in Holders, NEW to \in Holders, Seize(sender, from, to, amount)
        PROVE  SeizedFrom(h)
    BY <1>1, <1>6, MoveLoses DEF Seize, SeizedFrom
  <1>7. ASSUME NEW from \in Holders, BurnBlocked(sender, from, amount)
        PROVE  BurntAsBlocked(h)
    BY <1>1, <1>7, BurnLoses DEF BurnBlocked, BurntAsBlocked
  <1>8. ASSUME Burn(sender, amount) PROVE caller' = h
    BY <1>1, <1>2, <1>8, BurnLoses DEF Burn
  <1>9. ASSUME NEW to \in Holders, Mint(sender, to, amount) PROVE FALSE
    BY <1>9, MintLoses
  <1>10. ASSUME NEW spender \in Holders, Approve(sender, spender, amount) PROVE FALSE
    BY <1>10, NobodyLoses DEF Approve
  <1> QED
    BY <1>3, <1>4, <1>5, <1>6, <1>7, <1>8, <1>9, <1>10

(***************************************************************************)
(* Nobody's units go without the holder's own call, a spent allowance, a   *)
(* blocked sender's burn or a seizure (MockB20, every debiting function).  *)
(***************************************************************************)
THEOREM LossesCorrect == B20Spec => HoldersLoseOnlyByRight
  <1>1. TInv /\ [B20Next]_vars =>
          \A h \in Holders :
            Loss(h) > 0 => \/ caller' = h
                           \/ SpentAllowance(h)
                           \/ BurntAsBlocked(h)
                           \/ SeizedFrom(h)
    BY LossByRight
  <1> QED
    BY <1>1, TokenInductive, PTL DEF B20Spec, HoldersLoseOnlyByRight

(* After the creation every privilege is a role: the factory is no caller. *)
LEMMA NobodyPrivileged ==
  ASSUME initialized, NEW sender \in Callers
  PROVE  ~IsPrivileged(sender)
  BY DEF IsPrivileged

(* Every gain of a created token's holder goes past its lanes.             *)
LEMMA GainByTheLanes ==
  ASSUME TInv, [B20Next]_vars, NEW h \in Holders, initialized, Loss(h) < 0
  PROVE  Minted(h) \/ Transferred(h) \/ SeizedTo(h)
  <1>1. PICK sender \in Callers : MoneyStep(sender) /\ caller' = sender
    BY StepKinds, NobodyLoses DEF moneyVars
  <1>2. sender \in Holders /\ ~IsPrivileged(sender)
    BY NobodyPrivileged DEF Callers, Addresses, Holders
  <1>3. PICK amount \in UInt :
          \/ \E to \in Holders : Transfer(sender, to, amount) \/ Mint(sender, to, amount)
          \/ \E from, to \in Holders : TransferFrom(sender, from, to, amount)
                                        \/ Seize(sender, from, to, amount)
          \/ \E spender \in Holders : Approve(sender, spender, amount)
          \/ \E from \in Holders : BurnBlocked(sender, from, amount)
          \/ Burn(sender, amount)
    BY <1>1, TokenAssumption DEF MoneyStep, UInt
  <1>4. ASSUME NEW from \in Holders, NEW to \in Holders, MoveBalance(from, to, amount),
               LanesAdmit(sender, from, to)
        PROVE  Transferred(h)
    <2>1. h = to /\ \A g \in Holders : Loss(g) > 0 => g = from
      BY <1>4, MoveLoses
    <2>2. /\ IsAuthorized("EXECUTOR", sender) /\ IsAuthorized("RECEIVER", to)
          /\ \/ sender = from /\ policyIds["EXECUTOR"] = policyIds["SENDER"]
             \/ IsAuthorized("SENDER", from)
      BY <1>2, <1>4 DEF LanesAdmit
    <2>3. IsAuthorized("SENDER", from)
      BY <2>2 DEF IsAuthorized
    <2> QED
      BY <1>1, <2>1, <2>2, <2>3 DEF Transferred
  <1>5. ASSUME NEW to \in Holders, Transfer(sender, to, amount) PROVE Transferred(h)
    BY <1>2, <1>4, <1>5 DEF Transfer
  <1>6. ASSUME NEW from \in Holders, NEW to \in Holders, TransferFrom(sender, from, to, amount)
        PROVE  Transferred(h)
    BY <1>4, <1>6 DEF TransferFrom
  <1>7. ASSUME NEW from \in Holders, NEW to \in Holders, Seize(sender, from, to, amount)
        PROVE  SeizedTo(h)
    <2>1. h = to /\ \A g \in Holders : Loss(g) > 0 => g = from
      BY <1>7, MoveLoses DEF Seize
    <2> QED
      BY <1>1, <1>2, <1>7, <2>1 DEF Seize, SeizedTo, RequireRole
  <1>8. ASSUME NEW to \in Holders, Mint(sender, to, amount) PROVE Minted(h)
    <2>1. h = to /\ amount > 0 /\ amount \in Nat /\ totalSupply' = totalSupply + amount
      BY <1>8, MintLoses
    <2>2. totalSupply' > totalSupply
      BY <2>1 DEF TInv, B20TypeOK, UInt
    <2> QED
      BY <1>1, <1>2, <1>8, <2>1, <2>2 DEF Mint, Minted, RequireRole
  <1>9. ASSUME NEW from \in Holders, BurnRaw(from, amount) PROVE FALSE
    BY <1>9, BurnLoses
  <1>10. ASSUME NEW spender \in Holders, Approve(sender, spender, amount) PROVE FALSE
    BY <1>10, NobodyLoses DEF Approve
  <1> QED
    BY <1>2, <1>3, <1>5, <1>6, <1>7, <1>8, <1>9, <1>10 DEF BurnBlocked, Burn

(***************************************************************************)
(* Nobody of a created token gains a unit except past the lanes of the     *)
(* operation that brings it (MockB20 _transfer, _mint, seize).             *)
(***************************************************************************)
THEOREM ArrivalsCorrect == B20Spec => UnitsArriveByTheLanes
  <1>1. TInv /\ [B20Next]_vars =>
          \A h \in Holders :
            (initialized /\ Loss(h) < 0) => Minted(h) \/ Transferred(h) \/ SeizedTo(h)
    BY GainByTheLanes
  <1> QED
    BY <1>1, TokenInductive, PTL DEF B20Spec, UnitsArriveByTheLanes

(* What a paused feature stops.                                            *)
LEMMA PausedStep ==
  ASSUME TInv, [B20Next]_vars
  PROVE  /\ "MINT" \in paused => totalSupply' <= totalSupply
         /\ "BURN" \in paused => totalSupply' >= totalSupply
         /\ {"TRANSFER", "SEIZE"} \subseteq paused =>
              ~\E from, to \in Holders : Loss(from) > 0 /\ Loss(to) < 0
  <1> DEFINE Held ==
        /\ "MINT" \in paused => totalSupply' <= totalSupply
        /\ "BURN" \in paused => totalSupply' >= totalSupply
        /\ {"TRANSFER", "SEIZE"} \subseteq paused =>
             ~\E from, to \in Holders : Loss(from) > 0 /\ Loss(to) < 0
  <1>1. totalSupply \in Nat /\ Token \in Holders
    BY TokenAssumption DEF TInv, B20TypeOK, UInt, Holders
  <1>2. CASE UNCHANGED moneyVars
    <2>1. totalSupply' = totalSupply /\ \A h \in Holders : Loss(h) = 0
      BY <1>2, NobodyLoses DEF moneyVars
    <2> QED
      BY <1>1, <2>1
  <1>3. ASSUME NEW sender \in Callers, MoneyStep(sender) PROVE Held
    <2>1. PICK amount \in UInt :
            \/ \E to \in Holders : Transfer(sender, to, amount) \/ Mint(sender, to, amount)
            \/ \E from, to \in Holders : TransferFrom(sender, from, to, amount)
                                          \/ Seize(sender, from, to, amount)
            \/ \E spender \in Holders : Approve(sender, spender, amount)
            \/ \E from \in Holders : BurnBlocked(sender, from, amount)
            \/ Burn(sender, amount)
      BY <1>3, TokenAssumption DEF MoneyStep, UInt
    <2>2. ASSUME NEW from \in Holders, NEW to \in Holders, MoveBalance(from, to, amount),
                 "TRANSFER" \notin paused \/ "SEIZE" \notin paused
          PROVE  Held
      BY <1>1, <2>2 DEF MoveBalance
    <2>3. ASSUME NEW to \in Holders, Mint(sender, to, amount) PROVE Held
      <3>1. /\ totalSupply' = totalSupply + amount /\ amount \in Nat
            /\ \A h \in Holders : ~(Loss(h) > 0)
        BY <1>1, <2>3, MintLoses
      <3> QED
        BY <1>1, <2>3, <3>1 DEF Mint, WhenNotPaused
    <2>4. ASSUME NEW from \in Holders, BurnRaw(from, amount), "BURN" \notin paused PROVE Held
      <3>1. /\ totalSupply' = totalSupply - amount /\ amount \in Nat
            /\ \A h \in Holders : ~(Loss(h) < 0)
        BY <1>1, <2>4, BurnLoses
      <3> QED
        BY <1>1, <2>4, <3>1
    <2>5. ASSUME NEW spender \in Holders, Approve(sender, spender, amount) PROVE Held
      <3>1. totalSupply' = totalSupply /\ \A h \in Holders : Loss(h) = 0
        BY <2>5, NobodyLoses DEF Approve
      <3> QED
        BY <1>1, <3>1
    <2>6. sender \in Holders
      BY DEF Callers, Addresses, Holders
    <2> HIDE DEF Held
    <2> QED
      BY <2>1, <2>2, <2>3, <2>4, <2>5, <2>6
      DEF Transfer, TransferFrom, Seize, BurnBlocked, Burn, WhenNotPaused
  <1> QED
    BY <1>2, <1>3, StepKinds

(***************************************************************************)
(* A paused feature is stopped on every path and for every caller, the     *)
(* factory included (MockB20 whenNotPaused).                               *)
(***************************************************************************)
THEOREM PausesCorrect == B20Spec => PausesHold
  <1>1. TInv /\ [B20Next]_vars =>
          /\ "MINT" \in paused => totalSupply' <= totalSupply
          /\ "BURN" \in paused => totalSupply' >= totalSupply
          /\ {"TRANSFER", "SEIZE"} \subseteq paused =>
               ~\E from, to \in Holders : Loss(from) > 0 /\ Loss(to) < 0
    BY PausedStep
  <1> QED
    BY <1>1, TokenInductive, PTL DEF B20Spec, PausesHold

(* Without an admin nobody can reach the lanes, the cap or a sealed id.    *)
LEMMA AdminlessRules ==
  ASSUME TInv, [B20Next]_vars, initialized, adminCount = 0
  PROVE  /\ policyIds' = policyIds
         /\ supplyCap' = supplyCap
         /\ \A scope \in Scopes : policyIds[scope] \in sealed =>
              \A a \in Subjects : IsAuthorized(scope, a)' <=> IsAuthorized(scope, a)
  <1>1. roles[DEFAULT_ADMIN_ROLE] = {}
    BY RolesAssumption, HoldersFinite, FS_EmptySet
    DEF TInv, B20TypeOK, AdminCountExact
  <1>2. ASSUME NEW sender \in Callers PROVE ~RequireRole(sender, DEFAULT_ADMIN_ROLE)
    BY <1>1, NobodyPrivileged DEF RequireRole, HasRole
  <1>3. policyIds' = policyIds /\ supplyCap' = supplyCap
    <2>1. ASSUME NEW sender \in Callers, MoneyStep(sender)
          PROVE  UNCHANGED <<policyIds, supplyCap>>
      <3>1. MoneyKept
        BY <2>1, MoneyStepKeeps DEF Callers, Addresses
      <3> QED
        BY <3>1 DEF MoneyKept, ruleVars
    <2>2. ASSUME NEW sender \in Callers, RuleStep(sender)
          PROVE  UNCHANGED <<policyIds, supplyCap>>
      BY <1>2, <2>2 DEF RuleStep, Pause, Unpause, UpdatePolicy, UpdateSupplyCap
    <2>3. ASSUME NEW sender \in Callers, TokenCall(sender)
          PROVE  UNCHANGED <<policyIds, supplyCap>>
      BY <2>1, <2>2, <2>3 DEF TokenCall, ruleVars
    <2>4. RegistryStep \/ UNCHANGED vars => UNCHANGED <<policyIds, supplyCap>>
      BY DEF RegistryStep, vars, ruleVars
    <2> QED
      BY <2>3, <2>4 DEF B20Next
  <1>4. ASSUME NEW id \in sealed PROVE verdict'[id] = verdict[id]
    <2>1. id \in known
      BY DEF TInv, B20TypeOK, OracleTypeOK
    <2>2. ASSUME NEW new \in PolicyIds \ known, NEW authorized \in SUBSET Subjects,
                 AddPolicy(new, authorized)
          PROVE  verdict'[id] = verdict[id]
      <3>1. id # new /\ id # Inverted(new)
        BY <2>1, OracleAssumption DEF TInv, B20TypeOK, OracleTypeOK
      <3> QED
        BY <2>1, <2>2, <3>1 DEF AddPolicy
    <2>3. OracleNext => verdict'[id] = verdict[id]
      BY <2>2 DEF OracleNext, ChangeVerdicts, AgreeOn, Seal
    <2>4. UNCHANGED oracleVars => verdict'[id] = verdict[id]
      BY DEF oracleVars
    <2> QED
      BY <2>3, <2>4 DEF B20Next, RegistryStep, TokenCall, vars
  <1> QED
    BY <1>3, <1>4 DEF IsAuthorized

(***************************************************************************)
(* The rules of an adminless token stand for good (MockB20                 *)
(* renounceLastAdmin and the role guards of updatePolicy and               *)
(* updateSupplyCap, with renounced policies in its lanes).                 *)
(***************************************************************************)
THEOREM AdminlessRulesCorrect == B20Spec => AdminlessRulesStand
  <1>1. TInv /\ [B20Next]_vars =>
          ((initialized /\ adminCount = 0) =>
             /\ policyIds' = policyIds
             /\ supplyCap' = supplyCap
             /\ \A scope \in Scopes : policyIds[scope] \in sealed =>
                  \A a \in Subjects : IsAuthorized(scope, a)' <=> IsAuthorized(scope, a))
    BY AdminlessRules
  <1> QED
    BY <1>1, TokenInductive, PTL DEF B20Spec, AdminlessRulesStand

(***************************************************************************)
(* The whole token keeps what its access control promises on its own: no   *)
(* other call and no step of the registry touches a role, so a token       *)
(* without an admin stays so and retired roles stay retired.               *)
(***************************************************************************)
THEOREM TokenKeepsRoles == B20Spec => AdminlessIsForever /\ RetiredRolesStayRetired
  <1> DEFINE Adminless ==
        (initialized /\ adminCount = 0) =>
          /\ adminCount' = 0
          /\ roleAdmins' = roleAdmins
          /\ \A r \in Roles : /\ roles'[r] \subseteq roles[r]
                              /\ roles[r] \ roles'[r] \subseteq {caller'}
      Retirement ==
        \A R \in SUBSET {r \in Roles : roles[r] = {}} : (initialized /\ Retired(R)) => Retired(R)'
  <1>1. TInv => RInv
    BY DEF TInv, B20TypeOK, RInv
  <1>2. [B20Next]_vars => RolesNext \/ UNCHANGED roleVars
    BY DEF B20Next, TokenCall, RegistryStep, RolesNext, vars, roleVars
  <1>3. TInv /\ [B20Next]_vars => Adminless
    <2>1. UNCHANGED roleVars => Adminless
      BY DEF roleVars
    <2> QED
      BY <1>1, <1>2, <2>1, AdminlessStep
  <1>4. TInv /\ [B20Next]_vars => Retirement
    <2>1. UNCHANGED roleVars => Retirement
      BY DEF roleVars, Retired
    <2> QED
      BY <1>1, <1>2, <2>1, RetiredStep
  <1> QED
    BY <1>3, <1>4, TokenInductive, PTL
    DEF B20Spec, AdminlessIsForever, RetiredRolesStayRetired
=============================================================================
