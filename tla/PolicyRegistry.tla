--------------------------- MODULE PolicyRegistry ---------------------------
(***************************************************************************)
(* The PolicyRegistry precompile (src/test/lib/mocks/MockPolicyRegistry):  *)
(* a registry of transfer policies shared by every token.  A policy is a   *)
(* blocklist, an allowlist, or a UNION / INTERSECT composite of up to      *)
(* MaxChildren simple policies.  Anybody creates a policy and names its    *)
(* admin; the admin edits it, hands it over in two steps or renounces it.  *)
(*                                                                         *)
(* One action per external mutator.  A call that reverts changes nothing   *)
(* and is an action that is not enabled, so every guard below is the       *)
(* negation of the reverts of its function.  msg.sender is the parameter   *)
(* `sender`; transactions are atomic and arrive in any order.              *)
(***************************************************************************)
EXTENDS Integers, Sequences, FiniteSets

CONSTANTS
  Accounts,       \* the addresses that call the registry or appear in its lists
  ZeroAddress,    \* address(0): "nobody"
  MaxCounter,     \* the largest value of the uint56 policy counter
  MaxBatch,       \* MAX_BATCH_SIZE, accounts per call
  MinChildren,    \* MIN_COMPOSITE_CHILD_POLICIES
  MaxChildren,    \* MAX_COMPOSITE_CHILD_POLICIES
  ChildLists      \* the child lists callers pass (bounds TLC's inputs)

SimpleTypes    == {"BLOCKLIST", "ALLOWLIST"}
CompositeTypes == {"UNION", "INTERSECT"}
PolicyTypes    == SimpleTypes \union CompositeTypes

(***************************************************************************)
(* A uint64 policy id: invert flag in bit 63, type in the rest of the top  *)
(* byte, counter in the low 56 bits.  A top byte outside the PolicyType    *)
(* enum makes the id malformed.                                            *)
(***************************************************************************)
PolicyId == [inverted : BOOLEAN,
             type     : PolicyTypes \union {"MALFORMED"},
             counter  : 0..MaxCounter]

MakeId(type, counter) ==
  [inverted |-> FALSE, type |-> type, counter |-> counter]

ALWAYS_ALLOW_ID      == MakeId("BLOCKLIST", 0)
ALWAYS_BLOCK_ID      == MakeId("ALLOWLIST", 1)
BUILTIN_POLICY_COUNT == 2

IsBuiltin(id)        == id \in {ALWAYS_ALLOW_ID, ALWAYS_BLOCK_ID}
IsComposite(id)      == id.type \in CompositeTypes
IsWellFormed(id)     == id.type \in PolicyTypes /\ ~id.inverted
BasePolicyId(id)     == [id EXCEPT !.inverted = FALSE]
InvertedPolicyId(id) == [id EXCEPT !.inverted = ~ @]

(***************************************************************************)
(* The word stored per policy: an exists flag and the admin.  The word of  *)
(* a policy never created is 0; renouncing clears only the admin.          *)
(***************************************************************************)
Admins      == Accounts \union {ZeroAddress}
Word        == [exists : BOOLEAN, admin : Admins]
EmptyWord   == [exists |-> FALSE, admin |-> ZeroAddress]
Encode(who) == [exists |-> TRUE, admin |-> who]

ASSUME ConstantsAssumption ==
  /\ ZeroAddress \notin Accounts
  /\ MaxCounter \in Nat /\ MaxCounter > BUILTIN_POLICY_COUNT
  /\ MaxBatch \in Nat
  /\ MinChildren \in Nat /\ MaxChildren \in Nat
  /\ 1 <= MinChildren /\ MinChildren <= MaxChildren
  /\ ChildLists \subseteq Seq(PolicyId)

VARIABLES
  policies,       \* id -> stored word
  members,        \* id -> accounts whose membership bit is set
  pendingAdmins,  \* id -> nominee of a two-step handover, or ZeroAddress
  nextCounter,    \* counter of the next policy; 0 until the first creation
  children        \* id -> child ids of a composite, <<>> for the others

vars == <<policies, members, pendingAdmins, nextCounter, children>>

TypeOK ==
  /\ policies \in [PolicyId -> Word]
  /\ members \in [PolicyId -> SUBSET Accounts]
  /\ pendingAdmins \in [PolicyId -> Admins]
  /\ nextCounter \in {0} \union (BUILTIN_POLICY_COUNT..MaxCounter)
  /\ children \in [PolicyId -> Seq(PolicyId)]

Init ==
  /\ policies = [id \in PolicyId |-> EmptyWord]
  /\ members = [id \in PolicyId |-> {}]
  /\ pendingAdmins = [id \in PolicyId |-> ZeroAddress]
  /\ nextCounter = 0
  /\ children = [id \in PolicyId |-> <<>>]

-----------------------------------------------------------------------------
(* Queries.                                                                *)

PolicyExists(id) ==
  LET base == BasePolicyId(id)
  IN  \/ IsBuiltin(base)
      \/ IsWellFormed(base) /\ policies[base].exists

(***************************************************************************)
(* _isAuthorized recurses from a composite to its children.  A stored      *)
(* child is a simple policy or its inverse (ChildrenAreCreatedSimple), so  *)
(* the recursion ends one level down and is unfolded here.  A simple       *)
(* policy is not asked whether it exists: an id never created reads as an  *)
(* empty list.  An inverted id is: without a base it authorizes nobody.    *)
(***************************************************************************)
SimpleAuthorized(id, account) ==
  (id.type = "ALLOWLIST") <=> (account \in members[id])

\* Mutant of ChildAuthorized: existence asked of the raw id, not of its base.
ChildAuthorized_rawExists(id, account) ==
  IF id.inverted
  THEN policies[id].exists /\ ~SimpleAuthorized(BasePolicyId(id), account)
  ELSE SimpleAuthorized(id, account)

ChildAuthorized(id, account) ==
  IF id.inverted
  THEN PolicyExists(id) /\ ~SimpleAuthorized(BasePolicyId(id), account)
  ELSE SimpleAuthorized(id, account)

BaseAuthorized(id, account) ==
  \/ id = ALWAYS_ALLOW_ID
  \/ /\ id.type = "UNION"
     /\ \E i \in DOMAIN children[id] : ChildAuthorized(children[id][i], account)
  \/ /\ id.type = "INTERSECT"
     /\ \A i \in DOMAIN children[id] : ChildAuthorized(children[id][i], account)
  \/ /\ id.type \in SimpleTypes
     /\ ~IsBuiltin(id)
     /\ SimpleAuthorized(id, account)

IsAuthorized(id, account) ==
  IF id.inverted
  THEN PolicyExists(id) /\ ~BaseAuthorized(BasePolicyId(id), account)
  ELSE BaseAuthorized(id, account)

-----------------------------------------------------------------------------
(* Creation.                                                               *)

(***************************************************************************)
(* The first creation also writes the two built-ins, without an admin, and *)
(* starts custom policies at counter 2.  The counter is incremented with   *)
(* checked arithmetic: the creation that would pass MaxCounter reverts.    *)
(***************************************************************************)
FirstUse    == nextCounter < BUILTIN_POLICY_COUNT

\* Mutant of NewCounter: the counter is not moved past the built-ins.
NewCounter_noBuiltins == nextCounter
NewCounter == IF FirstUse THEN BUILTIN_POLICY_COUNT ELSE nextCounter
NewId(type) == MakeId(type, NewCounter)

\* Mutant of Create: the counter stays at the id just given out.
Create_keepsCounter(admin, type, accounts, childIds) ==
  /\ admin # ZeroAddress
  /\ NewCounter < MaxCounter
  /\ nextCounter' = NewCounter
  /\ policies' = [id \in PolicyId |->
       IF id = NewId(type) THEN Encode(admin)
       ELSE IF FirstUse /\ IsBuiltin(id) THEN Encode(ZeroAddress)
       ELSE policies[id]]
  /\ members' = [members EXCEPT ![NewId(type)] = @ \union accounts]
  /\ children' = [children EXCEPT ![NewId(type)] =
                    IF type \in CompositeTypes THEN childIds ELSE @]
  /\ UNCHANGED pendingAdmins

Create(admin, type, accounts, childIds) ==
  /\ admin # ZeroAddress
  /\ NewCounter < MaxCounter
  /\ nextCounter' = NewCounter + 1
  /\ policies' = [id \in PolicyId |->
       IF id = NewId(type) THEN Encode(admin)
       ELSE IF FirstUse /\ IsBuiltin(id) THEN Encode(ZeroAddress)
       ELSE policies[id]]
  /\ members' = [members EXCEPT ![NewId(type)] = @ \union accounts]
  /\ children' = [children EXCEPT ![NewId(type)] =
                    IF type \in CompositeTypes THEN childIds ELSE @]
  /\ UNCHANGED pendingAdmins

CreatePolicy(admin, type) ==
  /\ type \in SimpleTypes
  /\ Create(admin, type, {}, <<>>)

CreatePolicyWithAccounts(admin, type, accounts) ==
  /\ type \in SimpleTypes
  /\ Cardinality(accounts) <= MaxBatch
  /\ Create(admin, type, accounts, <<>>)

\* Mutant of RequireCreatedSimplePolicies: the type check is missing.
RequireCreatedSimplePolicies_anyType(childIds) ==
  \A i \in DOMAIN childIds : policies[BasePolicyId(childIds[i])].exists

(* Every child's base was created, is not a built-in and is not composite. *)
RequireCreatedSimplePolicies(childIds) ==
  \A i \in DOMAIN childIds :
    LET base == BasePolicyId(childIds[i])
    IN  /\ policies[base].exists
        /\ ~IsBuiltin(base)
        /\ ~IsComposite(base)

ChildrenInRange(childIds) == Len(childIds) \in MinChildren..MaxChildren

CreateCompositePolicy(admin, type) ==
  /\ admin # ZeroAddress
  /\ type \in CompositeTypes
  /\ \E childIds \in ChildLists :
       /\ ChildrenInRange(childIds)
       /\ RequireCreatedSimplePolicies(childIds)
       /\ Create(admin, type, {}, childIds)

-----------------------------------------------------------------------------
(* Administration.  The raw id is looked up: an inverted or malformed id   *)
(* has no word of its own and is rejected as PolicyNotFound.               *)

IsAdmin(sender, id) ==
  /\ policies[id].exists
  /\ policies[id].admin = sender

StageUpdateAdmin(sender, id, newAdmin) ==
  /\ IsAdmin(sender, id)
  /\ pendingAdmins' = [pendingAdmins EXCEPT ![id] = newAdmin]
  /\ UNCHANGED <<policies, members, nextCounter, children>>

\* Mutant of FinalizeUpdateAdmin: the nomination survives its acceptance.
FinalizeUpdateAdmin_keepsNominee(sender, id) ==
  /\ policies[id].exists
  /\ pendingAdmins[id] = sender
  /\ policies' = [policies EXCEPT ![id] = Encode(sender)]
  /\ UNCHANGED <<pendingAdmins, members, nextCounter, children>>

FinalizeUpdateAdmin(sender, id) ==
  /\ policies[id].exists
  /\ pendingAdmins[id] # ZeroAddress
  /\ pendingAdmins[id] = sender
  /\ policies' = [policies EXCEPT ![id] = Encode(sender)]
  /\ pendingAdmins' = [pendingAdmins EXCEPT ![id] = ZeroAddress]
  /\ UNCHANGED <<members, nextCounter, children>>

\* Mutant of RenounceAdmin: the nomination survives the renunciation.
RenounceAdmin_keepsNominee(sender, id) ==
  /\ IsAdmin(sender, id)
  /\ policies' = [policies EXCEPT ![id] = Encode(ZeroAddress)]
  /\ UNCHANGED <<pendingAdmins, members, nextCounter, children>>

RenounceAdmin(sender, id) ==
  /\ IsAdmin(sender, id)
  /\ policies' = [policies EXCEPT ![id] = Encode(ZeroAddress)]
  /\ pendingAdmins' = [pendingAdmins EXCEPT ![id] = ZeroAddress]
  /\ UNCHANGED <<members, nextCounter, children>>

BatchSetMembers(id, value, accounts) ==
  /\ Cardinality(accounts) <= MaxBatch
  /\ members' = [members EXCEPT ![id] =
                   IF value THEN @ \union accounts ELSE @ \ accounts]
  /\ UNCHANGED <<policies, pendingAdmins, nextCounter, children>>

UpdateAllowlist(sender, id, allowed, accounts) ==
  /\ id.type = "ALLOWLIST"
  /\ IsAdmin(sender, id)
  /\ BatchSetMembers(id, allowed, accounts)

UpdateBlocklist(sender, id, blocked, accounts) ==
  /\ id.type = "BLOCKLIST"
  /\ IsAdmin(sender, id)
  /\ BatchSetMembers(id, blocked, accounts)

\* Mutant of UpdateComposite: existence is checked, the admin is not.
UpdateComposite_anybody(sender, id) ==
  /\ IsComposite(id)
  /\ policies[id].exists
  /\ \E childIds \in ChildLists :
       /\ ChildrenInRange(childIds)
       /\ RequireCreatedSimplePolicies(childIds)
       /\ children' = [children EXCEPT ![id] = childIds]
  /\ UNCHANGED <<policies, members, pendingAdmins, nextCounter>>

UpdateComposite(sender, id) ==
  /\ IsComposite(id)
  /\ IsAdmin(sender, id)
  /\ \E childIds \in ChildLists :
       /\ ChildrenInRange(childIds)
       /\ RequireCreatedSimplePolicies(childIds)
       /\ children' = [children EXCEPT ![id] = childIds]
  /\ UNCHANGED <<policies, members, pendingAdmins, nextCounter>>

Next ==
  \/ \E admin \in Admins, type \in PolicyTypes :
       CreatePolicy(admin, type) \/ CreateCompositePolicy(admin, type)
  \/ \E admin \in Admins, type \in PolicyTypes, accounts \in SUBSET Accounts :
       CreatePolicyWithAccounts(admin, type, accounts)
  \/ \E sender \in Accounts, id \in PolicyId :
       \/ \E newAdmin \in Admins : StageUpdateAdmin(sender, id, newAdmin)
       \/ FinalizeUpdateAdmin(sender, id)
       \/ RenounceAdmin(sender, id)
       \/ \E value \in BOOLEAN, accounts \in SUBSET Accounts :
            \/ UpdateAllowlist(sender, id, value, accounts)
            \/ UpdateBlocklist(sender, id, value, accounts)
       \/ UpdateComposite(sender, id)

Spec == Init /\ [][Next]_vars

-----------------------------------------------------------------------------
(* Properties.                                                             *)

Created   == {id \in PolicyId : policies[id].exists}
Renounced == {id \in Created : policies[id].admin = ZeroAddress}

(***************************************************************************)
(* A composite always lists MinChildren to MaxChildren ids whose bases     *)
(* were created, are custom and are simple.  _isAuthorized relies on it:   *)
(* it recurses without a depth check and evaluates children without asking *)
(* whether they exist.                                                     *)
(***************************************************************************)
ChildrenAreCreatedSimple ==
  \A id \in Created : IsComposite(id) =>
    /\ Len(children[id]) \in MinChildren..MaxChildren
    /\ \A i \in DOMAIN children[id] :
         LET base == BasePolicyId(children[id][i])
         IN  base \in Created /\ ~IsBuiltin(base) /\ base.type \in SimpleTypes

(***************************************************************************)
(* An id that was not created has no trace in storage (no nominee, member  *)
(* or child), whatever calls were made with it before: a later creation    *)
(* starts from an empty policy.  Inverted and malformed ids never get a    *)
(* record, and one counter value names at most one policy.                 *)
(***************************************************************************)
RecordsBelongToCreated ==
  /\ \A id \in PolicyId \ Created :
       pendingAdmins[id] = ZeroAddress /\ members[id] = {} /\ children[id] = <<>>
  /\ \A id \in Created : IsWellFormed(id) /\ id.counter < nextCounter
  /\ \A id1, id2 \in Created : id1.counter = id2.counter => id1 = id2

(***************************************************************************)
(* Renouncing is for ever: once a created policy has no admin, its word,   *)
(* members and children never change and it never has a nominee, so a      *)
(* handover staged before the renunciation cannot be finalized after it.   *)
(* The built-ins are such policies from the first creation on.             *)
(***************************************************************************)
RenouncedIsFrozen ==
  [][\A id \in Renounced :
       /\ policies'[id] = policies[id]
       /\ members'[id] = members[id]
       /\ children'[id] = children[id]
       /\ pendingAdmins'[id] = ZeroAddress]_vars

(***************************************************************************)
(* The admin of a created policy changes only by renunciation or in favour *)
(* of the account nominated before the step, and either change cancels the *)
(* nomination: the next admin is never bound by its predecessor's choice.  *)
(***************************************************************************)
AdminHandover ==
  [][\A id \in Created :
       policies'[id].admin # policies[id].admin =>
         /\ policies'[id].admin \in {ZeroAddress, pendingAdmins[id]}
         /\ pendingAdmins'[id] = ZeroAddress]_vars

(***************************************************************************)
(* De Morgan: a UNION of the inverses of the children of an INTERSECT      *)
(* authorizes exactly the accounts the INTERSECT rejects, which is what    *)
(* makes inverted children usable in composites.                           *)
(***************************************************************************)
InvertedChildrenDeMorgan ==
  \A u, v \in Created :
    /\ u.type = "UNION" /\ v.type = "INTERSECT"
    /\ Len(children[u]) = Len(children[v])
    /\ \A i \in DOMAIN children[u] :
         children[u][i] = InvertedPolicyId(children[v][i])
    => \A account \in Accounts :
         IsAuthorized(u, account) = ~IsAuthorized(v, account)

(***************************************************************************)
(* The registry implements PolicyOracle, the view its callers have.  An id *)
(* is sealed when nobody administers it or, for a composite, any of its    *)
(* children.  The lazily written built-ins are invisible: they are known   *)
(* and sealed before and after their words are written.                    *)
(***************************************************************************)
Known == {id \in PolicyId : PolicyExists(id)}

Sealed ==
  {id \in Known : LET base == BasePolicyId(id) IN
     \/ IsBuiltin(base)
     \/ /\ base \in Renounced
        /\ \A i \in DOMAIN children[base] :
             BasePolicyId(children[base][i]) \in Renounced}

Verdict(id) == {account \in Accounts : IsAuthorized(id, account)}

Oracle == INSTANCE PolicyOracle WITH
  Subjects    <- Accounts,
  PolicyIds   <- PolicyId,
  Inverted    <- InvertedPolicyId,
  AlwaysAllow <- ALWAYS_ALLOW_ID,
  AlwaysBlock <- ALWAYS_BLOCK_ID,
  known       <- Known,
  sealed      <- Sealed,
  verdict     <- [id \in Known |-> Verdict(id)]

ImplementsOracle == Oracle!OracleSpec
=============================================================================
