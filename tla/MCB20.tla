------------------------------- MODULE MCB20 -------------------------------
(***************************************************************************)
(* The instance of B20 for TLC.  All of B20 at once is too large, so the   *)
(* initial states fall into four slices: each takes the calls that bear on *)
(* one question, from a state that the factory's grants reach, with a      *)
(* registry that has one custom policy p.  The steps are those of B20;     *)
(* only their arguments are fewer.                                         *)
(***************************************************************************)
EXTENDS B20

CONSTANTS
  a, b,                                              \* two accounts
  allow, notAllow, block, notBlock, p, notP          \* the policy ids

MCAccounts  == {a, b}
MCSubjects  == {a, b, Factory, Token, ZeroAddress}
MCPolicyIds == {allow, notAllow, block, notBlock, p, notP}
MCInverted(id) ==
  CASE id = allow -> notAllow [] id = notAllow -> allow
    [] id = block -> notBlock [] id = notBlock -> block
    [] id = p     -> notP     [] id = notP     -> p

VARIABLE slice   \* the question this behaviour is about

(* No guard reads `caller`, so states that differ in it alone are one. *)
View == <<slice, moneyVars, ruleVars, roleVars, oracleVars>>

Small == 0..MAX_SUPPLY_CAP

(* After the factory has made the grants of `holders`. *)
GrantedInit(holders) ==
  /\ TokenInit
  /\ roles = holders
  /\ roleAdmins = [r \in Roles |-> DEFAULT_ADMIN_ROLE]
  /\ adminCount = Cardinality(holders[DEFAULT_ADMIN_ROLE])
  /\ initialized = FALSE
  /\ caller = Factory

RegistryInit(ids) ==
  /\ known = ids
  /\ sealed = Builtins
  /\ verdict = [id \in ids |-> IF id \in {allow, notBlock, notP} THEN Subjects ELSE {}]

Call(sender, step) ==
  /\ step
  /\ caller' = sender
  /\ UNCHANGED oracleVars

Close(sender) ==
  Call(sender, CloseBootstrap(sender) /\ UNCHANGED <<moneyVars, ruleVars>>)

(* The list of p is edited; RegistryStep agrees. *)
EditList(subjects) ==
  /\ p \in known \ sealed
  /\ \E listed \in SUBSET subjects :
       verdict' = [verdict EXCEPT ![p] = listed, ![notP] = Subjects \ listed]
  /\ UNCHANGED <<known, sealed, moneyVars, ruleVars, roleVars, caller>>
  /\ RegistryStep

-----------------------------------------------------------------------------
(* Transfers: the factory mints and shapes the lanes, then holders and     *)
(* spenders move units while a changes lanes, b pauses and p is edited.    *)

TransfersInit ==
  /\ GrantedInit([r \in Roles |-> CASE r = DEFAULT_ADMIN_ROLE -> {a}
                                    [] r \in {PAUSE_ROLE, UNPAUSE_ROLE} -> {b}
                                    [] OTHER -> {}])
  /\ RegistryInit(PolicyIds)

TransfersNext ==
  \/ \E sender \in Callers :
       \/ \E to \in Holders, amount \in Small :
            Call(sender, Transfer(sender, to, amount) /\ UNCHANGED roleVars)
       \/ \E from \in Addresses, to \in Holders, amount \in Small :
            Call(sender, TransferFrom(sender, from, to, amount) /\ UNCHANGED roleVars)
       \/ \E amount \in {0, 1, MaxUint} :
            Call(sender, Approve(sender, b, amount) /\ UNCHANGED roleVars)
       \/ \E to \in Holders, amount \in Small :
            Call(sender, Mint(sender, to, amount) /\ UNCHANGED roleVars)
       \/ \E scope \in {"SENDER", "RECEIVER", "EXECUTOR"}, id \in {allow, p, notP} :
            Call(sender, UpdatePolicy(sender, scope, id) /\ UNCHANGED roleVars)
       \/ Call(sender, Pause(sender, {"TRANSFER", "SEIZE"}) /\ UNCHANGED roleVars)
       \/ Call(sender, Unpause(sender, {"TRANSFER"}) /\ UNCHANGED roleVars)
       \/ Close(sender)
  \/ EditList(Accounts)

-----------------------------------------------------------------------------
(* Issuance: mints, burns and seizures against the lanes, pauses and cap.  *)

IssuanceInit ==
  /\ GrantedInit([r \in Roles |-> CASE r \in {DEFAULT_ADMIN_ROLE, MINT_ROLE, BURN_ROLE} -> {a}
                                    [] OTHER -> {b}])
  /\ RegistryInit(PolicyIds)

IssuanceNext ==
  \/ \E sender \in Callers :
       \/ \E to \in Holders, amount \in Amounts :
            Call(sender, Mint(sender, to, amount) /\ UNCHANGED roleVars)
       \/ \E amount \in Small : Call(sender, Burn(sender, amount) /\ UNCHANGED roleVars)
       \/ \E from \in Holders, amount \in Small :
            Call(sender, BurnBlocked(sender, from, amount) /\ UNCHANGED roleVars)
       \/ \E from, to \in Holders, amount \in Small :
            Call(sender, Seize(sender, from, to, amount) /\ UNCHANGED roleVars)
       \/ \E scope \in {"SENDER", "MINT_RECEIVER", "SEIZE_EXEMPT", "SEIZE_RECEIVER"},
             id \in {allow, p, notP} :
            Call(sender, UpdatePolicy(sender, scope, id) /\ UNCHANGED roleVars)
       \/ \E cap \in Amounts : Call(sender, UpdateSupplyCap(sender, cap) /\ UNCHANGED roleVars)
       \/ \E f \in {"MINT", "BURN", "SEIZE"} :
            Call(sender, Pause(sender, {f, "TRANSFER"}) /\ UNCHANGED roleVars)
       \/ Call(sender, Unpause(sender, Features) /\ UNCHANGED roleVars)
       \/ Close(sender)
  \/ EditList(Accounts)

-----------------------------------------------------------------------------
(* Rules: roles come and go down to the last admin, while p is created,    *)
(* edited and sealed and lanes are pointed at any id.                      *)

RulesInit == TokenInit /\ RolesInit /\ RegistryInit(Builtins)

RulesNext ==
  \/ \E sender \in Callers :
       \/ \E scope \in {"SENDER", "MINT_RECEIVER"}, id \in PolicyIds :
            Call(sender, UpdatePolicy(sender, scope, id) /\ UNCHANGED roleVars)
       \/ \E cap \in Amounts : Call(sender, UpdateSupplyCap(sender, cap) /\ UNCHANGED roleVars)
       \/ \E role \in {DEFAULT_ADMIN_ROLE, PAUSE_ROLE}, account \in Accounts :
            \/ Call(sender, GrantRole(sender, role, account) /\ UNCHANGED <<moneyVars, ruleVars>>)
            \/ Call(sender, RevokeRole(sender, role, account) /\ UNCHANGED <<moneyVars, ruleVars>>)
       \/ Call(sender, RenounceLastAdmin(sender) /\ UNCHANGED <<moneyVars, ruleVars>>)
       \/ Close(sender)
  \/ \E listed \in SUBSET {a} : AddPolicy(p, listed) /\ RegistryStep
  \/ EditList({a})
  \/ sealed' = known /\ UNCHANGED <<known, verdict>> /\ RegistryStep

-----------------------------------------------------------------------------
(* Roles: every role operation on three roles with any chain of admins.    *)

RolesInUse == {DEFAULT_ADMIN_ROLE, MINT_ROLE, PAUSE_ROLE}

RolesSliceInit ==
  /\ GrantedInit([r \in Roles |-> IF r \in RolesInUse THEN {} ELSE {b}])
  /\ RegistryInit(Builtins)

RolesSliceNext ==
  \E sender \in Callers :
    Call(sender,
      /\ \/ \E role \in RolesInUse, account \in Addresses :
              GrantRole(sender, role, account) \/ RevokeRole(sender, role, account)
         \/ \E role \in RolesInUse : RenounceRole(sender, role)
         \/ RenounceLastAdmin(sender)
         \/ \E role, newAdminRole \in RolesInUse : SetRoleAdmin(sender, role, newAdminRole)
         \/ CloseBootstrap(sender)
      /\ UNCHANGED <<moneyVars, ruleVars>>)

-----------------------------------------------------------------------------
MCInit ==
  \/ slice = "transfers" /\ TransfersInit
  \/ slice = "issuance"  /\ IssuanceInit
  \/ slice = "rules"     /\ RulesInit
  \/ slice = "roles"     /\ RolesSliceInit

MCNext ==
  /\ \/ slice = "transfers" /\ TransfersNext
     \/ slice = "issuance"  /\ IssuanceNext
     \/ slice = "rules"     /\ RulesNext
     \/ slice = "roles"     /\ RolesSliceNext
  /\ UNCHANGED slice

MCSpec == MCInit /\ [][MCNext]_<<vars, slice>>
=============================================================================
