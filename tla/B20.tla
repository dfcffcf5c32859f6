-------------------------------- MODULE B20 --------------------------------
(***************************************************************************)
(* A B20 token (src/test/lib/mocks/MockB20): balances and allowances, the  *)
(* supply and its cap, pausable features and the policy lanes, on top of   *)
(* the access control of B20Roles.  The token asks the policy registry for *)
(* verdicts on every transfer, mint and seizure; the registry is the       *)
(* environment, in its abstract form PolicyOracle, and its verdicts change *)
(* between any two calls of the token.                                     *)
(*                                                                         *)
(* A reverting call changes nothing, so a guard is the negation of the     *)
(* reverts.  The WithMemo variants do what their plain forms do and emit   *)
(* one more event: they are the same actions here.                         *)
(***************************************************************************)
EXTENDS B20Roles, PolicyOracle

CONSTANTS
  Token,           \* address(this)
  ZeroAddress,     \* address(0)
  MAX_SUPPLY_CAP,  \* type(uint128).max
  MaxUint,         \* type(uint256).max, the infinite allowance
  Amounts,         \* the amounts callers pass
  MINT_ROLE, BURN_ROLE, BURN_BLOCKED_ROLE, SEIZE_ROLE, PAUSE_ROLE, UNPAUSE_ROLE

Holders == Addresses \union {Token, ZeroAddress}

Features == {"TRANSFER", "MINT", "BURN", "SEIZE"}

(* The policy scopes; TRANSFER_x_POLICY is "x". *)
Scopes == {"SENDER", "RECEIVER", "EXECUTOR",
           "MINT_RECEIVER", "SEIZE_EXEMPT", "SEIZE_RECEIVER"}

ASSUME TokenAssumption ==
  /\ Token # ZeroAddress
  /\ Token \notin Addresses /\ ZeroAddress \notin Addresses
  /\ Subjects = Holders
  /\ MAX_SUPPLY_CAP \in Nat /\ MaxUint \in Nat /\ MAX_SUPPLY_CAP < MaxUint
  /\ Amounts \subseteq 0..MaxUint
  /\ {MINT_ROLE, BURN_ROLE, BURN_BLOCKED_ROLE, SEIZE_ROLE, PAUSE_ROLE,
      UNPAUSE_ROLE} \subseteq Roles \ {DEFAULT_ADMIN_ROLE}

VARIABLES
  totalSupply,
  balances,     \* holder -> amount
  allowances,   \* owner -> spender -> amount
  policyIds,    \* scope -> the policy id in its lane
  paused,       \* the paused features (pausedVectors)
  supplyCap

moneyVars == <<totalSupply, balances, allowances>>
ruleVars  == <<policyIds, paused, supplyCap>>
vars      == <<moneyVars, ruleVars, roleVars, caller, oracleVars>>

UInt    == 0..MaxUint
Wrap(n) == n % (MaxUint + 1)

B20TypeOK ==
  /\ RolesTypeOK /\ OracleTypeOK
  /\ totalSupply \in UInt
  /\ balances \in [Holders -> UInt]
  /\ allowances \in [Holders -> [Holders -> UInt]]
  /\ policyIds \in [Scopes -> PolicyIds]
  /\ paused \subseteq Features
  /\ supplyCap \in 0..MAX_SUPPLY_CAP

(* A planted token; the registry is in any state it can be in. *)
TokenInit ==
  /\ totalSupply = 0
  /\ balances = [h \in Holders |-> 0]
  /\ allowances = [o \in Holders |-> [s \in Holders |-> 0]]
  /\ policyIds = [s \in Scopes |-> AlwaysAllow]
  /\ paused = {}
  /\ supplyCap = MAX_SUPPLY_CAP

B20Init == TokenInit /\ RolesInit /\ OracleReachable

-----------------------------------------------------------------------------
(* Guards and helpers.                                                     *)

IsAuthorized(scope, account) == account \in verdict[policyIds[scope]]

WhenNotPaused(feature) == feature \notin paused

IsContractAddressOrZero(account) == account \in {Token, ZeroAddress}

\* Mutant of LanesAdmit: equal ids skip the sender check for any executor.
LanesAdmit_skipForAll(sender, from, to) ==
  \/ IsPrivileged(sender)
  \/ /\ IsAuthorized("EXECUTOR", sender)
     /\ policyIds["EXECUTOR"] = policyIds["SENDER"] \/ IsAuthorized("SENDER", from)
     /\ IsAuthorized("RECEIVER", to)

(* The policy part of _transfer, with its shortcut: a holder that moves    *)
(* its own tokens is not judged twice by the same policy.                  *)
LanesAdmit(sender, from, to) ==
  \/ IsPrivileged(sender)
  \/ /\ IsAuthorized("EXECUTOR", sender)
     /\ \/ sender = from /\ policyIds["EXECUTOR"] = policyIds["SENDER"]
        \/ IsAuthorized("SENDER", from)
     /\ IsAuthorized("RECEIVER", to)

\* Mutant of MoveBalance: both balances are read before either is written.
MoveBalance_staleCredit(from, to, amount) ==
  /\ amount <= balances[from]
  /\ balances' = [balances EXCEPT ![from] = @ - amount,
                                  ![to] = Wrap(balances[to] + amount)]
  /\ UNCHANGED totalSupply

(* The debit comes first: with from = to the balance stays as it was. *)
MoveBalance(from, to, amount) ==
  LET debited == [balances EXCEPT ![from] = @ - amount]
  IN  /\ amount <= balances[from]
      /\ balances' = [debited EXCEPT ![to] = Wrap(@ + amount)]
      /\ UNCHANGED totalSupply

\* Mutant of ConsumeAllowance: the factory is exempt while it is privileged.
ConsumeAllowance_privileged(owner, spender, amount) ==
  IF allowances[owner][spender] = MaxUint \/ IsPrivileged(spender)
  THEN UNCHANGED allowances
  ELSE /\ amount <= allowances[owner][spender]
       /\ allowances' = [allowances EXCEPT ![owner][spender] = @ - amount]

ConsumeAllowance(owner, spender, amount) ==
  IF allowances[owner][spender] = MaxUint
  THEN UNCHANGED allowances
  ELSE /\ amount <= allowances[owner][spender]
       /\ allowances' = [allowances EXCEPT ![owner][spender] = @ - amount]

BurnRaw(from, amount) ==
  /\ amount <= balances[from]
  /\ balances' = [balances EXCEPT ![from] = @ - amount]
  /\ totalSupply' = Wrap(totalSupply - amount)
  /\ UNCHANGED allowances

-----------------------------------------------------------------------------
(* Holders and spenders.                                                   *)

Transfer(sender, to, amount) ==
  /\ WhenNotPaused("TRANSFER")
  /\ ~IsContractAddressOrZero(to)
  /\ LanesAdmit(sender, sender, to)
  /\ MoveBalance(sender, to, amount)
  /\ UNCHANGED <<allowances, ruleVars>>

TransferFrom(sender, from, to, amount) ==
  /\ WhenNotPaused("TRANSFER")
  /\ ~IsContractAddressOrZero(to)
  /\ from # ZeroAddress
  /\ ConsumeAllowance(from, sender, amount)
  /\ LanesAdmit(sender, from, to)
  /\ MoveBalance(from, to, amount)
  /\ UNCHANGED ruleVars

Approve(sender, spender, amount) ==
  /\ spender # ZeroAddress
  /\ allowances' = [allowances EXCEPT ![sender][spender] = amount]
  /\ UNCHANGED <<totalSupply, balances, ruleVars>>

-----------------------------------------------------------------------------
(* Issuance and forced moves.                                              *)

\* Mutant of Mint: the receiver of a mint is not validated.
Mint_anyReceiver(sender, to, amount) ==
  /\ WhenNotPaused("MINT")
  /\ RequireRole(sender, MINT_ROLE)
  /\ IsAuthorized("MINT_RECEIVER", to)
  /\ totalSupply + amount <= supplyCap
  /\ totalSupply' = totalSupply + amount
  /\ balances' = [balances EXCEPT ![to] = Wrap(@ + amount)]
  /\ UNCHANGED <<allowances, ruleVars>>

Mint(sender, to, amount) ==
  /\ WhenNotPaused("MINT")
  /\ RequireRole(sender, MINT_ROLE)
  /\ ~IsContractAddressOrZero(to)
  /\ IsAuthorized("MINT_RECEIVER", to)
  /\ totalSupply + amount <= supplyCap
  /\ totalSupply' = totalSupply + amount
  /\ balances' = [balances EXCEPT ![to] = Wrap(@ + amount)]
  /\ UNCHANGED <<allowances, ruleVars>>

Burn(sender, amount) ==
  /\ WhenNotPaused("BURN")
  /\ RequireRole(sender, BURN_ROLE)
  /\ BurnRaw(sender, amount)
  /\ UNCHANGED ruleVars

\* Mutant of BurnBlocked: it is not pausable.
BurnBlocked_notPausable(sender, from, amount) ==
  /\ RequireRole(sender, BURN_BLOCKED_ROLE)
  /\ ~IsAuthorized("SENDER", from)
  /\ BurnRaw(from, amount)
  /\ UNCHANGED ruleVars

BurnBlocked(sender, from, amount) ==
  /\ WhenNotPaused("BURN")
  /\ RequireRole(sender, BURN_BLOCKED_ROLE)
  /\ ~IsAuthorized("SENDER", from)
  /\ BurnRaw(from, amount)
  /\ UNCHANGED ruleVars

Seize(sender, from, to, amount) ==
  /\ WhenNotPaused("SEIZE")
  /\ RequireRole(sender, SEIZE_ROLE)
  /\ ~IsContractAddressOrZero(to)
  /\ from # ZeroAddress
  /\ from # to
  /\ ~IsAuthorized("SEIZE_EXEMPT", from)
  /\ IsAuthorized("SEIZE_RECEIVER", to)
  /\ MoveBalance(from, to, amount)
  /\ UNCHANGED <<allowances, ruleVars>>

-----------------------------------------------------------------------------
(* Rules: pauses, policy lanes, supply cap.                                *)

Pause(sender, features) ==
  /\ RequireRole(sender, PAUSE_ROLE)
  /\ features # {}
  /\ paused' = paused \union features
  /\ UNCHANGED <<moneyVars, policyIds, supplyCap>>

Unpause(sender, features) ==
  /\ RequireRole(sender, UNPAUSE_ROLE)
  /\ features # {}
  /\ paused' = paused \ features
  /\ UNCHANGED <<moneyVars, policyIds, supplyCap>>

\* Mutants of UpdatePolicy: ids are not looked up in the registry; whoever may
\* pause may also change the lanes.
UpdatePolicy_unchecked(sender, scope, newPolicyId) ==
  /\ RequireRole(sender, DEFAULT_ADMIN_ROLE)
  /\ policyIds' = [policyIds EXCEPT ![scope] = newPolicyId]
  /\ UNCHANGED <<moneyVars, paused, supplyCap>>
UpdatePolicy_byPauser(sender, scope, newPolicyId) ==
  /\ RequireRole(sender, PAUSE_ROLE)
  /\ newPolicyId \in known
  /\ policyIds' = [policyIds EXCEPT ![scope] = newPolicyId]
  /\ UNCHANGED <<moneyVars, paused, supplyCap>>

UpdatePolicy(sender, scope, newPolicyId) ==
  /\ RequireRole(sender, DEFAULT_ADMIN_ROLE)
  /\ newPolicyId \in known
  /\ policyIds' = [policyIds EXCEPT ![scope] = newPolicyId]
  /\ UNCHANGED <<moneyVars, paused, supplyCap>>

\* Mutant of UpdateSupplyCap: no ceiling.
UpdateSupplyCap_noCeiling(sender, newSupplyCap) ==
  /\ RequireRole(sender, DEFAULT_ADMIN_ROLE)
  /\ totalSupply <= newSupplyCap
  /\ supplyCap' = newSupplyCap
  /\ UNCHANGED <<moneyVars, policyIds, paused>>

UpdateSupplyCap(sender, newSupplyCap) ==
  /\ RequireRole(sender, DEFAULT_ADMIN_ROLE)
  /\ totalSupply <= newSupplyCap /\ newSupplyCap <= MAX_SUPPLY_CAP
  /\ supplyCap' = newSupplyCap
  /\ UNCHANGED <<moneyVars, policyIds, paused>>

-----------------------------------------------------------------------------
(* One call of the token, and the next-state relation.                     *)

MoneyStep(sender) ==
  \E amount \in Amounts :
    \/ \E to \in Holders : Transfer(sender, to, amount) \/ Mint(sender, to, amount)
    \/ \E from, to \in Holders : TransferFrom(sender, from, to, amount)
                                   \/ Seize(sender, from, to, amount)
    \/ \E spender \in Holders : Approve(sender, spender, amount)
    \/ \E from \in Holders : BurnBlocked(sender, from, amount)
    \/ Burn(sender, amount)

RuleStep(sender) ==
  \/ \E features \in SUBSET Features : Pause(sender, features) \/ Unpause(sender, features)
  \/ \E scope \in Scopes, id \in PolicyIds : UpdatePolicy(sender, scope, id)
  \/ \E cap \in Amounts : UpdateSupplyCap(sender, cap)

TokenCall(sender) ==
  /\ \/ (MoneyStep(sender) \/ RuleStep(sender)) /\ UNCHANGED roleVars
     \/ RoleStep(sender) /\ UNCHANGED <<moneyVars, ruleVars>>
  /\ caller' = sender
  /\ UNCHANGED oracleVars

(* The registry moves between the token's calls.  The bootstrap is one     *)
(* transaction of the factory, in which it does not.                       *)
RegistryStep ==
  /\ initialized
  /\ OracleNext
  /\ UNCHANGED <<moneyVars, ruleVars, roleVars, caller>>

B20Next == (\E sender \in Callers : TokenCall(sender)) \/ RegistryStep

B20Spec == B20Init /\ [][B20Next]_vars

-----------------------------------------------------------------------------
(* Properties.                                                             *)

(* Every unit in circulation, told apart by its holder and its number. *)
Units == UNION {{h} \X (1..balances[h]) : h \in Holders}

(***************************************************************************)
(* No unit appears or disappears in a transfer, a self-transfer or a       *)
(* seizure, and no unchecked addition wraps: the stored supply counts the  *)
(* units held, and stays within the cap, which stays within MAX_SUPPLY_CAP *)
(* however the cap is moved.                                               *)
(***************************************************************************)
SupplyConserved ==
  /\ totalSupply = Cardinality(Units)
  /\ totalSupply <= supplyCap
  /\ supplyCap <= MAX_SUPPLY_CAP

(***************************************************************************)
(* Neither the token itself nor address(0) ever holds a unit, whichever    *)
(* operation credits: what they held could not be moved by its holder.     *)
(***************************************************************************)
NothingStuck == balances[Token] = 0 /\ balances[ZeroAddress] = 0

(***************************************************************************)
(* Every lane names an id the registry knows at every moment, which is why *)
(* transfers may ask isAuthorized without asking policyExists first.       *)
(***************************************************************************)
LanesAreKnown == \A scope \in Scopes : policyIds[scope] \in known

(***************************************************************************)
(* Nobody's balance goes down except: by the holder's own call; by a       *)
(* spender, for what its allowance goes down (unless infinite); by a burn  *)
(* of an account the sender lane rejects; by a seizure of an account the   *)
(* exempt lane rejects.  The factory's bootstrap privilege stands in for a *)
(* role and for nothing else of this.                                      *)
(***************************************************************************)
Loss(h) == balances[h] - balances'[h]

SpentAllowance(h) ==
  \/ allowances[h][caller'] = MaxUint
  \/ allowances'[h][caller'] = allowances[h][caller'] - Loss(h)

BurntAsBlocked(h) ==
  /\ RequireRole(caller', BURN_BLOCKED_ROLE)
  /\ ~IsAuthorized("SENDER", h)
  /\ totalSupply' = totalSupply - Loss(h)

SeizedFrom(h) ==
  /\ RequireRole(caller', SEIZE_ROLE)
  /\ ~IsAuthorized("SEIZE_EXEMPT", h)
  /\ totalSupply' = totalSupply

HoldersLoseOnlyByRight ==
  [][\A h \in Holders :
       Loss(h) > 0 => \/ caller' = h
                      \/ SpentAllowance(h)
                      \/ BurntAsBlocked(h)
                      \/ SeizedFrom(h)]_vars

(***************************************************************************)
(* Units reach an account of a created token only past its lanes: a minter *)
(* past the mint receiver lane; a transfer past all three transfer lanes,  *)
(* the caller's, the debited holder's and the receiver's, even where the   *)
(* code skips a check; a seizure past the seize receiver lane.             *)
(***************************************************************************)
Minted(h) ==
  /\ HasRole(MINT_ROLE, caller')
  /\ totalSupply' > totalSupply
  /\ IsAuthorized("MINT_RECEIVER", h)

Transferred(h) ==
  /\ IsAuthorized("EXECUTOR", caller')
  /\ \A from \in Holders : Loss(from) > 0 => IsAuthorized("SENDER", from)
  /\ IsAuthorized("RECEIVER", h)

SeizedTo(h) ==
  /\ HasRole(SEIZE_ROLE, caller')
  /\ \A from \in Holders : Loss(from) > 0 => ~IsAuthorized("SEIZE_EXEMPT", from)
  /\ IsAuthorized("SEIZE_RECEIVER", h)

UnitsArriveByTheLanes ==
  [][\A h \in Holders :
       (initialized /\ Loss(h) < 0) => Minted(h) \/ Transferred(h) \/ SeizedTo(h)]_vars

(***************************************************************************)
(* A paused feature is stopped on every path, for the privileged factory   *)
(* too: the supply does not grow while MINT is paused nor shrink while     *)
(* BURN is, and no unit changes hands while TRANSFER and SEIZE both are.   *)
(***************************************************************************)
PausesHold ==
  [][/\ "MINT" \in paused => totalSupply' <= totalSupply
     /\ "BURN" \in paused => totalSupply' >= totalSupply
     /\ {"TRANSFER", "SEIZE"} \subseteq paused =>
          ~\E from, to \in Holders : Loss(from) > 0 /\ Loss(to) < 0]_vars

(***************************************************************************)
(* A token without an admin keeps its lanes and its cap, and on lanes that *)
(* name sealed ids every account keeps its standing, whatever the admins   *)
(* of other policies and the holders of other roles do.                    *)
(***************************************************************************)
AdminlessRulesStand ==
  [][(initialized /\ adminCount = 0) =>
       /\ policyIds' = policyIds
       /\ supplyCap' = supplyCap
       /\ \A scope \in Scopes : policyIds[scope] \in sealed =>
            \A a \in Subjects : IsAuthorized(scope, a)' <=> IsAuthorized(scope, a)]_vars
=============================================================================
