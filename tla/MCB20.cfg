\* Four slices of the token: transfers, issuance, rules and roles.
CONSTANTS
  a = a
  b = b
  allow = allow
  notAllow = notAllow
  block = block
  notBlock = notBlock
  p = p
  notP = notP
  Accounts <- MCAccounts
  Subjects <- MCSubjects
  PolicyIds <- MCPolicyIds
  Inverted <- MCInverted
  AlwaysAllow = allow
  AlwaysBlock = block
  Factory = factory
  Token = token
  ZeroAddress = zero
  Roles = {admin, minter, burner, blockBurner, seizer, pauser, unpauser}
  DEFAULT_ADMIN_ROLE = admin
  MINT_ROLE = minter
  BURN_ROLE = burner
  BURN_BLOCKED_ROLE = blockBurner
  SEIZE_ROLE = seizer
  PAUSE_ROLE = pauser
  UNPAUSE_ROLE = unpauser
  MAX_SUPPLY_CAP = 2
  MaxUint = 3
  Amounts = {0, 1, 2, 3}
VIEW View
SPECIFICATION MCSpec
INVARIANTS B20TypeOK SupplyConserved NothingStuck LanesAreKnown AdminCountExact
PROPERTIES HoldersLoseOnlyByRight UnitsArriveByTheLanes PausesHold AdminlessRulesStand
PROPERTIES LastAdminLeavesByItself AdminlessIsForever RetiredRolesStayRetired
