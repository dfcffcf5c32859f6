\* Multipliers 0 to 4 around the ceiling of 3, times 0 to 4 around the last, 3.
CONSTANTS
  Accounts = {op}
  Factory = factory
  Roles = {admin, operator}
  DEFAULT_ADMIN_ROLE = admin
  OPERATOR_ROLE = operator
  WAD_PRECISION = 2
  MAX_UI_MULTIPLIER = 3
  MaxEffectiveAt = 3
  MaxTime = 4
  Multipliers <- MCMultipliers
  Times <- MCTimes
VIEW View
SPECIFICATION MultiplierSpec
INVARIANTS MultiplierTypeOK MultiplierInForceInRange IndexersAgree
PROPERTIES ImplementsTimeline
