\* What the interface says clears a live change.
CONSTANTS
  Accounts = {op}
  Factory = factory
  Roles = {admin, operator}
  DEFAULT_ADMIN_ROLE = admin
  OPERATOR_ROLE = operator
  WAD_PRECISION = 2
  MAX_UI_MULTIPLIER = 3
  MaxEffectiveAt = 3
  MaxTime = 4
  Multipliers <- MCMultipliers
  Times <- MCTimes
SPECIFICATION MultiplierSpec
PROPERTY LiveChangeClearedAsDocumented
