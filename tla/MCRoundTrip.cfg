\* The round-trip loss that the documentation states.
CONSTANTS
  WAD_PRECISION = 10
  MAX_UI_MULTIPLIER = 31
  MAX_SUPPLY_CAP = 31
  MaxUint = 1023
SPECIFICATION ScaledSpec
INVARIANT RoundTripLosesOneUnitAtMost
