\* 5-bit amounts and multipliers, 10-bit words, 1.0 = 10.
CONSTANTS
  WAD_PRECISION = 10
  MAX_UI_MULTIPLIER = 31
  MAX_SUPPLY_CAP = 31
  MaxUint = 1023
SPECIFICATION ScaledSpec
INVARIANTS ReadsNeverOverflow RoundTripBounded UISupplyCoversHolders
