\* The nonces of a run of two journeys.
CONSTANTS
  Backends = {b1, b2}
  MaxJourneys = 2
  MaxBlocks = 3
  MaxNonce = 1
SPECIFICATION SmokeSpec
INVARIANTS NeverTooLow
CHECK_DEADLOCK FALSE
