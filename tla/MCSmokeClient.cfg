\* Two journeys over two nodes, up to two transactions each way.
CONSTANTS
  Backends = {b1, b2}
  MaxJourneys = 2
  MaxBlocks = 3
  MaxNonce = 1
SPECIFICATION SmokeSpec
INVARIANTS SmokeTypeOK SentCanBeMined
PROPERTIES ReadYourWrites NoncesGoUp RequestsEnd
\* A run may end after a failure, and the chain at its bound.
CHECK_DEADLOCK FALSE
