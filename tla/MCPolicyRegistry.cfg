\* Two accounts, up to two custom policies: handovers, renunciation, lists.
CONSTANTS
  a1 = a1
  a2 = a2
  Accounts <- Accounts2
  ZeroAddress = zero
  MaxCounter = 4
  MaxBatch = 1
  MinChildren = 2
  MaxChildren = 2
  ChildLists <- MCChildLists
SYMMETRY Symmetry
SPECIFICATION Spec
INVARIANTS TypeOK RecordsBelongToCreated
PROPERTIES RenouncedIsFrozen AdminHandover ImplementsOracle
CHECK_DEADLOCK FALSE
