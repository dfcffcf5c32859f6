\* One account, up to three custom policies: composites of two policies.
CONSTANTS
  a1 = a1
  a2 = a2
  Accounts <- Accounts1
  ZeroAddress = zero
  MaxCounter = 5
  MaxBatch = 1
  MinChildren = 2
  MaxChildren = 2
  ChildLists <- MCChildLists
SPECIFICATION Spec
INVARIANTS ChildrenAreCreatedSimple InvertedChildrenDeMorgan
CHECK_DEADLOCK FALSE
