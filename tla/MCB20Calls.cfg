SPECIFICATION Spec
CONSTANTS
  ann = ann
  bob = bob
  Accounts = {ann, bob}
  Factory = Factory
  Zero = Zero
  Tokens = {"t1", "t2"}
  Deployer <- MCDeployer
  Admitted = {ann, bob}
  Names = {"old", "new"}
  Ids = {"i", "j", "k"}
  Values = {1, 2}
  MaxSupplyCap = 3
  Calls <- MCCalls
  Requests <- MCRequests
  Creations <- MCCreations
  MaxEvents = 8
  MaxNow = 2
INVARIANTS LogTellsState PermitsOnce
PROPERTY OnlyByRight
CHECK_DEADLOCK FALSE
