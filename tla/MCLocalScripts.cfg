SPECIFICATION Spec
CONSTANTS
  Files = {"token", "policy"}
  Trees <- MCTrees
  Fragments <- MCFragments
  Mutations <- MCMutations
  Suite <- MCSuite
  Reports <- MCReports
  FEATURES <- MCFEATURES
  Skip = {"POLICY"}
  MaxPolls = 1
  Runs = 2
  Trouble = 1
INVARIANTS NothingLeftBehind VerdictsMean
CHECK_DEADLOCK FALSE
