SPECIFICATION Spec
CONSTANTS
  Args <- MCArgs
  Bugs <- MCBugs
  Disturbances <- MCDisturbances
  MaxPolls = 2
  Hour = 2
  Window = 1
  MaxNow = 4
INVARIANTS NoFalseAlarm PassMeansSound SkipsAreEarned
PROPERTY RunEnds
