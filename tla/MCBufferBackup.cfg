SPECIFICATION Spec
CONSTANTS
  Times = {0, 1, 3}
  Values = {0}
  CutTimes <- MCCutTimes
  NoValue = NoValue
  Age = 1
  MaxNow = 3
  MaxReadings = 3
  MaxRestarts = 1
INVARIANTS
  TypeInv
  BackupIsCurrent
  RestoredIsSorted
CHECK_DEADLOCK FALSE
