SPECIFICATION ECSpec
CONSTANTS
  Mqtt = mqtt
  Main = main
  Writers = {mqtt, main}
  Times <- MCTimes
  Values = {0, 1}
  Age = 2
  MaxNow = 3
  MaxReadings = 2
  MaxDelay = 1
  MaxOffline = 1
  Duration = 2
  MaxPower = 1
INVARIANT
  Sorted
CHECK_DEADLOCK FALSE
