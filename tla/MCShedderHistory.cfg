SPECIFICATION HistorySpec
CONSTANTS
  Fleet = {a, b}
  NoData = NoData
  NoVehicle = NoVehicle
  MinCurrent = 5
  MaxCurrent = 7
  World <- HistoryWorld
  MaxFloor = 1
  Jitter = 1
  Guard = 2
  MaxStep = 2
  AdjustPeriod = 0
INVARIANT
  HistoryTypeInv
PROPERTIES
  GuardKept
  CutAfterFloorTime
  DownNeverRaises
