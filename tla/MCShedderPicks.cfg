SPECIFICATION Spec
CONSTANTS
  Fleet = {a, b}
  NoData = NoData
  NoVehicle = NoVehicle
  MinCurrent = 5
  MaxCurrent = 6
  World <- UnreadWorld
  MaxFloor = 1
  Jitter = 1
  Guard = 2
  MaxStep = 1
  AdjustPeriod = 1
PROPERTY
  PicksIfAnyCharges
