SPECIFICATION FairSpec
CONSTANTS
  Fleet = {a, b}
  NoData = NoData
  NoVehicle = NoVehicle
  MinCurrent = 5
  MaxCurrent = 6
  World <- LiveWorld
  MaxFloor = 1
  Jitter = 1
  Guard = 2
  MaxStep = 2
  AdjustPeriod = 1
PROPERTIES
  LoadIsShedAtNight
  PowerIsUsed
  SunCarsStart
  SunCarsStop
  DisabledGetsQuiet
