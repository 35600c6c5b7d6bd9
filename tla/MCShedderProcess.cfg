SPECIFICATION FairSpec
CONSTANTS
  k1 = k1
  k2 = k2
  Keys = {k1, k2}
  MeterTopic = meter
  ControlTopic = control_topic
  Topics = {meter, control_topic}
  MaxGhosts = 2
  MaxFaults = 3
  MaxMessages = 2
INVARIANTS
  TypeInv
  StoredIsCurrent
  AliveIsCurrent
  Listens
PROPERTIES
  ComesBack
  MonitorIsRight
  HearsAgain
CHECK_DEADLOCK FALSE
