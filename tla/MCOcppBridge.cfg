SPECIFICATION Spec
CONSTANTS
  p = p
  q = q
  s1 = s1
  s2 = s2
  t1 = t1
  k1 = k1
  ChargePoints = {p, q}
  Sessions = {s1, s2, t1}
  NoSession = NoSession
  Commands = {k1}
  Of <- MCOf
  To <- MCTo
INVARIANTS
  TypeInv
  RegistryIsCurrentUnlessOverlapped
  StatusIsCurrent
  GatewayIsCurrent
  OfflineAfterStopUnlessCrossed
CHECK_DEADLOCK FALSE
