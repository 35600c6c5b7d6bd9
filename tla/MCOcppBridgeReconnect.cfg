SPECIFICATION Spec
CONSTANTS
  p = p
  q = q
  s1 = s1
  s2 = s2
  t1 = t1
  k1 = k1
  ChargePoints = {p}
  Sessions = {s1, s2}
  NoSession = NoSession
  Commands = {k1}
  Of <- MCOf
  To <- MCTo
INVARIANT
  RegistryIsCurrent
CHECK_DEADLOCK FALSE
