SPECIFICATION FairSpec
CONSTANTS
  p = p
  s1 = s1
  s2 = s2
  k1 = k1
  k2 = k2
  ChargePoints = {p}
  Sessions = {s1, s2}
  NoSession = NoSession
  Commands = {k1, k2}
  NoTransaction = NoTransaction
  MaxTransactions = 2
  Of <- MCOf
  To <- MCTo
INVARIANTS
  TypeInv
  CommandsInOrder
PROPERTIES
  StopEndsWhatWasMeant
  CommandsEnd
CHECK_DEADLOCK FALSE
