SPECIFICATION FloatSpec
CONSTANTS
  Moments = {1, 2, 3, 4, 5}
  Amounts = {0, 1, 3}
  Scale = 12
INVARIANTS
  IndexDivides
  IntegralIsSumOfPower
  CounterNeverRunsBackward
  ExtremesOverPeriods
