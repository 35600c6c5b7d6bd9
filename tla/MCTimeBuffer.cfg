SPECIFICATION Spec
CONSTANTS
  Writers = {mqtt}
  Times = {0, 1, 2, 3, 4}
  Values = {0, 1}
  Age = 2
  MaxNow = 4
INVARIANTS
  Sorted
  IInv
PROPERTIES
  ImplementsBuffer
