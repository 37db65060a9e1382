CONSTANTS
  A = A
  B = B
  ann = ann
  bob = bob
  Databases = {A, B}
  Operators = {ann, bob}
  Users <- MCUsers
  Tables <- MCTables
  NoStation = NoStation
  MaxShifts = 2
SYMMETRY OperatorSymmetry
SPECIFICATION PageSpec
INVARIANTS
  EveryoneOnce
  OperatorFirst
