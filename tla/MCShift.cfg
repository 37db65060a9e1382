CONSTANTS
  A = A
  B = B
  ann = ann
  bob = bob
  Databases = {A, B}
  Operators = {ann, bob}
  MaxShifts = 2
SYMMETRY OperatorSymmetry
SPECIFICATION Spec
INVARIANTS
  TypeOK
  OneOpenShift
  NumbersConsecutive
  LoginTakesShift
PROPERTIES
  ClosedForGood
  RowsStayHome
