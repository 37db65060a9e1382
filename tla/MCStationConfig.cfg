CONSTANTS
  f = f
  k1 = k1
  k2 = k2
  p = p
  q = q
  v1 = v1
  v2 = v2
  Fuels = {f}
  Tanks = {k1, k2}
  Pumps = {p, q}
  Values = {v1, v2}
  Absent = Absent
  Requests <- MCRequests
  MaxNumber = 2
SPECIFICATION Spec
INVARIANTS
  TypeOK
  PistolsUnique
  YesMeansSaved
PROPERTIES
  ImplementsTables
