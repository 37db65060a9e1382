CONSTANTS
  A = A
  B = B
  C = C
  t1 = t1
  t2 = t2
  t3 = t3
  Infos = {A, B}
  Schemas = {A}
  Stations = {A}
  NoInfo = NoInfo
  Threads = {t1, t2}
  NoThread = NoThread
SPECIFICATION Spec
PROPERTIES
  EverythingReturns
  Recovers
  ImplementsLink
