CONSTANTS
  A = A
  B = B
  C = C
  t1 = t1
  t2 = t2
  t3 = t3
  Infos = {A, B, C}
  Schemas = {A, B}
  Stations = {A}
  NoInfo = NoInfo
  Threads = {t1, t2, t3}
  NoThread = NoThread
SYMMETRY ThreadSymmetry
SPECIFICATION Spec
INVARIANTS
  TypeOK
  OneAttempt
  Settled
  GuardedHasSession
  VerdictIsFinal
  DiskFollowsMemory
PROPERTY
  OnlyRestartMendsFlag
