CONSTANTS
  NULL = NULL
  Databases = {a, b}
  Contents <- MCContents
SPECIFICATION Spec
INVARIANTS
  PumpsGrouped
  OwnTank
  CrashesExplained
