SPECIFICATION Spec
CONSTANTS
  Infos = {i1, i2}
  NoInfo = NoInfo
  Browsers = {b1}
  NoToken = NoToken
  Limit = 2
  Hour = 1
  Offset <- AutumnOffset
  MaxTime = 3
  MaxSecrets = 2
SYMMETRY Symmetry
INVARIANTS
  TypeOK
  OwnSessions
  ActsOnItsStation
  LeftByItsAdmin
  AgeWithinAnHour
