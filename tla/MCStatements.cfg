CONSTANTS
  Handler = Handler
  Connector = Connector
  Addresses = {a1, a2, a3, a4}
  NoAddress = NoAddress
  MaxSessions = 3
SPECIFICATION Spec
SYMMETRY MCSymmetry
INVARIANTS
  UndisturbedIsSound
  OnlyExceptionsLeak
