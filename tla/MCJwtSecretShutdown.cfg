CONSTANTS
  MaxSecrets = 5
  MaxHandles = 4
SPECIFICATION Spec
INVARIANT FinalizedOnce
