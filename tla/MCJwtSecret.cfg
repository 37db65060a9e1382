CONSTANTS
  MaxSecrets = 5
  MaxHandles = 4
SPECIFICATION Spec
INVARIANTS
  SecretOnDisk
  RotationEndsSessions
  OnlyFailedWritesLeak
  CallsAlone
PROPERTY
  ImplementsStore
