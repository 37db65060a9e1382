CONSTANTS
  Prices <- MCPrices
  Colors <- MCColors
  None = None
SPECIFICATION Spec
INVARIANTS
  KeptAsTyped
  ShownOneLessAtMost
