CONSTANTS
  Chars <- MCChars
  Names <- MCNames
  Values <- MCValues
  Separators <- MCSeparators
  MaxPairs = 3
  Headers <- MCHeaders
SPECIFICATION ParseSpec
INVARIANTS
  TextOfHeader
