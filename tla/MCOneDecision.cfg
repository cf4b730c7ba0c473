SPECIFICATION LogSpec
CONSTANTS
  Keys <- MCKeys
  Values <- MCValues
  MaxAppends = 4
INVARIANTS
  FreshOnce
  OneAnswer
  ToldIsDurable
