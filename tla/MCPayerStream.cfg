SPECIFICATION StreamFairSpec
CONSTANTS
  BpDenom = 4
  Bp <- MCBp
  Escrow0 = 4
  MaxRefs = 2
  ThValues = {0, 1}
  ThTime = 1
  PerSlice = 2
  MaxAmt = 3
  MaxCum = 4
  MaxNow = 1
INVARIANTS
  SettledIsFinal
  StripBounded
PROPERTIES
  StreamResumes
CHECK_DEADLOCK FALSE
