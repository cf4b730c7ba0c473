SPECIFICATION FairSpec
CONSTANTS
  BpDenom = 7
  Bp <- MCBp
  Dest <- MCDest
  MerchantNet = "os"
  FrozenSets <- MCFrozen
  Legacy <- MCLegacy
  ClaimP = {5}
  Rates <- MCRates
  MaxAmount = 2
  Loads <- MCLoads
INVARIANTS
  DivisionCanonical
  SplitCovered
  WatermarkNeverSticks
PROPERTIES
  HaltIsReleased
CHECK_DEADLOCK FALSE
