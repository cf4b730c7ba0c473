SPECIFICATION FairSpec
CONSTANTS
  Bp <- MCBp
  BpDenom = 4
  LimitL = 3
  MaxCum = 4
  MaxAmt = 2
  MaxCkpt = 2
  MaxRail = 4
  MaxFunds = 2
  Overshoot = 1
INVARIANTS
  NeverBricked
  BackstopSilent
  LedgerBacked
  MeedBeforeNet
PROPERTIES
  EveryRoundConfirms
CHECK_DEADLOCK FALSE
