SPECIFICATION ChainFairSpec
CONSTANTS
  BpDenom = 3
  Cids = {1, 2}
  Bp <- MCBp
  LPrepay <- MCLPrepay
  MaxAmt = 2
  DepositAmts = {2}
  MaxDeposits = 2
  MaxCkpt = 2
  MaxRestarts = 1
  MayFail = {"commit"}
INVARIANTS
  OneDisposition
  FundingFollowsFloat
  DepositsCoverUses
  CarveDrawnOnce
PROPERTIES
  CloseDrawLands
CHECK_DEADLOCK FALSE
