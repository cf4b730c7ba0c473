SPECIFICATION ChainSpec
CONSTANTS
  BpDenom = 3
  Cids = {1, 2, 3}
  Bp <- MCBp
  LPrepay <- MCLPrepay
  MaxAmt = 1
  DepositAmts = {1}
  MaxDeposits = 2
  MaxCkpt = 2
  MaxRestarts = 0
  MayFail = {}
INVARIANT OneDisposition
CHECK_DEADLOCK FALSE
