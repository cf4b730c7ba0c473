SPECIFICATION RetrySpec
CONSTANTS
  Mode = "postpay"
  LimitL = 3
  LimitE = 3
  MaxSeq = 3
  MaxAmt = 2
  MaxCredit = 0
  MaxCredits = 0
  MaxRef = 2
  ImportedCums = {}
  Roles <- MCRoles
  Bp <- MCBp
INVARIANTS
  HonestPayerNeverPaused
PROPERTIES
  ReceiptRecovered
CHECK_DEADLOCK FALSE
