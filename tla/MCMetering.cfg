SPECIFICATION Spec
CONSTANTS
  Mode = "postpay"
  LimitL = 3
  LimitE = 2
  MaxSeq = 3
  MaxAmt = 2
  MaxCredit = 2
  MaxCredits = 2
  MaxRef = 2
  ImportedCums = {2}
  Roles <- MCRoles
  Bp <- MCBp
INVARIANTS
  CreditBound
  EvidenceBound
  OneSlicePerSeq
  CheckpointsTruthful
PROPERTIES
  CoverageFrozen
