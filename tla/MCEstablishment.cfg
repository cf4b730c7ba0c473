SPECIFICATION FairSpec
CONSTANTS
  Caip <- MCCaip
  DevFund = "dev"
  OsFund = "fund"
  Foundation = "foundation"
  GovernanceReady = TRUE
  Ids = {1}
  Params <- MCParams
  Snapshots <- MCSnapshots
  Merchant = merchant
  Other = other
  Host = "host"
  Cert = "cert"
  OtherCert = "otherCert"
  OwnDest <- MCOwnDest
  Budget <- MCBudget
  Assets = {"usd", "eur"}
  Pointers = {"wallet", "il"}
  Strongest = "final"
  Stamps = {0}
  Skew = 1
  Latency = 0
  MaxTime = 2
  MaxSeq = 1
  MaxRestarts = 1
INVARIANTS
  SessionAgreement
  BilledOnce
  MeedGoverned
PROPERTIES
  LostAckRecovered
CHECK_DEADLOCK FALSE
