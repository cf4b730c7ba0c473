SPECIFICATION FairSpec
CONSTANTS
  Ids <- MCIds
  Amount <- MCAmount
  TOpen <- MCTOpen
  TLapse <- MCTLapse
  Contest <- MCContest
  MaxTime = 4
  Roles <- MCRoles
  Weight <- MCWeight
  DestOf <- MCDestOf
  MaxFaults = 1
  Caip <- MCCaip
  DevFund = "dev"
  OsFund = "fund"
  Foundation = "foundation"
  GovernanceReady = TRUE
  X402 <- MCX402
  TimeDomain = 4
  Declared = {1, 2}
  Assets = {"usd"}
  MerchantKey = "shopKey"
  MerchantRegistry <- MCRegistry
  ServedResources = {"page", "other"}
  Origin <- MCOrigin
  HostOf <- MCHostOf
  WalletRegistry <- MCRegistry
  OwnDest <- MCOwnDest
  Budget <- MCBudget
  Circulating <- MCCirculating
  Issued <- MCIssued
  Approved <- MCApproved
  Delay = 1
  Latency = 0
  Sessions = {s1, s2}
  MaxRefs = 3
  MaxAuths = 1
INVARIANTS
  DeliveryIsPaid
  SentIsHonored
PROPERTY
  PaidIsDelivered
CHECK_DEADLOCK FALSE
