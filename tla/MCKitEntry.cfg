SPECIFICATION FairSpec
CONSTANTS
  Ids <- MCIds
  Amount <- MCAmount
  TOpen <- MCTOpen
  TLapse <- MCTLapse
  Contest <- MCContest
  MaxTime = 6
  RefundTo <- MCRefundTo
  Freezable <- MCFreezable
  Roles <- MCRoles
  Weight <- MCWeight
  DestOf <- MCDestOf
INVARIANTS
  RefundNeedsNotice
  EscrowBacksEntry
PROPERTIES
  KeepsPromise
  DepositLeaves
CHECK_DEADLOCK FALSE
