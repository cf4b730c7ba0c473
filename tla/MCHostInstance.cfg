SPECIFICATION Spec
CONSTANTS
  Ids <- MCIds
  Amount <- MCAmount
  TOpen <- MCTOpen
  TLapse <- MCTLapse
  Contest <- MCContest
  MaxTime = 4
  Roles <- MCRoles
  Weight <- MCWeight
  DestOf <- MCDestOf
  Claims <- MCClaims
  ClaimP <- MCClaimP
  Channels = {"c1", "c2"}
  MaxP = 2
  Release <- MCRelease
  MaxFloat = 2
INVARIANTS
  ValueConserved
  RetryIsAnswered
CHECK_DEADLOCK FALSE
