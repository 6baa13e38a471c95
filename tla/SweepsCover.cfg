\* three orders, pages of two and one, reconciliation reads them all; two faults
SPECIFICATION FairSpec
CONSTANTS
  NumOrders = 3
  ExpireLimit = 2
  ReconLimit = 3
  ClaimLimit = 1
  MaxFaults = 2
PROPERTIES ExpiredEnds BrokenIsFiled
CHECK_DEADLOCK FALSE
