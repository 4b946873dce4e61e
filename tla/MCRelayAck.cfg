\* The bounds of MCRelay with one page a sync.
SPECIFICATION FairSpec
CONSTANTS
  None = None
  PageSize = 2
  MaxPages = 1
  Quota = 2
  MaxItems = 2
  MaxEpoch = 1
  MaxWire = 1
PROPERTIES
  SettlementReachesHost
CHECK_DEADLOCK FALSE
