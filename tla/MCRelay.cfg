\* Two items over pages of two, a queue that fills up, one restart of the host.
SPECIFICATION FairSpec
CONSTANTS
  None = None
  PageSize = 2
  MaxPages = 2
  Quota = 2
  MaxItems = 2
  MaxEpoch = 1
  MaxWire = 1
INVARIANTS
  TypeOK
  AckedIsImported
  HostSettlesWithHome
  AcceptedReportSettles
  AcksFit
PROPERTIES
  RelaysInOrder
  ReportSettles
CHECK_DEADLOCK FALSE
