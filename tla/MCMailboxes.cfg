SPECIFICATION Spec
CONSTANTS
  None = None
  r1 = r1
  r2 = r2
  d1 = d1
  ta = ta
  tb = tb
  tb2 = tb2
  Runs = {r1}
  Dispatches = {d1}
  RunOf <- MCRunOf
  Handles = {ta, tb}
  PaneOf <- MCPaneOf
  Calls = {c1}
  Batch = 1
  MaxMail = 2
  MaxGeneration = 2
INVARIANTS TypeOK OutstandingIsCurrent AcknowledgedOnce ReadByItsReceiver
PROPERTY WaitersHear
CHECK_DEADLOCK FALSE
