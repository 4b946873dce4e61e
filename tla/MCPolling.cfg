SPECIFICATION FairSpec
CONSTANTS
  None = None
  r1 = r1
  r2 = r2
  d1 = d1
  ta = ta
  tb = tb
  tb2 = tb2
  Runs = {r1, r2}
  Dispatches = {}
  RunOf <- MCRunOf
  Handles = {ta, tb}
  PaneOf <- MCPaneOf
  Calls = {c1}
  Batch = 1
  MaxMail = 1
  MaxGeneration = 3
INVARIANTS MailStaysInItsRun
PROPERTY MailIsRead
CHECK_DEADLOCK FALSE
