SPECIFICATION FairSpec
CONSTANTS
  None = None
  Requests = {r1, r2}
  Payloads = {p1, p2}
  MaxRows = 1
  PruneBatch = 1
  MaxEffects = 2
INVARIANTS
  TypeOK
  AtMostOnce
  ReceiptTellsTruth
  FailureIsSafe
  LedgerBounded
PROPERTIES
  ResumableResolves
