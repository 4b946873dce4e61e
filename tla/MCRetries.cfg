SPECIFICATION FairSpec
CONSTANTS
  t1 = t1
  t2 = t2
  t3 = t3
  a1 = a1
  g1 = g1
  null = null
  None = null
  Tasks = {t1}
  Terminals = {a1}
  Gates = {}
  Deps <- NoDeps
  MaxDispatches = 3
  MaxEpoch = 1
  BreakAt = 2
  OperatorStatuses = {"failed", "ready"}
INVARIANTS
  OneActiveDispatch
  WorkerMatchesDispatch
  NothingOutlives
PROPERTIES
  SettledStaysSettled
  StoppedWorkIsNotRedispatched
  BreakerLimitsRetries
  NothingHangs
CHECK_DEADLOCK FALSE
