SPECIFICATION Spec
CONSTANTS
  t1 = t1
  t2 = t2
  t3 = t3
  a1 = a1
  g1 = g1
  null = null
  None = null
  Tasks = {t1, t2, t3}
  Terminals = {a1}
  Gates = {g1}
  Deps <- JoinDeps
  MaxDispatches = 2
  MaxEpoch = 0
  BreakAt = 2
  OperatorStatuses = {"completed"}
SYMMETRY Interchangeable
INVARIANTS
  TypeOK
  TaskMatchesDispatch
  OneDispatchPerTerminal
PROPERTIES
  ImplementsTaskLease
  PromotionIsExact
CHECK_DEADLOCK FALSE
