CONSTANTS
  Dispatches = {d1, d2}
  Panes = {p1}
  None = None
  MaxInc = 2
  MaxRestarts = 1
SPECIFICATION Spec
INVARIANTS TypeOK OutputIsKept ReleasedIsGone
PROPERTY OnlyItsOwnIsClosed
CHECK_DEADLOCK FALSE
