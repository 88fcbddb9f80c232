SPECIFICATION Spec
CONSTANTS
  Ids = {i1}
  Arguments = {a1, a2}
  Ops = {o1, o2}
  Deletes = {d1, d2}
  MaxActive = 1
  TTL = 2
  MaxTime = 2
  None = None
SYMMETRY Symmetric
INVARIANTS TypeOK OnlyAsApproved RunsOnce NoWriteUnentitled
PROPERTIES PurgedIsFinal SettledIsFinal Implements
CHECK_DEADLOCK FALSE
