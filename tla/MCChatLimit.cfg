SPECIFICATION Spec
CONSTANTS
  Ids = {i1, i2, i3}
  Arguments = {a1}
  Ops = {o1, o2}
  Deletes = {}
  MaxActive = 1
  TTL = 1
  MaxTime = 0
  None = None
SYMMETRY Symmetric
INVARIANTS ActiveIsBounded
CHECK_DEADLOCK FALSE
