SPECIFICATION Spec
CONSTANTS
  Handlers = {h1, h2}
  MaxHistory = 3
  PageSize = 3
  ResyncSize = 3
  Excluded = {}
  HookMayFail = FALSE
  WritesMayFail = TRUE
  MayCrash = FALSE
  Commands = {}
  None = None
SYMMETRY Symmetric
INVARIANTS NothingIsSkipped
CHECK_DEADLOCK FALSE
