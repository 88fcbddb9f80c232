SPECIFICATION Spec
CONSTANTS
  Handlers = {h1}
  MaxHistory = 2
  PageSize = 2
  ResyncSize = 2
  Excluded = {}
  HookMayFail = TRUE
  WritesMayFail = TRUE
  MayCrash = TRUE
  Commands = {"start", "renew", "stop"}
  None = None
PROPERTIES RewindIsOwn
CHECK_DEADLOCK FALSE
