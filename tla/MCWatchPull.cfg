SPECIFICATION FairSpec
CONSTANTS
  Handlers = {h1}
  MaxHistory = 4
  PageSize = 4
  ResyncSize = 4
  Excluded = {3}
  HookMayFail = TRUE
  WritesMayFail = FALSE
  MayCrash = FALSE
  Commands = {}
  None = None
INVARIANTS TypeOK EveryMessageIsOwed
PROPERTIES MailIsHandled
CHECK_DEADLOCK FALSE
