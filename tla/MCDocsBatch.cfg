SPECIFICATION FairSpec
CONSTANTS
  Batches = {b1}
  Commands = {c1, c2}
  Cap = 2
  MaxRequests = 3
  MaxRevision = 2
  Foreign = Foreign
  None = None
INVARIANTS TypeOK AppliedOnce OnlyOwnEdits NoRequestLost AppliedInOrder
CHECK_DEADLOCK FALSE
PROPERTIES ImplementsQueues CommandsEnd
