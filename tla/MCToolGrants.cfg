SPECIFICATION Spec
CONSTANTS
  Vaults = {c1}
  Owners = {alice}
  Tools = {drive_get}
  AccountTools = {}
  Resources = {x1, x2}
  Calls = {q1}
  Pages = {e1, e2}
  ChunkSize = 1
  None = None
SYMMETRY Symmetric
INVARIANTS TypeOK RevocationsAreHonoured GrantsHaveConnections Inv
PROPERTIES DiscoveryEnablesNothing
CHECK_DEADLOCK FALSE
