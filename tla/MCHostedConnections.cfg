SPECIFICATION Spec
CONSTANTS
  Connections = {c1, c2}
  States = {s1, s2}
  Tokens = {t1, t2}
  Subjects = {alice, bob}
  Requests = {r1, r2}
  r1 = r1
  r2 = r2
  sessionA = sessionA
  sessionB = sessionB
  SessionOf <- OneSession
  TrackedEvents = {}
  MayCrash = TRUE
  Pending = Pending
  None = None
SYMMETRY SymmetricRequests
INVARIANTS TypeOK ConsentInv CredentialIdentity UniqueIdentity StateIsOneUse
PROPERTIES DisconnectIsFinal ImplementsVault
CHECK_DEADLOCK FALSE
