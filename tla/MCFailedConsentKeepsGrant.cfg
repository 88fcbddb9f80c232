SPECIFICATION Spec
CONSTANTS
  Connections = {c1, c2}
  States = {s1, s2}
  Tokens = {t1, t2, t3}
  Subjects = {alice, bob}
  Requests = {r1, r2}
  r1 = r1
  r2 = r2
  sessionA = sessionA
  sessionB = sessionB
  SessionOf <- OneSession
  TrackedEvents = {"google.disconnect"}
  MayCrash = FALSE
  Pending = Pending
  None = None
SYMMETRY SymmetricRequests
PROPERTIES FailedConsentKeepsGrant
CHECK_DEADLOCK FALSE
