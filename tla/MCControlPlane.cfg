SPECIFICATION Spec
CONSTANTS
  Connections = {c1, c2}
  Accounts = {alice, bob}
  Secrets = {s1, s2}
  States = {q1, q2}
  Ops = {o1, o2}
  None = None
SYMMETRY Symmetry
INVARIANTS TypeOK CredentialMatchesIdentity IdentityHasOneConnection
CHECK_DEADLOCK FALSE
