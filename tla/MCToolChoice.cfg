SPECIFICATION Spec
CONSTANTS
  Vaults = {c1, c2}
  Owners = {alice}
  Tools = {gmail_search}
  AccountTools = {gmail_search}
  Resources = {}
  Calls = {q1}
  Pages = {e1}
  ChunkSize = 1
  None = None
SYMMETRY Symmetric
INVARIANTS ChoiceIsUnambiguous
CHECK_DEADLOCK FALSE
