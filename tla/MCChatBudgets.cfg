SPECIFICATION Spec
CONSTANTS
  Tenants = {alice}
  Turns = {u1, u2}
  Global = Global
  StartLimit <- Starts
  MeterLimit <- Metered
  Requests <- Weights
  MinutesPerDay = 1
  DaysPerMonth = 2
  MaxTime = 1
  MaxLegacy = 2
  None = None
SYMMETRY Symmetric
INVARIANTS TypeOK StartsWithinLimits SentWithinLimits DispatchIsFresh
CHECK_DEADLOCK FALSE
