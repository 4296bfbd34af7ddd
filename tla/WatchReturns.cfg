SPECIFICATION Spec
CONSTANTS
  Docs = {a, b}
  MaxLimbo = 4
  max_concurrent_limbo_resolutions = 1
  ReturnsDuringReset = TRUE
  LateSnapshots = FALSE
  MaxInputs = 3
INVARIANT
  SyncedIsTrue
CHECK_DEADLOCK FALSE
