SPECIFICATION Spec
CONSTANTS
  Docs = {a, b}
  MaxLimbo = 4
  max_concurrent_limbo_resolutions = 1
  ReturnsDuringReset = FALSE
  LateSnapshots = FALSE
  MaxInputs = 3
INVARIANTS
  TypeOK
  AssertionsHold
  SyncedIsTrue
  ResumeIsSound
PROPERTY
  ViewConverges
CHECK_DEADLOCK FALSE
