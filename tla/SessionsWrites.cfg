SPECIFICATION Spec
CONSTANTS
  Users = {u1, u2}
  kMaxPendingWrites = 2
  MaxInputs = 6
INVARIANTS
  TypeOK
  SentAsAuthor
  PipelineIsPrefix
  AssertionsHold
PROPERTIES
  KeepsPromise
  QueueDrains
CHECK_DEADLOCK FALSE
