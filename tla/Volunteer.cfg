SPECIFICATION Spec
CONSTANTS
  d1 = d1
  d2 = d2
  u1 = u1
  u2 = u2
  Devices = {d1, d2}
  Users = {u1, u2}
  Owner <- MCOwner
  Events = {e1}
  Numbers <- MCNumbers
  MaxInputs = 3
  NoDoc = NoDoc
INVARIANTS
  TypeOK
  CountsAccounted
  EntryBeforeDecrement
  OverlayIsReplay
PROPERTIES
  DeletedStaysDeleted
  AcknowledgeKeepsView
  Converges
CHECK_DEADLOCK FALSE
