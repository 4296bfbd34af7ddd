SPECIFICATION Spec
CONSTANTS
  d1 = d1
  d2 = d2
  u1 = u1
  u2 = u2
  Devices = {d1, d2}
  Users = {u1, u2}
  Owner <- MCOwner
  Events = {e1}
  Numbers = {2}
  MaxInputs = 3
  NoDoc = NoDoc
PROPERTY
  DecrementReduces
CHECK_DEADLOCK FALSE
