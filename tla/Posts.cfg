SPECIFICATION Spec
CONSTANTS
  Devices = {d1, d2}
  Ids = {1, 2, 3}
  Times = {1, 2}
  MaxInputs = 1
  NoDoc = NoDoc
INVARIANT
  TypeOK
PROPERTIES
  PostsStay
  PostsAgree
CHECK_DEADLOCK FALSE
