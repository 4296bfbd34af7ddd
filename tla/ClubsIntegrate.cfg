SPECIFICATION Spec
CONSTANTS
  Devices = {d1}
  Clubs = {k1}
  EventNames = {e1}
  Days = {m1}
  Slots = {j1}
  MaxTaps = 3
  MaxInputs = 3
  Stores <- NothingStored
  Club = k1
  Event = e1
  Day = m1
  Later = m1
  Present = Present
  NoDoc = NoDoc
PROPERTY
  JoinIntegrates
CHECK_DEADLOCK FALSE
