SPECIFICATION Spec
CONSTANTS
  Devices = {d1, d2}
  Clubs = {k1}
  EventNames = {e1}
  Days = {m1, m2}
  Slots = {j1}
  MaxTaps = 2
  MaxInputs = 3
  Stores <- MCStores
  Club = k1
  Event = e1
  Day = m1
  Later = m2
  Present = Present
  NoDoc = NoDoc
INVARIANTS
  TypeOK
  MembersOnly
PROPERTIES
  JoinTakesEffect
  CalendarSettles
CHECK_DEADLOCK FALSE
