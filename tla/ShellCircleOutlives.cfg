SPECIFICATION Spec
CONSTANTS
  Slots = {c1, c2}
  MaxStack = 3
  NoSchool = NoSchool
  Schools = {s1}
INVARIANT
  CircleEndsWithCall
