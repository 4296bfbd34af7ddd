SPECIFICATION Spec
CONSTANTS
  Slots = {c1, c2}
  MaxStack = 3
  Schools = {s1}
  NoSchool = NoSchool
INVARIANTS
  TypeOK
  CircleCoversForm
  NeverBlank
PROPERTIES
  ProfileKept
  RegistrationDocumented
  FormFreed
