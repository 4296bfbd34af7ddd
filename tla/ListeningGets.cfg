SPECIFICATION Spec
CONSTANTS
  g1 = g1
  g2 = g2
  p1 = p1
  q1 = q1
  q2 = q2
  Gets = {g1, g2}
  Pages = {p1}
  Queries = {q1, q2}
  QueryOf <- MCQueryOf
  kMaxWatchStreamFailures = 1
  MaxInputs = 3
INVARIANTS
  TypeOK
  AssertionsHold
  TargetsMatch
  AnsweredOnce
PROPERTIES
  GetAnswered
  PageShown
CHECK_DEADLOCK FALSE
