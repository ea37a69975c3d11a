SPECIFICATION MCSpec
CONSTANTS
  k1 = k1
  k2 = k2
  s1 = s1
  s2 = s2
  p1 = p1
  p2 = p2
  m1 = m1
  m2 = m2
  NoOne = nobody
  Staff = {s1}
  People = {p1, p2}
  Emails = {m1, m2}
  Clients = {k1, k2}
  MaxCodes = 2
  FailureLimit = 2
  ResetLimit = 1
  GuessLimit = 5
SYMMETRY Symmetry
CONSTRAINT Bound
INVARIANT AtMostFiveGuesses
CHECK_DEADLOCK FALSE
