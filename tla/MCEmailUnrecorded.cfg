SPECIFICATION Spec
CONSTANTS
  d1 = d1
  Destinations = {d1, d2}
  Workers = {}
  Staff = {s1}
  MaxEdition = 0
  MaxFaults = 0
  MaxCrashes = 1
INVARIANTS NeverResent
CHECK_DEADLOCK FALSE
