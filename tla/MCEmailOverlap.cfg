SPECIFICATION Spec
CONSTANTS
  d1 = d1
  Destinations = {d1}
  Workers = {w1}
  Staff = {s1}
  MaxEdition = 0
  MaxFaults = 0
  MaxCrashes = 0
INVARIANTS NeverResent
CHECK_DEADLOCK FALSE
