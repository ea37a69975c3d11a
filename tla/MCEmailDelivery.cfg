SPECIFICATION MCSpec
CONSTANTS
  d1 = d1
  Destinations = {d1, d2}
  Workers = {w1}
  Staff = {s1}
  MaxEdition = 1
  MaxFaults = 1
  MaxCrashes = 1
INVARIANTS ReportIsTrue
PROPERTIES ResentOnlyIfUnrecorded OverdueNeedsConfirmation HeldNeverSent LeasesEnd
CHECK_DEADLOCK FALSE
