SPECIFICATION MCSpec
CONSTANTS
  p1 = p1
  p2 = p2
  v1 = v1
  o1 = o1
  People = {p1, p2}
  Groups = {g1}
  Events = {v1}
  Opportunities = {o1}
  EventOf <- MCEventOf
  Items = {i1}
  Tokens = {t1}
  MaxQuantity = 2
  EntryIds = {e1, e2, e3}
  BatchIds = {b1}
  Submitted = {0, 1, 2}
  NoId = none
  MaxVersion = 3
  Questions = {1, 2, 3, 4}
  Campaigns = {c1}
  Announcements = {a1}
SYMMETRY Symmetry
CONSTRAINT Bound
ACTION_CONSTRAINT LowestKeys
INVARIANTS EventTypeOK StatementsTrue NoOverbooking VersionsInv ResponsesInv
PROPERTIES ImplementsAccountBook EventRecordsKept AttendanceSavedWhole PublishedVersionsAreFixed ClosedStaysClosed
CHECK_DEADLOCK FALSE
