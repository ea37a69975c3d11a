SPECIFICATION MCSpec
CONSTANTS
  Assets = {a1, a2}
  AssignmentIds = {c1, c2}
  RepairIds = {r1}
  People = {p1}
  Periods = {y1, y2, y3}
  FirstPeriod = y1
  Exporters = {e1}
  GraduationGrade = 2
  MaxGrade = 2
  Items = {i1, i2}
  LoanIds = {1, 2, 3}
  NoteIds = {1, 2, 3}
SYMMETRY Symmetry
CONSTRAINT KeysInOrder
INVARIANTS CustodyInv PeriodInv ShelfInv
PROPERTIES GraduatesHoldNothing AssignmentHistoryKept SettledForGood
CHECK_DEADLOCK FALSE
