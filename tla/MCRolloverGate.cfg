SPECIFICATION MCSpec
CONSTANTS
  Assets = {a1, a2}
  AssignmentIds = {c1, c2}
  RepairIds = {r1}
  People = {p1}
  Periods = {y1, y2}
  FirstPeriod = y1
  Exporters = {e1}
  GraduationGrade = 2
  MaxGrade = 2
  Items = {i1}
  LoanIds = {1}
  NoteIds = {1}
SYMMETRY Symmetry
PROPERTIES RolloverArchiveComplete
CHECK_DEADLOCK FALSE
