SPECIFICATION ImportSpec
CONSTANTS
  k1 = k1
  k2 = k2
  k3 = k3
  gk = gk
  g1 = g1
  a1 = a1
  a2 = a2
  lib1 = lib1
  lib2 = lib2
  row1 = row1
  row2 = row2
  row3 = row3
  People = {p1, p2, p3, p4}
  Groups = {g1}
  EntryIds = {e1, e2, e3}
  BatchIds = {}
  Submitted = {1}
  NoId = none
  Importers = {r1, r2}
  StudentKeys = {k1, k2, k3}
  GuardianKeys = {gk}
  RowKeys <- Rows
  MigrationFiles <- Files
  GuardianFiles <- Families
  BalanceSheets <- Sheets
  LibraryFiles <- Libraries
SYMMETRY Symmetry
INVARIANTS ImportedOnce ImportedRecordsTrue
CHECK_DEADLOCK FALSE
