SPECIFICATION MCSpec
CONSTANTS
  Keys = {k1, k2}
  EventKeys = {k2}
  Requests = {r1, r2}
  Exporters = {e1}
  MaxFaults = 2
  w1 = w1
  w2 = w2
  demo = demo
  two = two
  Directories = 1
  Own = {w1, w2}
  Demos = {demo}
  Mixed = {two}
  Archives <- Backups
  Releases = 2
  Repeatable = {2}
  MaxEnds = 2
  MaxErrors = 1
INVARIANTS ActiveFilesExist ArchivesAreWhole NothingLeftBehind StartInv NothingLost
PROPERTIES RemovedContentGoes ResetTakesTheDemo FailedMigrationUndone StartsAgain
CHECK_DEADLOCK FALSE
