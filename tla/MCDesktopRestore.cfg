SPECIFICATION FairSpec
CONSTANTS
  Directories = 2
  Works = {w1, w2}
  Archives = {a1}
  MaxEnds = 1
  MaxErrors = 1
  MaxBreaks = 1
INVARIANTS EverythingKept RestoreInv
PROPERTIES RunsAgain
