SPECIFICATION Spec
CONSTANTS
  Directories = 2
  Works = {w1, w2}
  Archives = {a1, a2}
  MaxEnds = 0
  MaxErrors = 0
  MaxBreaks = 1
INVARIANTS RestoredTogether
