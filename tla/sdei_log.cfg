SPECIFICATION Spec
CONSTANTS
  f1 = f1
  f2 = f2
  Readers <- Files
  MinNum = 1
  MaxPrints = 5
  AllocMayFail = TRUE
  Faults = TRUE
  Overlap = TRUE
  Reopen = TRUE
SYMMETRY Symmetry
INVARIANTS PrintInBounds ReadInBounds InOrder Kept
PROPERTIES RefinesMessageLog
