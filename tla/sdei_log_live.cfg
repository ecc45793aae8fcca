SPECIFICATION FairSpec
CONSTANTS
  f1 = f1
  f2 = f2
  Readers <- Files
  MinNum = 1
  MaxPrints = 3
  AllocMayFail = FALSE
  Faults = FALSE
  Overlap = FALSE
  Reopen = FALSE
PROPERTIES EventuallySeen
