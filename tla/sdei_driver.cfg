SPECIFICATION FairDriverSpec
CONSTANTS
  f1 = f1
  Readers <- Files
  MinNum = 3
  MaxPrints = 10
  AllocMayFail = TRUE
  Faults = FALSE
  Overlap = TRUE
  Reopen = FALSE
  MaxRuns = 2
  TestPrints = 0
INVARIANTS NothingLost ResultsReadable
PROPERTIES RunTold
CHECK_DEADLOCK FALSE
