SPECIFICATION FairSpec
CONSTANTS
  Tables <- SoundTables
  IdSpace = 8
INVARIANTS Counted OneBlockPerNode Resolved LookupAgrees OverlapFlagged
PROPERTIES Terminates
CHECK_DEADLOCK FALSE
