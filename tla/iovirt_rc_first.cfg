SPECIFICATION Spec
CONSTANTS
  Tables <- RcFirstTables
  IdSpace = 8
INVARIANTS NoDuplicates
CHECK_DEADLOCK FALSE
