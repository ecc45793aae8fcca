SPECIFICATION Spec
CONSTANTS
  Tables <- RangeTables
  IdSpace = 8
INVARIANTS UniqueIsUnique
CHECK_DEADLOCK FALSE
