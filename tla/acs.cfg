SPECIFICATION Spec
CONSTANTS
  Statuses <- TestStatuses
  MayFail <- Failing
  MaxWrites = 3
INVARIANTS Executed Answered OneSetOfTables
