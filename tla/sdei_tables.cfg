SPECIFICATION Spec
CONSTANTS
  Firmware <- Platforms
  Stray <- Garbage
INVARIANTS TimersRight TablesComplete
CHECK_DEADLOCK FALSE
