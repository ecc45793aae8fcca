SPECIFICATION Spec
CONSTANTS
  Firmware <- Platforms
  Stray <- Garbage
INVARIANTS SecureSkipped
CHECK_DEADLOCK FALSE
