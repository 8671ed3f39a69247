SPECIFICATION Spec
CONSTANTS
  MaxAttempts = 2
  MaxEvents = 2
  Faults = {"lost", "protocol"}
INVARIANTS RowIsWritten
CHECK_DEADLOCK FALSE
