SPECIFICATION Spec
CONSTANTS
  Faults = FALSE
  MaxRows = 4
  MaxCrashes = 2
  NoFile = NoFile
INVARIANTS
  RestartKeepsRows
CHECK_DEADLOCK FALSE
