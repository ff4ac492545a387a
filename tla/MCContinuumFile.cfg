SPECIFICATION Spec
CONSTANTS
  Faults = TRUE
  MaxRows = 4
  MaxCrashes = 2
  NoFile = NoFile
INVARIANTS
  TypeOK
  AcceptedOnDisk
  RowsInOrder
CHECK_DEADLOCK FALSE
