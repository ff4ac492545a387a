SPECIFICATION CoresSpec
CONSTANTS
  Unset = Unset
  Malformed = Malformed
  MaxIdLength = 10
  TimestampLength = 6
  Starts <- MCStarts
  MaxIoThreads = 2
  WriterCount = 2
  MaxPorts = 2
INVARIANTS
  CoresTypeOK
  OwnDirectory
  SeparateCores
CHECK_DEADLOCK FALSE
