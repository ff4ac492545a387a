SPECIFICATION Spec
CONSTANTS
  w1 = w1
  w2 = w2
  w3 = w3
  b1 = b1
  b2 = b2
  b3 = b3
  b4 = b4
  f1 = f1
  f2 = f2
  f3 = f3
  Writers = {w1, w2}
  Bands = {b1, b3}
  WriterOf <- MCOneBandEach
  Files = {f1, f2}
  FileOf <- MCOneFileEach
  Builds = {TRUE, FALSE}
  FlushRows = 2
  Faults = FALSE
  MaxResults <- MCTwoEach
  MaxCrashes = 1
  Nobody = Nobody
  NoJob = NoJob
  NoHandle = NoHandle
  NoFile = NoFile
INVARIANTS
  RecordsAfterRestart
CHECK_DEADLOCK FALSE
