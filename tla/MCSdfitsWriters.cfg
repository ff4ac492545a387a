SPECIFICATION Spec
CONSTANTS
  w1 = w1
  w2 = w2
  w3 = w3
  b1 = b1
  b2 = b2
  b3 = b3
  b4 = b4
  f1 = f1
  f2 = f2
  f3 = f3
  Writers = {w1, w2, w3}
  Bands = {b1, b2, b3, b4}
  WriterOf <- MCWriterOf
  Files = {f1, f2, f3}
  FileOf <- MCFileOf
  Builds = {TRUE, FALSE}
  FlushRows = 2
  Faults = TRUE
  MaxResults <- MCMaxResults
  MaxCrashes = 1
  Nobody = Nobody
  NoJob = NoJob
  NoHandle = NoHandle
  NoFile = NoFile
INVARIANTS
  TypeOK
  OneBandPerFile
  DiskRowsSound
  AtRiskBounded
  CfitsioExclusive
  EveryResultAccounted
PROPERTIES
  FilesOnlyGrow
  EveryJobEnds
CHECK_DEADLOCK FALSE
