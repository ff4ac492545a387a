SPECIFICATION Spec
CONSTANTS
  i1 = i1
  i2 = i2
  i3 = i3
  Inputs <- MCInputs
  ContinuumInputs = 3
  Power <- MCPower
  Results <- MCResults
  Tolerance = 2
  FrameTimeout = 2
  SweepPeriod = 1
  MaxArrivals <- MCFirstRepeats
INVARIANTS
  TypeOK
  FramesApart
  FramesAgree
  SumsWhole
  ContradictedNeverWritten
PROPERTIES
  EveryFrameEnds
