SPECIFICATION Spec
CONSTANTS
  Streams <- MCStreams
  Ports = {p1, p2}
  FirstSeqs <- MCFirstSeqs
  SeqModulus = 8
  LateLink = FALSE
  MaxSeq = 2
  MaxResults = 3
  MaxRestarts = 1
  MaxPassed = 3
  NoState = NoState
  NoResult = NoResult
INVARIANTS
  TypeOK
  OneFate
PROPERTIES
  ImplementsLossy
CHECK_DEADLOCK FALSE
