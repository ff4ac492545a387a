SPECIFICATION Spec
CONSTANTS
  Streams = {s1}
  Ports = {p1, p2}
  FirstSeqs <- MCFirstSeqs
  SeqModulus = 16
  LateLink = FALSE
  MaxSeq = 4
  MaxResults = 4
  MaxRestarts = 2
  MaxPassed = 4
  NoState = NoState
SYMMETRY MCSymmetry
INVARIANTS
  TypeOK
  InSendOrder
  RejectsOnlyLate
  GapsReported
