SPECIFICATION Spec
CONSTANTS
  Receivers = {r1, r2, r3}
  PayloadBytes <- MCPayloadBytes
  QueueBytes = 4
  MaxResults = 6
  NoJob = NoJob
INVARIANTS
  TypeOK
  BytesBounded
  NothingLost
  NoLostWakeup
PROPERTIES
  FifoSpec
