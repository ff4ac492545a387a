SPECIFICATION Spec
CONSTANTS
  NPorts = 3
  NQueues = 3
INVARIANTS
  TypeOK
  AllPortsOrNone
  NothingOutlivesMain
  NoLostWakeup
PROPERTIES
  StartEnds
