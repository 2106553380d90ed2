SPECIFICATION Spec
CONSTANTS
  a = a
  b = b
  TIMEOUT = 2
  WRAP = 4
  MaxPackets = 4
  Tuples <- MCTuples
  Kinds <- MCKinds
  Gaps <- MCGaps
INVARIANTS TypeOK BackIsDefined DirIdsUnique RowsMatchCounters
INVARIANTS DirectionsMatch HandshakeFirst ResetIsFinal FinsInARowClose IdleFlowsHangUp SupersededFlowsEnded
PROPERTIES EndedFlowsFrozen KeepsThePromise
CHECK_DEADLOCK FALSE
