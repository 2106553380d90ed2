SPECIFICATION Spec
CONSTANTS
  a = a
  b = b
  TIMEOUT = 0
  WRAP = 100
  MaxPackets = 3
  Tuples <- MCSameText
  Kinds <- MCSameTextKinds
  Gaps <- MCNoGaps
INVARIANT DirectionsMatch
CHECK_DEADLOCK FALSE
