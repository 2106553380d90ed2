SPECIFICATION Spec
CONSTANTS
  SECS = 4
  USECS = 3
  USEC_RANGE = 4
  WRAP = 12
  HALF = 6
  count = 3
  NumTraces = 0
  MaxLength = 3
  Headers <- MCHeaders
  CaptureTimes <- MCTimes
  HEADER = 2
  INT_HALF = 4
  COUNT_RANGE = 16
  Tuples <- MCTuples
  Kinds <- MCKinds
  TIMEOUT = 0
  CAPACITY = 1
  Leftover <- MCOldRows
  a = a
  b = b
PROPERTY ReadRunKeepsData
CHECK_DEADLOCK FALSE
