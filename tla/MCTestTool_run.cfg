SPECIFICATION TestSpec
CONSTANTS
  SECS = 4
  USECS = 3
  USEC_RANGE = 4
  WRAP = 12
  HALF = 6
  count = 3
  NumTraces = 2
  MaxLength = 2
  Headers <- MCHeaders
  CaptureTimes <- MCTimes
  HEADER = 2
  INT_HALF = 4
  COUNT_RANGE = 16
  Tuples <- MCTuples
  Kinds <- MCKinds
  TIMEOUT = 0
  CAPACITY = 1
  Leftover <- MCNothing
  a = a
  b = b
INVARIANTS CountersMatchFile DatabaseTestPasses DifferencesExplained
PROPERTIES FileFollowsMap TestEnds
CHECK_DEADLOCK FALSE
