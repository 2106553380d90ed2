SPECIFICATION Spec
CONSTANTS
  SECS = 4
  USECS = 3
  USEC_RANGE = 4
  count = 3
  NumTraces = 3
  MaxLength = 2
  Segments <- MCSegments
  Headers <- MCHeaders
  CaptureTimes <- MCTimes
  HEADER = 2
  INT_HALF = 4
  COUNT_RANGE = 16
INVARIANTS CountObeyed ReadsAsAsked StatsComplete
INVARIANTS OffsetsTellElapsedTime OffsetsFromFirstPacket PrintedWhenCaptured
CHECK_DEADLOCK FALSE
