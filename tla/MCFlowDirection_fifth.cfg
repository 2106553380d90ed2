SPECIFICATION Spec
CONSTANTS
  SECS = 4
  USECS = 5
  USEC_RANGE = 8
  sampling_rate <- MCFifth
  Packets <- MCPackets
  Gaps <- MCShortGaps
  MaxPackets = 4
INVARIANT RowPerPeriod
CHECK_DEADLOCK FALSE
