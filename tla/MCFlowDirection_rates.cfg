SPECIFICATION Spec
CONSTANTS
  SECS = 4
  USECS = 5
  USEC_RANGE = 8
  sampling_rate <- MCTwoSeconds
  Packets <- MCPackets
  Gaps <- MCGaps
  MaxPackets = 5
INVARIANTS RowPerPeriod BytesAccounted
CHECK_DEADLOCK FALSE
