SPECIFICATION Spec
CONSTANTS
  SECS = 16
  USECS = 10
  USEC_RANGE = 12
  Dir_ids <- MCDir_ids
  Gaps <- MCGaps
  MaxPackets = 8
  ENTRY = 1
  ONE_GiB = 5
  SIZE_AFTER_FLUSH = 4
  AGE_MAX = 4
INVARIANTS TypeOK EveryPairOnce FitsButForOne
PROPERTY FlushEnds
CHECK_DEADLOCK FALSE
