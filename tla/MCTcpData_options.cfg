SPECIFICATION Spec
CONSTANTS
  HALF = 8
  Segments <- MCSegments
  Junk <- MCJunk
  SACK_SLOTS = 8
  MAX_OPTIONS = 40
INVARIANTS TypeOK PrintedAsSent TimestampsKnown CompleteUnlessTruncated
PROPERTIES Progress LoopEnds
CHECK_DEADLOCK FALSE
