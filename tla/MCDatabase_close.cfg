SPECIFICATION Spec
CONSTANTS
  Table <- MCPackets
  Capacity <- MCOnePacket
  Dir_ids = {1}
  HALF = 2
  MaxTime = 1
  MaxBatch = 1
  MaxRows = 2
  MaxOpens = 1
INVARIANT AllWrittenAtClose
CHECK_DEADLOCK FALSE
