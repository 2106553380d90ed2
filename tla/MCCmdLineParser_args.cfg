SPECIFICATION CmdLineSpec
CONSTANTS
  SECS = 4096
  USECS = 20
  USEC_RANGE = 24
  CountArgs <- MCCountArgs
  TimeoutArgs <- MCTimeoutArgs
  Rates <- MCRates
  Files <- MCFiles
  TraceArgs <- MCTraceArgs
  db_file = "db"
  THOUSAND = 3
  MSEC = 2
  SIXTY = 60
  U16 = 65536
  INT_MAX = 65536
  U64 = 256
  EXACT = 128
INVARIANTS CountAsAsked TimeoutAsAsked
CHECK_DEADLOCK FALSE
