SPECIFICATION FairSpec
CONSTANTS
  Thread = {"t1", "t2"}
  Logger = {"default", "perf"}
  DefaultId = "default"
  Stranger = "stranger"
  Settings <- MCSettings
  MaxWriters = 2
  MaxFile = 4
  FormatSize <- MCFormatSize
  Null = Null
INVARIANTS
  WholeLines
  OneLineOver
  FlushedInTime
PROPERTIES
  StatementsEnd
  CrashEnds
CHECK_DEADLOCK FALSE
