SPECIFICATION Spec
CONSTANTS
  MemoryArg <- MCOneMemoryArg
  WorkersArg <- MCWorkersArg
  Garbage <- MCGarbage
  Pattern = 1
  MaxWorkers = 3
  Mega = 2
  MaxMd = 3
  MdLen = 1
  LogParts = 3
  Raw = Raw
INVARIANTS
  InsideData
CHECK_DEADLOCK FALSE
