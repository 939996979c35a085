SPECIFICATION FairSpec
CONSTANTS
  MemoryArg <- MCMemoryArg
  WorkersArg <- MCWorkersArg
  Garbage <- MCGarbage
  Pattern = 2
  MaxWorkers = 3
  Mega = 2
  MaxMd = 3
  MdLen = 1
  LogParts = 3
  Raw = Raw
INVARIANTS
  RoundTrip
  PhaseComplete
PROPERTIES
  PhasesEnd
CHECK_DEADLOCK FALSE
