SPECIFICATION FairSpec
CONSTANTS
  LcoreId = {0, 1, 2}
  NoLcore = NoLcore
  NoPort = NoPort
  Mbufs = 3
  Burst = 2
INVARIANTS
  Wired
  DiesOnlyOfNulls
PROPERTIES
  InTurn
CHECK_DEADLOCK FALSE
