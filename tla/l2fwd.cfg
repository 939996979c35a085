SPECIFICATION FairSpec
CONSTANTS
  MaxPorts = 3
  MaxLcore = 2
  MaskBits = 3
  MaxQueues = 3
  MaxPktBurst = 2
  MaxCheckTime = 2
  NbMbuf = 3
  Traffic = 3
  Null = Null
INVARIANTS
  OneSender
  Accounted
  WithinTable
  LinksPrinted
PROPERTIES
  Drained
CHECK_DEADLOCK FALSE
