SPECIFICATION Spec
CONSTANTS
  LcoreId = {0, 1, 2}
  SocketId = {0, 1}
  MaxPorts = 3
  Error <- MCError
  Null = Null
  UIntSize = 65536
INVARIANTS
  StartedPorts
CHECK_DEADLOCK FALSE
