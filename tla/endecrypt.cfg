SPECIFICATION FairSpec
CONSTANTS
  Producer = {p1, p2}
  Consumer = {c1, c2}
  Workers = 4
  NItems = 2
  Pattern = 2
  LogParts = 2
  NoItem = NoItem
  NoPacket = NoPacket
INVARIANTS
  TypeOK
  OneOwner
  NothingLost
  DecryptsItsReference
  InFlightOrVerified
  StopAfterProducers
  ResultsComplete
  NoUseAfterDestruction
PROPERTIES
  Returns
CHECK_DEADLOCK FALSE
