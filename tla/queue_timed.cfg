SPECIFICATION PollingSpec
CONSTANTS
  Pusher = {u1, u2}
  Popper = {p1}
  TimedPopper = {w1, u2}
  Item = {i1, i2}
  NoItem = NoItem
  NoThread = NoThread
  MaxLen = 2
PROPERTIES
  ImplementsAtomicQueue
  Polled
