SPECIFICATION SynchronizationSpec
CONSTANTS
  Counter = {t1, t2, t3}
  Waiter = {w1, w2}
  Count = 2
  Free = Free
  Creator = Creator
  Pusher = {u1, u2}
  Popper = {p1, p2, p3}
  TimedPopper = {}
  Item = {i1, i2}
  NoItem = NoItem
  NoThread = NoThread
  MaxLen = 2
INVARIANTS
  CountExact
  OpenedOnce
  FreshKnowledge
  NoLostWakeup
PROPERTIES
  EverybodyPasses
  ImplementsAtomicLatch
  Progress
CHECK_DEADLOCK FALSE
