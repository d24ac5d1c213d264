SPECIFICATION FairSpec
CONSTANTS
  w1 = w1
  w2 = w2
  w3 = w3
  w4 = w4
  Waiters = {w1, w2, w3, w4}
  Null = Null
  Inactive = Inactive
INVARIANTS
  QueueIsExact
PROPERTIES
  ImplementsFifoMutex
  EveryWaiterGetsTheLock
