SPECIFICATION FairSpec
CONSTANTS
  Threads = {t1, t2, t3}
  Callbacks = {c1, c2}
  Null = Null
  Head = Head
CHECK_DEADLOCK FALSE
INVARIANTS NoUseAfterDestroy RunsAtMostOnce StopReachesEveryCallback
PROPERTIES DestructorSynchronises CallsReturn
